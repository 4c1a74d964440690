------------------------------ MODULE ScalityUI ------------------------------
(***************************************************************************)
(* The ScalityUI controller, for one ScalityUI.  It renders two ConfigMaps *)
(* - the shell's configuration, and the list of the applications that      *)
(* exposers add to this UI - and a Deployment whose pods mount both,       *)
(* behind a Service and an Ingress.  The pods see a map as it is when they *)
(* start, so that the pod template carries a hash of the two contents; a   *)
(* new hash makes new pods.                                                *)
(*                                                                         *)
(* A component whose configuration is not retrieved has no place in the    *)
(* list.  Instead of dropping it at once, the controller holds off writing *)
(* the list, until every such component has been seen for a while: the     *)
(* times are kept in memory.  Time advances in ticks, of the 5 seconds     *)
(* after which a held-off reconciliation is tried again; a reconciliation  *)
(* takes no time.                                                          *)
(***************************************************************************)
EXTENDS Naturals

CONSTANTS
    Components,    \* components that exposers can add to the UI
    Versions,      \* what the status of a component can say of its application
    Configs,       \* specs of a UI: the shell's configuration and the networks
    Cap,           \* partialWriteCap, in ticks
    Lagging,       \* "ConfigMap": the informer's copy of the list may be outdated
    Disturbances,  \* what users, components and failures may do
    MaxChanges,    \* and how often, None for no bound
    None           \* no object, no time

Apps == SUBSET (Components \X Versions)

Contents == [cfg : Configs, apps : Apps]

Phases == {"", "Pending", "Progressing", "Ready"}

UIObject == [cfg : Configs, phase : Phases]

ASSUME CapAssumption == Cap \in Nat \ {0}

ASSUME LaggingAssumption == Lagging \subseteq {"ConfigMap"}

ASSUME DisturbancesAssumption ==
    Disturbances \subseteq {"upgrade", "break", "remove", "exposer", "edit", "delete", "deleteMap",
                            "deleteDeployment", "deleteService", "deleteIngress", "fail", "crash"}

ASSUME NoneAssumption ==
    \A o \in Versions \cup Configs \cup Apps \cup Contents \cup UIObject \cup 0 .. Cap : None # o

VARIABLES
    ui,        \* the ScalityUI, its spec and its phase
    exposed,   \* components that an exposer adds to the UI
    status,    \* of each component: "missing", "pending" or what it says when ready
    cfgMap,    \* the ConfigMap with the shell's configuration
    appsMap,   \* the ConfigMap <name>-deployed-ui-apps
    appsMapC,  \* the informer's copy of it
    mapFresh,  \* the copy has the current resourceVersion
    dep,       \* the contents that the hash in the Deployment's pod template stands for
    pods,      \* the contents that the hash in the template of the pods stands for
    svc,       \* the Service exists
    ing,       \* the spec whose networks the Ingress has
    notReadySince,  \* ticks since a component was first seen not ready
    queued,    \* the UI is in the controller's work queue
    timer,     \* it will be, after 5 seconds
    pc,        \* the next reducer of the reconciliation
    copy,      \* the worker's copy of the ScalityUI
    held,      \* copy has the current resourceVersion
    hashes,    \* contents that the reducers of this reconciliation wrote
    changes    \* by users, components and failures, up to MaxChanges

cluster == <<exposed, status>>
maps    == <<cfgMap, appsMap, appsMapC, mapFresh>>
objects == <<maps, dep, pods, svc, ing>>
worker  == <<pc, copy, held, hashes>>
vars    == <<ui, exposed, status, cfgMap, appsMap, appsMapC, mapFresh, dep, pods, svc, ing,
             notReadySince, queued, timer, pc, copy, held, hashes, changes>>

ClusterTyped ==
    /\ ui \in UIObject \cup {None}
    /\ exposed \in SUBSET Components
    /\ status \in [Components -> {"missing", "pending"} \cup Versions]

ObjectsTyped ==
    /\ cfgMap \in Configs \cup {None}
    /\ appsMap \in Apps \cup {None} /\ appsMapC \in Apps \cup {None} /\ mapFresh \in BOOLEAN
    /\ dep \in Contents \cup {None}
    /\ pods \in Contents \cup {None}
    /\ svc \in BOOLEAN /\ ing \in Configs \cup {None}

TimesTyped ==
    /\ notReadySince \in [Components -> 0 .. Cap \cup {None}]
    /\ queued \in BOOLEAN /\ timer \in BOOLEAN

WorkerTyped ==
    /\ pc \in {"idle", "configmap", "apps", "write", "deployment", "service", "ingress", "status"}
    /\ copy \in UIObject \cup {None} /\ (pc = "idle" <=> copy = None)
    /\ held \in BOOLEAN
    /\ hashes \in [cfg : Configs \cup {None}, apps : Apps \cup {None}]
    /\ pc \notin {"idle", "configmap"} => hashes.cfg # None
    /\ pc \notin {"idle", "configmap", "apps"} => hashes.apps # None

TypeOK == ClusterTyped /\ ObjectsTyped /\ TimesTyped /\ WorkerTyped

-----------------------------------------------------------------------------

New(v) == [cfg |-> v, phase |-> ""]

NoHashes == [cfg |-> None, apps |-> None]

NoTimes == [c \in Components |-> None]

MapRead == IF "ConfigMap" \in Lagging THEN appsMapC ELSE appsMap

MapIsCurrent == "ConfigMap" \in Lagging => mapFresh

WriteMap(m) == appsMap' = m /\ mapFresh' = (mapFresh /\ m = appsMap)

\* Exposers without their component are skipped: that it is not found is the only error that
\* a read from the informers' cache returns.
NotReady == {c \in exposed : status[c] = "pending"}

DeployedApps == {<<c, status[c]>> : c \in {d \in exposed : status[d] \in Versions}}

Finish == pc' = "idle" /\ copy' = None /\ held' = FALSE /\ hashes' = NoHashes

\* The end of a reconciliation.
Done == Finish /\ UNCHANGED <<queued, timer>>

Retry == Finish /\ queued' = TRUE /\ UNCHANGED timer

\* On to the next reducer.  The controller watches what it owns: what the last one
\* changed comes back as an event.
GoTo(reducer, changed) ==
    pc' = reducer /\ queued' = (queued \/ changed) /\ UNCHANGED <<copy, held, timer>>

Reconcile ==
    /\ pc = "idle" /\ queued
    /\ ui # None
    /\ queued' = FALSE
    /\ pc' = "configmap" /\ copy' = ui /\ held' = TRUE
    /\ UNCHANGED <<ui, cluster, changes, objects, notReadySince, timer, hashes>>

\* The times of a UI that is gone are dropped.
ReconcileNotFound ==
    /\ pc = "idle" /\ queued
    /\ ui = None
    /\ queued' = FALSE
    /\ notReadySince' = NoTimes
    /\ UNCHANGED <<ui, cluster, changes, objects, timer, worker>>

-----------------------------------------------------------------------------
(* The reducers. *)

ReduceConfigMap ==
    /\ pc = "configmap"
    /\ cfgMap' = copy.cfg
    /\ hashes' = [hashes EXCEPT !.cfg = copy.cfg]
    /\ GoTo("apps", cfgMap # copy.cfg)
    /\ UNCHANGED <<ui, cluster, changes, appsMap, appsMapC, mapFresh, dep, pods, svc, ing,
                   notReadySince>>

\* A mutation of Kept: times of components that recovered stay.
KeptAll(times, notReady) == times

\* gcNotReadySince: only the times of components that are not ready are kept ...
Kept(times, notReady) == [c \in Components |-> IF c \in notReady THEN times[c] ELSE None]

\* ... and those seen for the first time get one.
Noted(times, notReady) ==
    [c \in Components |-> IF c \in notReady /\ times[c] = None THEN 0 ELSE times[c]]

\* Mutations of WithinCap: the oldest failure decides for all; the cap does not exist.
WithinCapAll(times, notReady) == \A c \in notReady : times[c] < Cap

WithinCapForever(times, notReady) == TRUE

WithinCap(times, notReady) == \E c \in notReady : times[c] < Cap

\* A mutation of WithApps: the hash is not left for the Deployment's reducer.
WithoutApps(h, apps) == h

WithApps(h, apps) == [h EXCEPT !.apps = apps]

\* The list is computed, and perhaps held off: only a list that exists, and is seen,
\* can be.  The other reducers then do not run.
ReduceDeployedApps ==
    /\ pc = "apps"
    /\ LET times == Noted(Kept(notReadySince, NotReady), NotReady)
       IN  /\ notReadySince' = times
           /\ IF NotReady # {} /\ MapRead # None /\ WithinCap(times, NotReady)
                THEN Finish /\ timer' = TRUE /\ UNCHANGED queued
                ELSE hashes' = WithApps(hashes, DeployedApps) /\ GoTo("write", FALSE)
    /\ UNCHANGED <<ui, cluster, changes, objects>>

\* CreateOrUpdate of the list.
WriteDeployedApps ==
    /\ pc = "write"
    /\ LET seen == MapRead
           refused == IF seen = None THEN appsMap # None ELSE seen # hashes.apps /\ ~MapIsCurrent
       IN  IF refused
             THEN Retry /\ UNCHANGED <<appsMap, mapFresh>>
             ELSE /\ IF seen = hashes.apps THEN UNCHANGED <<appsMap, mapFresh>>
                                           ELSE WriteMap(hashes.apps)
                  /\ GoTo("deployment", FALSE) /\ UNCHANGED hashes
    /\ UNCHANGED <<ui, cluster, changes, cfgMap, appsMapC, dep, pods, svc, ing, notReadySince>>

\* A mutation of Combined: the hash covers one of the contents.
CombinedApps(h) == [h EXCEPT !.cfg = CHOOSE v \in Configs : TRUE]

Combined(h) == h

RolledOut == pods # None /\ pods = dep

\* The framework creates or updates the Deployment.  It may ask for another
\* reconciliation until the pods have settled.
ReduceDeployment ==
    /\ pc = "deployment"
    /\ dep' = Combined(hashes)
    /\ \/ GoTo("service", dep' # dep) /\ UNCHANGED hashes
       \/ (dep' # dep \/ ~RolledOut) /\ Retry
    /\ UNCHANGED <<ui, cluster, changes, maps, pods, svc, ing, notReadySince>>

\* It does the same for the Service ...
ReduceService ==
    /\ pc = "service"
    /\ svc' = TRUE
    /\ \/ GoTo("ingress", svc' # svc) /\ UNCHANGED hashes
       \/ svc' # svc /\ Retry
    /\ UNCHANGED <<ui, cluster, changes, maps, dep, pods, ing, notReadySince>>

\* A mutation of IngressNetworks: an Ingress that exists is left as it is.
IngressNetworksOnce(o) == IF ing = None THEN o.cfg ELSE ing

IngressNetworks(o) == o.cfg

\* ... and for the Ingress.
ReduceIngress ==
    /\ pc = "ingress"
    /\ ing' = IngressNetworks(copy)
    /\ \/ GoTo("status", ing' # ing) /\ UNCHANGED hashes
       \/ ing' # ing /\ Retry
    /\ UNCHANGED <<ui, cluster, changes, maps, dep, pods, svc, notReadySince>>

\* Replicas are counted, not updated replicas: while pods are replaced the count may
\* be right or not.
DeploymentReady == {r \in BOOLEAN : (RolledOut => r) /\ (dep = None \/ pods = None => ~r)}

Phase(ready) ==
    CASE cfgMap = None -> "Pending"
      [] cfgMap # None /\ ready /\ svc /\ ing # None -> "Ready"
      [] OTHER -> "Progressing"

UpdateStatus ==
    /\ pc = "status"
    /\ \E ready \in DeploymentReady :
         LET phase == Phase(ready)
         IN  CASE phase = copy.phase -> Done /\ UNCHANGED ui
               [] phase # copy.phase /\ held ->
                    /\ ui' = [ui EXCEPT !.phase = phase]
                    /\ Finish /\ queued' = TRUE /\ UNCHANGED timer
               [] OTHER -> Retry /\ UNCHANGED ui
    /\ UNCHANGED <<cluster, changes, objects, notReadySince>>

-----------------------------------------------------------------------------
(* Time, the informer, Kubernetes. *)

Older(t) == IF t = None THEN None ELSE IF t < Cap THEN t + 1 ELSE t

Tick ==
    /\ pc = "idle" /\ ~queued
    /\ notReadySince' = [c \in Components |-> Older(notReadySince[c])]
    /\ queued' = timer /\ timer' = FALSE
    /\ UNCHANGED <<ui, cluster, changes, objects, worker>>

SyncConfigMap ==
    /\ ~mapFresh
    /\ appsMapC' = (IF "ConfigMap" \in Lagging THEN appsMap ELSE appsMapC) /\ mapFresh' = TRUE
    /\ queued' = TRUE
    /\ UNCHANGED <<ui, cluster, changes, cfgMap, appsMap, dep, pods, svc, ing, notReadySince,
                   timer, worker>>

\* Pods of the current template replace the others; to start they need both maps.
RollOut ==
    /\ dep # None /\ ~RolledOut /\ cfgMap # None /\ appsMap # None
    /\ pods' = dep
    /\ queued' = TRUE
    /\ UNCHANGED <<ui, cluster, changes, maps, dep, svc, ing, notReadySince, timer, worker>>

-----------------------------------------------------------------------------
(* Users, components, failures.  Every change of an exposer or of a component is
   mapped to the UI. *)

Environment == UNCHANGED <<objects, notReadySince, timer, worker>>

\* One of MaxChanges.
Change ==
    IF MaxChanges = None THEN UNCHANGED changes
    ELSE changes < MaxChanges /\ changes' = changes + 1

\* The component controller, or a user, changes a component.
ChangeComponent(c, s) ==
    /\ \/ "upgrade" \in Disturbances /\ s \in Versions
       \/ "break" \in Disturbances /\ s = "pending"
       \/ "remove" \in Disturbances /\ s = "missing"
    /\ s # status[c] /\ Change
    /\ status' = [status EXCEPT ![c] = s]
    /\ queued' = (queued \/ c \in exposed)
    /\ UNCHANGED <<ui, exposed>> /\ Environment

ChangeExposer(c) ==
    /\ "exposer" \in Disturbances /\ Change
    /\ exposed' = IF c \in exposed THEN exposed \ {c} ELSE exposed \cup {c}
    /\ queued' = TRUE
    /\ UNCHANGED <<ui, status>> /\ Environment

Edit(v) ==
    /\ "edit" \in Disturbances /\ Change
    /\ ui # None /\ ui.cfg # v
    /\ ui' = [ui EXCEPT !.cfg = v]
    /\ held' = FALSE /\ queued' = TRUE
    /\ UNCHANGED <<cluster, objects, notReadySince, timer, pc, copy, hashes>>

\* What the UI owns is collected, here at once, between two reconciliations.
Delete ==
    /\ "delete" \in Disturbances /\ Change
    /\ pc = "idle" /\ ui # None
    /\ ui' = None /\ cfgMap' = None /\ dep' = None /\ pods' = None /\ WriteMap(None)
    /\ svc' = FALSE /\ ing' = None
    /\ queued' = TRUE
    /\ UNCHANGED <<cluster, appsMapC, notReadySince, timer, worker>>

Create(v) ==
    /\ "delete" \in Disturbances /\ Change
    /\ ui = None
    /\ ui' = New(v) /\ queued' = TRUE
    /\ UNCHANGED cluster /\ Environment

DeleteConfigMap ==
    /\ "deleteMap" \in Disturbances /\ Change
    /\ \/ cfgMap # None /\ cfgMap' = None /\ queued' = TRUE /\ UNCHANGED <<appsMap, mapFresh>>
       \/ appsMap # None /\ WriteMap(None) /\ UNCHANGED <<cfgMap, queued>>
    /\ UNCHANGED <<ui, cluster, appsMapC, dep, pods, svc, ing, notReadySince, timer, worker>>

DeleteDeployment ==
    /\ "deleteDeployment" \in Disturbances /\ Change
    /\ dep # None
    /\ dep' = None /\ pods' = None /\ queued' = TRUE
    /\ UNCHANGED <<ui, cluster, maps, svc, ing, notReadySince, timer, worker>>

DeleteService ==
    /\ "deleteService" \in Disturbances /\ Change
    /\ svc
    /\ svc' = FALSE /\ queued' = TRUE
    /\ UNCHANGED <<ui, cluster, maps, dep, pods, ing, notReadySince, timer, worker>>

DeleteIngress ==
    /\ "deleteIngress" \in Disturbances /\ Change
    /\ ing # None
    /\ ing' = None /\ queued' = TRUE
    /\ UNCHANGED <<ui, cluster, maps, dep, pods, svc, notReadySince, timer, worker>>

Fail ==
    /\ "fail" \in Disturbances /\ Change
    /\ pc # "idle"
    /\ Retry
    /\ UNCHANGED <<ui, cluster, objects, notReadySince>>

\* The times are in memory only.
Crash ==
    /\ "crash" \in Disturbances /\ Change
    /\ Finish
    /\ notReadySince' = NoTimes
    /\ appsMapC' = (IF "ConfigMap" \in Lagging THEN appsMap ELSE appsMapC) /\ mapFresh' = TRUE
    /\ queued' = TRUE /\ timer' = FALSE
    /\ UNCHANGED <<ui, cluster, cfgMap, appsMap, dep, pods, svc, ing>>

-----------------------------------------------------------------------------

Init ==
    /\ ui \in {New(v) : v \in Configs}
    /\ exposed \in SUBSET Components
    /\ status \in [Components -> {"missing", "pending"} \cup Versions]
    /\ cfgMap = None /\ appsMap = None /\ appsMapC = None /\ mapFresh = TRUE
    /\ dep = None /\ pods = None /\ svc = FALSE /\ ing = None
    /\ notReadySince = NoTimes
    /\ queued = TRUE /\ timer = FALSE
    /\ pc = "idle" /\ copy = None /\ held = FALSE /\ hashes = NoHashes
    /\ changes = 0

Work ==
    \/ ReduceConfigMap \/ ReduceDeployedApps \/ WriteDeployedApps \/ ReduceDeployment
    \/ ReduceService \/ ReduceIngress \/ UpdateStatus

Disturb ==
    \/ \E c \in Components :
         \/ ChangeExposer(c)
         \/ \E s \in {"missing", "pending"} \cup Versions : ChangeComponent(c, s)
    \/ \E v \in Configs : Edit(v) \/ Create(v)
    \/ Delete \/ DeleteConfigMap \/ DeleteDeployment \/ DeleteService \/ DeleteIngress
    \/ Fail \/ Crash

Next ==
    Reconcile \/ ReconcileNotFound \/ Work \/ Tick \/ SyncConfigMap \/ RollOut \/ Disturb

Spec == Init /\ [][Next]_vars

\* The worker goes on, time passes, the informer catches up, Kubernetes rolls out.
Fairness ==
    /\ WF_vars(Reconcile \/ ReconcileNotFound) /\ WF_vars(Work)
    /\ WF_vars(Tick) /\ WF_vars(SyncConfigMap) /\ WF_vars(RollOut)

FairSpec == Spec /\ Fairness

-----------------------------------------------------------------------------
(* Properties. *)

Listed(m) == IF m = None THEN {} ELSE {app[1] : app \in m}

\* A component that stops being ready keeps its place in the list until it was seen
\* not ready for the whole window, however long others have been broken ("Per-component
\* (rather than per-CR)", controller.go:168), and whatever changes between the
\* listing and the write.  Needs an up-to-date copy of the list.
NoEarlyDrop ==
    [][pc = "write" /\ pc' = "deployment" =>
          \A c \in Listed(appsMap) \ Listed(appsMap') : notReadySince[c] \in {None, Cap}]_vars

\* The worker will come to the UI: it is queued, held off, or an event is still to come.
Due == queued \/ timer \/ ~mapFresh

\* The controller never rests too early: when it is idle and nothing brings it back to a
\* UI - no retry, no hold-off, no event of the list - then both maps, the Deployment, the
\* Service and the Ingress are those of the spec and of the components as they are, no
\* time of a component that recovered is remembered, and with the pods rolled out the
\* phase is Ready, whatever was outdated, failed or changed while it worked
\* (controller.go:247-302).
NothingForgotten ==
    ui # None /\ pc = "idle" /\ ~Due =>
        /\ cfgMap = ui.cfg /\ appsMap = DeployedApps
        /\ dep = [cfg |-> cfgMap, apps |-> appsMap] /\ svc /\ ing = ui.cfg
        /\ \A c \in Components : notReadySince[c] # None => c \in NotReady
        /\ RolledOut => ui.phase = "Ready"

\* From some time on nobody disturbs the controller.  (Not []~Disturb: an action of the
\* controller can look like a failure.)
Calm ==
    <>[][Reconcile \/ ReconcileNotFound \/ Work \/ Tick \/ SyncConfigMap \/ RollOut]_vars

\* Left alone, the controller lists the components that are ready, all of them and no
\* others: "a single permanently-broken component cannot block the entire UI"
\* (deployed_apps_configmap.go:27).
AppsConverge == Calm => <>[](ui # None => appsMap = DeployedApps /\ cfgMap = ui.cfg)

\* Left alone, the controller remembers times of components that are not ready, and
\* of a UI that exists, only (controller.go:183-191).
TimesAreDropped ==
    Calm => <>[]\A c \in Components :
        notReadySince[c] # None => ui # None /\ c \in exposed /\ status[c] = "pending"

\* Left alone, the pods are of a template whose hash is that of both maps, the UI can be
\* reached as its spec says, and the phase says so, although hold-offs and failures let
\* the maps run ahead of the rest, which is not looked at before the list is written
\* (controller.go:264-274), and the hashes live no longer than a reconciliation.
SettlesReady ==
    Calm => <>[](ui # None => /\ ui.phase = "Ready"
                             /\ dep = [cfg |-> cfgMap, apps |-> appsMap] /\ RolledOut
                             /\ svc /\ ing = ui.cfg)

=============================================================================
