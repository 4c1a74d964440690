------------------------------- MODULE Exposer -------------------------------
(***************************************************************************)
(* The ScalityUIComponentExposer controller.  Every exposer of a component *)
(* publishes one entry in a ConfigMap that all exposers of the component   *)
(* share, protects the map with a finalizer of its own, mounts the map in  *)
(* the component's Deployment with a hash of its content, routes requests  *)
(* to the component with an Ingress of its own, and takes all of it back   *)
(* when it is deleted.                                                     *)
(*                                                                         *)
(* The controller has one worker.  It reads from informer caches and       *)
(* writes to the API server, which refuses a write made from an outdated   *)
(* resourceVersion.  A reconciliation is a sequence of steps, one per call *)
(* that can change the cluster; users, the other controllers, API failures *)
(* and crashes of the operator come between any two of them.               *)
(***************************************************************************)
EXTENDS Naturals

CONSTANTS
    Exposers,      \* names of ScalityUIComponentExposer objects
    Components,    \* names of ScalityUIComponents, and of their Deployments
    Values,        \* settings of an exposer, and runtime configurations it can publish
    Routes,        \* what a UI and a component give to an exposer: networks, public path
                   \* and service for its Ingress, authentication and kind for its entry
    RuntimeConfiguration,  \* what is published for the settings of an exposer and what its
                           \* UI and its component give
    Lagging,       \* the kinds whose informer cache may be outdated when read
    Disturbances,  \* what users, failures and other controllers may do
    MaxEdits,      \* how often users may change what is published, None for no bound
    None           \* no object, no entry, no hash, no route

ExposerObject ==
    [deleting : BOOLEAN, fin : BOOLEAN, comp : Components, val : Values,
     ready : SUBSET {"DependenciesReady", "ConfigMapReady", "DeploymentReady"}]

Data == [Exposers -> Values \cup {None}]

ConfigMapObject == [deleting : BOOLEAN, fins : SUBSET Exposers, data : Data]

DeploymentObject == [mounted : BOOLEAN, hash : Data \cup {None}]

\* Host, path and annotations, and what a second reading gives: TLS and the service.
IngressObject == [rules : Routes, tls : Routes \cup {None}]

ASSUME LaggingAssumption == Lagging \subseteq {"Exposer", "ConfigMap", "Deployment"}

ASSUME DisturbancesAssumption ==
    Disturbances \subseteq {"create", "delete", "deleteReady", "edit", "deleteMap",
                            "deployment", "dependency", "ingress",
                            "fail", "crash"}

ASSUME RoutesAssumption == "missing" \notin Routes

ASSUME RuntimeConfigurationAssumption ==
    RuntimeConfiguration \in [Values \X (Routes \cup {None}) -> Values]

ASSUME NoneAssumption ==
    None \notin Exposers \cup Components \cup Values \cup Routes \cup {"missing"}
                \cup ExposerObject \cup Data \cup ConfigMapObject \cup DeploymentObject
                \cup IngressObject

VARIABLES
    ex,         \* exposers in the API server
    cm,         \* the shared ConfigMap of each component in the API server
    dep,        \* the Deployment of each component in the API server
    ing,        \* the Ingress of each exposer in the API server
    exC,        \* the informer's copy of each exposer
    fresh,      \* exposers whose copy has the current resourceVersion
    cmC,        \* the informer's copy of each ConfigMap
    cmFresh,    \* ConfigMaps whose copy has the current resourceVersion
    depC,       \* the informer's copy of each Deployment
    depFresh,   \* Deployments whose copy has the current resourceVersion
    route,      \* what the UI and the component of each exposer give, None without networks;
                \* "missing" when its ScalityUIComponent or its ScalityUI is not found
    edits,      \* changes that users made of what is published, up to MaxEdits
    queue,      \* the controller's work queue
    pc,         \* the next step of the worker's reconciliation
    at,         \* the exposer being reconciled
    cr,         \* the worker's copy of it
    held,       \* cr has the current resourceVersion
    hash,       \* content hash left by the ConfigMap reducer (the content itself)
    marks,      \* conditions set to True so far in this reconciliation
    rules       \* what the Ingress is being made of

api    == <<ex, cm, dep, ing>>
caches == <<exC, fresh, cmC, cmFresh, depC, depFresh>>
worker == <<pc, at, cr, held, hash, marks, rules>>
vars   == <<ex, cm, dep, ing, exC, fresh, cmC, cmFresh, depC, depFresh, route, edits,
            queue, pc, at, cr, held, hash, marks, rules>>

Phases == {"idle", "finalizer", "reread", "dependencies", "configmap", "deployment",
           "ingress", "reference", "status", "unmount", "cleanup", "deleteMap", "release"}

StoredTyped ==
    /\ ex \in [Exposers -> ExposerObject \cup {None}]
    /\ cm \in [Components -> ConfigMapObject \cup {None}]
    /\ dep \in [Components -> DeploymentObject \cup {None}]
    /\ ing \in [Exposers -> IngressObject \cup {None}]

CopiesTyped ==
    /\ exC \in [Exposers -> ExposerObject \cup {None}]
    /\ fresh \in SUBSET Exposers
    /\ cmC \in [Components -> ConfigMapObject \cup {None}]
    /\ cmFresh \in SUBSET Components
    /\ depC \in [Components -> DeploymentObject \cup {None}]
    /\ depFresh \in SUBSET Components

WorkerTyped ==
    /\ route \in [Exposers -> Routes \cup {None, "missing"}]
    /\ queue \in SUBSET Exposers
    /\ pc \in Phases
    /\ held \in BOOLEAN
    /\ marks \in SUBSET {"DependenciesReady", "ConfigMapReady", "DeploymentReady"}
    /\ pc = "idle" => at = None /\ cr = None /\ hash = None /\ marks = {}
    /\ pc # "idle" => at \in Exposers /\ cr \in ExposerObject
    /\ hash \in Data \cup {None}
    /\ rules \in Routes \cup {None} /\ (pc = "reference") = (rules # None)

\* Exposers whose dependencies validateAndFetchDependencies finds.
available == {e \in Exposers : route[e] # "missing"}

TypeOK == StoredTyped /\ CopiesTyped /\ WorkerTyped

-----------------------------------------------------------------------------
(* What the reconciler computes from the objects it reads. *)

New(c, v) == [deleting |-> FALSE, fin |-> FALSE, comp |-> c, val |-> v, ready |-> {}]

NoEntries == [e \in Exposers |-> None]

EmptyMap == [deleting |-> FALSE, fins |-> {}, data |-> NoEntries]

\* A mutation of Published: other entries are dropped.
PublishedAlone(m, e, v) == [EmptyMap EXCEPT !.fins = {e}, !.data[e] = v]

\* A mutation of Published: an entry that exists is left as it is.
PublishedOnce(m, e, v) ==
    LET base == IF m = None THEN EmptyMap ELSE m
    IN  [base EXCEPT !.fins = @ \cup {e}, !.data[e] = IF @ = None THEN v ELSE @]

\* The map m with the finalizer and the entry of exposer e.
Published(m, e, v) ==
    LET base == IF m = None THEN EmptyMap ELSE m
    IN  [base EXCEPT !.fins = @ \cup {e}, !.data[e] = v]

\* Mutations of Withdrawn: everybody's traces go, or the finalizer stays.
WithdrawnAll(m, e) == [m EXCEPT !.fins = {}, !.data = NoEntries]

WithdrawnEntryOnly(m, e) == [m EXCEPT !.data[e] = None]

\* The map m without the finalizer and the entry of exposer e.
Withdrawn(m, e) == [m EXCEPT !.fins = @ \ {e}, !.data[e] = None]

HasTrace(m, e) == m # None /\ (e \in m.fins \/ m.data[e] # None)

IsEmpty(m) == m.fins = {} /\ m.data = NoEntries

\* The Deployment d with the map mounted and the annotation for content h; the
\* timestamp of the annotation changes only with the rest.
Mounted(d, h) == [mounted |-> TRUE, hash |-> h]

NeedsMount(d, h) == ~d.mounted \/ d.hash # h

\* A mutation of Unmounted: only the annotation changes.
UnmountedInName(d) == [d EXCEPT !.hash = None]

\* The annotation "removed-<timestamp>" is the hash of no content.
Unmounted(d) == [mounted |-> FALSE, hash |-> None]

\* Reads go to the informers' copies; those of a kind that does not lag are always
\* up to date.
ExposerRead(e) == IF "Exposer" \in Lagging THEN exC[e] ELSE ex[e]

ConfigMapRead(c) == IF "ConfigMap" \in Lagging THEN cmC[c] ELSE cm[c]

DeploymentRead(c) == IF "Deployment" \in Lagging THEN depC[c] ELSE dep[c]

\* A write made from a copy is accepted if nothing was written since.
IsCurrent(kind, key, upToDate) == kind \in Lagging => key \in upToDate

\* The API server drops an object that is being deleted with its last finalizer.
Stored(m) == IF m.deleting /\ m.fins = {} THEN None ELSE m

\* It adds no finalizer to a ConfigMap that is being deleted.
Accepted(m, e) == m = None \/ ~m.deleting \/ e \in m.fins

\* buildRuntimeConfiguration: the entry of exposer e with settings v.
EntryFor(e, v) == RuntimeConfiguration[v, route[e]]

\* A mutation of FindExposersForComponent: ConfigMaps are not watched.
FindNoExposers(c) == {}

FindExposersForComponent(c) ==
    {e \in Exposers : ExposerRead(e) # None /\ ExposerRead(e).comp = c}

-----------------------------------------------------------------------------
(* How a reconciliation starts and ends.  currentState is per reconciliation:
   nothing of it survives the end. *)

\* A mutation of Finish: currentState, kept in the reconciler, survives.
FinishKeepsState ==
    /\ pc' = "idle" /\ at' = None /\ cr' = None /\ held' = FALSE
    /\ rules' = None
    /\ UNCHANGED <<hash, marks>>

Finish ==
    /\ pc' = "idle" /\ at' = None /\ cr' = None /\ held' = FALSE /\ hash' = None /\ marks' = {}
    /\ rules' = None

Done == Finish /\ UNCHANGED queue

\* A mutation of Retry: the error is swallowed.
RetryForgotten == Finish /\ UNCHANGED queue

\* An error or a RequeueAfter: the queue gets the exposer back.
Retry == Finish /\ queue' = queue \cup {at}

GoTo(phase) == pc' = phase /\ UNCHANGED <<at, cr, held, hash, marks, rules, queue>>

\* A write of object o over exposer e leaves every earlier copy outdated.  An exposer
\* that goes takes the Ingress it owns with it.
WriteExposer(e, o) ==
    /\ ex' = [ex EXCEPT ![e] = o] /\ fresh' = fresh \ {e}
    /\ ing' = IF o = None THEN [ing EXCEPT ![e] = None] ELSE ing

WriteConfigMap(c, o) == cm' = [cm EXCEPT ![c] = o] /\ cmFresh' = cmFresh \ {c}

WriteDeployment(c, o) == dep' = [dep EXCEPT ![c] = o] /\ depFresh' = depFresh \ {c}

\* Mutations of FirstPhase: the reducers run without waiting for the finalizer; an exposer
\* that is ready is left alone.
FirstPhaseNoFinalizer(o) == IF o.deleting THEN "unmount" ELSE "dependencies"

FirstPhaseOnce(o) ==
    CASE o.deleting -> "unmount"
      [] ~o.deleting /\ ~o.fin -> "finalizer"
      [] OTHER -> IF "DeploymentReady" \in o.ready THEN "status" ELSE "dependencies"

FirstPhase(o) ==
    CASE o.deleting -> "unmount"
      [] ~o.deleting /\ ~o.fin -> "finalizer"
      [] OTHER -> "dependencies"

Reconcile(e) ==
    /\ pc = "idle" /\ e \in queue
    /\ ExposerRead(e) # None
    /\ queue' = queue \ {e}
    /\ pc' = FirstPhase(ExposerRead(e))
    /\ at' = e /\ cr' = ExposerRead(e) /\ held' = IsCurrent("Exposer", e, fresh)
    /\ UNCHANGED <<api, caches, route, edits, hash, marks, rules>>

ReconcileNotFound(e) ==
    /\ pc = "idle" /\ e \in queue
    /\ ExposerRead(e) = None
    /\ queue' = queue \ {e}
    /\ UNCHANGED <<api, caches, worker, route, edits>>

-----------------------------------------------------------------------------
(* The reducers. *)

EnsureFinalizer ==
    /\ pc = "finalizer"
    /\ IF held
         THEN /\ WriteExposer(at, [cr EXCEPT !.fin = TRUE])
              /\ pc' = "reread" /\ held' = FALSE
              /\ UNCHANGED <<at, cr, hash, marks, rules, queue>>
         ELSE Retry /\ UNCHANGED <<ex, ing, fresh>>
    /\ UNCHANGED <<cm, dep, exC, cmC, cmFresh, depC, depFresh, route, edits>>

\* The copy read back may still be without the finalizer, or already deleted.
ReadAgain ==
    /\ pc = "reread"
    /\ IF ExposerRead(at) # None
         THEN /\ pc' = "dependencies"
              /\ cr' = ExposerRead(at) /\ held' = IsCurrent("Exposer", at, fresh)
              /\ UNCHANGED <<at, hash, marks, rules, queue>>
         ELSE Retry
    /\ UNCHANGED <<api, caches, route, edits>>

ValidateDependencies ==
    /\ pc = "dependencies"
    /\ at \in available
    /\ pc' = "configmap" /\ marks' = {"DependenciesReady"}
    /\ UNCHANGED <<api, caches, route, edits, queue, at, cr, held, hash, rules>>

\* The status is written when it changes: the condition was true, or not there yet, or
\* another dependency was missing.  The write may be refused; its error is logged and
\* dropped.
HandleDependencyError ==
    /\ pc = "dependencies"
    /\ at \notin available
    /\ \/ held /\ WriteExposer(at, [cr EXCEPT !.ready = @ \ {"DependenciesReady"}])
       \/ ~(held /\ "DependenciesReady" \in cr.ready) /\ UNCHANGED <<ex, ing, fresh>>
    /\ Retry
    /\ UNCHANGED <<cm, dep, exC, cmC, cmFresh, depC, depFresh, route, edits>>

SkipConfigMap ==
    /\ pc = "configmap"
    /\ at \notin available
    /\ GoTo("deployment")
    /\ UNCHANGED <<api, caches, route, edits>>

ReconcileConfigMap ==
    /\ pc = "configmap"
    /\ at \in available
    /\ LET c == cr.comp
           seen == ConfigMapRead(c)
           want == Published(seen, at, EntryFor(at, cr.val))
           accepted == IsCurrent("ConfigMap", c, cmFresh) /\ Accepted(cm[c], at)
       IN  IF seen = want \/ accepted
             THEN /\ IF seen = want THEN UNCHANGED <<cm, cmFresh>>
                                    ELSE WriteConfigMap(c, want)
                  /\ hash' = want.data
                  /\ marks' = marks \cup {"ConfigMapReady"}
                  /\ pc' = "deployment"
                  /\ UNCHANGED <<at, cr, held, rules, queue>>
             ELSE Retry /\ UNCHANGED <<cm, cmFresh>>
    /\ UNCHANGED <<ex, dep, ing, exC, fresh, cmC, depC, depFresh, route, edits>>

SkipDeployment ==
    /\ pc = "deployment"
    /\ at \notin available \/ hash = None
    /\ GoTo("ingress")
    /\ UNCHANGED <<api, caches, route, edits>>

\* No Deployment is no error: the condition is set as if it had been updated.
UpdateComponentDeployment ==
    /\ pc = "deployment"
    /\ at \in available /\ hash # None
    /\ LET c == cr.comp
           seen == DeploymentRead(c)
           write == seen # None /\ NeedsMount(seen, hash)
       IN  IF write => IsCurrent("Deployment", c, depFresh)
             THEN /\ IF write THEN WriteDeployment(c, Mounted(seen, hash))
                             ELSE UNCHANGED <<dep, depFresh>>
                  /\ marks' = marks \cup {"DeploymentReady"}
                  /\ pc' = "ingress"
                  /\ UNCHANGED <<at, cr, held, hash, rules, queue>>
             ELSE Retry /\ UNCHANGED <<dep, depFresh>>
    /\ UNCHANGED <<ex, cm, ing, exC, fresh, cmC, cmFresh, depC, route, edits>>

\* What the framework does with an Ingress it is told to skip, only it knows.
SkipIngress ==
    /\ pc = "ingress"
    /\ at \notin available \/ route[at] = None
    /\ \/ UNCHANGED <<ing, queue>>
       \/ ing[at] # None /\ ing' = [ing EXCEPT ![at] = None] /\ queue' = queue \cup {at}
    /\ pc' = "status"
    /\ UNCHANGED <<ex, cm, dep, caches, route, edits, at, cr, held, hash, marks, rules>>

BuildIngress ==
    /\ pc = "ingress"
    /\ at \in available /\ route[at] # None
    /\ pc' = "reference" /\ rules' = route[at]
    /\ UNCHANGED <<api, caches, route, edits, queue, at, cr, held, hash, marks>>

\* A mutation of ReferenceIngress: an Ingress that exists is left as it is.
ReferenceIngressOnce(e, r) ==
    IF ing[e] # None THEN ing[e]
    ELSE [rules |-> r, tls |-> IF e \in available THEN route[e] ELSE None]

\* NewReferenceResource reads the dependencies a second time; without them the Ingress
\* is left without TLS and the service's name.
ReferenceIngress(e, r) == [rules |-> r, tls |-> IF e \in available THEN route[e] ELSE None]

\* The framework writes the Ingress, whose event comes back, and may ask for another
\* reconciliation when it did.
ReconcileIngress ==
    /\ pc = "reference"
    /\ ing' = [ing EXCEPT ![at] = ReferenceIngress(at, rules)]
    /\ \/ /\ pc' = "status" /\ rules' = None
          /\ queue' = IF ing' = ing THEN queue ELSE queue \cup {at}
          /\ UNCHANGED <<at, cr, held, hash, marks>>
       \/ ing' # ing /\ Retry
    /\ UNCHANGED <<ex, cm, dep, caches, route, edits>>

UpdateStatus ==
    /\ pc = "status"
    /\ LET ready == cr.ready \cup marks
       IN  CASE ready = cr.ready -> Done /\ UNCHANGED <<ex, ing, fresh>>
             [] ready # cr.ready /\ held -> WriteExposer(at, [cr EXCEPT !.ready = ready]) /\ Done
             [] OTHER -> Retry /\ UNCHANGED <<ex, ing, fresh>>
    /\ UNCHANGED <<cm, dep, exC, cmC, cmFresh, depC, depFresh, route, edits>>

-----------------------------------------------------------------------------
(* Deletion. *)

RemoveVolumeFromDeployment ==
    /\ pc = "unmount"
    /\ LET c == cr.comp
           seen == DeploymentRead(c)
           write == seen # None /\ seen.mounted
       IN  IF write => IsCurrent("Deployment", c, depFresh)
             THEN /\ IF write THEN WriteDeployment(c, Unmounted(seen))
                             ELSE UNCHANGED <<dep, depFresh>>
                  /\ GoTo("cleanup")
             ELSE Retry /\ UNCHANGED <<dep, depFresh>>
    /\ UNCHANGED <<ex, cm, ing, exC, fresh, cmC, cmFresh, depC, route, edits>>

CleanupConfigMap ==
    /\ pc = "cleanup"
    /\ LET c == cr.comp
           seen == ConfigMapRead(c)
           left == Withdrawn(seen, at)
       IN  CASE ~HasTrace(seen, at) -> GoTo("release") /\ UNCHANGED <<cm, cmFresh>>
             [] HasTrace(seen, at) /\ IsCurrent("ConfigMap", c, cmFresh) ->
                  /\ WriteConfigMap(c, Stored(left))
                  /\ GoTo(IF IsEmpty(left) THEN "deleteMap" ELSE "release")
             [] OTHER -> Retry /\ UNCHANGED <<cm, cmFresh>>
    /\ UNCHANGED <<ex, dep, ing, exC, fresh, cmC, depC, depFresh, route, edits>>

\* Deletion of the map of component c: at once, or with its last finalizer.
Deleted(c) == IF cm[c] = None THEN None ELSE Stored([cm[c] EXCEPT !.deleting = TRUE])

DeleteEmptyMap ==
    /\ pc = "deleteMap"
    /\ WriteConfigMap(cr.comp, Deleted(cr.comp))
    /\ GoTo("release")
    /\ UNCHANGED <<ex, dep, ing, exC, fresh, cmC, depC, depFresh, route, edits>>

\* Without its only finalizer, the exposer goes.
RemoveExposerFinalizer ==
    /\ pc = "release"
    /\ IF held
         THEN WriteExposer(at, None) /\ Done
         ELSE Retry /\ UNCHANGED <<ex, ing, fresh>>
    /\ UNCHANGED <<cm, dep, exC, cmC, cmFresh, depC, depFresh, route, edits>>

-----------------------------------------------------------------------------
(* The informers.  Exposers and ConfigMaps are watched, Deployments are not. *)

\* The copies of a kind that does not lag are not kept.
Copied(kind, copies, key, o) == IF kind \in Lagging THEN [copies EXCEPT ![key] = o] ELSE copies

SyncExposer(e) ==
    /\ e \notin fresh
    /\ exC' = Copied("Exposer", exC, e, ex[e]) /\ fresh' = fresh \cup {e}
    /\ queue' = queue \cup {e}
    /\ UNCHANGED <<api, cmC, cmFresh, depC, depFresh, worker, route, edits>>

SyncConfigMap(c) ==
    /\ c \notin cmFresh
    /\ cmC' = Copied("ConfigMap", cmC, c, cm[c]) /\ cmFresh' = cmFresh \cup {c}
    /\ queue' = queue \cup FindExposersForComponent(c)
    /\ UNCHANGED <<api, exC, fresh, depC, depFresh, worker, route, edits>>

SyncDeployment(c) ==
    /\ c \notin depFresh
    /\ depC' = Copied("Deployment", depC, c, dep[c]) /\ depFresh' = depFresh \cup {c}
    /\ UNCHANGED <<api, exC, fresh, cmC, cmFresh, worker, route, edits, queue>>

-----------------------------------------------------------------------------
(* Users, other controllers, failures. *)

UserWrites(e, o) ==
    /\ WriteExposer(e, o)
    /\ held' = (held /\ at # e)
    /\ UNCHANGED <<cm, dep, exC, cmC, cmFresh, depC, depFresh, route, queue,
                   pc, at, cr, hash, marks, rules>>

Create(e, c, v) ==
    /\ "create" \in Disturbances
    /\ ex[e] = None
    /\ UserWrites(e, New(c, v)) /\ UNCHANGED edits

\* One of MaxEdits.
CountsEdit ==
    IF MaxEdits = None THEN UNCHANGED edits ELSE edits < MaxEdits /\ edits' = edits + 1

\* Another configuration, another component, or both.
Edit(e, c, v) ==
    /\ "edit" \in Disturbances
    /\ ex[e] # None /\ <<ex[e].comp, ex[e].val>> # <<c, v>>
    /\ UserWrites(e, [ex[e] EXCEPT !.comp = c, !.val = v]) /\ CountsEdit

Delete(e) ==
    /\ ex[e] # None /\ ~ex[e].deleting
    /\ \/ "delete" \in Disturbances
       \/ "deleteReady" \in Disturbances /\ "DeploymentReady" \in ex[e].ready
    /\ UserWrites(e, IF ex[e].fin THEN [ex[e] EXCEPT !.deleting = TRUE] ELSE None)
    /\ UNCHANGED edits

DeleteConfigMap(c) ==
    /\ "deleteMap" \in Disturbances
    /\ cm[c] # None /\ ~cm[c].deleting
    /\ WriteConfigMap(c, Deleted(c))
    /\ UNCHANGED <<ex, dep, ing, exC, fresh, cmC, depC, depFresh, worker, route, edits, queue>>

\* The component controller creates the Deployment, without the exposers' mount;
\* a user, or the garbage collector after its component, deletes it.
ReplaceDeployment(c) ==
    /\ "deployment" \in Disturbances
    /\ WriteDeployment(c, IF dep[c] = None THEN [mounted |-> FALSE, hash |-> None] ELSE None)
    /\ UNCHANGED <<ex, cm, ing, exC, fresh, cmC, cmFresh, depC, worker, route, edits, queue>>

\* The component or the ScalityUI that an exposer names appears, disappears or changes;
\* the operator watches both.
ChangeDependency(e, r) ==
    /\ "dependency" \in Disturbances
    /\ r # route[e] /\ route' = [route EXCEPT ![e] = r]
    /\ queue' = IF ExposerRead(e) = None THEN queue ELSE queue \cup {e}
    /\ CountsEdit /\ UNCHANGED <<api, caches, worker>>

\* The controller watches the Ingresses it owns.
DeleteIngress(e) ==
    /\ "ingress" \in Disturbances
    /\ ing[e] # None
    /\ ing' = [ing EXCEPT ![e] = None] /\ queue' = queue \cup {e}
    /\ CountsEdit /\ UNCHANGED <<ex, cm, dep, caches, route, worker>>

\* A call of the next step fails: network, API server, a conflict with a writer
\* this module leaves out, a refused Ingress.
Fail ==
    /\ "fail" \in Disturbances
    /\ pc # "idle"
    /\ Retry
    /\ UNCHANGED <<api, caches, route, edits>>

\* The operator restarts: the informers list everything again.
Crash ==
    /\ "crash" \in Disturbances
    /\ Finish
    /\ exC' = [e \in Exposers |-> IF "Exposer" \in Lagging THEN ex[e] ELSE exC[e]]
    /\ cmC' = [c \in Components |-> IF "ConfigMap" \in Lagging THEN cm[c] ELSE cmC[c]]
    /\ depC' = [c \in Components |-> IF "Deployment" \in Lagging THEN dep[c] ELSE depC[c]]
    /\ fresh' = Exposers /\ cmFresh' = Components /\ depFresh' = Components
    /\ queue' = {e \in Exposers : ex[e] # None}
    /\ UNCHANGED <<api, route, edits>>

-----------------------------------------------------------------------------

\* The exposers exist or not, not seen by the operator yet; nothing is published.
Init ==
    /\ ex \in [Exposers -> {None} \cup {New(c, v) : c \in Components, v \in Values}]
    /\ cm = [c \in Components |-> None]
    /\ dep \in [Components -> {None, [mounted |-> FALSE, hash |-> None]}]
    /\ ing = [e \in Exposers |-> None]
    /\ exC = [e \in Exposers |-> None] /\ fresh = {e \in Exposers : ex[e] = None}
    /\ cmC = [c \in Components |-> None] /\ cmFresh = Components
    /\ depC = [c \in Components |-> IF "Deployment" \in Lagging THEN dep[c] ELSE None]
    /\ depFresh = Components
    /\ route \in [Exposers -> Routes \cup {None, "missing"}] /\ edits = 0
    /\ queue = {}
    /\ pc = "idle" /\ at = None /\ cr = None /\ held = FALSE /\ hash = None /\ marks = {}
    /\ rules = None

Work ==
    \/ EnsureFinalizer \/ ReadAgain
    \/ ValidateDependencies \/ HandleDependencyError
    \/ SkipConfigMap \/ ReconcileConfigMap
    \/ SkipDeployment \/ UpdateComponentDeployment
    \/ SkipIngress \/ BuildIngress \/ ReconcileIngress
    \/ UpdateStatus
    \/ RemoveVolumeFromDeployment \/ CleanupConfigMap \/ DeleteEmptyMap
    \/ RemoveExposerFinalizer

Take(e) == Reconcile(e) \/ ReconcileNotFound(e)

Sync ==
    \/ \E e \in Exposers : SyncExposer(e)
    \/ \E c \in Components : SyncConfigMap(c) \/ SyncDeployment(c)

Disturb ==
    \/ \E e \in Exposers, c \in Components, v \in Values : Create(e, c, v) \/ Edit(e, c, v)
    \/ \E e \in Exposers : Delete(e) \/ DeleteIngress(e)
    \/ \E e \in Exposers, r \in Routes \cup {None, "missing"} : ChangeDependency(e, r)
    \/ \E c \in Components : DeleteConfigMap(c) \/ ReplaceDeployment(c)
    \/ Fail \/ Crash

Next == Work \/ (\E e \in Exposers : Take(e)) \/ Sync \/ Disturb

Spec == Init /\ [][Next]_vars

\* The worker finishes what it started, the queue starves nobody, the informers
\* catch up.
Fairness ==
    /\ WF_vars(Work)
    /\ \A e \in Exposers : SF_vars(Take(e)) /\ WF_vars(SyncExposer(e))
    /\ \A c \in Components : WF_vars(SyncConfigMap(c)) /\ WF_vars(SyncDeployment(c))

FairSpec == Spec /\ Fairness

-----------------------------------------------------------------------------
(* Properties of the shared ConfigMap and of the mount. *)

\* Whatever a map holds of an exposer, the exposer is there to take it away.
NoTraceLeft ==
    \A e \in Exposers, c \in Components :
        HasTrace(cm[c], e) => ex[e] # None /\ ex[e].fin /\ ex[e].comp = c

NoIngressLeft == \A e \in Exposers : ing[e] # None => ex[e] # None /\ ex[e].fin

\* Cleanup is complete: an exposer that is gone left neither its entry nor its
\* finalizer in any shared map, whatever fails or crashes in handleDeletion
\* (deletion.go:21-56), nor does a worker that still runs for it make it another
\* Ingress.  Needs ConfigMap reads that do not lag.
NoOrphans == NoTraceLeft /\ NoIngressLeft

\* What makes it inductive.  An up-to-date copy is what is stored;
CopiesAgree == \A e \in Exposers : "Exposer" \in Lagging /\ e \in fresh => exC[e] = ex[e]

\* so is the worker's copy as long as its resourceVersion is the current one.
HeldIsCurrent == pc # "idle" /\ held => ex[at] = cr /\ ExposerRead(at) = cr

IsProtected(e, c) == ex[e] # None /\ ex[e].fin /\ ex[e].comp = c

\* However old the copy of an exposer is: if it has the finalizer and is not being
\* deleted, the exposer still exists and still has the finalizer.
SeenIsProtected ==
    \A e \in Exposers :
        ExposerRead(e) # None /\ ExposerRead(e).fin /\ ~ExposerRead(e).deleting
            => IsProtected(e, ExposerRead(e).comp)

\* Hence the exposer whose reducers run cannot disappear before they end.
PublisherIsProtected ==
    pc \in {"dependencies", "configmap", "deployment", "ingress", "reference", "status"}
        => IsProtected(at, cr.comp)

RereadIsProtected ==
    pc = "reread" =>
        /\ IsProtected(at, cr.comp)
        /\ ExposerRead(at) # None => ExposerRead(at).comp = cr.comp

\* The worker is where the copy it read sent it.
PhaseFitsCopy ==
    /\ pc = "finalizer" => ~cr.fin
    /\ pc \in {"unmount", "cleanup", "deleteMap", "release"} => cr.deleting

\* The finalizer of the exposer goes after its traces in the map.
CleanedBeforeRelease ==
    pc \in {"deleteMap", "release"} => ~HasTrace(cm[cr.comp], at)

OrphanInv ==
    /\ NoTraceLeft /\ CopiesAgree /\ HeldIsCurrent /\ SeenIsProtected
    /\ PublisherIsProtected /\ RereadIsProtected /\ PhaseFitsCopy /\ CleanedBeforeRelease

\* The status tells the truth about the map: an exposer that reports
\* ConfigMapReady and is not being deleted has its entry and its finalizer in the
\* map, whatever the other exposers of the component do to it.
ReadyIsPublished ==
    \A e \in Exposers :
        ex[e] # None /\ ~ex[e].deleting /\ "ConfigMapReady" \in ex[e].ready
            => LET m == cm[ex[e].comp] IN m # None /\ e \in m.fins /\ m.data[e] # None

\* The pods of a component can start: a Deployment mounts the shared map only
\* while the map exists.  handleDeletion unmounts before it deletes the map.
MountedMapExists ==
    \A c \in Components : dep[c] # None /\ dep[c].mounted => cm[c] # None

\* No update of the shared map is lost: a step of the reconciliation of one
\* exposer, however old the copy it read, leaves the entries of the others alone.
NoLostEntries ==
    [][\A e \in Exposers, c \in Components :
          e # at /\ cm[c] # None /\ cm[c].data[e] # None
              => cm'[c] # None /\ cm'[c].data[e] = cm[c].data[e]]_vars

\* From some time on nobody disturbs the controller.  (Not []~Disturb: an action of the
\* controller can look like a failure.)
Calm == <>[][Work \/ (\E e \in Exposers : Take(e)) \/ Sync]_vars

\* A map that a user deletes stays for the exposers that have their finalizers in it,
\* and lets no other in.
ShutOut(e) == cm[ex[e].comp] # None /\ ~Accepted(cm[ex[e].comp], e)

\* Left alone, the controller finishes: every deletion completes, and every exposer
\* whose dependencies are there has its current configuration in the map of its
\* current component and says so, however outdated the copies read on the way.
EntriesConverge ==
    Calm => <>[]\A e \in Exposers :
        ex[e] # None =>
            /\ ~ex[e].deleting
            /\ e \in available /\ ~ShutOut(e) =>
                 /\ {"DependenciesReady", "ConfigMapReady"} \subseteq ex[e].ready
                 /\ cm[ex[e].comp] # None
                 /\ cm[ex[e].comp].data[e] = EntryFor(e, ex[e].val)

\* The worker will come to e: e is queued, or an event of it is still to come.
Due(e) == e \in queue \/ e \notin fresh

\* The map of component c has value v for e, or an event of it is still to come.
InMap(c, e, v) == c \in cmFresh => cm[c] # None /\ cm[c].data[e] = v

IsRouted(e) == e \in available /\ route[e] # None => ing[e] = [rules |-> route[e], tls |-> route[e]]

\* The controller never rests too early: an exposer that it is not working on and that
\* nothing brings it back to - no retry, no event of the exposer or of its map - is not
\* being deleted, and has its entry, its conditions and its Ingress, whatever was
\* outdated, failed or changed while it worked (controller.go:61-138, watch_handlers.go).
NothingForgotten ==
    \A e \in Exposers :
        ex[e] # None /\ at # e /\ ~Due(e) =>
            /\ ~ex[e].deleting
            /\ e \in available => /\ {"DependenciesReady", "ConfigMapReady"} \subseteq ex[e].ready
                                 /\ InMap(ex[e].comp, e, EntryFor(e, ex[e].val))
            /\ IsRouted(e)

\* Left alone, the Deployment of a component that still has exposers ends up with
\* the map mounted and annotated with the map's content, although handleDeletion
\* of any one of them unmounts it (deletion.go:58-128).
MountConverges ==
    Calm => <>[]\A c \in Components :
        /\ dep[c] # None
        /\ \E e \in available : ex[e] # None /\ ex[e].comp = c
        => dep[c].mounted /\ cm[c] # None /\ dep[c].hash = cm[c].data

\* Left alone, the Ingress of an exposer is made of the networks of its UI and the
\* public path of its component as they are, although it is put together from two
\* readings of them (ingress.go:28 and 170) that may disagree.
IngressConverges ==
    Calm => <>[]\A e \in available :
        ex[e] # None /\ route[e] # None => ing[e] = [rules |-> route[e], tls |-> route[e]]

-----------------------------------------------------------------------------
(* What the controller makes of the shared map. *)

HomeOf(e) == IF ex[e] # None /\ ex[e].fin THEN ex[e].comp ELSE None

EntryOf(c, e) == IF cm[c] = None THEN None ELSE cm[c].data[e]

Announced == {e \in Exposers : ex[e] # None /\ ~ex[e].deleting /\ "ConfigMapReady" \in ex[e].ready}

Registry ==
    INSTANCE SharedConfig
    WITH home <- [e \in Exposers |-> HomeOf(e)],
         entries <- [c \in Components |-> [e \in Exposers |-> EntryOf(c, e)]],
         announced <- Announced

\* The exposers share the map as they promise: the controller, whose steps come between
\* those of users, failures and crashes and are made from outdated copies of exposers,
\* publishes, withdraws and reports one entry at a time, that of an exposer whose
\* finalizer protects it (configmap.go:31-126, deletion.go:21-56).  Needs ConfigMap
\* reads that do not lag.
ImplementsSharedConfig == Registry!Spec

-----------------------------------------------------------------------------
(* The steps through which an outdated copy, or a user, breaks these promises. *)

\* The cleanup finds nothing of the exposer in the copy of the map and leaves the map as it
\* is, where its finalizer or its entry is (deletion.go:170-174).
BlindCleanup ==
    /\ CleanupConfigMap
    /\ ~HasTrace(ConfigMapRead(cr.comp), at) /\ HasTrace(cm[cr.comp], at)

\* The copy of the map has what the exposer would publish, and nothing is written; the map
\* has not: its entry was withdrawn since, for an exposer of the same name.
BlindPublish ==
    /\ ReconcileConfigMap
    /\ LET seen == ConfigMapRead(cr.comp)
       IN  seen = Published(seen, at, EntryFor(at, cr.val))
    /\ EntryOf(cr.comp, at) = None \/ at \notin cm[cr.comp].fins

\* The copy of the Deployment does not mount the map and nothing is unmounted; the
\* Deployment does.
BlindUnmount ==
    /\ RemoveVolumeFromDeployment
    /\ LET seen == DeploymentRead(cr.comp) IN seen = None \/ ~seen.mounted
    /\ dep[cr.comp] # None /\ dep[cr.comp].mounted

\* A user gives an exposer that has its finalizer another component.
Move ==
    \E e \in Exposers, c \in Components, v \in Values :
        ex[e] # None /\ ex[e].fin /\ ex[e].comp # c /\ Edit(e, c, v)

-----------------------------------------------------------------------------
(* What a comment and a test say and the code does not do. *)

\* The map "is only deleted when all exposers are gone" (configmap.go:57), and the
\* end-to-end test waits for that deletion: at rest no map is empty.
EmptyMapIsDeleted ==
    Calm => <>[]\A c \in Components : cm[c] # None => ~IsEmpty(cm[c])
=============================================================================
