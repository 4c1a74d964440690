--------------------------- MODULE SharedDeployment ---------------------------
(***************************************************************************)
(* A ScalityUIComponent and the exposers that name it.  Its Deployment has *)
(* two writers: the component controller creates it and sets the image,    *)
(* the exposer controller mounts the shared ConfigMap in it.  Both write   *)
(* the whole object they read, from one informer cache, and the API server *)
(* refuses what was made from an outdated resourceVersion.                 *)
(*                                                                         *)
(* The component controller watches the Deployment.  The exposer           *)
(* controller does not: that a Deployment was created reaches it only      *)
(* through the status that the component controller writes later, since it *)
(* watches the components.                                                 *)
(***************************************************************************)
EXTENDS Naturals

CONSTANTS
    Component,     \* the component
    Exposers,      \* exposers that may name it
    Values,        \* runtime configurations of an exposer
    Images,        \* images of the component
    Configs,       \* valid micro-app configurations
    Served,        \* what each image serves
    First,         \* the image of the component at first
    Lagging,       \* whose informer cache may be outdated when read
    Disturbances,  \* what users may do
    MaxChanges,    \* and how often
    None

VARIABLES
    cr, crC, crFresh, dep, depC, depFresh, svc, svcC, pods, content,  \* Component
    queued, pc, copy, held, image, got,
    ex, exC, fresh, cm, cmC, cmFresh, ing, route, queue,   \* Exposer
    at, hash, marks, rules,
    mounts, mountsC, mountsFresh,  \* the Deployment as the exposer controller sees it
    step, exposer, exposerHeld,    \* the exposer controller's pc, cr and held
    changes        \* made by users so far

C == INSTANCE Component WITH
         Lagging <- Lagging \cap {"Component", "Deployment", "Service", "Status"},
         Disturbances <- Disturbances \cap {"edit", "leftover"}

X == INSTANCE Exposer WITH
         Components <- {Component}, Routes <- {},
         RuntimeConfiguration <- [p \in Values \X {None} |-> p[1]],
         MaxEdits <- None, edits <- 0,
         Lagging <- Lagging \cap {"Exposer", "ConfigMap", "Deployment"},
         Disturbances <- Disturbances \cap {"deleteReady"},
         dep <- mounts, depC <- mountsC, depFresh <- mountsFresh,
         pc <- step, cr <- exposer, held <- exposerHeld

ASSUME ConfigsAssumption == Configs \cap {"malformed", "invalid", "failed"} = {}

ASSUME NoneAssumption ==
    None \notin Exposers \cup {Component} \cup Values \cup {"missing", "failed"}
                \cup Images \cup C!Answers \cup C!Reasons \cup C!ComponentObject \cup C!DeploymentObject
                \cup X!ExposerObject \cup X!Data \cup X!ConfigMapObject \cup X!DeploymentObject
                \cup X!IngressObject

componentRest == <<cr, crC, crFresh, depC, svc, svcC, pods, content, queued, pc, copy, held, image, got>>
exposerRest   == <<ex, exC, fresh, cm, cmC, cmFresh, ing, at, hash, marks, rules,
                   step, exposer, exposerHeld>>
componentVars == <<componentRest, dep, depFresh>>
exposerVars   == <<exposerRest, mounts, mountsC, mountsFresh, route, queue>>
vars          == <<componentVars, exposerVars, changes>>

-----------------------------------------------------------------------------

\* The exposer controller looks for the component in the cache.
Route == [e \in Exposers |-> IF C!ComponentRead # None THEN None ELSE "missing"]

\* The Deployment as it is seen by both: the same object, the same resourceVersion.
Agree ==
    /\ (dep = None) = (mounts[Component] = None)
    /\ dep # None => dep.mounted = mounts[Component].mounted
    /\ mountsFresh = IF depFresh THEN {Component} ELSE {}

\* What the exposer controller writes is what it read, but for the mount.
ExposerStep ==
    /\ X!Work \/ \E e \in Exposers : X!Take(e)
    /\ IF mounts' = mounts
         THEN UNCHANGED <<dep, depFresh>>
         ELSE /\ dep' = C!Unobserved([C!DeploymentRead EXCEPT !.mounted = mounts'[Component].mounted])
              /\ depFresh' = FALSE
    /\ UNCHANGED <<componentRest, changes>>

\* What the component controller writes is what it read, but for the image.
MountWritten ==
    CASE dep' = dep -> mounts[Component]
      [] dep' # dep /\ dep'.mounted -> X!DeploymentRead(Component)
      [] OTHER -> [mounted |-> FALSE, hash |-> None]

FollowDeployment(mount) ==
    /\ mounts' = [mounts EXCEPT ![Component] = mount]
    /\ mountsFresh' = (IF depFresh' THEN {Component} ELSE {})
    /\ UNCHANGED <<mountsC, exposerRest, changes>>

ComponentStep ==
    /\ C!Take \/ C!Work
    /\ FollowDeployment(MountWritten)
    /\ UNCHANGED <<route, queue>>

KubernetesStep ==
    /\ C!Rollout \/ C!Collect
    /\ FollowDeployment(IF dep' = None THEN None ELSE mounts[Component])
    /\ UNCHANGED <<route, queue>>

-----------------------------------------------------------------------------
(* The informers, one for each kind. *)

SyncDeployment ==
    /\ C!SyncDeployment
    /\ mountsC' = X!Copied("Deployment", mountsC, Component, mounts[Component])
    /\ mountsFresh' = {Component}
    /\ UNCHANGED <<exposerRest, mounts, route, queue, changes>>

\* findExposersForScalityUIComponent
SyncComponent ==
    /\ C!SyncComponent
    /\ route' = Route'
    /\ queue' = queue \cup X!FindExposersForComponent(Component)
    /\ UNCHANGED <<exposerRest, mounts, mountsC, mountsFresh, changes>>

SyncService == C!SyncService /\ UNCHANGED <<exposerVars, changes>>

SyncExposer(e) == X!SyncExposer(e) /\ UNCHANGED <<componentVars, changes>>

SyncConfigMap == X!SyncConfigMap(Component) /\ UNCHANGED <<componentVars, changes>>

Sync == SyncDeployment \/ SyncComponent \/ SyncService \/ (\E e \in Exposers : SyncExposer(e)) \/ SyncConfigMap

-----------------------------------------------------------------------------
(* Users. *)

ChangeComponent ==
    /\ \E i \in Images : C!Edit(i)
    /\ route' = Route'
    /\ UNCHANGED <<exposerRest, mounts, mountsC, mountsFresh, queue>>

ChangeExposer ==
    /\ \E e \in Exposers : X!Delete(e)
    /\ UNCHANGED componentVars

-----------------------------------------------------------------------------

Init ==
    /\ C!Init /\ content = Served /\ cr.img = First
    /\ mounts = [c \in {Component} |-> IF dep = None THEN None ELSE [mounted |-> FALSE, hash |-> None]]
    /\ route = Route
    /\ X!Init /\ \A e \in Exposers : ex[e] # None
    /\ changes = 0

Controllers == ExposerStep \/ ComponentStep \/ KubernetesStep \/ Sync

Users ==
    /\ changes < MaxChanges /\ changes' = changes + 1
    /\ ChangeComponent \/ ChangeExposer

Next == Controllers \/ Users

Spec == Init /\ [][Next]_vars

\* As in Component and Exposer.
Fairness ==
    /\ WF_vars(ComponentStep) /\ WF_vars(ExposerStep /\ X!Work) /\ WF_vars(KubernetesStep)
    /\ \A e \in Exposers : SF_vars(ExposerStep /\ X!Take(e)) /\ WF_vars(SyncExposer(e))
    /\ WF_vars(SyncDeployment) /\ WF_vars(SyncComponent) /\ WF_vars(SyncService)
    /\ WF_vars(SyncConfigMap)

FairSpec == Spec /\ Fairness

-----------------------------------------------------------------------------
(* Properties. *)

TypeOK == C!TypeOK /\ X!TypeOK /\ Agree

\* Neither controller undoes what the other wrote, however old the copy it works from:
\* a step of the component controller leaves the mount and its annotation alone, a step
\* of the exposer controller the image (deployment_update.go:107-171,
\* scalityuicomponent/controller.go:145-190).
NoLostUpdate ==
    [][/\ pc' # pc /\ dep # None /\ dep' # None => mounts' = mounts
       /\ step' # step /\ dep # None => dep'.img = dep.img]_vars

\* Neither controller rests too early, although the one that mounts the map does not
\* watch the Deployments it is mounted in.  When the component controller has nothing to
\* do, the image of the spec is rolled out in the component's own Deployment; and when no
\* event of an exposer or of the map is to come either, that Deployment has the map mounted
\* with the hash of what is in it: if another owner's Deployment got the mount, or none was
\* there, the status that the component controller wrote later has brought the exposers
\* back (scalityuicomponent/controller.go:145-190, 360-392, watch_handlers.go:60-104).
\* Needs ConfigMap reads that do not lag.
NothingForgotten ==
    cr # None /\ pc = "idle" /\ ~C!Due =>
        /\ dep # None /\ ~dep.old /\ dep.img = cr.img /\ dep.ready /\ dep.updated
        /\ \A e \in Exposers :
              step = "idle" /\ Component \in cmFresh /\ ex[e] # None /\ ~X!Due(e) =>
                 /\ mounts[Component].mounted
                 /\ cm[Component] # None /\ mounts[Component].hash = cm[Component].data

Calm == <>[][Controllers]_vars

\* Left alone, the two controllers come to rest with a Deployment that runs the image of
\* the spec and has the map mounted as it is, although the exposer controller does not watch
\* Deployments: it may mount the map in one that an earlier component left, and that is
\* collected, or look for the Deployment before the component controller creates it.
MountConverges ==
    Calm => <>[](dep # None /\ cr # None =>
                   /\ dep.img = cr.img
                   /\ \A e \in Exposers :
                        ex[e] # None =>
                          /\ mounts[Component].mounted
                          /\ cm[Component] # None
                          /\ mounts[Component].hash = cm[Component].data)

-----------------------------------------------------------------------------
(* The steps through which an outdated copy leaves the map unmounted. *)

\* The exposer controller writes nothing, since its copy of the Deployment has the map mounted
\* with the hash it would write, or there is none (deployment_update.go:82-146); the Deployment
\* has not.
BlindMount ==
    /\ X!UpdateComponentDeployment /\ step' = "ingress" /\ UNCHANGED mounts
    /\ dep # None /\ X!NeedsMount(mounts[Component], hash)

\* The map was unmounted for an exposer of which the map shows no trace: nothing is withdrawn
\* from it (deletion.go:170-174), and so no event of the map brings the other exposers back to
\* mount it again.
IdleUnmount ==
    /\ X!CleanupConfigMap /\ ~X!HasTrace(X!ConfigMapRead(Component), at)
    /\ dep # None /\ ~mounts[Component].mounted

=============================================================================
