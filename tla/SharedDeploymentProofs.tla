------------------------ MODULE SharedDeploymentProofs ------------------------
(* Proofs about the Deployment that two controllers write, from what is proved *)
(* about each of them.                                                         *)
EXTENDS SharedDeployment, TLAPS

CP == INSTANCE ComponentProofs WITH
          Lagging <- Lagging \cap {"Component", "Deployment", "Service", "Status"},
          Disturbances <- Disturbances \cap {"edit", "leftover"}

XP == INSTANCE ExposerProofs WITH
          Components <- {Component}, Routes <- {},
          RuntimeConfiguration <- [p \in Values \X {None} |-> p[1]],
          MaxEdits <- None, edits <- 0,
          Lagging <- Lagging \cap {"Exposer", "ConfigMap", "Deployment"},
          Disturbances <- Disturbances \cap {"deleteReady"},
          dep <- mounts, depC <- mountsC, depFresh <- mountsFresh,
          pc <- step, cr <- exposer, held <- exposerHeld

\* The proofs are about the controllers that are composed here.
LEMMA SameComponentObjects ==
    /\ C!ComponentObject = CP!ComponentObject
    /\ C!DeploymentObject = CP!DeploymentObject
    /\ C!Bodies = CP!Bodies /\ C!Answers = CP!Answers /\ C!Reasons = CP!Reasons
  BY DEF C!ComponentObject, CP!ComponentObject, C!DeploymentObject, CP!DeploymentObject,
         C!Bodies, CP!Bodies, C!Answers, CP!Answers, C!Reasons, CP!Reasons

LEMMA SameComponentTypes == C!TypeOK <=> CP!TypeOK
  BY DEF C!TypeOK, C!ApiTyped, C!CopiesTyped, C!ClusterTyped, C!WorkerTyped,
         C!ComponentObject, C!DeploymentObject, C!ServiceStates, C!Bodies, C!Answers, C!Reasons,
         CP!TypeOK, CP!ApiTyped, CP!CopiesTyped, CP!ClusterTyped, CP!WorkerTyped,
         CP!ComponentObject, CP!DeploymentObject, CP!ServiceStates, CP!Bodies, CP!Answers, CP!Reasons

LEMMA SameComponentInit == C!Init <=> CP!Init
  BY DEF C!Init, C!NewComponent, C!Leftovers, C!NewDeployment, C!Unobserved, C!Observed, C!Bodies, C!Answers,
         CP!Init, CP!NewComponent, CP!Leftovers, CP!NewDeployment, CP!Unobserved, CP!Observed, CP!Bodies, CP!Answers

LEMMA SameComponentTake == C!Take <=> CP!Take
  BY DEF C!Take, C!Reconcile, C!ReconcileNotFound, C!ComponentRead, C!Read, C!IsCurrent,
         C!api, C!caches, C!cluster, C!worker,
         CP!Take, CP!Reconcile, CP!ReconcileNotFound, CP!ComponentRead, CP!Read, CP!IsCurrent,
         CP!api, CP!caches, CP!cluster, CP!worker

LEMMA SameComponentWork == C!Work <=> CP!Work
  BY DEF C!Work, C!CreateDeployment, C!UpdateDeployment, C!CreateOrUpdateService,
         C!ProcessUIComponentConfig, C!FetchConfig, C!ParseAndApplyConfig,
         C!RemoveForceRefreshAnnotation, C!ComponentRead, C!DeploymentRead, C!ServiceRead, C!Read,
         C!IsCurrent, C!WriteComponent, C!WriteDeployment, C!NewDeployment, C!WithImage,
         C!Unobserved, C!Observed, C!Refusals, C!RolledOut, C!NeedsFetch, C!Recorded,
         C!ClearsAnnotation, C!AfterStatus, C!EndAfter, C!Done, C!Retry, C!Finish, C!GoTo,
         C!api, C!caches, C!cluster,
         CP!Work, CP!CreateDeployment, CP!UpdateDeployment, CP!CreateOrUpdateService,
         CP!ProcessUIComponentConfig, CP!FetchConfig, CP!ParseAndApplyConfig,
         CP!RemoveForceRefreshAnnotation, CP!ComponentRead, CP!DeploymentRead, CP!ServiceRead, CP!Read,
         CP!IsCurrent, CP!WriteComponent, CP!WriteDeployment, CP!NewDeployment, CP!WithImage,
         CP!Unobserved, CP!Observed, CP!Refusals, CP!RolledOut, CP!NeedsFetch, CP!Recorded,
         CP!ClearsAnnotation, CP!AfterStatus, CP!EndAfter, CP!Done, CP!Retry, CP!Finish, CP!GoTo,
         CP!api, CP!caches, CP!cluster

LEMMA SameComponentSync ==
    C!SyncComponent \/ C!SyncDeployment \/ C!SyncService <=> CP!Sync
  BY DEF C!SyncComponent, C!SyncDeployment, C!SyncService, C!api, C!cluster, C!worker,
         CP!Sync, CP!SyncComponent, CP!SyncDeployment, CP!SyncService, CP!api, CP!cluster, CP!worker

LEMMA SameComponentKubernetes == C!Rollout \/ C!Collect <=> CP!Rollout \/ CP!Collect
  BY DEF C!Rollout, C!ObserveSpec, C!PodReady, C!OldPodsStop, C!Collect, C!CollectDeployment,
         C!CollectService, C!WriteDeployment, C!Observed, C!caches, C!cluster, C!worker,
         CP!Rollout, CP!ObserveSpec, CP!PodReady, CP!OldPodsStop, CP!Collect, CP!CollectDeployment,
         CP!CollectService, CP!WriteDeployment, CP!Observed, CP!caches, CP!cluster, CP!worker

LEMMA SameComponentEdit == \A i \in Images : C!Edit(i) <=> CP!Edit(i)
  BY DEF C!Edit, C!UserWrites, C!WriteComponent, CP!Edit, CP!UserWrites, CP!WriteComponent

LEMMA SameExposerTypes == (X!TypeOK <=> XP!TypeOK) /\ (X!TypeOK' <=> XP!TypeOK')
  BY DEF X!TypeOK, X!StoredTyped, X!CopiesTyped, X!WorkerTyped, X!ExposerObject, X!ConfigMapObject,
         X!DeploymentObject, X!IngressObject, X!Data, X!Phases,
         XP!TypeOK, XP!StoredTyped, XP!CopiesTyped, XP!WorkerTyped, XP!ExposerObject,
         XP!ConfigMapObject, XP!DeploymentObject, XP!IngressObject, XP!Data, XP!Phases

LEMMA SameExposerInit == X!Init <=> XP!Init
  BY DEF X!Init, X!New, XP!Init, XP!New

LEMMA SameExposerTake == \A e \in Exposers : X!Take(e) <=> XP!Take(e)
  BY DEF X!Take, X!Reconcile, X!ReconcileNotFound, X!ExposerRead, X!IsCurrent, X!FirstPhase,
         X!api, X!caches, X!worker,
         XP!Take, XP!Reconcile, XP!ReconcileNotFound, XP!ExposerRead, XP!IsCurrent, XP!FirstPhase,
         XP!api, XP!caches, XP!worker

LEMMA SameExposerWork == X!Work <=> XP!Work
  BY DEF X!Work, X!EnsureFinalizer, X!ReadAgain, X!ValidateDependencies, X!HandleDependencyError,
         X!SkipConfigMap, X!ReconcileConfigMap, X!SkipDeployment, X!UpdateComponentDeployment,
         X!SkipIngress, X!BuildIngress, X!ReconcileIngress, X!UpdateStatus,
         X!RemoveVolumeFromDeployment, X!CleanupConfigMap, X!DeleteEmptyMap,
         X!RemoveExposerFinalizer, X!ExposerRead, X!ConfigMapRead, X!DeploymentRead, X!IsCurrent,
         X!WriteExposer, X!WriteConfigMap, X!WriteDeployment, X!Published, X!EmptyMap, X!NoEntries,
         X!Accepted, X!Mounted, X!NeedsMount, X!Unmounted, X!ReferenceIngress, X!Withdrawn,
         X!HasTrace, X!IsEmpty, X!Stored, X!Deleted, X!available, X!EntryFor, X!Done, X!Retry, X!Finish, X!GoTo,
         X!api, X!caches,
         XP!Work, XP!EnsureFinalizer, XP!ReadAgain, XP!ValidateDependencies, XP!HandleDependencyError,
         XP!SkipConfigMap, XP!ReconcileConfigMap, XP!SkipDeployment, XP!UpdateComponentDeployment,
         XP!SkipIngress, XP!BuildIngress, XP!ReconcileIngress, XP!UpdateStatus,
         XP!RemoveVolumeFromDeployment, XP!CleanupConfigMap, XP!DeleteEmptyMap,
         XP!RemoveExposerFinalizer, XP!ExposerRead, XP!ConfigMapRead, XP!DeploymentRead, XP!IsCurrent,
         XP!WriteExposer, XP!WriteConfigMap, XP!WriteDeployment, XP!Published, XP!EmptyMap,
         XP!NoEntries, XP!Accepted, XP!Mounted, XP!NeedsMount, XP!Unmounted, XP!ReferenceIngress,
         XP!Withdrawn, XP!HasTrace, XP!IsEmpty, XP!Stored, XP!Deleted, XP!available, XP!EntryFor, XP!Done,
         XP!Retry, XP!Finish, XP!GoTo, XP!api, XP!caches

LEMMA SameExposerSync ==
    /\ \A e \in Exposers : X!SyncExposer(e) <=> XP!SyncExposer(e)
    /\ X!SyncConfigMap(Component) <=> XP!SyncConfigMap(Component)
  BY DEF X!SyncExposer, X!SyncConfigMap, X!Copied, X!FindExposersForComponent, X!ExposerRead,
         X!api, X!worker,
         XP!SyncExposer, XP!SyncConfigMap, XP!Copied, XP!FindExposersForComponent, XP!ExposerRead,
         XP!api, XP!worker

LEMMA SameExposerDelete == \A e \in Exposers : X!Delete(e) <=> XP!Delete(e)
  BY DEF X!Delete, X!UserWrites, X!WriteExposer, XP!Delete, XP!UserWrites, XP!WriteExposer

-----------------------------------------------------------------------------
(* What is proved of each controller holds here. *)

LEMMA ComponentTyped == CP!TypeInv /\ [CP!Next]_(CP!vars) => CP!TypeInv'
  BY CP!TypeInvStep, ConfigsAssumption, NoneAssumption, SameComponentObjects

LEMMA ComponentTypedInit == CP!Init => CP!TypeOK
  BY CP!TypeInit, ConfigsAssumption, NoneAssumption, SameComponentObjects

LEMMA ConfigurationTyped ==
    [p \in Values \X {None} |-> p[1]] \in [Values \X ({} \cup {None}) -> Values]
  <1>1. {} \cup {None} = {None}
    OBVIOUS
  <1>2. \A p \in Values \X {None} : p[1] \in Values
    OBVIOUS
  <1> QED BY <1>1, <1>2

LEMMA ExposerTyped == XP!TypeOK /\ [XP!Next]_(XP!vars) => XP!TypeOK'
  BY XP!TypeStep, NoneAssumption, ConfigurationTyped
     DEF X!ExposerObject, X!Data, X!ConfigMapObject, X!DeploymentObject, X!IngressObject,
         XP!ExposerObject, XP!Data, XP!ConfigMapObject, XP!DeploymentObject, XP!IngressObject

LEMMA ExposerTypedInit == XP!Init => XP!TypeOK
  BY XP!TypeInit, NoneAssumption, ConfigurationTyped
     DEF X!ExposerObject, X!Data, X!ConfigMapObject, X!DeploymentObject, X!IngressObject,
         XP!ExposerObject, XP!Data, XP!ConfigMapObject, XP!DeploymentObject, XP!IngressObject

-----------------------------------------------------------------------------
(* The invariant. *)

\* A copy with the current resourceVersion is what is stored, for both controllers.
CopiesCurrent ==
    "Deployment" \in Lagging /\ depFresh => depC = dep /\ mountsC[Component] = mounts[Component]

\* Without the mount there is no annotation that says what was mounted.
NoMountNoHash ==
    mounts[Component] # None /\ ~mounts[Component].mounted => mounts[Component].hash = None

SharedInv == CP!TypeInv /\ X!TypeOK /\ Agree /\ CopiesCurrent /\ NoMountNoHash

LEMMA SharedInvTypes ==
    ASSUME SharedInv
    PROVE  /\ C!TypeOK
           /\ dep \in C!DeploymentObject \cup {None} /\ depC \in C!DeploymentObject \cup {None}
           /\ depFresh \in BOOLEAN
           /\ mounts \in [{Component} -> X!DeploymentObject \cup {None}]
           /\ mountsC \in [{Component} -> X!DeploymentObject \cup {None}]
  BY SameComponentTypes
     DEF SharedInv, CP!TypeInv, C!TypeOK, C!ApiTyped, C!CopiesTyped,
         X!TypeOK, X!StoredTyped, X!CopiesTyped

LEMMA SharedInvInit == Init => SharedInv
  <1> SUFFICES ASSUME Init
               PROVE  SharedInv
    OBVIOUS
  <1>1. CP!TypeInv
    BY ComponentTypedInit, SameComponentInit DEF Init, CP!TypeInv, CP!CopiesAgree, CP!Init
  <1>2. X!TypeOK
    BY ExposerTypedInit, SameExposerInit, SameExposerTypes DEF Init
  <1>3. mounts[Component] = IF dep = None THEN None ELSE [mounted |-> FALSE, hash |-> None]
    BY DEF Init
  <1>4. dep # None => dep.mounted = FALSE
    BY DEF Init, C!Init, C!Leftovers, C!NewDeployment, C!Unobserved, C!Observed
  <1>5. Agree
    <2>1. [mounted |-> FALSE, hash |-> None] \in X!DeploymentObject
      BY DEF X!DeploymentObject
    <2>2. [mounted |-> FALSE, hash |-> None] # None
      BY <2>1, NoneAssumption
    <2>3. depFresh = TRUE /\ mountsFresh = {Component}
      BY DEF Init, C!Init, X!Init
    <2>4. dep = None <=> mounts[Component] = None
      BY <1>3, <2>2
    <2>5. dep # None => dep.mounted = mounts[Component].mounted
      <3>1. [mounted |-> FALSE, hash |-> None].mounted = FALSE
        OBVIOUS
      <3> QED BY <1>3, <1>4, <3>1
    <2> QED BY <2>3, <2>4, <2>5 DEF Agree
  <1> QED BY <1>1, <1>2, <1>3, <1>5
          DEF SharedInv, CopiesCurrent, NoMountNoHash, Init, C!Init, X!Init

-----------------------------------------------------------------------------
(* What each controller writes. *)

\* The status that Kubernetes gives a Deployment leaves its spec alone.
LEMMA SpecOfUnobserved ==
    ASSUME NEW d \in C!DeploymentObject
    PROVE  /\ C!Unobserved(d) \in C!DeploymentObject
           /\ C!Unobserved(d).mounted = d.mounted /\ C!Unobserved(d).img = d.img
  BY DEF C!Unobserved, C!Observed, C!DeploymentObject

\* The component controller creates the Deployment, or updates it from what is stored
\* without touching the mount.
LEMMA ComponentWrites ==
    ASSUME SharedInv, C!Take \/ C!Work
    PROVE  /\ UNCHANGED depC
           /\ \/ UNCHANGED <<dep, depFresh>>
              \/ depFresh' = (depFresh /\ dep' = dep) /\ dep' # None /\
                 IF dep = None THEN dep'.mounted = FALSE
                               ELSE ("Deployment" \in Lagging => depFresh) /\ dep'.mounted = dep.mounted
  <1>0. None \notin C!DeploymentObject
    BY NoneAssumption
  <1>1. CASE C!CreateDeployment
    <2> DEFINE new == C!NewDeployment(copy.img, copy.gone)
    <2>1. copy \in C!ComponentObject
      BY <1>1, SharedInvTypes DEF C!CreateDeployment, C!TypeOK, C!WorkerTyped
    <2>2. new \in C!DeploymentObject /\ new.mounted = FALSE
      <3> DEFINE d == [img |-> copy.img, mounted |-> FALSE, observed |-> FALSE, ready |-> FALSE,
                       updated |-> TRUE, old |-> copy.gone]
      <3>1. d \in C!DeploymentObject /\ d.mounted = FALSE
        BY <2>1 DEF C!DeploymentObject, C!ComponentObject
      <3> HIDE DEF d
      <3>2. C!Unobserved(d) \in C!DeploymentObject /\ C!Unobserved(d).mounted = FALSE
        BY <3>1, SpecOfUnobserved
      <3> QED BY <3>2 DEF C!NewDeployment, d
    <2>3. UNCHANGED <<dep, depFresh>> \/ (dep = None /\ C!WriteDeployment(new))
      BY <1>1 DEF C!CreateDeployment
    <2> HIDE DEF new
    <2> QED BY <1>0, <1>1, <2>2, <2>3 DEF C!CreateDeployment, C!WriteDeployment
  <1>2. CASE C!UpdateDeployment
    <2> DEFINE seen == C!DeploymentRead
               new == C!WithImage(seen, copy.img)
    <2>1. copy \in C!ComponentObject
      BY <1>2, SharedInvTypes DEF C!UpdateDeployment, C!TypeOK, C!WorkerTyped
    <2>2. \/ UNCHANGED <<dep, depFresh>>
          \/ seen # None /\ C!IsCurrent("Deployment", depFresh) /\ C!WriteDeployment(new)
      BY <1>2 DEF C!UpdateDeployment
    <2>3. CASE seen # None /\ C!IsCurrent("Deployment", depFresh) /\ C!WriteDeployment(new)
      <3>1. seen = dep /\ ("Deployment" \in Lagging => depFresh)
        BY <2>3 DEF SharedInv, CopiesCurrent, C!DeploymentRead, C!Read, C!IsCurrent
      <3>2. dep \in C!DeploymentObject
        BY <2>3, <3>1, SharedInvTypes
      <3>3. new \in C!DeploymentObject /\ new.mounted = dep.mounted
        <4>1. [dep EXCEPT !.img = copy.img] \in C!DeploymentObject
              /\ [dep EXCEPT !.img = copy.img].mounted = dep.mounted
          BY <2>1, <3>2 DEF C!DeploymentObject, C!ComponentObject
        <4> QED BY <3>1, <3>2, <4>1, SpecOfUnobserved DEF C!WithImage
      <3> HIDE DEF seen, new
      <3> QED BY <1>0, <1>2, <2>3, <3>1, <3>2, <3>3 DEF C!UpdateDeployment, C!WriteDeployment
    <2> QED BY <1>2, <2>2, <2>3 DEF C!UpdateDeployment
  <1>3. CASE C!Take \/ (C!Work /\ ~C!CreateDeployment /\ ~C!UpdateDeployment)
    BY <1>3 DEF C!Take, C!Reconcile, C!ReconcileNotFound, C!Work, C!CreateOrUpdateService,
                C!ProcessUIComponentConfig, C!FetchConfig, C!ParseAndApplyConfig,
                C!RemoveForceRefreshAnnotation, C!api, C!caches
  <1> QED BY <1>1, <1>2, <1>3

\* The exposer controller writes what is stored, but for the mount.
LEMMA ExposerWrites ==
    ASSUME SharedInv, X!Work \/ \E e \in Exposers : X!Take(e)
    PROVE  /\ UNCHANGED mountsC
           /\ \/ UNCHANGED <<mounts, mountsFresh>>
              \/ /\ mounts[Component] # None /\ ("Deployment" \in Lagging => Component \in mountsFresh)
                 /\ \E o \in X!DeploymentObject :
                      /\ X!WriteDeployment(Component, o) /\ o # mounts[Component]
                      /\ o.mounted \/ o.hash = None
  <1>1. X!IsCurrent("Deployment", Component, mountsFresh) =>
          /\ X!DeploymentRead(Component) = mounts[Component]
          /\ "Deployment" \in Lagging => Component \in mountsFresh
    BY DEF X!IsCurrent, X!DeploymentRead, SharedInv, Agree, CopiesCurrent
  <1>2. step # "idle" => exposer.comp = Component
    BY DEF SharedInv, X!TypeOK, X!WorkerTyped, X!ExposerObject
  <1>3. CASE X!UpdateComponentDeployment
    <2> DEFINE seen == X!DeploymentRead(Component)
    <2>1. exposer.comp = Component /\ hash \in X!Data
      BY <1>2, <1>3 DEF X!UpdateComponentDeployment, SharedInv, X!TypeOK, X!WorkerTyped
    <2>2. \/ UNCHANGED <<mounts, mountsFresh>>
          \/ /\ seen # None /\ X!NeedsMount(seen, hash)
             /\ X!IsCurrent("Deployment", Component, mountsFresh)
             /\ X!WriteDeployment(Component, X!Mounted(seen, hash))
      BY <1>3, <2>1 DEF X!UpdateComponentDeployment
    <2>3. /\ X!Mounted(seen, hash) \in X!DeploymentObject
          /\ X!Mounted(seen, hash).mounted /\ X!Mounted(seen, hash).hash = hash
      BY <2>1 DEF X!Mounted, X!DeploymentObject
    <2>4. X!NeedsMount(seen, hash) => X!Mounted(seen, hash) # seen
      BY DEF X!NeedsMount, X!Mounted
    <2> HIDE DEF seen
    <2> QED BY <1>1, <1>3, <2>2, <2>3, <2>4 DEF X!UpdateComponentDeployment, seen
  <1>4. CASE X!RemoveVolumeFromDeployment
    <2> DEFINE seen == X!DeploymentRead(Component)
    <2>1. exposer.comp = Component
      BY <1>2, <1>4 DEF X!RemoveVolumeFromDeployment
    <2>2. \/ UNCHANGED <<mounts, mountsFresh>>
          \/ /\ seen # None /\ seen.mounted
             /\ X!IsCurrent("Deployment", Component, mountsFresh)
             /\ X!WriteDeployment(Component, X!Unmounted(seen))
      BY <1>4, <2>1 DEF X!RemoveVolumeFromDeployment
    <2>3. /\ X!Unmounted(seen) \in X!DeploymentObject
          /\ ~X!Unmounted(seen).mounted /\ X!Unmounted(seen).hash = None
      BY DEF X!Unmounted, X!DeploymentObject
    <2> HIDE DEF seen
    <2> QED BY <1>1, <1>4, <2>2, <2>3 DEF X!RemoveVolumeFromDeployment, seen
  <1>5. CASE \/ \E e \in Exposers : X!Take(e)
             \/ X!Work /\ ~X!UpdateComponentDeployment /\ ~X!RemoveVolumeFromDeployment
    BY <1>5 DEF X!Take, X!Reconcile, X!ReconcileNotFound, X!Work, X!EnsureFinalizer, X!ReadAgain,
                X!ValidateDependencies, X!HandleDependencyError, X!SkipConfigMap,
                X!ReconcileConfigMap, X!SkipDeployment, X!SkipIngress, X!BuildIngress,
                X!ReconcileIngress, X!UpdateStatus, X!CleanupConfigMap, X!DeleteEmptyMap,
                X!RemoveExposerFinalizer, X!api, X!caches
  <1> QED BY <1>3, <1>4, <1>5

-----------------------------------------------------------------------------
(* Every step keeps the invariant. *)

\* What the component controller or Kubernetes does to the Deployment is done to what the
\* exposer controller sees of it.
LEMMA MountFollows ==
    ASSUME SharedInv, NEW mount \in X!DeploymentObject \cup {None}, FollowDeployment(mount),
           UNCHANGED <<route, queue>>
    PROVE  /\ X!TypeOK' /\ mounts'[Component] = mount /\ mountsC' = mountsC
           /\ mountsFresh' = IF depFresh' THEN {Component} ELSE {}
           /\ mount = mounts[Component] => mounts' = mounts
  <1>1. mounts' = [mounts EXCEPT ![Component] = mount]
    BY DEF FollowDeployment
  <1>2. /\ mounts' \in [{Component} -> X!DeploymentObject \cup {None}] /\ mounts'[Component] = mount
        /\ mount = mounts[Component] => mounts' = mounts
    BY <1>1, SharedInvTypes
  <1>3. mountsFresh' \in SUBSET {Component} /\ UNCHANGED <<mountsC, exposerRest>>
    BY DEF FollowDeployment
  <1>4. X!TypeOK'
    BY <1>2, <1>3
       DEF exposerRest, SharedInv, X!TypeOK, X!StoredTyped, X!CopiesTyped, X!WorkerTyped
  <1> QED BY <1>2, <1>3, <1>4 DEF FollowDeployment

\* The mount that the component controller writes is the one that is stored.
LEMMA MountIsKept ==
    ASSUME SharedInv, C!Take \/ C!Work
    PROVE  /\ MountWritten \in X!DeploymentObject \cup {None}
           /\ dep # None => dep' # None /\ MountWritten = mounts[Component]
           /\ dep = None => MountWritten = IF dep' = None THEN None ELSE [mounted |-> FALSE, hash |-> None]
           /\ dep' # None => MountWritten # None /\ dep'.mounted = MountWritten.mounted
  <1>1. mounts[Component] \in X!DeploymentObject \cup {None} /\ None \notin X!DeploymentObject
    BY SharedInvTypes, NoneAssumption
  <1>2. [mounted |-> FALSE, hash |-> None] \in X!DeploymentObject
    BY DEF X!DeploymentObject
  <1>3. CASE dep = None
    <2>1. mounts[Component] = None
      BY <1>3 DEF SharedInv, Agree
    <2>2. dep' = dep \/ (dep' # None /\ dep'.mounted = FALSE)
      BY <1>3, ComponentWrites
    <2> QED BY <1>1, <1>2, <1>3, <2>1, <2>2 DEF MountWritten
  <1>4. CASE dep # None /\ dep' = dep
    BY <1>1, <1>4 DEF MountWritten, SharedInv, Agree
  <1>5. CASE dep # None /\ dep' # dep
    <2>1. dep' # None /\ ("Deployment" \in Lagging => depFresh) /\ dep'.mounted = dep.mounted
      BY <1>5, ComponentWrites
    <2>2. X!DeploymentRead(Component) = mounts[Component]
      BY <2>1 DEF SharedInv, CopiesCurrent, X!DeploymentRead
    <2>3. mounts[Component] # None /\ dep.mounted = mounts[Component].mounted
      BY <1>5 DEF SharedInv, Agree
    <2>4. ~dep.mounted => mounts[Component] = [mounted |-> FALSE, hash |-> None]
      BY <1>1, <2>3 DEF SharedInv, NoMountNoHash, X!DeploymentObject
    <2> QED BY <1>1, <1>5, <2>1, <2>2, <2>3, <2>4 DEF MountWritten
  <1> QED BY <1>3, <1>4, <1>5

LEMMA ComponentSteps == SharedInv /\ ComponentStep => SharedInv'
  <1> SUFFICES ASSUME SharedInv, ComponentStep
               PROVE  SharedInv'
    OBVIOUS
  <1>1. (C!Take \/ C!Work) /\ FollowDeployment(MountWritten) /\ UNCHANGED <<route, queue>>
    BY DEF ComponentStep
  <1>2. CP!TypeInv'
    BY <1>1, ComponentTyped, SameComponentTake, SameComponentWork DEF SharedInv, CP!Next
  <1>3. /\ X!TypeOK' /\ mounts'[Component] = MountWritten /\ mountsC' = mountsC
        /\ mountsFresh' = IF depFresh' THEN {Component} ELSE {}
    BY <1>1, MountFollows, MountIsKept
  <1>4. Agree'
    BY <1>1, <1>3, MountIsKept DEF Agree
  <1>5. CopiesCurrent'
    <2>1. depFresh' => depFresh /\ dep' = dep
      BY <1>1, ComponentWrites
    <2>2. dep' = dep => MountWritten = mounts[Component]
      BY <1>1, MountIsKept DEF SharedInv, Agree
    <2> QED BY <1>1, <1>3, <2>1, <2>2, ComponentWrites DEF SharedInv, CopiesCurrent
  <1>6. NoMountNoHash'
    BY <1>1, <1>3, MountIsKept DEF SharedInv, NoMountNoHash
  <1> QED BY <1>2, <1>3, <1>4, <1>5, <1>6 DEF SharedInv

LEMMA KubernetesSteps == SharedInv /\ KubernetesStep => SharedInv'
  <1> SUFFICES ASSUME SharedInv, KubernetesStep
               PROVE  SharedInv'
    OBVIOUS
  <1> DEFINE mount == IF dep' = None THEN None ELSE mounts[Component]
  <1>1. (C!Rollout \/ C!Collect) /\ FollowDeployment(mount) /\ UNCHANGED <<route, queue>>
    BY DEF KubernetesStep
  <1>2. CP!TypeInv'
    BY <1>1, ComponentTyped, SameComponentKubernetes DEF SharedInv, CP!Next
  <1>3. UNCHANGED depC /\ (depFresh' => depFresh /\ dep' = dep)
    <2>1. UNCHANGED depC /\ (UNCHANGED <<dep, depFresh>> \/ \E o : C!WriteDeployment(o))
      BY <1>1 DEF C!Rollout, C!ObserveSpec, C!PodReady, C!OldPodsStop, C!Collect,
                  C!CollectDeployment, C!CollectService, C!caches
    <2>2. ASSUME NEW o, C!WriteDeployment(o), depFresh'
          PROVE  depFresh /\ dep' = dep
      <3>1. depFresh \in BOOLEAN /\ depFresh' \in BOOLEAN
        BY <1>2, SharedInvTypes DEF CP!TypeInv, CP!TypeOK, CP!CopiesTyped
      <3> QED BY <2>2, <3>1 DEF C!WriteDeployment
    <2> QED BY <2>1, <2>2
  <1>4. dep' # None => dep # None /\ dep'.mounted = dep.mounted
    <2>1. CASE C!Rollout
      <3>1. dep \in C!DeploymentObject
        BY <2>1, SharedInvTypes DEF C!Rollout, C!ObserveSpec, C!PodReady, C!OldPodsStop
      <3> QED BY <2>1, <3>1, NoneAssumption
              DEF C!Rollout, C!ObserveSpec, C!PodReady, C!OldPodsStop, C!WriteDeployment,
                  C!Observed, C!DeploymentObject
    <2>2. CASE C!Collect
      BY <2>2 DEF C!Collect, C!CollectDeployment, C!CollectService, C!WriteDeployment
    <2> QED BY <1>1, <2>1, <2>2
  <1>5. mount \in X!DeploymentObject \cup {None}
    BY SharedInvTypes
  <1>6. /\ X!TypeOK' /\ mounts'[Component] = mount /\ mountsC' = mountsC
        /\ mountsFresh' = IF depFresh' THEN {Component} ELSE {}
    BY <1>1, <1>5, MountFollows
  <1>7. Agree'
    BY <1>4, <1>6 DEF SharedInv, Agree
  <1>8. CopiesCurrent' /\ NoMountNoHash'
    BY <1>3, <1>4, <1>6 DEF SharedInv, Agree, CopiesCurrent, NoMountNoHash
  <1> QED BY <1>2, <1>6, <1>7, <1>8 DEF SharedInv

LEMMA ExposerSteps == SharedInv /\ ExposerStep => SharedInv'
  <1> SUFFICES ASSUME SharedInv, ExposerStep
               PROVE  SharedInv'
    OBVIOUS
  <1>1. X!Work \/ \E e \in Exposers : X!Take(e)
    BY DEF ExposerStep
  <1>2. UNCHANGED <<cr, crC, crFresh, depC, svc, svcC, pods, content, queued, pc, copy, held, image, got>>
    BY DEF ExposerStep, componentRest
  <1>3. X!TypeOK'
    BY <1>1, ExposerTyped, SameExposerWork, SameExposerTake, SameExposerTypes DEF SharedInv, XP!Next
  <1>4. CASE mounts' = mounts
    <2>1. UNCHANGED <<dep, depFresh>>
      BY <1>4 DEF ExposerStep
    <2>2. mountsFresh' = mountsFresh /\ mountsC' = mountsC
      <3>1. ASSUME NEW o, o # mounts[Component], X!WriteDeployment(Component, o)
            PROVE  FALSE
        BY <1>4, <3>1, SharedInvTypes DEF X!WriteDeployment
      <3> QED BY <1>1, <3>1, ExposerWrites
    <2>3. CP!TypeInv'
      BY <1>2, <2>1, ComponentTyped DEF SharedInv, CP!vars
    <2> QED BY <1>2, <1>3, <1>4, <2>1, <2>2, <2>3
            DEF SharedInv, Agree, CopiesCurrent, NoMountNoHash
  <1>5. CASE mounts' # mounts
    <2>1. PICK o \in X!DeploymentObject :
            /\ X!WriteDeployment(Component, o) /\ (o.mounted \/ o.hash = None)
            /\ mounts[Component] # None /\ ("Deployment" \in Lagging => Component \in mountsFresh)
            /\ UNCHANGED mountsC
      BY <1>1, <1>5, ExposerWrites
    <2>2. mounts'[Component] = o /\ mountsFresh' = {} /\ o # None /\ o.mounted \in BOOLEAN
      BY <2>1, SharedInvTypes, NoneAssumption
         DEF X!WriteDeployment, X!DeploymentObject, SharedInv, Agree
    <2>3. C!DeploymentRead = dep /\ dep \in C!DeploymentObject
      BY <2>1, SharedInvTypes DEF SharedInv, Agree, CopiesCurrent, C!DeploymentRead, C!Read
    <2> DEFINE new == [dep EXCEPT !.mounted = o.mounted]
    <2>4. new \in C!DeploymentObject /\ new.mounted = o.mounted
      BY <2>2, <2>3 DEF C!DeploymentObject
    <2>5. dep' = C!Unobserved(new) /\ depFresh' = FALSE
      BY <1>5, <2>2, <2>3 DEF ExposerStep
    <2> HIDE DEF new
    <2>6. dep' \in C!DeploymentObject /\ dep'.mounted = o.mounted /\ dep' # None
      BY <2>4, <2>5, SpecOfUnobserved, NoneAssumption
    <2>7. CP!TypeInv'
      <3>1. CP!ApiTyped' /\ CP!CopiesTyped'
        BY <1>2, <2>5, <2>6, SameComponentObjects
           DEF SharedInv, CP!TypeInv, CP!TypeOK, CP!ApiTyped, CP!CopiesTyped
      <3>2. CP!ClusterTyped' /\ CP!CopiesAgree'
        BY <1>2 DEF SharedInv, CP!TypeInv, CP!CopiesAgree, CP!TypeOK, CP!ClusterTyped
      <3>3. CP!WorkerTyped'
        BY <1>2 DEF SharedInv, CP!TypeInv, CP!TypeOK, CP!WorkerTyped
      <3> QED BY <3>1, <3>2, <3>3 DEF CP!TypeInv, CP!TypeOK
    <2> QED BY <1>3, <2>1, <2>2, <2>5, <2>6, <2>7
            DEF SharedInv, Agree, CopiesCurrent, NoMountNoHash
  <1> QED BY <1>4, <1>5

LEMMA SyncSteps == SharedInv /\ Sync => SharedInv'
  <1> SUFFICES ASSUME SharedInv, Sync
               PROVE  SharedInv'
    OBVIOUS
  <1> USE DEF SharedInv
  <1>1. CASE SyncDeployment
    <2>1. C!SyncDeployment /\ UNCHANGED <<exposerRest, mounts, route, queue>> /\ mountsFresh' = {Component}
          /\ mountsC' = IF "Deployment" \in Lagging
                          THEN [mountsC EXCEPT ![Component] = mounts[Component]] ELSE mountsC
      BY <1>1 DEF SyncDeployment, X!Copied
    <2>2. UNCHANGED dep /\ depFresh' = TRUE /\ ("Deployment" \in Lagging => depC' = dep)
      BY <2>1 DEF C!SyncDeployment, C!api
    <2>3. CP!TypeInv'
      BY <2>1, ComponentTyped, SameComponentSync DEF CP!Next
    <2>4. /\ mountsC' \in [{Component} -> X!DeploymentObject \cup {None}]
          /\ "Deployment" \in Lagging => mountsC'[Component] = mounts[Component]
      BY <2>1, SharedInvTypes
    <2>5. X!TypeOK'
      BY <2>1, <2>4 DEF exposerRest, X!TypeOK, X!StoredTyped, X!CopiesTyped, X!WorkerTyped
    <2> QED BY <2>1, <2>2, <2>3, <2>4, <2>5 DEF Agree, CopiesCurrent, NoMountNoHash
  <1>2. CASE SyncComponent \/ SyncService
    <2>1. (C!SyncComponent \/ C!SyncService) /\ UNCHANGED <<exposerRest, mounts, mountsC, mountsFresh>>
      BY <1>2 DEF SyncComponent, SyncService, exposerVars
    <2>2. UNCHANGED <<dep, depC, depFresh>>
      BY <2>1 DEF C!SyncComponent, C!SyncService, C!api
    <2>3. CP!TypeInv'
      BY <2>1, ComponentTyped, SameComponentSync DEF CP!Next
    <2>4. route' \in [Exposers -> {None, "missing"}] /\ queue' \in SUBSET Exposers
      BY <1>2 DEF SyncComponent, SyncService, exposerVars, Route, X!FindExposersForComponent,
                  X!TypeOK, X!WorkerTyped
    <2>5. X!TypeOK'
      BY <2>1, <2>4 DEF exposerRest, X!TypeOK, X!StoredTyped, X!CopiesTyped, X!WorkerTyped
    <2> QED BY <2>1, <2>2, <2>3, <2>5 DEF Agree, CopiesCurrent, NoMountNoHash
  <1>3. CASE SyncConfigMap \/ \E e \in Exposers : SyncExposer(e)
    <2>1. UNCHANGED componentVars /\ XP!Next
      BY <1>3, SameExposerSync DEF SyncConfigMap, SyncExposer, XP!Next, XP!Sync
    <2>2. UNCHANGED <<mounts, mountsC, mountsFresh>>
      BY <1>3 DEF SyncConfigMap, SyncExposer, X!SyncConfigMap, X!SyncExposer, X!api
    <2>3. X!TypeOK'
      BY <2>1, ExposerTyped, SameExposerTypes
    <2>4. CP!TypeInv'
      BY <2>1, ComponentTyped DEF componentVars, componentRest, CP!vars
    <2> QED BY <2>1, <2>2, <2>3, <2>4
            DEF componentVars, componentRest, Agree, CopiesCurrent, NoMountNoHash
  <1> QED BY <1>1, <1>2, <1>3 DEF Sync

LEMMA UserSteps == SharedInv /\ Users => SharedInv'
  <1> SUFFICES ASSUME SharedInv, Users
               PROVE  SharedInv'
    OBVIOUS
  <1> USE DEF SharedInv
  <1>1. CASE ChangeComponent
    <2>1. PICK i \in Images : C!Edit(i)
      BY <1>1 DEF ChangeComponent
    <2>2. UNCHANGED <<dep, depC, depFresh>>
      BY <2>1 DEF C!Edit, C!UserWrites
    <2>3. CP!TypeInv'
      BY <2>1, ComponentTyped, SameComponentEdit DEF CP!Next, CP!Disturb
    <2>4. UNCHANGED <<exposerRest, mounts, mountsC, mountsFresh, queue>>
          /\ route' \in [Exposers -> {None, "missing"}]
      BY <1>1 DEF ChangeComponent, Route
    <2>5. X!TypeOK'
      BY <2>4 DEF exposerRest, X!TypeOK, X!StoredTyped, X!CopiesTyped, X!WorkerTyped
    <2> QED BY <2>2, <2>3, <2>4, <2>5 DEF Agree, CopiesCurrent, NoMountNoHash
  <1>2. CASE ChangeExposer
    <2>1. PICK e \in Exposers : X!Delete(e)
      BY <1>2 DEF ChangeExposer
    <2>2. UNCHANGED componentVars /\ UNCHANGED <<mounts, mountsC, mountsFresh>>
      BY <1>2, <2>1 DEF ChangeExposer, X!Delete, X!UserWrites
    <2>3. X!TypeOK'
      BY <2>1, ExposerTyped, SameExposerTypes, SameExposerDelete DEF XP!Next, XP!Disturb
    <2>4. CP!TypeInv'
      BY <2>2, ComponentTyped DEF componentVars, componentRest, CP!vars
    <2> QED BY <2>2, <2>3, <2>4
            DEF componentVars, componentRest, Agree, CopiesCurrent, NoMountNoHash
  <1> QED BY <1>1, <1>2 DEF Users

LEMMA SharedInvStep == SharedInv /\ [Next]_vars => SharedInv'
  <1>1. SharedInv /\ UNCHANGED vars => SharedInv'
    <2> SUFFICES ASSUME SharedInv, UNCHANGED vars
                 PROVE  SharedInv'
      OBVIOUS
    <2>1. CP!TypeInv'
      BY ComponentTyped DEF SharedInv, vars, componentVars, componentRest, CP!vars
    <2>2. X!TypeOK'
      BY DEF SharedInv, vars, exposerVars, exposerRest, X!TypeOK, X!StoredTyped, X!CopiesTyped,
             X!WorkerTyped
    <2> QED BY <2>1, <2>2
            DEF SharedInv, vars, componentVars, componentRest, exposerVars, Agree, CopiesCurrent,
                NoMountNoHash
  <1> QED BY <1>1, ComponentSteps, KubernetesSteps, ExposerSteps, SyncSteps, UserSteps
          DEF Next, Controllers

\* Both controllers' objects, copies and workers are of their types, and both see the
\* same Deployment, for any exposers, images, outdated copies and number of changes.
THEOREM TypeCorrect == Spec => []TypeOK
  <1>1. SharedInv => TypeOK
    BY SharedInvTypes DEF SharedInv, TypeOK
  <1> QED BY <1>1, SharedInvInit, SharedInvStep, PTL DEF Spec

-----------------------------------------------------------------------------
(* No update is lost. *)

LEMMA ComponentLeavesMount ==
    ASSUME SharedInv, ComponentStep, dep # None
    PROVE  mounts' = mounts
  <1>1. MountWritten = mounts[Component] /\ MountWritten \in X!DeploymentObject \cup {None}
    BY MountIsKept DEF ComponentStep
  <1> QED BY <1>1, MountFollows DEF ComponentStep

LEMMA ExposerLeavesImage ==
    ASSUME SharedInv, ExposerStep, dep # None
    PROVE  dep'.img = dep.img
  <1>1. CASE mounts' = mounts
    BY <1>1 DEF ExposerStep
  <1>2. CASE mounts' # mounts
    <2>1. X!Work \/ \E e \in Exposers : X!Take(e)
      BY DEF ExposerStep
    <2>2. "Deployment" \in Lagging => Component \in mountsFresh
      BY <1>2, <2>1, ExposerWrites
    <2>3. C!DeploymentRead = dep /\ dep \in C!DeploymentObject
      BY <2>2, SharedInvTypes DEF SharedInv, Agree, CopiesCurrent, C!DeploymentRead, C!Read
    <2>4. mounts'[Component].mounted \in BOOLEAN
      <3>1. PICK o \in X!DeploymentObject : X!WriteDeployment(Component, o)
        BY <1>2, <2>1, ExposerWrites
      <3> QED BY <3>1, SharedInvTypes DEF X!WriteDeployment, X!DeploymentObject
    <2> DEFINE new == [dep EXCEPT !.mounted = mounts'[Component].mounted]
    <2>5. new \in C!DeploymentObject /\ new.img = dep.img
      BY <2>3, <2>4 DEF C!DeploymentObject
    <2>6. dep' = C!Unobserved(new)
      BY <1>2, <2>3 DEF ExposerStep
    <2> HIDE DEF new
    <2> QED BY <2>5, <2>6, SpecOfUnobserved
  <1> QED BY <1>1, <1>2

\* Who moves which worker.
LEMMA WorkersMove ==
    ASSUME [Next]_vars
    PROVE  /\ pc' # pc => ComponentStep
           /\ step' # step => ExposerStep
  <1>1. ComponentStep \/ KubernetesStep => step' = step
    BY DEF ComponentStep, KubernetesStep, FollowDeployment, exposerRest
  <1>2. KubernetesStep => pc' = pc
    BY DEF KubernetesStep, C!Rollout, C!ObserveSpec, C!PodReady, C!OldPodsStop, C!Collect,
           C!CollectDeployment, C!CollectService, C!worker
  <1>3. ExposerStep => pc' = pc
    BY DEF ExposerStep, componentRest
  <1>4. Sync => pc' = pc /\ step' = step
    BY DEF Sync, SyncDeployment, SyncComponent, SyncService, SyncExposer, SyncConfigMap,
           C!SyncDeployment, C!SyncComponent, C!SyncService, C!worker,
           X!SyncExposer, X!SyncConfigMap, X!worker,
           componentVars, componentRest, exposerVars, exposerRest
  <1>5. Users => pc' = pc /\ step' = step
    BY DEF Users, ChangeComponent, ChangeExposer, C!Edit, C!UserWrites, X!Delete, X!UserWrites,
           componentVars, componentRest, exposerRest
  <1>6. UNCHANGED vars => pc' = pc /\ step' = step
    BY DEF vars, componentVars, componentRest, exposerVars, exposerRest
  <1> QED BY <1>1, <1>2, <1>3, <1>4, <1>5, <1>6 DEF Next, Controllers

\* A step of the component controller leaves the mount alone and one of the exposer
\* controller the image, for any exposers and images, however old the copies they work
\* from (deployment_update.go:107-171, scalityuicomponent/controller.go:145-190).
THEOREM NoUpdateIsLost == Spec => NoLostUpdate
  <1>1. SharedInv /\ [Next]_vars =>
          /\ pc' # pc /\ dep # None /\ dep' # None => mounts' = mounts
          /\ step' # step /\ dep # None => dep'.img = dep.img
    BY ComponentLeavesMount, ExposerLeavesImage, WorkersMove
  <1> QED BY <1>1, SharedInvInit, SharedInvStep, PTL DEF Spec, NoLostUpdate

-----------------------------------------------------------------------------
(* What it needs that neither controller rests too early. *)

\* What the component controller reads of the Service is the informer's copy.
ServiceIsCached == "Service" \in Lagging

-----------------------------------------------------------------------------
(* The component controller rests as it does alone. *)

LEMMA ComponentRests ==
    ServiceIsCached /\ CP!RestInv /\ [CP!Next]_(CP!vars) => CP!RestInv'
  BY CP!RestInvStep, ConfigsAssumption, NoneAssumption, SameComponentObjects
     DEF ServiceIsCached, CP!ServiceIsCached

LEMMA ComponentRestsInit == CP!Init => CP!RestInv
  BY CP!RestInvInit, ConfigsAssumption, NoneAssumption, SameComponentObjects

\* A write of the Deployment that is not its own makes the controller due.
LEMMA ComponentRestStep ==
    ASSUME ServiceIsCached, SharedInv, CP!RestInv, [Next]_vars
    PROVE  CP!RestInv'
  <1>1. CASE ComponentStep \/ KubernetesStep
    BY <1>1, ComponentRests, SameComponentTake, SameComponentWork, SameComponentKubernetes
       DEF ComponentStep, KubernetesStep, CP!Next
  <1>2. CASE SyncDeployment \/ SyncComponent \/ SyncService
    BY <1>2, ComponentRests, SameComponentSync DEF SyncDeployment, SyncComponent, SyncService, CP!Next
  <1>3. CASE ChangeComponent
    BY <1>3, ComponentRests, SameComponentEdit DEF ChangeComponent, CP!Next, CP!Disturb
  <1>4. CASE UNCHANGED componentVars
    BY <1>4, ComponentRests DEF componentVars, componentRest, CP!vars
  <1>5. CASE ExposerStep /\ mounts' # mounts
    <2>1. UNCHANGED componentRest /\ depFresh' = FALSE
      BY <1>5 DEF ExposerStep
    <2>2. CP!TypeInv'
      BY ExposerSteps, <1>5 DEF SharedInv
    <2>4. CP!DeploymentsAgree' /\ CP!ServicesAgree'
      BY <2>1 DEF componentRest, CP!RestInv, CP!DeploymentsAgree, CP!ServicesAgree
    <2>5. CP!WorkerKnows'
      BY <2>1 DEF componentRest, CP!RestInv, CP!WorkerKnows, CP!Alone, CP!AsksPods
    <2>6. CP!RestKnows'
      BY <2>1 DEF componentRest, CP!RestInv, CP!RestKnows, CP!Alone
    <2> QED BY <2>2, <2>4, <2>5, <2>6 DEF CP!RestInv
  <1>6. ExposerStep /\ mounts' = mounts => UNCHANGED componentVars
    BY DEF ExposerStep, componentVars
  <1>7. \/ SyncConfigMap \/ (\E e \in Exposers : SyncExposer(e)) \/ ChangeExposer \/ UNCHANGED vars
        => UNCHANGED componentVars
    BY DEF SyncConfigMap, SyncExposer, ChangeExposer, vars
  <1> QED BY <1>1, <1>2, <1>3, <1>4, <1>5, <1>6, <1>7 DEF Next, Controllers, Sync, Users

-----------------------------------------------------------------------------
(* The component, its copies, and whose the Deployment is. *)

\* Nobody deletes the component: no copy is of one that is gone, and the exposer
\* controller finds it.
ComponentStays ==
    /\ cr # None
    /\ crC # None => ~crC.gone
    /\ copy # None => ~copy.gone
    /\ C!ComponentRead # None /\ \A e \in Exposers : route[e] = None

Own(d) == d # None /\ ~d.old

GoesOn == pc \notin {"idle", "deployment"} \/ cr.last # None

IsAsked == pc \in {"fetch", "record", "clear"} \/ cr.last # None

\* A component whose image was fetched, or is going to be, has a Deployment of its own, and
\* the copy that is read of it, if there is one, is of that Deployment.
OwnDeployment ==
    /\ GoesOn => Own(dep) /\ (C!DeploymentRead # None => Own(C!DeploymentRead))
    /\ IsAsked => C!DeploymentRead # None
    /\ "Deployment" \in Lagging /\ Own(depC) => Own(dep)

OwnerInv == ComponentStays /\ OwnDeployment

LEMMA OwnerInit == Init => OwnerInv
  <1> SUFFICES ASSUME Init
               PROVE  OwnerInv
    OBVIOUS
  <1>1. PICK i \in Images : cr = C!NewComponent(i)
    BY DEF Init, C!Init
  <1>2. cr \in C!ComponentObject /\ cr.last = None /\ ~cr.gone
    BY <1>1 DEF C!NewComponent, C!ComponentObject
  <1>3. cr # None
    BY <1>2, NoneAssumption
  <1>4. C!ComponentRead # None
    BY <1>3 DEF Init, C!Init, C!ComponentRead, C!Read
  <1> QED BY <1>2, <1>3, <1>4
          DEF Init, C!Init, Route, OwnerInv, ComponentStays, OwnDeployment, GoesOn, IsAsked, Own

LEMMA RecordedKeeps ==
    ASSUME NEW o \in C!ComponentObject, NEW i \in Images, NEW body \in C!Answers
    PROVE  C!Recorded(o, i, body) \in C!ComponentObject /\ C!Recorded(o, i, body).gone = o.gone
  BY DEF C!Recorded, C!ComponentObject, C!Answers, C!Bodies, C!Reasons

\* What is written over the component is a component.
LEMMA ComponentWritten ==
    ASSUME SharedInv, OwnerInv, [Next]_vars
    PROVE  /\ cr' # None
           /\ cr'.last # None => cr.last # None \/ pc = "record"
           /\ copy' # None => ~copy'.gone
           /\ crC' # None => ~crC'.gone
           /\ crC' = crC \/ crC' = cr
  <1>0. /\ cr \in C!ComponentObject /\ ~cr.gone /\ None \notin C!ComponentObject
        /\ pc # "idle" => copy \in C!ComponentObject
        /\ C!ComponentRead # None => ~C!ComponentRead.gone
    BY SharedInvTypes, NoneAssumption
       DEF OwnerInv, ComponentStays, C!TypeOK, C!ApiTyped, C!WorkerTyped, C!ComponentRead, C!Read
  <1>1. CASE C!ParseAndApplyConfig
    <2>1. got \in C!Answers /\ image \in Images /\ pc = "record"
      BY <1>1, SharedInvTypes DEF C!ParseAndApplyConfig, C!TypeOK, C!WorkerTyped
    <2>2. C!Recorded(copy, image, got) # None
      BY <1>0, <2>1, RecordedKeeps
    <2>3. cr' = cr \/ cr' = C!Recorded(copy, image, got)
      BY <1>1 DEF C!ParseAndApplyConfig, C!WriteComponent
    <2>4. copy' = copy \/ copy' = None
      BY <1>1 DEF C!ParseAndApplyConfig, C!AfterStatus, C!Retry, C!Finish, C!GoTo
    <2> QED BY <1>0, <1>1, <2>1, <2>2, <2>3, <2>4
            DEF C!ParseAndApplyConfig, OwnerInv, ComponentStays
  <1>2. CASE C!RemoveForceRefreshAnnotation
    <2>1. cr' = cr \/ cr' = [cr EXCEPT !.force = FALSE]
      BY <1>2 DEF C!RemoveForceRefreshAnnotation, C!WriteComponent
    <2>2. cr' \in C!ComponentObject /\ cr'.last = cr.last
      BY <1>0, <2>1 DEF C!ComponentObject
    <2>3. copy' = None
      BY <1>2 DEF C!RemoveForceRefreshAnnotation, C!EndAfter, C!Done, C!Retry, C!Finish
    <2> QED BY <1>0, <1>2, <2>2, <2>3 DEF C!RemoveForceRefreshAnnotation, OwnerInv, ComponentStays
  <1>3. CASE C!Take
    BY <1>0, <1>3 DEF C!Take, C!Reconcile, C!ReconcileNotFound, C!api, C!caches, C!worker,
                      OwnerInv, ComponentStays
  <1>4. CASE C!Work /\ ~C!ParseAndApplyConfig /\ ~C!RemoveForceRefreshAnnotation
    <2>1. UNCHANGED <<cr, crC>> /\ (copy' = copy \/ copy' = None)
      BY <1>4 DEF C!Work, C!CreateDeployment, C!UpdateDeployment, C!CreateOrUpdateService,
                  C!ProcessUIComponentConfig, C!FetchConfig, C!Done, C!Retry, C!Finish, C!GoTo,
                  C!api, C!caches
    <2> QED BY <1>0, <2>1 DEF OwnerInv, ComponentStays
  <1>5. CASE \E i \in Images : C!Edit(i)
    <2>1. PICK i \in Images : cr' = [cr EXCEPT !.img = i] /\ UNCHANGED <<crC, copy>>
      BY <1>5 DEF C!Edit, C!UserWrites, C!WriteComponent
    <2>2. cr' \in C!ComponentObject /\ cr'.last = cr.last
      BY <1>0, <2>1 DEF C!ComponentObject
    <2> QED BY <1>0, <2>1, <2>2 DEF OwnerInv, ComponentStays
  <1>6. CASE \/ C!Rollout \/ C!Collect \/ C!SyncComponent \/ C!SyncDeployment \/ C!SyncService
             \/ UNCHANGED <<cr, crC, copy>>
    BY <1>0, <1>6
       DEF C!Rollout, C!ObserveSpec, C!PodReady, C!OldPodsStop, C!Collect, C!CollectDeployment,
           C!CollectService, C!SyncComponent, C!SyncDeployment, C!SyncService, C!api, C!caches,
           C!worker, OwnerInv, ComponentStays
  <1>7. \/ ExposerStep \/ SyncConfigMap \/ (\E e \in Exposers : SyncExposer(e)) \/ ChangeExposer
        \/ UNCHANGED vars
        => UNCHANGED <<cr, crC, copy>>
    BY DEF ExposerStep, SyncConfigMap, SyncExposer, ChangeExposer, vars, componentVars, componentRest
  <1>8. /\ ComponentStep => C!Take \/ C!Work
        /\ KubernetesStep => C!Rollout \/ C!Collect
        /\ SyncDeployment \/ SyncComponent \/ SyncService =>
              C!SyncComponent \/ C!SyncDeployment \/ C!SyncService
        /\ ChangeComponent => \E i \in Images : C!Edit(i)
    BY DEF ComponentStep, KubernetesStep, SyncDeployment, SyncComponent, SyncService, ChangeComponent
  <1> QED BY <1>1, <1>2, <1>3, <1>4, <1>5, <1>6, <1>7, <1>8 DEF Next, Controllers, Sync, Users

LEMMA ComponentStaysStep ==
    ASSUME SharedInv, OwnerInv, [Next]_vars
    PROVE  ComponentStays'
  <1>1. C!ComponentRead' # None
    BY ComponentWritten DEF OwnerInv, ComponentStays, C!ComponentRead, C!Read
  <1>2. route' = route \/ route' = Route'
    BY DEF Next, Controllers, ComponentStep, KubernetesStep, Sync, SyncDeployment, SyncComponent,
           SyncService, Users, ChangeComponent, ExposerStep, SyncConfigMap, SyncExposer,
           ChangeExposer, vars, exposerVars, X!SyncConfigMap, X!SyncExposer, X!Delete, X!UserWrites,
           X!Take, X!Reconcile, X!ReconcileNotFound, X!Work, X!EnsureFinalizer, X!ReadAgain,
           X!ValidateDependencies, X!HandleDependencyError, X!SkipConfigMap, X!ReconcileConfigMap,
           X!SkipDeployment, X!UpdateComponentDeployment, X!SkipIngress, X!BuildIngress,
           X!ReconcileIngress, X!UpdateStatus, X!RemoveVolumeFromDeployment, X!CleanupConfigMap,
           X!DeleteEmptyMap, X!RemoveExposerFinalizer
  <1>3. \A e \in Exposers : route'[e] = None
    BY <1>1, <1>2 DEF OwnerInv, ComponentStays, Route
  <1> QED BY <1>1, <1>3, ComponentWritten DEF ComponentStays

-----------------------------------------------------------------------------
(* What happens to the Deployment, as both controllers see it. *)

DeploymentKept ==
    /\ dep' = None <=> dep = None
    /\ dep # None => dep'.old = dep.old
    /\ UNCHANGED <<depC, mounts, mountsC>>

DeploymentSynced ==
    /\ UNCHANGED <<exposerRest, dep, mounts>>
    /\ "Deployment" \in Lagging => depC' = dep /\ mountsC'[Component] = mounts[Component]

DeploymentCreated ==
    /\ pc = "deployment" /\ dep = None /\ C!DeploymentRead = None
    /\ Own(dep') /\ mounts'[Component] # None /\ ~mounts'[Component].mounted
    /\ UNCHANGED <<exposerRest, depC, mountsC>>

DeploymentCollected ==
    /\ dep # None /\ dep.old
    /\ dep' = None /\ mounts'[Component] = None
    /\ UNCHANGED <<exposerRest, depC, mountsC>>

\* The exposer controller writes what is stored and, if copies lag, cached.
MountWrite ==
    /\ dep # None /\ dep' # None /\ dep'.old = dep.old
    /\ mounts[Component] # None
    /\ "Deployment" \in Lagging => mountsC[Component] = mounts[Component] /\ depC = dep
    /\ UNCHANGED <<depC, mountsC>>

MapMounted ==
    /\ X!UpdateComponentDeployment /\ MountWrite /\ step' = "ingress"
    /\ X!NeedsMount(mounts[Component], hash)
    /\ mounts'[Component] = X!Mounted(mounts[Component], hash)

MapUnmounted ==
    /\ X!RemoveVolumeFromDeployment /\ MountWrite /\ step' = "cleanup"
    /\ mounts[Component].mounted
    /\ mounts'[Component] = X!Unmounted(mounts[Component])

LEMMA ComponentFollowed ==
    ASSUME SharedInv, ComponentStep
    PROVE  /\ mounts'[Component] = MountWritten
           /\ UNCHANGED <<mountsC, exposerRest>> /\ (dep' = dep => mounts' = mounts)
  <1>1. FollowDeployment(MountWritten) /\ UNCHANGED <<route, queue>>
        /\ MountWritten \in X!DeploymentObject \cup {None}
    BY MountIsKept DEF ComponentStep
  <1>2. dep' = dep => MountWritten = mounts[Component]
    BY DEF MountWritten
  <1> QED BY <1>1, <1>2, MountFollows DEF FollowDeployment

LEMMA Creation ==
    ASSUME SharedInv, OwnerInv, ComponentStep, C!CreateDeployment, dep = None
    PROVE  DeploymentCreated
  <1> DEFINE d == [img |-> copy.img, mounted |-> FALSE, observed |-> FALSE, ready |-> FALSE,
                   updated |-> TRUE, old |-> copy.gone]
  <1>1. copy \in C!ComponentObject /\ copy # None
    BY SharedInvTypes, NoneAssumption DEF C!CreateDeployment, C!TypeOK, C!WorkerTyped
  <1>2. d \in C!DeploymentObject /\ ~d.old /\ ~d.mounted
    BY <1>1 DEF OwnerInv, ComponentStays, C!DeploymentObject, C!ComponentObject
  <1>3. dep' = C!Unobserved(d)
    BY DEF C!CreateDeployment, C!WriteDeployment, C!NewDeployment
  <1> HIDE DEF d
  <1>4. dep' \in C!DeploymentObject /\ ~dep'.old /\ ~dep'.mounted
    BY <1>2, <1>3 DEF C!Unobserved, C!Observed, C!DeploymentObject
  <1>5. dep' # None
    BY <1>4, NoneAssumption
  <1>6. mounts'[Component] = [mounted |-> FALSE, hash |-> None]
    BY <1>4, <1>5, ComponentFollowed DEF MountWritten
  <1>7. [mounted |-> FALSE, hash |-> None].mounted = FALSE
        /\ [mounted |-> FALSE, hash |-> None] \in X!DeploymentObject
    BY DEF X!DeploymentObject
  <1>8. mounts'[Component] # None /\ ~mounts'[Component].mounted
    BY <1>6, <1>7, NoneAssumption
  <1> QED BY <1>4, <1>5, <1>8, ComponentFollowed DEF C!CreateDeployment, DeploymentCreated, Own

LEMMA DeploymentOfComponent ==
    ASSUME SharedInv, OwnerInv, ComponentStep
    PROVE  DeploymentKept \/ DeploymentCreated
  <1>0. /\ None \notin C!DeploymentObject /\ mounts'[Component] = MountWritten
        /\ UNCHANGED <<mountsC, exposerRest>> /\ (dep' = dep => mounts' = mounts)
    BY NoneAssumption, ComponentFollowed
  <1>1. CASE C!CreateDeployment
    <2>1. CASE dep = None
      BY <1>1, <2>1, Creation
    <2>2. CASE dep # None
      BY <1>0, <1>1, <2>2 DEF C!CreateDeployment, DeploymentKept
    <2> QED BY <2>1, <2>2
  <1>2. CASE C!UpdateDeployment
    <2>1. CASE dep' = dep
      BY <1>0, <1>2, <2>1 DEF C!UpdateDeployment, DeploymentKept
    <2>2. CASE dep' # dep
      <3> DEFINE seen == C!DeploymentRead
      <3>1. /\ seen # None /\ C!IsCurrent("Deployment", depFresh)
            /\ dep' = C!WithImage(seen, copy.img)
        BY <1>2, <2>2 DEF C!UpdateDeployment, C!WriteDeployment
      <3>2. seen = dep /\ dep \in C!DeploymentObject
        BY <3>1, SharedInvTypes DEF SharedInv, CopiesCurrent, C!DeploymentRead, C!Read, C!IsCurrent
      <3>3. copy \in C!ComponentObject
        BY <1>2, SharedInvTypes DEF C!UpdateDeployment, C!TypeOK, C!WorkerTyped
      <3>4. dep' \in C!DeploymentObject /\ dep'.old = dep.old
        <4> DEFINE d == [dep EXCEPT !.img = copy.img]
        <4>1. d \in C!DeploymentObject /\ d.old = dep.old
          BY <3>2, <3>3 DEF C!DeploymentObject, C!ComponentObject
        <4>2. dep' = C!Unobserved(d)
          BY <2>2, <3>1, <3>2 DEF C!WithImage
        <4> HIDE DEF d
        <4> QED BY <4>1, <4>2 DEF C!Unobserved, C!Observed, C!DeploymentObject
      <3>5. mounts' = mounts
        BY <1>0, <3>1, <3>2, ComponentLeavesMount
      <3> QED BY <1>0, <1>2, <3>1, <3>2, <3>4, <3>5 DEF C!UpdateDeployment, DeploymentKept
    <2> QED BY <2>1, <2>2
  <1>3. CASE C!Take \/ (C!Work /\ ~C!CreateDeployment /\ ~C!UpdateDeployment)
    <2>1. UNCHANGED <<dep, depC>>
      BY <1>3 DEF C!Take, C!Reconcile, C!ReconcileNotFound, C!Work, C!CreateOrUpdateService,
                  C!ProcessUIComponentConfig, C!FetchConfig, C!ParseAndApplyConfig,
                  C!RemoveForceRefreshAnnotation, C!api, C!caches
    <2> QED BY <1>0, <2>1 DEF DeploymentKept
  <1> QED BY <1>1, <1>2, <1>3 DEF ComponentStep

LEMMA DeploymentOfKubernetes ==
    ASSUME SharedInv, KubernetesStep
    PROVE  DeploymentKept \/ DeploymentCollected
  <1> DEFINE mount == IF dep' = None THEN None ELSE mounts[Component]
  <1>1. (C!Rollout \/ C!Collect) /\ FollowDeployment(mount) /\ UNCHANGED <<route, queue>>
    BY DEF KubernetesStep
  <1>2. /\ mounts'[Component] = mount /\ UNCHANGED <<mountsC, exposerRest>>
        /\ mount = mounts[Component] => mounts' = mounts
    BY <1>1, SharedInvTypes, MountFollows DEF FollowDeployment
  <1>3. CASE C!Rollout
    <2>1. dep # None /\ dep \in C!DeploymentObject /\ UNCHANGED depC
      BY <1>3, SharedInvTypes DEF C!Rollout, C!ObserveSpec, C!PodReady, C!OldPodsStop
    <2>2. dep' \in C!DeploymentObject /\ dep'.old = dep.old
      BY <1>3, <2>1 DEF C!Rollout, C!ObserveSpec, C!PodReady, C!OldPodsStop, C!WriteDeployment,
                        C!Observed, C!DeploymentObject
    <2>3. dep' # None
      BY <2>2, NoneAssumption
    <2> QED BY <1>2, <2>1, <2>2, <2>3 DEF DeploymentKept
  <1>4. CASE C!CollectDeployment
    BY <1>2, <1>4 DEF C!CollectDeployment, C!WriteDeployment, DeploymentCollected
  <1>5. CASE C!CollectService
    <2>1. UNCHANGED <<dep, depC>>
      BY <1>5 DEF C!CollectService, C!caches
    <2>2. mount = mounts[Component]
      BY <2>1 DEF SharedInv, Agree
    <2> QED BY <1>2, <2>1, <2>2 DEF DeploymentKept
  <1> QED BY <1>1, <1>3, <1>4, <1>5 DEF C!Collect

LEMMA DeploymentOfExposer ==
    ASSUME SharedInv, ExposerStep
    PROVE  DeploymentKept \/ MapMounted \/ MapUnmounted
  <1>1. X!Work \/ \E e \in Exposers : X!Take(e)
    BY DEF ExposerStep
  <1>2. UNCHANGED <<depC, mountsC>>
    BY <1>1, ExposerWrites DEF ExposerStep, componentRest
  <1>3. CASE mounts' = mounts
    BY <1>2, <1>3 DEF ExposerStep, DeploymentKept
  <1>4. CASE mounts' # mounts
    <2>1. "Deployment" \in Lagging => Component \in mountsFresh /\ depFresh
      BY <1>1, <1>4, ExposerWrites DEF SharedInv, Agree
    <2>2. mounts[Component] # None /\ dep # None
      BY <1>1, <1>4, ExposerWrites DEF SharedInv, Agree
    <2>3. /\ C!DeploymentRead = dep /\ X!DeploymentRead(Component) = mounts[Component]
          /\ "Deployment" \in Lagging => mountsC[Component] = mounts[Component] /\ depC = dep
      BY <2>1 DEF SharedInv, CopiesCurrent, C!DeploymentRead, C!Read, X!DeploymentRead
    <2>4. dep \in C!DeploymentObject
      BY <2>2, SharedInvTypes
    <2>5. mounts'[Component].mounted \in BOOLEAN
      <3>1. PICK o \in X!DeploymentObject : X!WriteDeployment(Component, o)
        BY <1>1, <1>4, ExposerWrites
      <3> QED BY <3>1, SharedInvTypes DEF X!WriteDeployment, X!DeploymentObject
    <2>6. dep' # None /\ dep'.old = dep.old
      <3> DEFINE new == [dep EXCEPT !.mounted = mounts'[Component].mounted]
      <3>1. new \in C!DeploymentObject /\ new.old = dep.old
        BY <2>4, <2>5 DEF C!DeploymentObject
      <3>2. dep' = C!Unobserved(new)
        BY <1>4, <2>3 DEF ExposerStep
      <3> HIDE DEF new
      <3>3. dep' \in C!DeploymentObject /\ dep'.old = dep.old
        BY <3>1, <3>2 DEF C!Unobserved, C!Observed, C!DeploymentObject
      <3> QED BY <3>3, NoneAssumption
    <2>7. MountWrite
      BY <1>2, <2>2, <2>3, <2>6 DEF MountWrite
    <2>8. step # "idle" => exposer.comp = Component
      BY DEF SharedInv, X!TypeOK, X!WorkerTyped, X!ExposerObject
    <2>9. X!UpdateComponentDeployment \/ X!RemoveVolumeFromDeployment
      BY <1>1, <1>4
         DEF X!Take, X!Reconcile, X!ReconcileNotFound, X!Work, X!EnsureFinalizer, X!ReadAgain,
             X!ValidateDependencies, X!HandleDependencyError, X!SkipConfigMap,
             X!ReconcileConfigMap, X!SkipDeployment, X!SkipIngress, X!BuildIngress,
             X!ReconcileIngress, X!UpdateStatus, X!CleanupConfigMap, X!DeleteEmptyMap,
             X!RemoveExposerFinalizer, X!api, X!caches
    <2>10. CASE X!UpdateComponentDeployment
      <3>1. /\ X!NeedsMount(mounts[Component], hash) /\ step' = "ingress"
            /\ mounts' = [mounts EXCEPT ![Component] = X!Mounted(mounts[Component], hash)]
        BY <1>4, <2>3, <2>8, <2>10 DEF X!UpdateComponentDeployment, X!WriteDeployment
      <3> QED BY <2>7, <2>10, <3>1, SharedInvTypes DEF MapMounted
    <2>11. CASE X!RemoveVolumeFromDeployment
      <3>1. /\ mounts[Component].mounted /\ step' = "cleanup"
            /\ mounts' = [mounts EXCEPT ![Component] = X!Unmounted(mounts[Component])]
        BY <1>4, <2>3, <2>8, <2>11 DEF X!RemoveVolumeFromDeployment, X!WriteDeployment, X!GoTo
      <3> QED BY <2>7, <2>11, <3>1, SharedInvTypes DEF MapUnmounted
    <2> QED BY <2>9, <2>10, <2>11
  <1> QED BY <1>3, <1>4

LEMMA DeploymentMoves ==
    ASSUME SharedInv, OwnerInv, [Next]_vars
    PROVE  \/ DeploymentKept \/ DeploymentSynced
           \/ ComponentStep /\ DeploymentCreated
           \/ KubernetesStep /\ DeploymentCollected
           \/ ExposerStep /\ (MapMounted \/ MapUnmounted)
  <1>1. CASE SyncDeployment
    BY <1>1, SharedInvTypes
       DEF SyncDeployment, C!SyncDeployment, C!api, X!Copied, DeploymentSynced
  <1>2. CASE SyncComponent \/ SyncService \/ ChangeComponent
    BY <1>2 DEF SyncComponent, SyncService, ChangeComponent, C!SyncComponent, C!SyncService, C!Edit,
                C!UserWrites, C!api, exposerVars, DeploymentKept
  <1>3. CASE SyncConfigMap \/ (\E e \in Exposers : SyncExposer(e)) \/ ChangeExposer
    BY <1>3 DEF SyncConfigMap, SyncExposer, ChangeExposer, X!SyncConfigMap, X!SyncExposer, X!Delete,
                X!UserWrites, X!api, componentVars, componentRest, DeploymentKept
  <1>4. CASE UNCHANGED vars
    BY <1>4 DEF vars, componentVars, componentRest, exposerVars, DeploymentKept
  <1> QED BY <1>1, <1>2, <1>3, <1>4, DeploymentOfComponent, DeploymentOfKubernetes,
             DeploymentOfExposer DEF Next, Controllers, Sync, Users

\* The component controller goes on only with a Deployment of its own, and asks only the
\* pods of one.
LEMMA GoesOnWithOwn ==
    ASSUME SharedInv, OwnerInv, ComponentStep
    PROVE  /\ pc' \notin {"idle", "deployment"} /\ pc = "deployment" =>
                 \/ DeploymentCreated
                 \/ DeploymentKept /\ C!DeploymentRead # None /\ ~C!DeploymentRead.old
           /\ pc' \notin {"idle", "deployment"} => pc # "idle"
           /\ pc' \in {"fetch", "record", "clear"} /\ pc \notin {"fetch", "record", "clear"} =>
                 pc = "check" /\ C!DeploymentRead # None
  <1>1. C!Take \/ C!Work
    BY DEF ComponentStep
  <1>2. CASE C!CreateDeployment
    <2>1. C!CreateDeployment /\ pc = "deployment" /\ (pc' = "service" \/ pc' = "idle")
      BY <1>2 DEF C!CreateDeployment, C!GoTo, C!Retry, C!Finish
    <2>2. pc' = "service" => DeploymentCreated
      <3>1. pc' = "service" => dep = None
        BY <1>2 DEF C!CreateDeployment, C!Retry, C!Finish
      <3> QED BY <1>2, <3>1, Creation
    <2> QED BY <2>1, <2>2
  <1>3. CASE C!UpdateDeployment
    <2>1. pc = "deployment" /\ (pc' = "service" \/ pc' = "idle") /\ C!DeploymentRead # None
      BY <1>3 DEF C!UpdateDeployment, C!GoTo, C!Retry, C!Finish
    <2>2. copy # None
      BY <2>1, SharedInvTypes, NoneAssumption DEF C!TypeOK, C!WorkerTyped
    <2>3. pc' = "service" => ~C!DeploymentRead.old
      <3>1. copy \in C!ComponentObject /\ ~copy.gone
        BY <2>1, <2>2, SharedInvTypes DEF OwnerInv, ComponentStays, C!TypeOK, C!WorkerTyped
      <3>2. C!DeploymentRead.old \in BOOLEAN /\ copy.gone = FALSE
        BY <2>1, <3>1, SharedInvTypes DEF C!DeploymentRead, C!Read, C!DeploymentObject, C!ComponentObject
      <3>3. pc' = "service" => FALSE \in C!Refusals(C!DeploymentRead.old)
        BY <1>3 DEF C!UpdateDeployment, C!Refusals, C!Retry, C!Finish
      <3> QED BY <3>2, <3>3 DEF C!Refusals
    <2>4. DeploymentKept
      BY <2>1, DeploymentOfComponent DEF DeploymentCreated
    <2> QED BY <2>1, <2>3, <2>4
  <1>4. CASE C!ProcessUIComponentConfig
    BY <1>4 DEF C!ProcessUIComponentConfig, C!RolledOut, C!Retry, C!Done, C!Finish
  <1>5. CASE C!Take \/ C!CreateOrUpdateService \/ C!FetchConfig \/ C!ParseAndApplyConfig
             \/ C!RemoveForceRefreshAnnotation
    BY <1>5 DEF C!Take, C!Reconcile, C!ReconcileNotFound, C!CreateOrUpdateService, C!FetchConfig,
                C!ParseAndApplyConfig, C!RemoveForceRefreshAnnotation, C!AfterStatus, C!EndAfter,
                C!GoTo, C!Retry, C!Done, C!Finish, C!worker
  <1> QED BY <1>1, <1>2, <1>3, <1>4, <1>5 DEF C!Work

LEMMA OwnDeploymentStep ==
    ASSUME SharedInv, OwnerInv, [Next]_vars
    PROVE  OwnDeployment'
  <1> DEFINE lags == "Deployment" \in Lagging
  <1>1. /\ C!DeploymentRead = (IF lags THEN depC ELSE dep)
        /\ C!DeploymentRead' = (IF lags THEN depC' ELSE dep')
    BY DEF C!DeploymentRead, C!Read
  <1>2. OwnDeployment
    BY DEF OwnerInv
  <1>3. /\ GoesOn' => \/ GoesOn \/ DeploymentCreated
                      \/ DeploymentKept /\ C!DeploymentRead # None /\ ~C!DeploymentRead.old
        /\ IsAsked' => GoesOn /\ C!DeploymentRead # None
    <2>0. IsAsked => GoesOn /\ C!DeploymentRead # None
      BY <1>2 DEF OwnDeployment, GoesOn, IsAsked
    <2>1. /\ cr'.last # None => cr.last # None \/ pc = "record"
          /\ pc' = pc \/ ComponentStep
      BY ComponentWritten, WorkersMove
    <2>2. CASE pc' = pc
      BY <2>0, <2>1, <2>2 DEF GoesOn, IsAsked
    <2>3. CASE ComponentStep
      BY <2>0, <2>1, <2>3, GoesOnWithOwn DEF GoesOn, IsAsked
    <2> QED BY <2>1, <2>2, <2>3
  <1> HIDE DEF lags
  <1>4. CASE DeploymentKept
    BY <1>1, <1>2, <1>3, <1>4 DEF DeploymentKept, DeploymentCreated, OwnDeployment, Own, lags
  <1>5. CASE DeploymentCreated
    BY <1>1, <1>2, <1>3, <1>5 DEF DeploymentCreated, OwnDeployment, Own, lags
  <1>6. CASE DeploymentSynced /\ ~DeploymentKept /\ ~DeploymentCreated
    BY <1>1, <1>2, <1>3, <1>6 DEF DeploymentSynced, OwnDeployment, Own, lags
  <1>7. CASE DeploymentCollected
    BY <1>1, <1>2, <1>3, <1>7
       DEF DeploymentCollected, DeploymentKept, DeploymentCreated, OwnDeployment, Own, lags
  <1>8. CASE MountWrite /\ ~DeploymentCreated
    BY <1>1, <1>2, <1>3, <1>8 DEF MountWrite, OwnDeployment, Own, lags
  <1>9. MountWrite => ~DeploymentCreated
    BY DEF MountWrite, DeploymentCreated
  <1> QED BY <1>4, <1>5, <1>6, <1>7, <1>8, <1>9, DeploymentMoves DEF MapMounted, MapUnmounted

LEMMA OwnerStep == SharedInv /\ OwnerInv /\ [Next]_vars => OwnerInv'
  BY ComponentStaysStep, OwnDeploymentStep DEF OwnerInv

-----------------------------------------------------------------------------
(* The exposer controller's copies, queue and worker. *)

Map == cm[Component]

\* An up-to-date copy of an exposer or of the map is what is stored.
CopiesKnown ==
    /\ X!CopiesAgree
    /\ "ConfigMap" \in Lagging /\ Component \in cmFresh => cmC[Component] = Map

\* The hash that the worker is going to mount is that of the map as it is, or the news of the
\* map brings it back to every exposer.
HashKnown ==
    step = "deployment" =>
        /\ hash # None
        /\ Component \in cmFresh =>
              \/ Map # None /\ hash = Map.data
              \/ \A e \in Exposers : ex[e] # None => X!Due(e)

ControlInv == SharedInv /\ OwnerInv /\ CopiesKnown /\ HashKnown

LEMMA ExposerTypes ==
    ASSUME SharedInv
    PROVE  /\ step \in X!Phases
           /\ step = "idle" => at = None
           /\ step # "idle" => at \in Exposers /\ exposer \in X!ExposerObject /\ exposer.comp = Component
           /\ ex \in [Exposers -> X!ExposerObject \cup {None}]
           /\ exC \in [Exposers -> X!ExposerObject \cup {None}]
           /\ cm \in [{Component} -> X!ConfigMapObject \cup {None}]
           /\ cmC \in [{Component} -> X!ConfigMapObject \cup {None}]
           /\ None \notin Exposers /\ None \notin X!Data /\ None \notin X!ConfigMapObject
  BY NoneAssumption DEF SharedInv, X!TypeOK, X!StoredTyped, X!CopiesTyped, X!WorkerTyped, X!ExposerObject

LEMMA CopiesKnownStep ==
    ASSUME SharedInv, CopiesKnown, [Next]_vars
    PROVE  CopiesKnown'
  <1>0. /\ ex \in [Exposers -> X!ExposerObject \cup {None}]
        /\ cm \in [{Component} -> X!ConfigMapObject \cup {None}]
        /\ step # "idle" => exposer.comp = Component
    BY ExposerTypes
  <1>1. ASSUME NEW e \in Exposers, NEW o, X!WriteExposer(e, o), UNCHANGED <<exC, cm, cmC, cmFresh>>
        PROVE  CopiesKnown'
    BY <1>0, <1>1 DEF X!WriteExposer, CopiesKnown, X!CopiesAgree, Map
  <1>2. ASSUME NEW o, X!WriteConfigMap(Component, o), UNCHANGED <<ex, exC, fresh, cmC>>
        PROVE  CopiesKnown'
    BY <1>2 DEF X!WriteConfigMap, CopiesKnown, X!CopiesAgree
  <1>3. CASE UNCHANGED <<ex, exC, fresh, cm, cmC, cmFresh>>
    BY <1>3 DEF CopiesKnown, X!CopiesAgree, Map
  <1>4. ASSUME NEW e \in Exposers, SyncExposer(e) PROVE CopiesKnown'
    BY <1>4, ExposerTypes DEF SyncExposer, X!SyncExposer, X!Copied, X!api, CopiesKnown, X!CopiesAgree, Map
  <1>5. CASE SyncConfigMap
    BY <1>5, ExposerTypes DEF SyncConfigMap, X!SyncConfigMap, X!Copied, X!api, CopiesKnown, X!CopiesAgree, Map
  <1>6. CASE ChangeExposer
    BY <1>1, <1>6 DEF ChangeExposer, X!Delete, X!UserWrites
  <1>7. CASE ExposerStep
    <2>0. step # "idle" => at \in Exposers
      BY ExposerTypes
    <2>1. CASE X!EnsureFinalizer \/ X!UpdateStatus \/ X!RemoveExposerFinalizer \/ X!HandleDependencyError
      BY <1>1, <1>3, <2>0, <2>1
         DEF X!EnsureFinalizer, X!UpdateStatus, X!RemoveExposerFinalizer, X!HandleDependencyError
    <2>2. CASE X!ReconcileConfigMap \/ X!CleanupConfigMap \/ X!DeleteEmptyMap
      BY <1>0, <1>2, <1>3, <2>2 DEF X!ReconcileConfigMap, X!CleanupConfigMap, X!DeleteEmptyMap
    <2>3. CASE ~(\/ X!EnsureFinalizer \/ X!UpdateStatus \/ X!RemoveExposerFinalizer
                 \/ X!HandleDependencyError \/ X!ReconcileConfigMap \/ X!CleanupConfigMap
                 \/ X!DeleteEmptyMap)
      BY <1>3, <1>7, <2>3
         DEF ExposerStep, X!Take, X!Reconcile, X!ReconcileNotFound, X!Work, X!ReadAgain,
             X!ValidateDependencies, X!SkipConfigMap, X!SkipDeployment, X!UpdateComponentDeployment,
             X!SkipIngress, X!BuildIngress, X!ReconcileIngress, X!RemoveVolumeFromDeployment,
             X!api, X!caches
    <2> QED BY <2>1, <2>2, <2>3
  <1>8. \/ ComponentStep \/ KubernetesStep \/ SyncDeployment \/ SyncComponent \/ SyncService
        \/ ChangeComponent \/ UNCHANGED vars
        => UNCHANGED <<ex, exC, fresh, cm, cmC, cmFresh>>
    BY DEF ComponentStep, KubernetesStep, FollowDeployment, SyncDeployment, SyncComponent, SyncService,
           ChangeComponent, vars, exposerVars, exposerRest
  <1> QED BY <1>3, <1>4, <1>5, <1>6, <1>7, <1>8 DEF Next, Controllers, Sync, Users

\* What is read of an exposer whose copy is up to date is the exposer.
LEMMA ReadIsStored ==
    ASSUME CopiesKnown, NEW e \in Exposers, e \in fresh
    PROVE  X!ExposerRead(e) = ex[e]
  BY DEF CopiesKnown, X!CopiesAgree, X!ExposerRead

WorkerSame == UNCHANGED <<step, at, exposer, hash>>

WorkerStarts == \E e \in Exposers : X!Reconcile(e)

WorkerEnds ==
    /\ step # "idle" /\ step' = "idle" /\ at' = None
    /\ \/ X!Retry
       \/ X!UpdateStatus
       \/ X!RemoveExposerFinalizer /\ X!WriteExposer(at, None)

WorkerGoesOn ==
    /\ at' = at
    /\ \/ step = "finalizer" /\ step' = "reread"
       \/ step = "reread" /\ step' = "dependencies"
       \/ step = "dependencies" /\ step' = "configmap"
       \/ X!ReconcileConfigMap /\ step = "configmap" /\ step' = "deployment"
       \/ X!UpdateComponentDeployment /\ step = "deployment" /\ step' = "ingress"
       \/ step = "ingress" /\ step' = "status"
       \/ step = "unmount" /\ step' = "cleanup"
       \/ X!CleanupConfigMap /\ step = "cleanup" /\ step' \in {"deleteMap", "release"}
       \/ step = "deleteMap" /\ step' = "release"

LEMMA WorkerOutside ==
    ASSUME [Next]_vars, ~ExposerStep
    PROVE  WorkerSame
  BY DEF Next, Controllers, Sync, Users, ComponentStep, KubernetesStep,
         SyncDeployment, SyncComponent, SyncService, SyncExposer, SyncConfigMap, ChangeComponent,
         ChangeExposer, vars, exposerVars, exposerRest, FollowDeployment,
         X!SyncExposer, X!SyncConfigMap, X!Delete, X!UserWrites, X!worker, WorkerSame

\* The phases follow each other: the component is always found, so that no reducer skips
\* its work.
LEMMA WorkerMoves ==
    ASSUME ControlInv, [Next]_vars
    PROVE  WorkerSame \/ WorkerStarts \/ WorkerEnds \/ WorkerGoesOn
  <1>1. /\ SharedInv /\ HashKnown /\ (\A e \in Exposers : route[e] = None) /\ step # "reference"
    BY DEF ControlInv, OwnerInv, ComponentStays, SharedInv, X!TypeOK, X!WorkerTyped
  <1>2. /\ step # "idle" => at \in X!available /\ route[at] = None
        /\ step = "deployment" => hash # None
    <2>1. step # "idle" => at \in Exposers
      BY <1>1, ExposerTypes
    <2>2. None # "missing"
      BY NoneAssumption
    <2> QED BY <1>1, <2>1, <2>2 DEF X!available, HashKnown
  <1>3. CASE X!EnsureFinalizer \/ X!ReadAgain \/ X!ValidateDependencies \/ X!HandleDependencyError
    BY <1>2, <1>3 DEF X!EnsureFinalizer, X!ReadAgain, X!ValidateDependencies, X!HandleDependencyError,
                      X!Retry, X!Finish, WorkerEnds, WorkerGoesOn
  <1>4. CASE X!SkipConfigMap \/ X!SkipDeployment \/ X!BuildIngress \/ X!SkipIngress
    BY <1>2, <1>4 DEF X!SkipConfigMap, X!SkipDeployment, X!BuildIngress, X!SkipIngress, WorkerGoesOn
  <1>5. CASE X!ReconcileConfigMap
    BY <1>5 DEF X!ReconcileConfigMap, X!Retry, X!Finish, WorkerEnds, WorkerGoesOn
  <1>6. CASE X!UpdateComponentDeployment
    BY <1>6 DEF X!UpdateComponentDeployment, X!Retry, X!Finish, WorkerEnds, WorkerGoesOn
  <1>7. CASE X!ReconcileIngress
    BY <1>1, <1>7 DEF X!ReconcileIngress
  <1>8. CASE X!UpdateStatus \/ X!RemoveExposerFinalizer
    BY <1>8 DEF X!UpdateStatus, X!RemoveExposerFinalizer, X!Retry, X!Done, X!Finish, WorkerEnds
  <1>9. CASE X!RemoveVolumeFromDeployment \/ X!DeleteEmptyMap
    BY <1>9 DEF X!RemoveVolumeFromDeployment, X!DeleteEmptyMap, X!GoTo, X!Retry, X!Finish,
                WorkerEnds, WorkerGoesOn
  <1>10. CASE X!CleanupConfigMap
    BY <1>10 DEF X!CleanupConfigMap, X!GoTo, X!Retry, X!Finish, WorkerEnds, WorkerGoesOn
  <1>11. CASE \E e \in Exposers : X!Take(e)
    BY <1>11 DEF X!Take, X!ReconcileNotFound, X!worker, WorkerStarts, WorkerSame
  <1> QED BY <1>3, <1>4, <1>5, <1>6, <1>7, <1>8, <1>9, <1>10, <1>11, WorkerOutside DEF ExposerStep, X!Work

\* No event that matters is lost: the worker comes to an exposer when nothing else will.
LEMMA DueMoves ==
    ASSUME ControlInv, [Next]_vars, NEW e \in Exposers, ex'[e] # None, ~X!Due(e)'
    PROVE  ex[e] = ex'[e] /\ (~X!Due(e) \/ X!Reconcile(e))
  <1>0. /\ ex \in [Exposers -> X!ExposerObject \cup {None}]
        /\ step # "idle" => at \in Exposers
    BY ExposerTypes DEF ControlInv
  <1>1. ASSUME e \in queue PROVE X!Take(e)
    <2>1. e \notin queue'
      BY DEF X!Due
    <2> QED BY <1>1, <2>1
       DEF Next, Controllers, Sync, Users, ExposerStep, ComponentStep, KubernetesStep,
           SyncDeployment, SyncComponent, SyncService, SyncExposer, SyncConfigMap, ChangeComponent,
           ChangeExposer, vars, exposerVars, exposerRest, FollowDeployment,
           X!Work, X!Take, X!Reconcile, X!ReconcileNotFound, X!EnsureFinalizer, X!ReadAgain,
           X!ValidateDependencies, X!HandleDependencyError, X!SkipConfigMap, X!ReconcileConfigMap,
           X!SkipDeployment, X!UpdateComponentDeployment, X!SkipIngress, X!BuildIngress,
           X!ReconcileIngress, X!UpdateStatus, X!RemoveVolumeFromDeployment, X!CleanupConfigMap,
           X!DeleteEmptyMap, X!RemoveExposerFinalizer, X!SyncExposer, X!SyncConfigMap, X!Delete,
           X!UserWrites, X!Retry, X!Done, X!GoTo
  <1>2. e \in fresh /\ ex'[e] = ex[e]
    <2>1. e \in fresh' /\ e \notin queue'
      BY DEF X!Due
    <2>2. ASSUME NEW f \in Exposers, NEW o, X!WriteExposer(f, o)
          PROVE  e \in fresh /\ ex'[e] = ex[e]
      BY <1>0, <2>1, <2>2 DEF X!WriteExposer
    <2>3. CASE UNCHANGED <<ex, fresh>>
      BY <2>1, <2>3
    <2>4. ASSUME NEW f \in Exposers, SyncExposer(f)
          PROVE  e \in fresh /\ ex'[e] = ex[e]
      BY <2>1, <2>4 DEF SyncExposer, X!SyncExposer, X!api
    <2>5. CASE ChangeExposer
      BY <2>2, <2>5 DEF ChangeExposer, X!Delete, X!UserWrites
    <2>6. CASE X!EnsureFinalizer \/ X!UpdateStatus \/ X!RemoveExposerFinalizer \/ X!HandleDependencyError
      BY <1>0, <2>2, <2>3, <2>6
         DEF X!EnsureFinalizer, X!UpdateStatus, X!RemoveExposerFinalizer, X!HandleDependencyError
    <2>7. CASE ~(\/ ChangeExposer \/ X!EnsureFinalizer \/ X!UpdateStatus \/ X!RemoveExposerFinalizer
                 \/ X!HandleDependencyError \/ \E f \in Exposers : SyncExposer(f))
      BY <2>3, <2>7
       DEF Next, Controllers, Sync, Users, ExposerStep, ComponentStep, KubernetesStep,
           SyncDeployment, SyncComponent, SyncService, SyncConfigMap, ChangeComponent,
           vars, exposerVars, exposerRest, FollowDeployment,
           X!Work, X!Take, X!Reconcile, X!ReconcileNotFound, X!ReadAgain,
           X!ValidateDependencies, X!SkipConfigMap, X!ReconcileConfigMap,
           X!SkipDeployment, X!UpdateComponentDeployment, X!SkipIngress, X!BuildIngress,
           X!ReconcileIngress, X!RemoveVolumeFromDeployment, X!CleanupConfigMap,
           X!DeleteEmptyMap, X!SyncConfigMap, X!api, X!caches
    <2> QED BY <2>4, <2>5, <2>6, <2>7
  <1>3. ~X!ReconcileNotFound(e)
    BY <1>2, ReadIsStored DEF X!ReconcileNotFound, ControlInv
  <1> QED BY <1>1, <1>2, <1>3 DEF X!Due, X!Take

\* An exposer that is seen is found by its component.
LEMMA SeenIsFound ==
    ASSUME ControlInv, NEW e \in Exposers, ex[e] # None, e \in fresh
    PROVE  e \in X!FindExposersForComponent(Component)
  BY ReadIsStored, ExposerTypes DEF ControlInv, X!FindExposersForComponent, X!ExposerObject

\* Every event of the map brings the worker to every exposer that is seen.
LEMMA MapEvents ==
    ASSUME ControlInv, [Next]_vars, Component \in cmFresh'
    PROVE  /\ Map' = Map
           /\ \/ Component \in cmFresh
              \/ \A e \in Exposers : ex'[e] # None => X!Due(e)'
  <1>1. /\ Map' = Map
        /\ Component \in cmFresh \/ SyncConfigMap
    <2>1. /\ cm \in [{Component} -> X!ConfigMapObject \cup {None}]
          /\ step # "idle" => exposer.comp = Component
      BY ExposerTypes DEF ControlInv
    <2> QED BY <2>1
       DEF Next, Controllers, Sync, Users, ExposerStep, ComponentStep, KubernetesStep,
           SyncDeployment, SyncComponent, SyncService, SyncExposer, SyncConfigMap, ChangeComponent,
           ChangeExposer, vars, exposerVars, exposerRest, FollowDeployment,
           X!Work, X!Take, X!Reconcile, X!ReconcileNotFound, X!EnsureFinalizer, X!ReadAgain,
           X!ValidateDependencies, X!HandleDependencyError, X!SkipConfigMap, X!ReconcileConfigMap,
           X!SkipDeployment, X!UpdateComponentDeployment, X!SkipIngress, X!BuildIngress,
           X!ReconcileIngress, X!UpdateStatus, X!RemoveVolumeFromDeployment, X!CleanupConfigMap,
           X!DeleteEmptyMap, X!RemoveExposerFinalizer, X!SyncExposer, X!SyncConfigMap, X!Delete,
           X!UserWrites, X!WriteConfigMap, X!caches, X!api, Map
  <1>2. SyncConfigMap => \A e \in Exposers : ex'[e] # None => X!Due(e)'
    <2> SUFFICES ASSUME SyncConfigMap, NEW e \in Exposers, ex'[e] # None
                 PROVE  X!Due(e)'
      OBVIOUS
    <2>1. UNCHANGED <<ex, fresh>> /\ queue' = queue \cup X!FindExposersForComponent(Component)
      BY DEF SyncConfigMap, X!SyncConfigMap, X!api
    <2> QED BY <2>1, SeenIsFound DEF X!Due
  <1> QED BY <1>1, <1>2

\* So does every event of the component, which is what tells of its Deployment.
LEMMA ComponentEvents ==
    ASSUME ControlInv, [Next]_vars, crFresh', cr'.last # None
    PROVE  \/ crFresh /\ cr.last # None
           \/ \A e \in Exposers : ex'[e] # None => X!Due(e)'
  <1>1. CASE SyncComponent
    <2> SUFFICES ASSUME NEW e \in Exposers, ex'[e] # None
                 PROVE  X!Due(e)'
      OBVIOUS
    <2>1. UNCHANGED <<ex, fresh>> /\ queue' = queue \cup X!FindExposersForComponent(Component)
      BY <1>1 DEF SyncComponent, exposerRest
    <2> QED BY <2>1, SeenIsFound DEF X!Due
  <1>2. CASE UNCHANGED <<cr, crFresh>>
    BY <1>2
  <1>3. ASSUME ~SyncComponent, ~UNCHANGED <<cr, crFresh>>
        PROVE  \E o : C!WriteComponent(o)
    BY <1>3 DEF Next, Controllers, Sync, Users, ExposerStep, ComponentStep, KubernetesStep,
           SyncDeployment, SyncService, SyncExposer, SyncConfigMap, ChangeComponent,
           ChangeExposer, vars, componentVars, componentRest,
           C!Take, C!Reconcile, C!ReconcileNotFound, C!Work, C!CreateDeployment, C!UpdateDeployment,
           C!CreateOrUpdateService, C!ProcessUIComponentConfig, C!FetchConfig, C!ParseAndApplyConfig,
           C!RemoveForceRefreshAnnotation, C!Rollout, C!ObserveSpec, C!PodReady, C!OldPodsStop,
           C!Collect, C!CollectDeployment, C!CollectService, C!SyncDeployment, C!SyncService,
           C!Edit, C!UserWrites, C!api, C!caches
  <1>4. ASSUME NEW o, C!WriteComponent(o)
        PROVE  crFresh /\ cr.last # None
    <2>1. crFresh \in BOOLEAN
      BY SharedInvTypes DEF ControlInv, C!TypeOK, C!CopiesTyped
    <2> QED BY <1>4, <2>1 DEF C!WriteComponent
  <1> QED BY <1>1, <1>2, <1>3, <1>4

-----------------------------------------------------------------------------
(* The hash that is going to be mounted. *)

\* What is published is what the up-to-date map holds, or the map is written.
LEMMA Publishes ==
    ASSUME ControlInv, X!ReconcileConfigMap, step' = "deployment"
    PROVE  /\ hash' # None
           /\ Component \in cmFresh' => Map' # None /\ hash' = Map'.data
  <1> DEFINE seen == X!ConfigMapRead(Component)
             want == X!Published(seen, at, X!EntryFor(at, exposer.val))
  <1>1. /\ at \in X!available /\ at \in Exposers /\ exposer.comp = Component /\ exposer.val \in Values
        /\ XP!TypeOK
    BY ExposerTypes, SameExposerTypes DEF X!ReconcileConfigMap, ControlInv, SharedInv, X!ExposerObject
  <1>2. /\ hash' = want.data
        /\ IF seen = want THEN UNCHANGED <<cm, cmFresh>> ELSE X!WriteConfigMap(Component, want)
    BY <1>1 DEF X!ReconcileConfigMap, X!Retry, X!Finish
  <1>3. want \in X!ConfigMapObject
    <2>1. seen \in X!ConfigMapObject \cup {None}
      BY ExposerTypes DEF ControlInv, X!ConfigMapRead
    <2>2. X!EntryFor(at, exposer.val) \in Values
      <3>1. route[at] = None
        BY <1>1 DEF ControlInv, OwnerInv, ComponentStays
      <3>2. \A v \in Values : [p \in Values \X {None} |-> p[1]][v, None] = v
        OBVIOUS
      <3>3. X!EntryFor(at, exposer.val) = [p \in Values \X {None} |-> p[1]][exposer.val, None]
        BY <3>1 DEF X!EntryFor
      <3> QED BY <1>1, <3>2, <3>3
    <2> HIDE DEF seen
    <2>3. \A v \in Values : X!Published(seen, at, v) \in X!ConfigMapObject
      BY <1>1, <2>1, NoneAssumption
         DEF X!Published, X!EmptyMap, X!NoEntries, X!ConfigMapObject, X!Data
    <2> QED BY <2>2, <2>3
  <1>4. Component \in cmFresh' => seen = want /\ seen = Map /\ Map' = Map
    <2>1. Component \in cmFresh' => seen = want /\ Component \in cmFresh /\ Map' = Map
      BY <1>2 DEF X!WriteConfigMap, Map
    <2>2. Component \in cmFresh => seen = Map
      BY DEF ControlInv, CopiesKnown, X!ConfigMapRead, Map
    <2> QED BY <2>1, <2>2
  <1> HIDE DEF seen, want
  <1>5. want.data \in X!Data /\ want # None
    BY <1>3, ExposerTypes DEF ControlInv, X!ConfigMapObject
  <1> QED BY <1>2, <1>4, <1>5, ExposerTypes DEF ControlInv

LEMMA HashKnownStep ==
    ASSUME ControlInv, [Next]_vars
    PROVE  HashKnown'
  <1> SUFFICES ASSUME step' = "deployment"
               PROVE  /\ hash' # None
                      /\ Component \in cmFresh' =>
                            \/ Map' # None /\ hash' = Map'.data
                            \/ \A e \in Exposers : ex'[e] # None => X!Due(e)'
    BY DEF HashKnown
  <1>1. CASE X!ReconcileConfigMap
    BY <1>1, Publishes
  <1>2. CASE WorkerSame
    <2>1. step = "deployment" /\ hash' = hash /\ hash # None
      BY <1>2 DEF WorkerSame, ControlInv, HashKnown
    <2>2. ASSUME NEW e \in Exposers, ex'[e] # None, ~X!Due(e)'
          PROVE  ex[e] # None /\ ~X!Due(e)
      BY <2>1, <2>2, DueMoves DEF X!Reconcile
    <2>3. ASSUME Component \in cmFresh'
          PROVE  \/ Map' # None /\ hash' = Map'.data
                 \/ \A e \in Exposers : ex'[e] # None => X!Due(e)'
      <3>1. Component \in cmFresh \/ \A e \in Exposers : ex'[e] # None => X!Due(e)'
        BY <2>3, MapEvents
      <3>2. Map' = Map
        BY <2>3, MapEvents
      <3>3. Component \in cmFresh =>
               (Map # None /\ hash = Map.data) \/ \A e \in Exposers : ex[e] # None => X!Due(e)
        BY <2>1 DEF ControlInv, HashKnown
      <3> QED BY <2>1, <2>2, <3>1, <3>2, <3>3
    <2> QED BY <2>1, <2>3
  <1>3. WorkerStarts => FALSE
    BY DEF WorkerStarts, X!Reconcile, X!FirstPhase
  <1> QED BY <1>1, <1>2, <1>3, WorkerMoves DEF WorkerEnds, WorkerGoesOn

LEMMA ControlInvStep ==
    ControlInv /\ [Next]_vars => ControlInv'
  BY SharedInvStep, OwnerStep, CopiesKnownStep, HashKnownStep DEF ControlInv

LEMMA ControlInvInit == Init => ControlInv
  <1> SUFFICES ASSUME Init
               PROVE  ControlInv
    OBVIOUS
  <1>1. CopiesKnown
    BY DEF Init, X!Init, CopiesKnown, X!CopiesAgree, Map
  <1>2. HashKnown
    BY DEF Init, X!Init, HashKnown
  <1> QED BY <1>1, <1>2, SharedInvInit, OwnerInit DEF ControlInv

-----------------------------------------------------------------------------
(* The Deployment has the map mounted as it is. *)

Mount == mounts[Component]

IsMounted(d) == d # None /\ d.mounted

ShowsMap == IsMounted(Mount) /\ Map # None /\ Mount.hash = Map.data

Settled(e) ==
    /\ ex[e] # None /\ ~X!Due(e) /\ Component \in cmFresh
    /\ at = e => step \in {"ingress", "status"}

\* When a configuration was fetched and its status was seen, an exposer that is done left the
\* map mounted as it is, unless it was just unmounted and the map is about to change.
MountKnown ==
    crFresh /\ cr.last # None =>
        \A e \in Exposers :
            Settled(e) => ShowsMap \/ (step = "cleanup" /\ ~IsMounted(Mount))

\* A worker that ends without another event or retry for its exposer was done with it.
LEMMA EndsWell ==
    ASSUME ControlInv, WorkerEnds, NEW e \in Exposers, at = e, ex'[e] # None, ~X!Due(e)'
    PROVE  step = "status"
  <1>1. ~X!Retry
    BY DEF X!Due, X!Retry
  <1>2. ~X!WriteExposer(at, None)
    BY ExposerTypes DEF ControlInv, X!WriteExposer
  <1> QED BY <1>1, <1>2 DEF WorkerEnds, X!UpdateStatus

\* What a step that is none of the two kinds does to the mount.
LEMMA MountMoves ==
    ASSUME ControlInv, [Next]_vars, Own(dep)
    PROVE  \/ Mount' = Mount
           \/ MapMounted
           \/ MapUnmounted /\ ~IsMounted(Mount)' /\ step' = "cleanup"
  <1>1. ~DeploymentCreated /\ ~DeploymentCollected
    BY DEF DeploymentCreated, DeploymentCollected, Own
  <1>2. MapUnmounted => ~IsMounted(Mount)' /\ step' = "cleanup"
    BY DEF MapUnmounted, Mount, IsMounted, X!Unmounted
  <1> QED BY <1>1, <1>2, DeploymentMoves DEF ControlInv, DeploymentKept, DeploymentSynced, Mount

\* What is mounted is the map as it is, or every exposer will be reconciled again.
LEMMA MapMountedSays ==
    ASSUME ControlInv, [Next]_vars, MapMounted, Component \in cmFresh,
           NEW e \in Exposers, ex[e] # None, ~X!Due(e)
    PROVE  ShowsMap'
  <1>1. step = "deployment" /\ UNCHANGED cm
    BY DEF MapMounted, X!UpdateComponentDeployment
  <1>2. hash = Map.data /\ Map # None
    BY <1>1 DEF ControlInv, HashKnown
  <1>3. Mount' = [mounted |-> TRUE, hash |-> hash]
    BY DEF MapMounted, X!Mounted, Mount
  <1>4. hash \in X!Data
    BY <1>2, ExposerTypes DEF ControlInv, Map, X!ConfigMapObject
  <1>5. Mount' \in X!DeploymentObject /\ Mount'.mounted /\ Mount'.hash = hash
    BY <1>3, <1>4 DEF X!DeploymentObject
  <1>6. Map' = Map
    BY <1>1 DEF Map
  <1> QED BY <1>2, <1>5, <1>6, NoneAssumption DEF ShowsMap, IsMounted

Missed == BlindMount \/ IdleUnmount

\* The worker goes on from the Deployment with the map mounted as it is.
LEMMA Mounts ==
    ASSUME ControlInv, [Next]_vars, ~Missed, Own(dep), Component \in cmFresh,
           X!UpdateComponentDeployment, step' = "ingress",
           NEW e \in Exposers, ex[e] # None, ~X!Due(e)
    PROVE  ShowsMap'
  <1>1. step = "deployment" /\ UNCHANGED cm
    BY DEF X!UpdateComponentDeployment
  <1>2. hash = Map.data /\ Map # None /\ Map' = Map
    BY <1>1 DEF ControlInv, HashKnown, Map
  <1>3. CASE MapMounted
    BY <1>3, MapMountedSays
  <1>4. CASE ~MapMounted
    <2>1. UNCHANGED mounts
      BY <1>1, <1>4, DeploymentMoves
         DEF ControlInv, DeploymentKept, DeploymentSynced, DeploymentCreated, DeploymentCollected,
             Own, MapUnmounted, X!RemoveVolumeFromDeployment
    <2>2. ~X!NeedsMount(Mount, hash) /\ Mount # None
      BY <2>1 DEF Missed, BlindMount, Mount, Own, ControlInv, SharedInv, Agree
    <2>3. Mount' = Mount
      BY <2>1 DEF Mount
    <2> QED BY <1>2, <2>2, <2>3 DEF X!NeedsMount, ShowsMap, IsMounted
  <1> QED BY <1>3, <1>4

\* After the map was unmounted, the map changes.
LEMMA CleanupMoves ==
    ASSUME ControlInv, [Next]_vars, ~Missed, Own(dep), step = "cleanup", step' # "cleanup",
           ~IsMounted(Mount), Component \in cmFresh
    PROVE  Component \notin cmFresh'
  <1>1. exposer.comp = Component
    BY ExposerTypes DEF ControlInv
  <1>2. X!CleanupConfigMap
    <2>1. ExposerStep
      BY WorkerOutside DEF WorkerSame
    <2>2. X!Work \/ \E e \in Exposers : X!Take(e)
      BY <2>1 DEF ExposerStep
    <2> QED BY <2>2
        DEF X!Take, X!Reconcile, X!ReconcileNotFound, X!Work, X!EnsureFinalizer, X!ReadAgain,
            X!ValidateDependencies, X!HandleDependencyError, X!SkipConfigMap, X!ReconcileConfigMap,
            X!SkipDeployment, X!UpdateComponentDeployment, X!SkipIngress, X!BuildIngress,
            X!ReconcileIngress, X!UpdateStatus, X!RemoveVolumeFromDeployment, X!DeleteEmptyMap,
            X!RemoveExposerFinalizer
  <1>3. ~Mount.mounted
    BY DEF IsMounted, Own, Mount, ControlInv, SharedInv, Agree
  <1>4. X!HasTrace(X!ConfigMapRead(Component), at)
    BY <1>2, <1>3 DEF Missed, IdleUnmount, Mount, Own
  <1>5. X!IsCurrent("ConfigMap", Component, cmFresh)
    BY DEF X!IsCurrent
  <1> QED BY <1>1, <1>2, <1>4, <1>5 DEF X!CleanupConfigMap, X!WriteConfigMap

LEMMA MountKnownStep ==
    ASSUME ControlInv, MountKnown, [Next]_vars, ~Missed
    PROVE  MountKnown'
  <1> SUFFICES ASSUME crFresh', cr'.last # None, NEW e \in Exposers, Settled(e)'
               PROVE  ShowsMap' \/ (step' = "cleanup" /\ ~IsMounted(Mount)')
    BY DEF MountKnown
  <1>1. /\ ex'[e] # None /\ ~X!Due(e)' /\ Component \in cmFresh'
        /\ at' = e => step' \in {"ingress", "status"}
    BY DEF Settled
  <1>2. Component \in cmFresh /\ Map' = Map /\ crFresh /\ cr.last # None
    BY <1>1, MapEvents, ComponentEvents
  <1>3. ex[e] # None /\ ~X!Due(e)
    <2>1. ~X!Reconcile(e)
      BY <1>1 DEF X!Reconcile, X!FirstPhase
    <2> QED BY <1>1, <2>1, DueMoves
  <1>4. Own(dep)
    BY <1>2 DEF ControlInv, OwnerInv, OwnDeployment, GoesOn
  <1>5. CASE X!UpdateComponentDeployment /\ step' = "ingress"
    BY <1>2, <1>3, <1>4, <1>5, Mounts
  <1>6. CASE ~(X!UpdateComponentDeployment /\ step' = "ingress")
    <2>1. at = e => step \in {"ingress", "status"}
      <3> SUFFICES ASSUME at = e
                   PROVE  step \in {"ingress", "status"}
        OBVIOUS
      <3>1. step # "idle"
        BY ExposerTypes DEF ControlInv
      <3>2. CASE WorkerSame
        BY <1>1, <3>2 DEF WorkerSame
      <3>3. CASE WorkerEnds
        BY <1>1, <3>3, EndsWell
      <3>4. CASE WorkerGoesOn
        BY <1>1, <1>6, <3>4 DEF WorkerGoesOn
      <3>5. CASE WorkerStarts
        BY <3>1, <3>5 DEF WorkerStarts, X!Reconcile
      <3> QED BY <3>2, <3>3, <3>4, <3>5, WorkerMoves
    <2>2. ShowsMap \/ (step = "cleanup" /\ ~IsMounted(Mount))
      BY <1>2, <1>3, <2>1 DEF MountKnown, Settled
    <2>3. CASE MapUnmounted /\ ~IsMounted(Mount)' /\ step' = "cleanup"
      BY <2>3
    <2>4. CASE MapMounted
      BY <1>2, <1>3, <2>4, MapMountedSays
    <2>5. CASE Mount' = Mount
      <3>1. CASE ShowsMap
        BY <1>2, <2>5, <3>1 DEF ShowsMap, IsMounted
      <3>2. CASE step = "cleanup" /\ ~IsMounted(Mount)
        <4>1. step' = "cleanup"
          BY <1>1, <1>2, <1>4, <3>2, CleanupMoves
        <4> QED BY <2>5, <3>2, <4>1 DEF IsMounted
      <3> QED BY <2>2, <3>1, <3>2
    <2> QED BY <1>4, <2>3, <2>4, <2>5, MountMoves
  <1> QED BY <1>5, <1>6

LEMMA MountKnownInit == Init => MountKnown
  <1> SUFFICES ASSUME Init
               PROVE  MountKnown
    OBVIOUS
  <1>1. PICK i \in Images : cr = C!NewComponent(i)
    BY DEF Init, C!Init
  <1> QED BY <1>1 DEF C!NewComponent, MountKnown

-----------------------------------------------------------------------------

\* Neither controller rests too early, for any exposers, images and configurations, whatever
\* caches are outdated and exposers deleted: when the component controller rests, the image of
\* the spec is rolled out in the component's own Deployment, and an exposer that no event brings
\* back has left the map mounted there as it is.  The only steps that can make this untrue are
\* a worker that goes on from an outdated copy of the Deployment and one that unmounts the map
\* for an exposer without an entry (scalityuicomponent/controller.go:145-190, 360-392,
\* deployment_update.go:82-146, deletion.go:58-174, watch_handlers.go:60-104).
THEOREM NothingIsForgotten ==
    ASSUME ServiceIsCached
    PROVE  Spec => []NothingForgotten \/ <><<BlindMount \/ IdleUnmount>>_vars
  <1> DEFINE Inv == CP!RestInv /\ ControlInv /\ MountKnown
  <1>1. Init => Inv
    BY ComponentRestsInit, SameComponentInit, ControlInvInit, MountKnownInit DEF Init
  <1>2. Inv /\ [Next]_vars /\ ~<<BlindMount \/ IdleUnmount>>_vars => Inv'
    <2> SUFFICES ASSUME Inv, [Next]_vars, ~<<BlindMount \/ IdleUnmount>>_vars
                 PROVE  Inv'
      OBVIOUS
    <2>1. CP!RestInv'
      BY ComponentRestStep DEF ControlInv
    <2>2. CASE UNCHANGED vars
      BY <2>1, <2>2, ControlInvStep
         DEF MountKnown, Settled, ShowsMap, IsMounted, Mount, Map, X!Due, vars, componentVars,
             componentRest, exposerVars, exposerRest
    <2>3. CASE vars' # vars
      <3>1. ~Missed
        BY <2>3 DEF Missed
      <3> QED BY <2>1, <3>1, ControlInvStep, MountKnownStep
    <2> QED BY <2>2, <2>3
  <1>3. Inv => NothingForgotten
    <2> SUFFICES ASSUME Inv, cr # None, pc = "idle", ~C!Due
                 PROVE  /\ dep # None /\ ~dep.old /\ dep.img = cr.img /\ dep.ready /\ dep.updated
                        /\ \A e \in Exposers :
                              step = "idle" /\ Component \in cmFresh /\ ex[e] # None /\ ~X!Due(e) =>
                                 ShowsMap
      BY DEF NothingForgotten, ShowsMap, IsMounted, Mount, Map
    <2>1. crFresh /\ depFresh /\ svcC = svc /\ ~queued
      BY DEF C!Due
    <2>2. cr.last = cr.img /\ cr.img # None
      BY <2>1, SharedInvTypes, NoneAssumption
         DEF CP!RestInv, CP!RestKnows, CP!Alone, ControlInv, C!TypeOK, C!ApiTyped, C!ComponentObject
    <2>3. dep # None /\ ~dep.old /\ dep.img = cr.img /\ dep.ready /\ dep.updated
      BY <2>1, <2>2 DEF CP!RestInv, CP!RestKnows, CP!Alone, CP!DeploymentDone
    <2>4. ASSUME NEW e \in Exposers,
                 step = "idle" /\ Component \in cmFresh /\ ex[e] # None /\ ~X!Due(e)
          PROVE  ShowsMap
      <3>1. Settled(e)
        BY <2>4, ExposerTypes DEF Settled, ControlInv
      <3> QED BY <2>1, <2>2, <2>4, <3>1 DEF MountKnown
    <2> QED BY <2>1, <2>2, <2>3, <2>4
  <1> QED BY <1>1, <1>2, <1>3, PTL DEF Spec
=============================================================================
