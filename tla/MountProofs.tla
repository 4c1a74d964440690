----------------------------- MODULE MountProofs -----------------------------
(* Proof that the exposer controller takes no map from under the pods, for *)
(* every set of exposers, components and values.                           *)
EXTENDS ExposerProofs

\* A map that is mounted is protected: somebody's finalizer is in it.
MountIsProtected ==
    \A c \in Components :
        dep[c] # None /\ dep[c].mounted => cm[c] # None /\ cm[c].fins # {}

\* The map that the worker is about to mount holds the finalizer of its exposer, which
\* nobody but this worker takes out.
MountedForPublisher ==
    pc = "deployment" /\ hash # None => cm[cr.comp] # None /\ at \in cm[cr.comp].fins

\* A hash comes from this reconciliation.
HashIsNew == pc \notin {"deployment", "ingress", "reference", "status"} => hash = None

\* The deletion of an exposer unmounts the map before it takes the finalizer out.
UnmountedFirst ==
    pc \in {"cleanup", "deleteMap"} => dep[cr.comp] = None \/ ~dep[cr.comp].mounted

MountInv == MountIsProtected /\ MountedForPublisher /\ HashIsNew /\ UnmountedFirst

\* The steps that break it: nothing is published, or nothing is unmounted, for what an
\* outdated copy says.
Missed == BlindPublish \/ BlindUnmount

LEMMA MountInvInit == Init => MountInv
  <1> SUFFICES ASSUME Init
               PROVE  MountInv
    OBVIOUS
  <1>1. MountIsProtected
    BY NoneAssumption DEF Init, MountIsProtected
  <1> QED BY <1>1 DEF Init, MountInv, MountedForPublisher, HashIsNew, UnmountedFirst

\* Steps that write no map and no Deployment.
LEMMA MountInvFinish ==
    ASSUME MountInv, Finish, UNCHANGED <<cm, dep>>
    PROVE  MountInv'
  BY DEF MountInv, MountIsProtected, MountedForPublisher, HashIsNew, UnmountedFirst, Finish

LEMMA MountInvQuiet ==
    ASSUME MountInv, UNCHANGED <<cm, dep, hash>>,
           \/ pc' = pc /\ UNCHANGED <<at, cr>>
           \/ pc' \notin {"deployment", "cleanup", "deleteMap"}
              /\ (pc' \notin {"deployment", "ingress", "reference", "status"} => hash = None)
    PROVE  MountInv'
  BY DEF MountInv, MountIsProtected, MountedForPublisher, HashIsNew, UnmountedFirst

\* Ways a reducer goes on.
LEMMA MountInvGoTo ==
    ASSUME TypeOK, MountInv, Work, UNCHANGED <<cm, dep>>, ~ReconcileConfigMap,
           ~RemoveVolumeFromDeployment, ~CleanupConfigMap
    PROVE  MountInv'
  <1>1. CASE Finish
    BY <1>1, MountInvFinish
  <1>2. CASE ~Finish
    <2>1. CASE SkipConfigMap
      <3>1. hash = None /\ hash' = hash
        BY <2>1 DEF SkipConfigMap, GoTo, MountInv, HashIsNew
      <3> QED BY <2>1, <3>1
              DEF SkipConfigMap, GoTo, MountInv, MountIsProtected, MountedForPublisher,
                  HashIsNew, UnmountedFirst
    <2>2. CASE ~SkipConfigMap
      <3>1. UNCHANGED hash
        BY <1>2, <2>2
           DEF Work, EnsureFinalizer, ReadAgain, ValidateDependencies, HandleDependencyError,
               SkipDeployment, UpdateComponentDeployment, SkipIngress, BuildIngress,
               ReconcileIngress, UpdateStatus, DeleteEmptyMap, RemoveExposerFinalizer,
               Retry, Done, GoTo
      <3>2. pc' \notin {"deployment", "cleanup", "deleteMap"}
        BY <1>2, <2>2
           DEF Work, EnsureFinalizer, ReadAgain, ValidateDependencies, HandleDependencyError,
               SkipDeployment, UpdateComponentDeployment, SkipIngress, BuildIngress,
               ReconcileIngress, UpdateStatus, DeleteEmptyMap, RemoveExposerFinalizer,
               Retry, Done, GoTo
      <3>3. pc' \notin {"deployment", "ingress", "reference", "status"} => hash = None
        BY <1>2, <2>2
           DEF Work, EnsureFinalizer, ReadAgain, ValidateDependencies, HandleDependencyError,
               SkipDeployment, UpdateComponentDeployment, SkipIngress, BuildIngress,
               ReconcileIngress, UpdateStatus, DeleteEmptyMap, RemoveExposerFinalizer,
               Retry, Done, GoTo, MountInv, HashIsNew
      <3> QED BY <3>1, <3>2, <3>3, MountInvQuiet
    <2> QED BY <2>1, <2>2
  <1> QED BY <1>1, <1>2

\* The steps that publish, mount, unmount, clean up and delete.
LEMMA MountInvReconcileConfigMap ==
    ASSUME TypeOK, MountInv, ReconcileConfigMap, ~BlindPublish
    PROVE  MountInv'
  <1> DEFINE c == cr.comp
             seen == ConfigMapRead(c)
             want == Published(seen, at, EntryFor(at, cr.val))
  <1>1. /\ c \in Components /\ at \in Exposers /\ EntryFor(at, cr.val) \in Values
        /\ dep' = dep
    BY EntryForType DEF ReconcileConfigMap, TypeOK, WorkerTyped, ExposerObject
  <1>2. want \in ConfigMapObject /\ at \in want.fins
    <2>1. seen \in ConfigMapObject \cup {None}
      BY <1>1, ReadTypes
    <2>2. want \in ConfigMapObject
      BY <1>1, <2>1, PublishedType
    <2>3. at \in want.fins
      BY <1>1, <2>1 DEF Published, EmptyMap, ConfigMapObject
    <2> QED BY <2>2, <2>3
  <1>3. CASE Retry /\ UNCHANGED cm
    BY <1>1, <1>3, MountInvFinish DEF Retry
  <1>4. CASE seen = want /\ UNCHANGED cm /\ pc' = "deployment" /\ UNCHANGED <<at, cr>>
    <2>1. cm[c] # None /\ at \in cm[c].fins
      BY <1>4 DEF BlindPublish, EntryOf
    <2> QED BY <1>1, <1>4, <2>1
            DEF MountInv, MountIsProtected, MountedForPublisher, HashIsNew, UnmountedFirst
  <1>5. CASE cm' = [cm EXCEPT ![c] = want] /\ pc' = "deployment" /\ UNCHANGED <<at, cr>>
    <2>1. cm'[c] = want /\ \A d \in Components : d # c => cm'[d] = cm[d]
      BY <1>1, <1>5 DEF TypeOK, StoredTyped
    <2>2. MountIsProtected'
      BY <1>1, <1>2, <2>1, NoneAssumption DEF MountInv, MountIsProtected
    <2> QED BY <1>2, <1>5, <2>1, <2>2, NoneAssumption
            DEF MountInv, MountedForPublisher, HashIsNew, UnmountedFirst
  <1> QED BY <1>3, <1>4, <1>5 DEF ReconcileConfigMap, WriteConfigMap

LEMMA MountInvUpdate ==
    ASSUME TypeOK, MountInv, UpdateComponentDeployment
    PROVE  MountInv'
  <1>1. cr.comp \in Components /\ cm' = cm
    BY DEF UpdateComponentDeployment, TypeOK, WorkerTyped, ExposerObject
  <1>2. cm[cr.comp] # None /\ at \in cm[cr.comp].fins
    BY DEF UpdateComponentDeployment, MountInv, MountedForPublisher
  <1>3. \A d \in Components : d # cr.comp => dep'[d] = dep[d]
    BY DEF UpdateComponentDeployment, WriteDeployment, TypeOK, StoredTyped
  <1>4. MountIsProtected'
    BY <1>1, <1>2, <1>3 DEF MountInv, MountIsProtected
  <1>5. pc' \in {"idle", "ingress"} /\ (pc' = "idle" => hash' = None)
    BY DEF UpdateComponentDeployment, Retry, Finish
  <1> QED BY <1>4, <1>5 DEF MountInv, MountedForPublisher, HashIsNew, UnmountedFirst

LEMMA MountInvRemove ==
    ASSUME TypeOK, MountInv, RemoveVolumeFromDeployment, ~BlindUnmount
    PROVE  MountInv'
  <1> DEFINE c == cr.comp
             seen == DeploymentRead(c)
  <1>1. c \in Components /\ cm' = cm
    BY DEF RemoveVolumeFromDeployment, TypeOK, WorkerTyped, ExposerObject
  <1>2. CASE Retry /\ UNCHANGED dep
    BY <1>1, <1>2, MountInvFinish DEF Retry
  <1>3. CASE GoTo("cleanup") /\ UNCHANGED dep /\ (dep[c] = None \/ ~dep[c].mounted)
    BY <1>1, <1>3
       DEF RemoveVolumeFromDeployment, MountInv, MountIsProtected, MountedForPublisher,
           HashIsNew, UnmountedFirst, GoTo
  <1>4. CASE GoTo("cleanup") /\ dep' = [dep EXCEPT ![c] = Unmounted(seen)]
    <2>1. dep'[c] = Unmounted(seen) /\ \A d \in Components : d # c => dep'[d] = dep[d]
      BY <1>1, <1>4 DEF TypeOK, StoredTyped
    <2>2. ~dep'[c].mounted
      BY <2>1 DEF Unmounted
    <2>3. MountIsProtected'
      BY <1>1, <2>1, <2>2 DEF MountInv, MountIsProtected
    <2> QED BY <1>4, <2>2, <2>3
            DEF RemoveVolumeFromDeployment, MountInv, MountedForPublisher, HashIsNew,
                UnmountedFirst, GoTo
  <1> QED
    <2>1. CASE seen # None /\ seen.mounted
      BY <1>2, <1>4, <2>1 DEF RemoveVolumeFromDeployment, WriteDeployment
    <2>2. CASE seen = None \/ ~seen.mounted
      <3>1. dep[c] = None \/ ~dep[c].mounted
        BY <2>2 DEF BlindUnmount
      <3> QED BY <1>3, <2>2, <3>1 DEF RemoveVolumeFromDeployment
    <2> QED BY <2>1, <2>2

LEMMA MountInvCleanup ==
    ASSUME TypeOK, MountInv, CleanupConfigMap \/ DeleteEmptyMap
    PROVE  MountInv'
  <1>1. cr.comp \in Components /\ dep' = dep
    BY DEF CleanupConfigMap, DeleteEmptyMap, TypeOK, WorkerTyped, ExposerObject
  <1>2. \A d \in Components : d # cr.comp => cm'[d] = cm[d]
    BY <1>1 DEF CleanupConfigMap, DeleteEmptyMap, WriteConfigMap, TypeOK, StoredTyped
  <1>3. dep[cr.comp] = None \/ ~dep[cr.comp].mounted
    BY DEF CleanupConfigMap, DeleteEmptyMap, MountInv, UnmountedFirst
  <1>4. MountIsProtected'
    BY <1>1, <1>2, <1>3 DEF MountInv, MountIsProtected
  <1>5. CASE Finish
    BY <1>4, <1>5 DEF Finish, MountInv, MountedForPublisher, HashIsNew, UnmountedFirst
  <1>6. CASE ~Finish
    <2>1. pc' \in {"deleteMap", "release"} /\ UNCHANGED <<at, cr, hash>>
      BY <1>6 DEF CleanupConfigMap, DeleteEmptyMap, GoTo, Retry
    <2>2. hash = None
      BY DEF CleanupConfigMap, DeleteEmptyMap, MountInv, HashIsNew
    <2> QED BY <1>1, <1>3, <1>4, <2>1, <2>2
            DEF MountInv, MountedForPublisher, HashIsNew, UnmountedFirst
  <1> QED BY <1>5, <1>6

LEMMA MountInvUsers ==
    ASSUME TypeOK, MountInv, NEW c \in Components, DeleteConfigMap(c) \/ ReplaceDeployment(c)
    PROVE  MountInv'
  <1>1. UNCHANGED <<pc, at, cr, hash>> /\ HashIsNew'
    BY DEF DeleteConfigMap, ReplaceDeployment, worker, MountInv, HashIsNew
  <1>2. CASE DeleteConfigMap(c)
    <2>1. cm[c] \in ConfigMapObject /\ dep' = dep
      BY <1>2 DEF DeleteConfigMap, TypeOK, StoredTyped
    <2>2. cm' = [cm EXCEPT ![c] = Deleted(c)] /\ cm[c] # None
      BY <1>2 DEF DeleteConfigMap, WriteConfigMap
    <2>3. cm'[c] = Deleted(c) /\ \A d \in Components : d # c => cm'[d] = cm[d]
      BY <2>2 DEF TypeOK, StoredTyped
    <2>4. cm[c].fins # {} => cm'[c] # None /\ cm'[c].fins = cm[c].fins
      <3> DEFINE m == [cm[c] EXCEPT !.deleting = TRUE]
      <3>1. m \in ConfigMapObject /\ m.fins = cm[c].fins
        BY <2>1 DEF ConfigMapObject
      <3>2. cm'[c] = Stored(m)
        BY <2>2, <2>3 DEF Deleted
      <3> HIDE DEF m
      <3> QED BY <3>1, <3>2, NoneAssumption DEF Stored
    <2>5. \A d \in Components :
            cm[d] # None /\ cm[d].fins # {} => cm'[d] # None /\ cm'[d].fins = cm[d].fins
      BY <2>3, <2>4
    <2>6. MountIsProtected' /\ UnmountedFirst'
      BY <1>1, <2>1, <2>5 DEF MountInv, MountIsProtected, UnmountedFirst
    <2>7. MountedForPublisher'
      <3>1. pc # "idle" => cr.comp \in Components
        BY DEF TypeOK, WorkerTyped, ExposerObject
      <3> QED BY <1>1, <2>5, <3>1 DEF MountInv, MountedForPublisher
    <2> QED BY <1>1, <2>6, <2>7 DEF MountInv
  <1>3. CASE ReplaceDeployment(c)
    <2>1. cm' = cm /\ (dep'[c] = None \/ ~dep'[c].mounted)
          /\ \A d \in Components : d # c => dep'[d] = dep[d]
      BY <1>3 DEF ReplaceDeployment, WriteDeployment, TypeOK, StoredTyped
    <2>2. MountIsProtected' /\ MountedForPublisher'
      BY <1>1, <2>1 DEF MountInv, MountIsProtected, MountedForPublisher
    <2>3. UnmountedFirst'
      <3>1. pc # "idle" => cr.comp \in Components
        BY DEF TypeOK, WorkerTyped, ExposerObject
      <3> QED BY <1>1, <2>1, <3>1 DEF MountInv, UnmountedFirst
    <2> QED BY <1>1, <2>2, <2>3 DEF MountInv
  <1> QED BY <1>2, <1>3

LEMMA MountInvStep ==
    ASSUME TypeOK, MountInv, [Next]_vars, ~Missed
    PROVE  MountInv'
  <1>1. CASE Work
    <2>1. CASE ReconcileConfigMap
      BY <2>1, MountInvReconcileConfigMap DEF Missed
    <2>2. CASE UpdateComponentDeployment \/ RemoveVolumeFromDeployment
      BY <2>2, MountInvUpdate, MountInvRemove DEF Missed
    <2>3. CASE CleanupConfigMap \/ DeleteEmptyMap
      BY <2>3, MountInvCleanup
    <2>4. CASE ~ReconcileConfigMap /\ ~UpdateComponentDeployment /\ ~RemoveVolumeFromDeployment
               /\ ~CleanupConfigMap /\ ~DeleteEmptyMap
      <3>1. UNCHANGED <<cm, dep>>
        BY <1>1, <2>4
           DEF Work, EnsureFinalizer, ReadAgain, ValidateDependencies, HandleDependencyError,
               SkipConfigMap, SkipDeployment, SkipIngress, BuildIngress, ReconcileIngress,
               UpdateStatus, RemoveExposerFinalizer, api
      <3> QED BY <1>1, <2>4, <3>1, MountInvGoTo
    <2> QED BY <2>1, <2>2, <2>3, <2>4
  <1>2. ASSUME NEW e \in Exposers, Take(e)
        PROVE  MountInv'
    <2>1. CASE ReconcileNotFound(e)
      BY <2>1, MountInvQuiet DEF ReconcileNotFound, api, worker
    <2>2. CASE Reconcile(e)
      <3>1. UNCHANGED <<cm, dep, hash>> /\ hash = None
            /\ pc' \in {"finalizer", "unmount", "dependencies"}
        BY <2>2 DEF Reconcile, FirstPhase, api, MountInv, HashIsNew
      <3> QED BY <3>1, MountInvQuiet
    <2> QED BY <1>2, <2>1, <2>2 DEF Take
  <1>3. CASE Sync
    <2>1. UNCHANGED <<cm, dep, hash, pc, at, cr>>
      BY <1>3 DEF Sync, SyncExposer, SyncConfigMap, SyncDeployment, api, worker
    <2> QED BY <2>1, MountInvQuiet
  <1>4. CASE Disturb
    <2>1. CASE Fail \/ Crash
      BY <2>1, MountInvFinish DEF Fail, Crash, Retry, api
    <2>2. ASSUME NEW c \in Components, DeleteConfigMap(c) \/ ReplaceDeployment(c)
          PROVE  MountInv'
      BY <2>2, MountInvUsers
    <2>3. CASE ~Fail /\ ~Crash /\ ~\E c \in Components : DeleteConfigMap(c) \/ ReplaceDeployment(c)
      <3>1. UNCHANGED <<cm, dep, hash, pc, at, cr>>
        BY <1>4, <2>3 DEF Disturb, Create, Edit, Delete, DeleteIngress, ChangeDependency,
                          UserWrites, api, worker
      <3> QED BY <3>1, MountInvQuiet
    <2> QED BY <2>1, <2>2, <2>3
  <1>5. CASE UNCHANGED vars
    BY <1>5, MountInvQuiet DEF vars
  <1> QED BY <1>1, <1>2, <1>3, <1>4, <1>5 DEF Next

\* The pods of a component can start: whatever fails, crashes or is deleted, however old
\* the copies are, and in whatever order its exposers come, go and move, a Deployment mounts
\* the shared map only while the map exists (deletion.go:58-246, configmap.go:31-126),
\* unless at some time an unmount or a publication was left out for what an outdated copy
\* showed: nothing else takes a map from under the pods.
THEOREM MapOutlivesMount == Spec => []MountedMapExists \/ <><<Missed>>_vars
  <1>1. TypeOK /\ MountInv /\ [Next]_vars /\ ~<<Missed>>_vars => MountInv'
    <2>1. ASSUME UNCHANGED vars, MountInv PROVE MountInv'
      BY <2>1, MountInvQuiet DEF vars
    <2> QED BY <2>1, MountInvStep
  <1>2. MountInv => MountedMapExists
    BY DEF MountInv, MountIsProtected, MountedMapExists
  <1> QED BY <1>1, <1>2, MountInvInit, TypeCorrect, PTL DEF Spec
=============================================================================
