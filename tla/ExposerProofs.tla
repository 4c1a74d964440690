---------------------------- MODULE ExposerProofs ----------------------------
(* Proofs about the exposer controller, for every set of exposers, components *)
(* and values.                                                                *)
EXTENDS Exposer, TLAPS

\* What the reconciler computes is an object of the right kind.
LEMMA NewType ==
    ASSUME NEW c \in Components, NEW v \in Values
    PROVE  New(c, v) \in ExposerObject
  BY DEF New, ExposerObject

LEMMA PublishedType ==
    ASSUME NEW m \in ConfigMapObject \cup {None}, NEW e \in Exposers, NEW v \in Values
    PROVE  Published(m, e, v) \in ConfigMapObject
  BY NoneAssumption DEF Published, EmptyMap, NoEntries, ConfigMapObject, Data

LEMMA EntryForType ==
    ASSUME TypeOK, NEW e \in available, NEW v \in Values
    PROVE  EntryFor(e, v) \in Values
  BY RuntimeConfigurationAssumption DEF EntryFor, available, TypeOK, WorkerTyped

LEMMA WithdrawnType ==
    ASSUME NEW m \in ConfigMapObject, NEW e \in Exposers
    PROVE  Withdrawn(m, e) \in ConfigMapObject
  BY DEF Withdrawn, ConfigMapObject, Data

LEMMA StoredType ==
    ASSUME NEW m \in ConfigMapObject
    PROVE  Stored(m) \in ConfigMapObject \cup {None}
  BY DEF Stored

LEMMA DeletedType ==
    ASSUME TypeOK, NEW c \in Components
    PROVE  Deleted(c) \in ConfigMapObject \cup {None}
  <1>1. CASE cm[c] = None
    BY <1>1 DEF Deleted
  <1>2. CASE cm[c] # None
    <2>1. cm[c] \in ConfigMapObject
      BY <1>2 DEF TypeOK, StoredTyped
    <2>2. [cm[c] EXCEPT !.deleting = TRUE] \in ConfigMapObject
      BY <2>1 DEF ConfigMapObject
    <2> QED BY <1>2, <2>2, StoredType DEF Deleted
  <1> QED BY <1>1, <1>2

\* What is read is what is stored or an older copy of it.
LEMMA ReadTypes ==
    ASSUME TypeOK
    PROVE  /\ \A e \in Exposers : ExposerRead(e) \in ExposerObject \cup {None}
           /\ \A c \in Components : ConfigMapRead(c) \in ConfigMapObject \cup {None}
           /\ \A c \in Components : DeploymentRead(c) \in DeploymentObject \cup {None}
  BY DEF TypeOK, StoredTyped, CopiesTyped, ExposerRead, ConfigMapRead, DeploymentRead

\* Ending a reconciliation, or going on to its next step, keeps the worker typed.
LEMMA FinishTyped ==
    ASSUME TypeOK, Finish, queue' \in SUBSET Exposers, UNCHANGED route
    PROVE  WorkerTyped'
  BY DEF TypeOK, WorkerTyped, Finish, Phases

LEMMA DoneTyped ==
    ASSUME TypeOK, Done, UNCHANGED route
    PROVE  WorkerTyped'
  BY FinishTyped DEF TypeOK, WorkerTyped, Done

LEMMA RetryTyped ==
    ASSUME TypeOK, Retry, pc # "idle", UNCHANGED route
    PROVE  WorkerTyped'
  BY FinishTyped DEF TypeOK, WorkerTyped, Retry

LEMMA GoToTyped ==
    ASSUME TypeOK, NEW phase \in Phases \ {"idle", "reference"}, GoTo(phase),
           pc \notin {"idle", "reference"},
           UNCHANGED route
    PROVE  WorkerTyped'
  BY DEF TypeOK, WorkerTyped, GoTo

\* So does a write to the API server.
LEMMA WriteExposerTyped ==
    ASSUME TypeOK, NEW e \in Exposers, NEW o \in ExposerObject \cup {None},
           WriteExposer(e, o), UNCHANGED <<cm, dep, exC, cmC, cmFresh, depC, depFresh>>
    PROVE  StoredTyped' /\ CopiesTyped'
  BY DEF TypeOK, StoredTyped, CopiesTyped, WriteExposer

LEMMA WriteConfigMapTyped ==
    ASSUME TypeOK, NEW c \in Components, NEW o \in ConfigMapObject \cup {None},
           WriteConfigMap(c, o), UNCHANGED <<ex, dep, ing, exC, fresh, cmC, depC, depFresh>>
    PROVE  StoredTyped' /\ CopiesTyped'
  BY DEF TypeOK, StoredTyped, CopiesTyped, WriteConfigMap

LEMMA WriteDeploymentTyped ==
    ASSUME TypeOK, NEW c \in Components, NEW o \in DeploymentObject \cup {None},
           WriteDeployment(c, o), UNCHANGED <<ex, cm, ing, exC, fresh, cmC, cmFresh, depC>>
    PROVE  StoredTyped' /\ CopiesTyped'
  BY DEF TypeOK, StoredTyped, CopiesTyped, WriteDeployment

LEMMA ApiAndCachesTyped ==
    ASSUME TypeOK, UNCHANGED <<api, caches>>
    PROVE  StoredTyped' /\ CopiesTyped'
  BY DEF TypeOK, StoredTyped, CopiesTyped, api, caches

LEMMA TypeInit == Init => TypeOK
  <1> SUFFICES ASSUME Init PROVE TypeOK
    OBVIOUS
  <1>1. StoredTyped
    <2>1. ex \in [Exposers -> ExposerObject \cup {None}]
      BY NewType DEF Init
    <2>2. cm \in [Components -> ConfigMapObject \cup {None}]
      BY DEF Init
    <2>3. [mounted |-> FALSE, hash |-> None] \in DeploymentObject
      BY DEF DeploymentObject
    <2>4. {None, [mounted |-> FALSE, hash |-> None]} \subseteq DeploymentObject \cup {None}
      BY <2>3
    <2>5. dep \in [Components -> {None, [mounted |-> FALSE, hash |-> None]}]
      BY DEF Init
    <2>6. dep \in [Components -> DeploymentObject \cup {None}]
      BY <2>4, <2>5, Zenon
    <2>7. ing \in [Exposers -> IngressObject \cup {None}]
      BY DEF Init
    <2> QED BY <2>1, <2>2, <2>6, <2>7 DEF StoredTyped
  <1>2. CopiesTyped
    BY <1>1 DEF Init, StoredTyped, CopiesTyped
  <1>3. WorkerTyped
    <2>1. route \in [Exposers -> Routes \cup {None, "missing"}] /\ queue \in SUBSET Exposers
      BY DEF Init
    <2>2. held \in BOOLEAN
      BY DEF Init
    <2>3. pc = "idle" /\ at = None /\ cr = None /\ hash = None /\ marks = {} /\ rules = None
      BY DEF Init
    <2> QED BY <2>1, <2>2, <2>3 DEF WorkerTyped, Phases
  <1> QED BY <1>1, <1>2, <1>3 DEF TypeOK

LEMMA TypeStep == TypeOK /\ [Next]_vars => TypeOK'
  <1> SUFFICES ASSUME TypeOK, [Next]_vars PROVE TypeOK'
    OBVIOUS
  <1>0. pc # "idle" => /\ at \in Exposers /\ cr \in ExposerObject
                       /\ cr.comp \in Components /\ cr.val \in Values
    BY DEF TypeOK, WorkerTyped, ExposerObject
  <1>1. ASSUME EnsureFinalizer PROVE TypeOK'
    <2>1. [cr EXCEPT !.fin = TRUE] \in ExposerObject /\ at \in Exposers
      BY <1>1 DEF EnsureFinalizer, TypeOK, WorkerTyped, ExposerObject
    <2>2. CASE held
      <3>1. StoredTyped' /\ CopiesTyped'
        BY <1>1, <2>1, <2>2, WriteExposerTyped DEF EnsureFinalizer
      <3>2. WorkerTyped'
        BY <1>1, <2>2 DEF EnsureFinalizer, TypeOK, WorkerTyped, Phases
      <3> QED BY <3>1, <3>2 DEF TypeOK
    <2>3. CASE ~held
      <3>1. StoredTyped' /\ CopiesTyped'
        BY <1>1, <2>3, ApiAndCachesTyped DEF EnsureFinalizer, api, caches
      <3>2. WorkerTyped'
        BY <1>1, <2>3, RetryTyped DEF EnsureFinalizer
      <3> QED BY <3>1, <3>2 DEF TypeOK
    <2> QED BY <2>2, <2>3
  <1>2. ASSUME ReadAgain PROVE TypeOK'
    <2>1. StoredTyped' /\ CopiesTyped'
      BY <1>2, ApiAndCachesTyped DEF ReadAgain
    <2>2. CASE ExposerRead(at) # None
      <3>1. ExposerRead(at) \in ExposerObject
        BY <1>0, <1>2, <2>2, ReadTypes DEF ReadAgain
      <3>2. IsCurrent("Exposer", at, fresh) \in BOOLEAN
        BY DEF IsCurrent
      <3>3. WorkerTyped'
        BY <1>2, <2>2, <3>1, <3>2 DEF ReadAgain, TypeOK, WorkerTyped, Phases
      <3> QED BY <2>1, <3>3 DEF TypeOK
    <2>3. CASE ExposerRead(at) = None
      <3>1. WorkerTyped'
        BY <1>2, <2>3, RetryTyped DEF ReadAgain
      <3> QED BY <2>1, <3>1 DEF TypeOK
    <2> QED BY <2>2, <2>3
  <1>3. ASSUME ValidateDependencies PROVE TypeOK'
    <2>1. StoredTyped' /\ CopiesTyped'
      BY <1>3, ApiAndCachesTyped DEF ValidateDependencies
    <2>2. WorkerTyped'
      BY <1>3 DEF ValidateDependencies, TypeOK, WorkerTyped, Phases
    <2> QED BY <2>1, <2>2 DEF TypeOK
  <1>4. ASSUME HandleDependencyError PROVE TypeOK'
    <2>1. [cr EXCEPT !.ready = @ \ {"DependenciesReady"}] \in ExposerObject
      BY <1>0, <1>4 DEF HandleDependencyError, ExposerObject
    <2>2. StoredTyped' /\ CopiesTyped'
      <3>1. CASE WriteExposer(at, [cr EXCEPT !.ready = @ \ {"DependenciesReady"}])
        BY <1>0, <1>4, <2>1, <3>1, WriteExposerTyped DEF HandleDependencyError
      <3>2. CASE UNCHANGED <<ex, ing, fresh>>
        BY <1>4, <3>2, ApiAndCachesTyped DEF HandleDependencyError, api, caches
      <3> QED BY <1>4, <3>1, <3>2 DEF HandleDependencyError
    <2>3. WorkerTyped'
      BY <1>4, RetryTyped DEF HandleDependencyError
    <2> QED BY <2>2, <2>3 DEF TypeOK
  <1>5. ASSUME SkipConfigMap \/ SkipDeployment PROVE TypeOK'
    <2>1. StoredTyped' /\ CopiesTyped'
      BY <1>5, ApiAndCachesTyped DEF SkipConfigMap, SkipDeployment
    <2>2. WorkerTyped'
      BY <1>5, GoToTyped DEF SkipConfigMap, SkipDeployment, Phases
    <2> QED BY <2>1, <2>2 DEF TypeOK
  <1>6. ASSUME ReconcileConfigMap PROVE TypeOK'
    <2> DEFINE c == cr.comp
               seen == ConfigMapRead(c)
               want == Published(seen, at, EntryFor(at, cr.val))
               accepted == IsCurrent("ConfigMap", c, cmFresh) /\ Accepted(cm[c], at)
    <2>0. /\ at \in Exposers /\ EntryFor(at, cr.val) \in Values
          /\ c \in Components /\ pc = "configmap"
      BY <1>0, <1>6, EntryForType DEF ReconcileConfigMap
    <2>1. want \in ConfigMapObject /\ want.data \in Data
      <3>1. want \in ConfigMapObject
        BY <2>0, ReadTypes, PublishedType
      <3> QED BY <3>1 DEF ConfigMapObject
    <2> HIDE DEF c, seen, want, accepted
    <2>2. CASE seen = want \/ accepted
      <3>1. StoredTyped' /\ CopiesTyped'
        <4>1. CASE seen = want
          BY <1>6, <2>2, <4>1, ApiAndCachesTyped
             DEF ReconcileConfigMap, api, caches, seen, want, c
        <4>2. CASE seen # want
          <5>1. WriteConfigMap(c, want)
            BY <1>6, <2>2, <4>2 DEF ReconcileConfigMap, seen, want, c, accepted
          <5> QED BY <1>6, <2>0, <2>1, <5>1, WriteConfigMapTyped DEF ReconcileConfigMap
        <4> QED BY <4>1, <4>2
      <3>2. /\ hash' = want.data /\ pc' = "deployment"
            /\ marks' = marks \cup {"ConfigMapReady"}
            /\ UNCHANGED <<at, cr, held, rules, queue, route>>
        BY <1>6, <2>2 DEF ReconcileConfigMap, seen, want, c, accepted
      <3>3. WorkerTyped'
        BY <2>0, <2>1, <3>2 DEF TypeOK, WorkerTyped, Phases
      <3> QED BY <3>1, <3>3 DEF TypeOK
    <2>3. CASE ~(seen = want \/ accepted)
      <3>1. Retry /\ UNCHANGED <<cm, cmFresh>>
        BY <1>6, <2>3 DEF ReconcileConfigMap, seen, want, c, accepted
      <3>2. WorkerTyped'
        BY <1>6, <3>1, <2>0, RetryTyped DEF ReconcileConfigMap
      <3>3. StoredTyped' /\ CopiesTyped'
        BY <1>6, <3>1, ApiAndCachesTyped DEF ReconcileConfigMap, api, caches
      <3> QED BY <3>2, <3>3 DEF TypeOK
    <2> QED BY <2>2, <2>3
  <1>7. ASSUME UpdateComponentDeployment PROVE TypeOK'
    <2> DEFINE c == cr.comp
               seen == DeploymentRead(c)
               write == seen # None /\ NeedsMount(seen, hash)
    <2>0. at \in Exposers /\ c \in Components /\ pc = "deployment" /\ hash \in Data
      BY <1>0, <1>7 DEF UpdateComponentDeployment, TypeOK, WorkerTyped
    <2>1. Mounted(seen, hash) \in DeploymentObject
      BY <2>0 DEF Mounted, DeploymentObject
    <2> HIDE DEF c, seen, write
    <2>2. CASE write => IsCurrent("Deployment", c, depFresh)
      <3>1. StoredTyped' /\ CopiesTyped'
        <4>1. CASE write
          <5>1. WriteDeployment(c, Mounted(seen, hash))
            BY <1>7, <2>2, <4>1 DEF UpdateComponentDeployment, seen, write, c
          <5> QED BY <1>7, <2>0, <2>1, <5>1, WriteDeploymentTyped DEF UpdateComponentDeployment
        <4>2. CASE ~write
          BY <1>7, <2>2, <4>2, ApiAndCachesTyped
             DEF UpdateComponentDeployment, api, caches, seen, write, c
        <4> QED BY <4>1, <4>2
      <3>2. /\ pc' = "ingress" /\ marks' = marks \cup {"DeploymentReady"}
            /\ UNCHANGED <<at, cr, held, hash, rules, queue, route>>
        BY <1>7, <2>2 DEF UpdateComponentDeployment, seen, write, c
      <3>3. WorkerTyped'
        BY <2>0, <3>2 DEF TypeOK, WorkerTyped, Phases
      <3> QED BY <3>1, <3>3 DEF TypeOK
    <2>3. CASE ~(write => IsCurrent("Deployment", c, depFresh))
      <3>1. Retry /\ UNCHANGED <<dep, depFresh>>
        BY <1>7, <2>3 DEF UpdateComponentDeployment, seen, write, c
      <3>2. WorkerTyped'
        BY <1>7, <3>1, <2>0, RetryTyped DEF UpdateComponentDeployment
      <3>3. StoredTyped' /\ CopiesTyped'
        BY <1>7, <3>1, ApiAndCachesTyped DEF UpdateComponentDeployment, api, caches
      <3> QED BY <3>2, <3>3 DEF TypeOK
    <2> QED BY <2>2, <2>3
  <1>8. ASSUME UpdateStatus PROVE TypeOK'
    <2> DEFINE ready == cr.ready \cup marks
    <2>0. at \in Exposers /\ cr \in ExposerObject /\ pc # "idle"
      BY <1>0, <1>8 DEF UpdateStatus
    <2>1. [cr EXCEPT !.ready = ready] \in ExposerObject
      BY <2>0 DEF ExposerObject, TypeOK, WorkerTyped
    <2> HIDE DEF ready
    <2>2. CASE ready = cr.ready
      <3>1. Done /\ UNCHANGED <<ex, ing, fresh>>
        BY <1>8, <2>2 DEF UpdateStatus, ready
      <3>2. StoredTyped' /\ CopiesTyped'
        BY <1>8, <3>1, ApiAndCachesTyped DEF UpdateStatus, api, caches
      <3> QED BY <1>8, <3>1, <3>2, DoneTyped DEF UpdateStatus, TypeOK
    <2>3. CASE ready # cr.ready /\ held
      <3>1. WriteExposer(at, [cr EXCEPT !.ready = ready]) /\ Done
        BY <1>8, <2>3 DEF UpdateStatus, ready
      <3>2. StoredTyped' /\ CopiesTyped'
        BY <1>8, <2>0, <2>1, <3>1, WriteExposerTyped DEF UpdateStatus
      <3> QED BY <1>8, <3>1, <3>2, DoneTyped DEF UpdateStatus, TypeOK
    <2>4. CASE ready # cr.ready /\ ~held
      <3>1. Retry /\ UNCHANGED <<ex, ing, fresh>>
        BY <1>8, <2>4 DEF UpdateStatus, ready
      <3>2. StoredTyped' /\ CopiesTyped'
        BY <1>8, <3>1, ApiAndCachesTyped DEF UpdateStatus, api, caches
      <3> QED BY <1>8, <2>0, <3>1, <3>2, RetryTyped DEF UpdateStatus, TypeOK
    <2> QED BY <2>2, <2>3, <2>4
  <1>9. ASSUME RemoveVolumeFromDeployment PROVE TypeOK'
    <2> DEFINE c == cr.comp
               seen == DeploymentRead(c)
               write == seen # None /\ seen.mounted
    <2>0. c \in Components /\ pc = "unmount"
      BY <1>0, <1>9 DEF RemoveVolumeFromDeployment
    <2>1. Unmounted(seen) \in DeploymentObject
      BY DEF Unmounted, DeploymentObject
    <2> HIDE DEF c, seen, write
    <2>2. StoredTyped' /\ CopiesTyped'
      <3>1. CASE write /\ IsCurrent("Deployment", c, depFresh)
        <4>1. WriteDeployment(c, Unmounted(seen))
          BY <1>9, <3>1 DEF RemoveVolumeFromDeployment, seen, write, c
        <4> QED BY <1>9, <2>0, <2>1, <4>1, WriteDeploymentTyped DEF RemoveVolumeFromDeployment
      <3>2. CASE ~(write /\ IsCurrent("Deployment", c, depFresh))
        BY <1>9, <3>2, ApiAndCachesTyped
           DEF RemoveVolumeFromDeployment, api, caches, seen, write, c
      <3> QED BY <3>1, <3>2
    <2>3. WorkerTyped'
      <3>1. GoTo("cleanup") \/ Retry
        BY <1>9 DEF RemoveVolumeFromDeployment
      <3> QED BY <1>9, <2>0, <3>1, GoToTyped, RetryTyped DEF RemoveVolumeFromDeployment, Phases
    <2> QED BY <2>2, <2>3 DEF TypeOK
  <1>10. ASSUME CleanupConfigMap PROVE TypeOK'
    <2> DEFINE c == cr.comp
               seen == ConfigMapRead(c)
               left == Withdrawn(seen, at)
               write == HasTrace(seen, at) /\ IsCurrent("ConfigMap", c, cmFresh)
    <2>0. at \in Exposers /\ c \in Components /\ pc = "cleanup"
      BY <1>0, <1>10 DEF CleanupConfigMap
    <2>1. HasTrace(seen, at) => Stored(left) \in ConfigMapObject \cup {None}
      BY <2>0, ReadTypes, WithdrawnType, StoredType DEF HasTrace
    <2> HIDE DEF c, seen, left, write
    <2>2. CASE write
      <3>1. WriteConfigMap(c, Stored(left)) /\ (GoTo("deleteMap") \/ GoTo("release"))
        BY <1>10, <2>2 DEF CleanupConfigMap, seen, left, write, c
      <3>2. StoredTyped' /\ CopiesTyped'
        BY <1>10, <2>0, <2>1, <2>2, <3>1, WriteConfigMapTyped DEF CleanupConfigMap, write
      <3>3. WorkerTyped'
        BY <1>10, <2>0, <3>1, GoToTyped DEF CleanupConfigMap, Phases
      <3> QED BY <3>2, <3>3 DEF TypeOK
    <2>3. CASE ~write
      <3>1. (GoTo("release") \/ Retry) /\ UNCHANGED <<cm, cmFresh>>
        BY <1>10, <2>3 DEF CleanupConfigMap, seen, left, write, c
      <3>2. StoredTyped' /\ CopiesTyped'
        BY <1>10, <3>1, ApiAndCachesTyped DEF CleanupConfigMap, api, caches
      <3>3. WorkerTyped'
        BY <1>10, <2>0, <3>1, GoToTyped, RetryTyped DEF CleanupConfigMap, Phases
      <3> QED BY <3>2, <3>3 DEF TypeOK
    <2> QED BY <2>2, <2>3
  <1>11. ASSUME DeleteEmptyMap PROVE TypeOK'
    <2>1. StoredTyped' /\ CopiesTyped'
      BY <1>0, <1>11, DeletedType, WriteConfigMapTyped DEF DeleteEmptyMap
    <2>2. WorkerTyped'
      BY <1>11, GoToTyped DEF DeleteEmptyMap, Phases
    <2> QED BY <2>1, <2>2 DEF TypeOK
  <1>12. ASSUME RemoveExposerFinalizer PROVE TypeOK'
    <2>1. CASE held
      <3>1. StoredTyped' /\ CopiesTyped'
        BY <1>0, <1>12, <2>1, WriteExposerTyped DEF RemoveExposerFinalizer
      <3>2. WorkerTyped'
        BY <1>12, <2>1, DoneTyped DEF RemoveExposerFinalizer
      <3> QED BY <3>1, <3>2 DEF TypeOK
    <2>2. CASE ~held
      <3>1. StoredTyped' /\ CopiesTyped'
        BY <1>12, <2>2, ApiAndCachesTyped DEF RemoveExposerFinalizer, api, caches
      <3>2. WorkerTyped'
        BY <1>12, <2>2, RetryTyped DEF RemoveExposerFinalizer
      <3> QED BY <3>1, <3>2 DEF TypeOK
    <2> QED BY <2>1, <2>2
  <1>13. ASSUME NEW e \in Exposers, Reconcile(e) PROVE TypeOK'
    <2>1. StoredTyped' /\ CopiesTyped'
      BY <1>13, ApiAndCachesTyped DEF Reconcile
    <2>2. ExposerRead(e) \in ExposerObject
      BY <1>13, ReadTypes DEF Reconcile
    <2>3. FirstPhase(ExposerRead(e)) \in Phases \ {"idle", "reference"}
      BY <2>2 DEF FirstPhase, Phases, ExposerObject
    <2>4. IsCurrent("Exposer", e, fresh) \in BOOLEAN
      BY DEF IsCurrent
    <2>5. WorkerTyped'
      BY <1>13, <2>2, <2>3, <2>4 DEF Reconcile, TypeOK, WorkerTyped
    <2> QED BY <2>1, <2>5 DEF TypeOK
  <1>14. ASSUME NEW e \in Exposers, ReconcileNotFound(e) PROVE TypeOK'
    <2>1. StoredTyped' /\ CopiesTyped'
      BY <1>14, ApiAndCachesTyped DEF ReconcileNotFound
    <2>2. WorkerTyped'
      BY <1>14 DEF ReconcileNotFound, TypeOK, WorkerTyped, worker
    <2> QED BY <2>1, <2>2 DEF TypeOK
  <1>15. ASSUME Sync PROVE TypeOK'
    <2>1. ASSUME NEW e \in Exposers, SyncExposer(e) PROVE TypeOK'
      <3>1. StoredTyped'
        BY <2>1 DEF SyncExposer, TypeOK, StoredTyped, api
      <3>2. CopiesTyped'
        BY <2>1 DEF SyncExposer, TypeOK, StoredTyped, CopiesTyped, Copied
      <3>3. WorkerTyped'
        BY <2>1 DEF SyncExposer, TypeOK, WorkerTyped, worker
      <3> QED BY <3>1, <3>2, <3>3 DEF TypeOK
    <2>2. ASSUME NEW c \in Components, SyncConfigMap(c) PROVE TypeOK'
      <3>1. StoredTyped'
        BY <2>2 DEF SyncConfigMap, TypeOK, StoredTyped, api
      <3>2. CopiesTyped'
        BY <2>2 DEF SyncConfigMap, TypeOK, StoredTyped, CopiesTyped, Copied
      <3>3. FindExposersForComponent(c) \in SUBSET Exposers
        BY DEF FindExposersForComponent
      <3>4. WorkerTyped'
        BY <2>2, <3>3 DEF SyncConfigMap, TypeOK, WorkerTyped, worker
      <3> QED BY <3>1, <3>2, <3>4 DEF TypeOK
    <2>3. ASSUME NEW c \in Components, SyncDeployment(c) PROVE TypeOK'
      <3>1. StoredTyped'
        BY <2>3 DEF SyncDeployment, TypeOK, StoredTyped, api
      <3>2. CopiesTyped'
        BY <2>3 DEF SyncDeployment, TypeOK, StoredTyped, CopiesTyped, Copied
      <3>3. WorkerTyped'
        BY <2>3 DEF SyncDeployment, TypeOK, WorkerTyped, worker
      <3> QED BY <3>1, <3>2, <3>3 DEF TypeOK
    <2> QED BY <1>15, <2>1, <2>2, <2>3 DEF Sync
  <1>16. ASSUME NEW e \in Exposers, NEW o \in ExposerObject \cup {None}, UserWrites(e, o)
         PROVE  TypeOK'
    <2>1. StoredTyped' /\ CopiesTyped'
      BY <1>16, WriteExposerTyped DEF UserWrites
    <2>2. (held /\ at # e) \in BOOLEAN
      OBVIOUS
    <2>3. WorkerTyped'
      BY <1>16, <2>2 DEF UserWrites, TypeOK, WorkerTyped
    <2> QED BY <2>1, <2>3 DEF TypeOK
  <1>17. ASSUME NEW e \in Exposers, NEW c \in Components, NEW v \in Values,
                Create(e, c, v) \/ Edit(e, c, v) \/ Delete(e)
         PROVE  TypeOK'
    <2>0. ex[e] # None => ex[e] \in ExposerObject
      BY DEF TypeOK, StoredTyped
    <2>1. CASE Create(e, c, v)
      BY <1>16, <2>1, NewType DEF Create
    <2>2. CASE Edit(e, c, v)
      <3>1. [ex[e] EXCEPT !.comp = c, !.val = v] \in ExposerObject
        BY <2>0, <2>2 DEF Edit, ExposerObject
      <3> QED BY <1>16, <2>2, <3>1 DEF Edit
    <2>3. CASE Delete(e)
      <3>1. [ex[e] EXCEPT !.deleting = TRUE] \in ExposerObject
        BY <2>0, <2>3 DEF Delete, ExposerObject
      <3> QED BY <1>16, <2>3, <3>1 DEF Delete
    <2> QED BY <1>17, <2>1, <2>2, <2>3
  <1>18. ASSUME NEW e \in Exposers, NEW r \in Routes \cup {None, "missing"},
                ChangeDependency(e, r) \/ DeleteIngress(e)
         PROVE  TypeOK'
    <2>1. CASE ChangeDependency(e, r)
      <3>1. StoredTyped' /\ CopiesTyped'
        BY <2>1, ApiAndCachesTyped DEF ChangeDependency
      <3>2. WorkerTyped'
        BY <2>1 DEF ChangeDependency, TypeOK, WorkerTyped, worker
      <3> QED BY <3>1, <3>2 DEF TypeOK
    <2>2. CASE DeleteIngress(e)
      <3>1. StoredTyped' /\ CopiesTyped'
        BY <2>2 DEF DeleteIngress, TypeOK, StoredTyped, CopiesTyped, caches
      <3>2. WorkerTyped'
        BY <2>2 DEF DeleteIngress, TypeOK, WorkerTyped, worker
      <3> QED BY <3>1, <3>2 DEF TypeOK
    <2> QED BY <1>18, <2>1, <2>2
  <1>19. ASSUME NEW c \in Components, DeleteConfigMap(c) \/ ReplaceDeployment(c) PROVE TypeOK'
    <2>1. CASE DeleteConfigMap(c)
      <3>1. StoredTyped' /\ CopiesTyped'
        BY <2>1, DeletedType, WriteConfigMapTyped DEF DeleteConfigMap
      <3>2. WorkerTyped'
        BY <2>1 DEF DeleteConfigMap, TypeOK, WorkerTyped, worker
      <3> QED BY <3>1, <3>2 DEF TypeOK
    <2>2. CASE ReplaceDeployment(c)
      <3>1. [mounted |-> FALSE, hash |-> None] \in DeploymentObject
        BY DEF DeploymentObject
      <3>2. StoredTyped' /\ CopiesTyped'
        BY <2>2, <3>1, WriteDeploymentTyped DEF ReplaceDeployment
      <3>3. WorkerTyped'
        BY <2>2 DEF ReplaceDeployment, TypeOK, WorkerTyped, worker
      <3> QED BY <3>2, <3>3 DEF TypeOK
    <2> QED BY <1>19, <2>1, <2>2
  <1>20. ASSUME Fail PROVE TypeOK'
    <2>1. StoredTyped' /\ CopiesTyped'
      BY <1>20, ApiAndCachesTyped DEF Fail
    <2>2. WorkerTyped'
      BY <1>20, RetryTyped DEF Fail
    <2> QED BY <2>1, <2>2 DEF TypeOK
  <1>21. ASSUME Crash PROVE TypeOK'
    <2>1. StoredTyped'
      BY <1>21 DEF Crash, TypeOK, StoredTyped, api
    <2>2. CopiesTyped'
      BY <1>21 DEF Crash, TypeOK, StoredTyped, CopiesTyped
    <2>3. queue' \in SUBSET Exposers
      BY <1>21 DEF Crash
    <2>4. WorkerTyped'
      BY <1>21, <2>3, FinishTyped DEF Crash
    <2> QED BY <2>1, <2>2, <2>4 DEF TypeOK
  <1>22. ASSUME Disturb PROVE TypeOK'
    <2>1. CASE \E e \in Exposers, c \in Components, v \in Values : Create(e, c, v) \/ Edit(e, c, v)
      BY <1>17, <2>1
    <2>2. CASE \E e \in Exposers : Delete(e) \/ DeleteIngress(e)
      <3> PICK e \in Exposers : Delete(e) \/ DeleteIngress(e)
        BY <2>2
      <3>1. CASE Delete(e)
        <4>1. ex[e].val \in Values /\ ex[e].comp \in Components
          BY <3>1 DEF Delete, TypeOK, StoredTyped, ExposerObject
        <4> QED BY <1>17, <3>1, <4>1
      <3>2. CASE DeleteIngress(e)
        BY <1>18, <3>2
      <3> QED BY <3>1, <3>2
    <2>3. CASE \E e \in Exposers, r \in Routes \cup {None, "missing"} : ChangeDependency(e, r)
      BY <1>18, <2>3
    <2>4. CASE \E c \in Components : DeleteConfigMap(c) \/ ReplaceDeployment(c)
      BY <1>19, <2>4
    <2> QED BY <1>20, <1>21, <1>22, <2>1, <2>2, <2>3, <2>4 DEF Disturb
  <1>24. ASSUME SkipIngress \/ BuildIngress PROVE TypeOK'
    <2>0. pc = "ingress" /\ at \in Exposers
      BY <1>0, <1>24 DEF SkipIngress, BuildIngress
    <2>1. CASE SkipIngress
      <3>1. StoredTyped' /\ CopiesTyped'
        BY <2>0, <2>1 DEF SkipIngress, TypeOK, StoredTyped, CopiesTyped, caches
      <3>2. WorkerTyped'
        BY <2>0, <2>1 DEF SkipIngress, TypeOK, WorkerTyped, Phases
      <3> QED BY <3>1, <3>2 DEF TypeOK
    <2>2. CASE BuildIngress
      <3>1. StoredTyped' /\ CopiesTyped'
        BY <2>2, ApiAndCachesTyped DEF BuildIngress
      <3>2. route[at] \in Routes
        BY <2>0, <2>2 DEF BuildIngress, available, TypeOK, WorkerTyped
      <3>3. WorkerTyped'
        BY <2>0, <2>2, <3>2, NoneAssumption DEF BuildIngress, TypeOK, WorkerTyped, Phases
      <3> QED BY <3>1, <3>3 DEF TypeOK
    <2> QED BY <1>24, <2>1, <2>2
  <1>25. ASSUME ReconcileIngress PROVE TypeOK'
    <2>0. pc = "reference" /\ at \in Exposers /\ rules \in Routes
      BY <1>0, <1>25 DEF ReconcileIngress, TypeOK, WorkerTyped
    <2>1. ReferenceIngress(at, rules) \in IngressObject
      BY <2>0 DEF ReferenceIngress, IngressObject, available, TypeOK, WorkerTyped
    <2>2. StoredTyped' /\ CopiesTyped'
      BY <1>25, <2>0, <2>1 DEF ReconcileIngress, TypeOK, StoredTyped, CopiesTyped, caches
    <2>3. CASE Retry
      BY <1>25, <2>0, <2>2, <2>3, RetryTyped DEF ReconcileIngress, TypeOK
    <2>4. CASE /\ pc' = "status" /\ rules' = None /\ queue' \in {queue, queue \cup {at}}
               /\ UNCHANGED <<at, cr, held, hash, marks>>
      <3>1. WorkerTyped'
        BY <1>25, <2>0, <2>4 DEF ReconcileIngress, TypeOK, WorkerTyped, Phases
      <3> QED BY <2>2, <3>1 DEF TypeOK
    <2> QED BY <1>25, <2>3, <2>4 DEF ReconcileIngress
  <1>23. ASSUME UNCHANGED vars PROVE TypeOK'
    <2>1. StoredTyped' /\ CopiesTyped'
      BY <1>23, ApiAndCachesTyped DEF vars, api, caches
    <2>2. WorkerTyped'
      BY <1>23 DEF vars, TypeOK, WorkerTyped
    <2> QED BY <2>1, <2>2 DEF TypeOK
  <1> QED
    BY <1>1, <1>2, <1>3, <1>4, <1>5, <1>6, <1>7, <1>8, <1>9, <1>10, <1>11, <1>12, <1>13,
       <1>14, <1>15, <1>22, <1>23, <1>24, <1>25 DEF Next, Work, Take

\* Every step keeps every variable in its type; no state of a reconciliation
\* survives its end.
THEOREM TypeCorrect == Spec => []TypeOK
  BY TypeInit, TypeStep, PTL DEF Spec

-----------------------------------------------------------------------------
(* No orphans. *)

\* An up-to-date copy of a map is what is stored.
MapCopiesAgree ==
    \A c \in Components : "ConfigMap" \in Lagging /\ c \in cmFresh => cmC[c] = cm[c]

\* No write of a map goes unnoticed, and only news of it make its copy current.
LEMMA MapCopiesStillAgree ==
    ASSUME TypeOK, MapCopiesAgree, [Next]_vars
    PROVE  MapCopiesAgree'
  <1>0. pc # "idle" => cr.comp \in Components
    BY DEF TypeOK, WorkerTyped, ExposerObject
  <1>1. ASSUME NEW c \in Components, NEW o, WriteConfigMap(c, o), UNCHANGED cmC
        PROVE  MapCopiesAgree'
    BY <1>1 DEF WriteConfigMap, MapCopiesAgree, TypeOK, StoredTyped
  <1>2. CASE UNCHANGED <<cm, cmC, cmFresh>>
    BY <1>2 DEF MapCopiesAgree
  <1>3. CASE Work
    <2>1. CASE ReconcileConfigMap
      BY <1>0, <1>1, <1>2, <2>1 DEF ReconcileConfigMap
    <2>2. CASE CleanupConfigMap \/ DeleteEmptyMap
      BY <1>0, <1>1, <1>2, <2>2 DEF CleanupConfigMap, DeleteEmptyMap
    <2>3. CASE ~ReconcileConfigMap /\ ~CleanupConfigMap /\ ~DeleteEmptyMap
      BY <1>2, <1>3, <2>3
         DEF Work, EnsureFinalizer, ReadAgain, ValidateDependencies, HandleDependencyError,
             SkipConfigMap, SkipDeployment, UpdateComponentDeployment, SkipIngress,
             BuildIngress, ReconcileIngress, UpdateStatus, RemoveVolumeFromDeployment,
             RemoveExposerFinalizer, api, caches
    <2> QED BY <2>1, <2>2, <2>3
  <1>4. ASSUME NEW c \in Components, SyncConfigMap(c) PROVE MapCopiesAgree'
    BY <1>4 DEF SyncConfigMap, MapCopiesAgree, Copied, TypeOK, CopiesTyped, api
  <1>5. ASSUME NEW c \in Components, DeleteConfigMap(c) PROVE MapCopiesAgree'
    BY <1>1, <1>5 DEF DeleteConfigMap
  <1>6. CASE Crash
    BY <1>6 DEF Crash, MapCopiesAgree, api
  <1>7. CASE \/ \E e \in Exposers : Take(e) \/ SyncExposer(e) \/ Delete(e) \/ DeleteIngress(e)
             \/ \E e \in Exposers, c \in Components, v \in Values : Create(e, c, v) \/ Edit(e, c, v)
             \/ \E e \in Exposers, r \in Routes \cup {None, "missing"} : ChangeDependency(e, r)
             \/ \E c \in Components : SyncDeployment(c) \/ ReplaceDeployment(c)
             \/ Fail \/ UNCHANGED vars
    BY <1>2, <1>7
       DEF Take, Reconcile, ReconcileNotFound, SyncExposer, SyncDeployment, Create, Edit, Delete,
           UserWrites, DeleteIngress, ChangeDependency, ReplaceDeployment, Fail, api, caches, vars
  <1> QED BY <1>3, <1>4, <1>5, <1>6, <1>7 DEF Next, Sync, Disturb

\* What is written over a map is made from the map as it is.
LEMMA WrittenFromCurrent ==
    ASSUME MapCopiesAgree, NEW c \in Components, IsCurrent("ConfigMap", c, cmFresh)
    PROVE  ConfigMapRead(c) = cm[c]
  BY DEF MapCopiesAgree, IsCurrent, ConfigMapRead

\* A reconciliation ends without writing an exposer or a ConfigMap.
LEMMA OrphanInvFinish ==
    ASSUME TypeOK, OrphanInv, Finish, UNCHANGED <<ex, cm, exC, fresh>>
    PROVE  OrphanInv'
  BY DEF OrphanInv, Finish, NoTraceLeft, CopiesAgree, HeldIsCurrent, SeenIsProtected,
         PublisherIsProtected, RereadIsProtected, PhaseFitsCopy, CleanedBeforeRelease,
         IsProtected, ExposerRead

\* A reducer goes on to the next one.
LEMMA OrphanInvNextReducer ==
    ASSUME TypeOK, OrphanInv, UNCHANGED <<ex, cm, exC, fresh, at, cr, held>>,
           pc \in {"dependencies", "configmap", "deployment", "ingress", "reference"},
           pc' \in {"configmap", "deployment", "ingress", "reference", "status"}
    PROVE  OrphanInv'
  BY DEF OrphanInv, NoTraceLeft, CopiesAgree, HeldIsCurrent, SeenIsProtected,
         PublisherIsProtected, RereadIsProtected, PhaseFitsCopy, CleanedBeforeRelease,
         IsProtected, ExposerRead

\* The worker writes its exposer from a current copy, and does not take the
\* finalizer away.
LEMMA OrphanInvWorkerWrite ==
    ASSUME TypeOK, OrphanInv, pc # "idle", held, NEW o \in ExposerObject,
           NEW w \in Exposers, at = w, WriteExposer(w, o), o.comp = cr.comp, cr.fin => o.fin,
           UNCHANGED <<cm, exC>>, ~held',
           pc' = "idle" \/ (pc' = "reread" /\ o.fin /\ UNCHANGED <<at, cr>>)
    PROVE  OrphanInv'
  <1>1. /\ ex[w] = cr /\ ExposerRead(w) = cr /\ cr \in ExposerObject
        /\ ex \in [Exposers -> ExposerObject \cup {None}]
    BY DEF TypeOK, WorkerTyped, StoredTyped, OrphanInv, HeldIsCurrent
  <1>2. ex'[w] = o /\ \A e \in Exposers : e # w => ex'[e] = ex[e]
    BY <1>1 DEF WriteExposer
  <1>3. o # None /\ cr # None
    BY <1>1, NoneAssumption
  <1>4. fresh' = fresh \ {w} /\ exC' = exC
    BY DEF WriteExposer
  <1>5. \A e \in Exposers : e # w => ExposerRead(e)' = ExposerRead(e)
    BY <1>2, <1>4 DEF ExposerRead
  <1>6. ExposerRead(w)' = cr \/ ExposerRead(w)' = o
    BY <1>1, <1>2, <1>4 DEF ExposerRead
  <1>7. \A e \in Exposers, c \in Components : IsProtected(e, c) => IsProtected(e, c)'
    BY <1>1, <1>2, <1>3 DEF IsProtected
  <1>8. NoTraceLeft'
    <2> SUFFICES ASSUME NEW e \in Exposers, NEW c \in Components, HasTrace(cm[c], e)
                 PROVE  IsProtected(e, c)'
      BY DEF NoTraceLeft, HasTrace, IsProtected
    <2>1. IsProtected(e, c)
      BY DEF OrphanInv, NoTraceLeft, IsProtected
    <2> QED BY <1>7, <2>1
  <1>9. CopiesAgree'
    BY <1>2, <1>4 DEF OrphanInv, CopiesAgree
  <1>10. SeenIsProtected'
    <2> SUFFICES ASSUME NEW e \in Exposers, ExposerRead(e)' # None, ExposerRead(e)'.fin,
                        ~ExposerRead(e)'.deleting
                 PROVE  IsProtected(e, ExposerRead(e).comp)'
      BY DEF SeenIsProtected, IsProtected
    <2>1. CASE e # w
      BY <1>2, <1>5, <2>1 DEF OrphanInv, SeenIsProtected, IsProtected
    <2>2. CASE e = w
      <3>1. o.fin /\ ExposerRead(e)'.comp = cr.comp
        BY <1>6, <2>2
      <3> QED BY <1>2, <1>3, <2>2, <3>1 DEF IsProtected
    <2> QED BY <2>1, <2>2
  <1>11. RereadIsProtected'
    BY <1>2, <1>3, <1>6 DEF RereadIsProtected, IsProtected
  <1> QED
    BY <1>8, <1>9, <1>10, <1>11
       DEF OrphanInv, HeldIsCurrent, PublisherIsProtected, PhaseFitsCopy, CleanedBeforeRelease

\* A user writes exposer e: never one that is gone while its finalizer is there.
LEMMA OrphanInvUserWrite ==
    ASSUME TypeOK, OrphanInv, NEW e \in Exposers, NEW o \in ExposerObject \cup {None},
           UserWrites(e, o), ex[e] = None => o # None /\ ~o.fin,
           ex[e] # None /\ ex[e].fin => o # None /\ o.fin /\ o.comp = ex[e].comp,
           ex[e] # None /\ ~ex[e].fin => o = None \/ ~o.fin
    PROVE  OrphanInv'
  <1>1. /\ ex'[e] = o /\ \A f \in Exposers : f # e => ex'[f] = ex[f]
        /\ fresh' = fresh \ {e}
    BY DEF UserWrites, WriteExposer, TypeOK, StoredTyped
  <1>2. /\ UNCHANGED <<cm, exC, pc, at, cr>>
        /\ held' => held /\ at # e
    BY DEF UserWrites
  <1>3. \A f \in Exposers : f # e => ExposerRead(f)' = ExposerRead(f)
    BY <1>1, <1>2 DEF ExposerRead
  <1>4. ExposerRead(e)' = IF "Exposer" \in Lagging THEN ExposerRead(e) ELSE o
    BY <1>1, <1>2 DEF ExposerRead
  <1>5. \A f \in Exposers, c \in Components : IsProtected(f, c) => IsProtected(f, c)'
    BY <1>1 DEF IsProtected
  <1>6. NoTraceLeft'
    <2> SUFFICES ASSUME NEW f \in Exposers, NEW c \in Components, HasTrace(cm[c], f)
                 PROVE  IsProtected(f, c)'
      BY <1>2 DEF NoTraceLeft, HasTrace, IsProtected
    <2>1. IsProtected(f, c)
      BY DEF OrphanInv, NoTraceLeft, IsProtected
    <2> QED BY <1>5, <2>1
  <1>7. CopiesAgree'
    BY <1>1, <1>2 DEF OrphanInv, CopiesAgree
  <1>8. HeldIsCurrent'
    <2>1. at \in Exposers \/ pc = "idle"
      BY DEF TypeOK, WorkerTyped
    <2> QED BY <1>1, <1>2, <1>3, <2>1 DEF OrphanInv, HeldIsCurrent
  <1>9. SeenIsProtected'
    <2> SUFFICES ASSUME NEW f \in Exposers, ExposerRead(f)' # None, ExposerRead(f)'.fin,
                        ~ExposerRead(f)'.deleting
                 PROVE  IsProtected(f, ExposerRead(f).comp)'
      BY DEF SeenIsProtected, IsProtected
    <2>1. ExposerRead(f)' # ExposerRead(f) => f = e /\ ExposerRead(f)' = o
      BY <1>3, <1>4
    <2>2. CASE ExposerRead(f)' = ExposerRead(f)
      <3>1. IsProtected(f, ExposerRead(f).comp)
        BY <2>2 DEF OrphanInv, SeenIsProtected
      <3> QED BY <1>1, <2>2, <3>1 DEF IsProtected
    <2>3. CASE f = e /\ ExposerRead(f)' = o
      BY <1>1, <2>3 DEF IsProtected
    <2> QED BY <2>1, <2>2, <2>3
  <1>10. PublisherIsProtected'
    <2>1. at \in Exposers \/ pc = "idle"
      BY DEF TypeOK, WorkerTyped
    <2> QED BY <1>1, <1>2, <2>1 DEF OrphanInv, PublisherIsProtected, IsProtected
  <1>11. RereadIsProtected'
    <2> SUFFICES ASSUME pc = "reread"
                 PROVE  /\ IsProtected(at, cr.comp)'
                        /\ ExposerRead(at)' # None => ExposerRead(at)'.comp = cr.comp
      BY <1>2 DEF RereadIsProtected
    <2>1. /\ at \in Exposers /\ IsProtected(at, cr.comp)
          /\ ExposerRead(at) # None => ExposerRead(at).comp = cr.comp
      BY DEF TypeOK, WorkerTyped, OrphanInv, RereadIsProtected
    <2>2. IsProtected(at, cr.comp)'
      BY <1>1, <1>2, <2>1 DEF IsProtected
    <2>3. ExposerRead(at)' = ExposerRead(at) \/ (at = e /\ ExposerRead(at)' = o)
      <3>1. CASE at # e
        BY <1>2, <1>3, <2>1, <3>1
      <3>2. CASE at = e
        BY <1>2, <1>4, <3>2
      <3> QED BY <3>1, <3>2
    <2> QED BY <2>1, <2>2, <2>3 DEF IsProtected
  <1>12. PhaseFitsCopy' /\ CleanedBeforeRelease'
    BY <1>2 DEF OrphanInv, PhaseFitsCopy, CleanedBeforeRelease, HasTrace
  <1> QED BY <1>6, <1>7, <1>8, <1>9, <1>10, <1>11, <1>12 DEF OrphanInv

\* Steps that leave the exposers, their copies and the worker's phase alone, and at
\* most take traces out of a map.
LEMMA OrphanInvFrame ==
    ASSUME TypeOK, OrphanInv, UNCHANGED <<ex, exC, fresh, pc, at, cr, held>>,
           \A e \in Exposers, c \in Components : HasTrace(cm[c], e)' => HasTrace(cm[c], e)
    PROVE  OrphanInv'
  <1>1. pc # "idle" => at \in Exposers /\ cr.comp \in Components
    BY DEF TypeOK, WorkerTyped, ExposerObject
  <1> QED
    BY <1>1 DEF OrphanInv, NoTraceLeft, CopiesAgree, HeldIsCurrent, SeenIsProtected,
         PublisherIsProtected, RereadIsProtected, PhaseFitsCopy, CleanedBeforeRelease,
         IsProtected, ExposerRead

LEMMA OrphanInvInit == Init => OrphanInv
  BY DEF Init, New, OrphanInv, NoTraceLeft, HasTrace, CopiesAgree, HeldIsCurrent,
         SeenIsProtected, PublisherIsProtected, RereadIsProtected, PhaseFitsCopy,
         CleanedBeforeRelease, IsProtected, ExposerRead

\* The steps that can disturb the invariant.
LEMMA OrphanInvReconcile ==
    ASSUME TypeOK, OrphanInv, NEW e \in Exposers, Reconcile(e)
    PROVE  OrphanInv'
  <1>1. UNCHANGED <<ex, cm, exC, fresh>>
    BY DEF Reconcile, api, caches
  <1>2. ExposerRead(e) \in ExposerObject
    BY ReadTypes DEF Reconcile
  <1>3. /\ at' = e /\ cr' = ExposerRead(e) /\ pc' = FirstPhase(ExposerRead(e))
        /\ held' = IsCurrent("Exposer", e, fresh)
    BY DEF Reconcile
  <1>4. HeldIsCurrent'
    BY <1>1, <1>3 DEF OrphanInv, HeldIsCurrent, CopiesAgree, IsCurrent, ExposerRead
  <1>5. PublisherIsProtected'
    <2>1. pc' = "dependencies" => ExposerRead(e).fin /\ ~ExposerRead(e).deleting
      BY <1>2, <1>3 DEF FirstPhase, ExposerObject
    <2>2. pc' = "dependencies" => IsProtected(e, ExposerRead(e).comp)
      BY <1>2, <2>1, NoneAssumption DEF OrphanInv, SeenIsProtected
    <2>3. pc' \in {"unmount", "finalizer", "dependencies"}
      BY <1>3 DEF FirstPhase
    <2> QED BY <1>1, <1>3, <2>2, <2>3 DEF PublisherIsProtected, IsProtected
  <1>6. RereadIsProtected' /\ PhaseFitsCopy' /\ CleanedBeforeRelease'
    BY <1>2, <1>3 DEF FirstPhase, RereadIsProtected, PhaseFitsCopy, CleanedBeforeRelease,
                      ExposerObject
  <1>7. NoTraceLeft' /\ CopiesAgree' /\ SeenIsProtected'
    BY <1>1 DEF OrphanInv, NoTraceLeft, CopiesAgree, SeenIsProtected, IsProtected, ExposerRead
  <1> QED BY <1>4, <1>5, <1>6, <1>7 DEF OrphanInv

LEMMA OrphanInvReadAgain ==
    ASSUME TypeOK, OrphanInv, ReadAgain
    PROVE  OrphanInv'
  <1>1. UNCHANGED <<ex, cm, exC, fresh>> /\ pc = "reread" /\ at \in Exposers
    BY DEF ReadAgain, api, caches, TypeOK, WorkerTyped
  <1>2. CASE ExposerRead(at) = None
    BY <1>1, <1>2, OrphanInvFinish DEF ReadAgain, Retry
  <1>3. CASE ExposerRead(at) # None
    <2>1. /\ at' = at /\ cr' = ExposerRead(at) /\ pc' = "dependencies"
          /\ held' = IsCurrent("Exposer", at, fresh)
      BY <1>3 DEF ReadAgain
    <2>2. HeldIsCurrent'
      BY <1>1, <2>1 DEF OrphanInv, HeldIsCurrent, CopiesAgree, IsCurrent, ExposerRead
    <2>3. IsProtected(at, ExposerRead(at).comp)
      BY <1>1, <1>3 DEF OrphanInv, RereadIsProtected
    <2>4. PublisherIsProtected' /\ RereadIsProtected' /\ PhaseFitsCopy' /\ CleanedBeforeRelease'
      BY <1>1, <2>1, <2>3 DEF PublisherIsProtected, RereadIsProtected, PhaseFitsCopy,
                              CleanedBeforeRelease, IsProtected
    <2>5. NoTraceLeft' /\ CopiesAgree' /\ SeenIsProtected'
      BY <1>1 DEF OrphanInv, NoTraceLeft, CopiesAgree, SeenIsProtected, IsProtected, ExposerRead
    <2> QED BY <2>2, <2>4, <2>5 DEF OrphanInv
  <1> QED BY <1>2, <1>3

\* The entry published is that of an exposer whose finalizer is there.
LEMMA OrphanInvPublish ==
    ASSUME TypeOK, OrphanInv, MapCopiesAgree, ReconcileConfigMap
    PROVE  OrphanInv'
  <1> DEFINE c == cr.comp
             want == Published(ConfigMapRead(c), at, EntryFor(at, cr.val))
  <1>1. /\ UNCHANGED <<ex, exC, fresh>> /\ pc = "configmap"
        /\ at \in Exposers /\ c \in Components
    BY DEF ReconcileConfigMap, TypeOK, WorkerTyped, ExposerObject
  <1>2. CASE Retry /\ UNCHANGED cm
    BY <1>1, <1>2, OrphanInvFinish DEF Retry
  <1>3. CASE /\ \/ cm' = cm
                \/ cm' = [cm EXCEPT ![c] = want] /\ ConfigMapRead(c) = cm[c]
             /\ pc' = "deployment" /\ UNCHANGED <<at, cr, held>>
    <2>1. ConfigMapRead(c) = cm[c] =>
            \A e \in Exposers : e # at /\ HasTrace(want, e) => HasTrace(cm[c], e)
      <3>1. cm[c] # None => cm[c] \in ConfigMapObject
        BY <1>1 DEF TypeOK, StoredTyped
      <3> QED BY <1>1, <3>1 DEF HasTrace, Published, EmptyMap, NoEntries,
                                ConfigMapObject, Data
    <2>2. IsProtected(at, c)
      BY <1>1 DEF OrphanInv, PublisherIsProtected
    <2>3. \A e \in Exposers, d \in Components :
             HasTrace(cm'[d], e) => HasTrace(cm[d], e) \/ (e = at /\ d = c)
      <3>1. cm \in [Components -> ConfigMapObject \cup {None}]
        BY DEF TypeOK, StoredTyped
      <3> QED BY <1>1, <1>3, <2>1, <3>1
    <2>4. NoTraceLeft'
      BY <1>1, <2>2, <2>3 DEF OrphanInv, NoTraceLeft, IsProtected
    <2> QED
      BY <1>1, <1>3, <2>4
         DEF OrphanInv, CopiesAgree, HeldIsCurrent, SeenIsProtected, PublisherIsProtected,
             RereadIsProtected, PhaseFitsCopy, CleanedBeforeRelease, IsProtected, ExposerRead
  <1> QED
    <2>1. CASE ConfigMapRead(c) = want
      BY <1>3, <2>1 DEF ReconcileConfigMap
    <2>2. CASE ConfigMapRead(c) # want /\ IsCurrent("ConfigMap", c, cmFresh) /\ Accepted(cm[c], at)
      <3>1. ConfigMapRead(c) = cm[c]
        BY <1>1, <2>2, WrittenFromCurrent
      <3> QED BY <1>3, <2>2, <3>1 DEF ReconcileConfigMap, WriteConfigMap
    <2>3. CASE ConfigMapRead(c) # want /\ ~(IsCurrent("ConfigMap", c, cmFresh) /\ Accepted(cm[c], at))
      BY <1>2, <2>3 DEF ReconcileConfigMap
    <2> QED BY <2>1, <2>2, <2>3

\* After the cleanup of the map, nothing of the exposer is left in it.
LEMMA OrphanInvCleanup ==
    ASSUME TypeOK, OrphanInv, MapCopiesAgree, CleanupConfigMap, ~BlindCleanup
    PROVE  OrphanInv'
  <1> DEFINE c == cr.comp
             left == Withdrawn(cm[c], at)
  <1>1. /\ UNCHANGED <<ex, exC, fresh>> /\ pc = "cleanup"
        /\ at \in Exposers /\ c \in Components
    BY DEF CleanupConfigMap, TypeOK, WorkerTyped, ExposerObject
  <1>2. CASE Retry /\ UNCHANGED cm
    BY <1>1, <1>2, OrphanInvFinish DEF Retry
  <1>3. CASE /\ (cm' = cm /\ ~HasTrace(cm[c], at)) \/ cm' = [cm EXCEPT ![c] = Stored(left)]
             /\ HasTrace(cm[c], at) \/ cm' = cm
             /\ pc' \in {"deleteMap", "release"} /\ UNCHANGED <<at, cr, held>>
    <2>1. cm \in [Components -> ConfigMapObject \cup {None}]
      BY DEF TypeOK, StoredTyped
    <2>2. CASE cm' = cm /\ ~HasTrace(cm[c], at)
      BY <1>1, <1>3, <2>2
         DEF OrphanInv, NoTraceLeft, CopiesAgree, HeldIsCurrent, SeenIsProtected,
             PublisherIsProtected, RereadIsProtected, PhaseFitsCopy, CleanedBeforeRelease,
             IsProtected, ExposerRead
    <2>3. CASE HasTrace(cm[c], at) /\ cm' = [cm EXCEPT ![c] = Stored(left)]
      <3>1. cm[c] \in ConfigMapObject
        BY <1>1, <2>1, <2>3 DEF HasTrace
      <3>2. /\ ~HasTrace(Stored(left), at)
            /\ \A e \in Exposers : HasTrace(Stored(left), e) => HasTrace(cm[c], e)
        BY <1>1, <3>1, NoneAssumption DEF HasTrace, Stored, Withdrawn, ConfigMapObject, Data
      <3>3. \A e \in Exposers, d \in Components : HasTrace(cm'[d], e) => HasTrace(cm[d], e)
        BY <1>1, <2>1, <2>3, <3>2
      <3>4. ~HasTrace(cm'[c], at)
        BY <1>1, <2>1, <2>3, <3>2
      <3>5. NoTraceLeft'
        BY <1>1, <3>3 DEF OrphanInv, NoTraceLeft
      <3> QED
        BY <1>1, <1>3, <3>4, <3>5
           DEF OrphanInv, CopiesAgree, HeldIsCurrent, SeenIsProtected, PublisherIsProtected,
               RereadIsProtected, PhaseFitsCopy, CleanedBeforeRelease, IsProtected, ExposerRead
    <2> QED BY <1>3, <2>2, <2>3
  <1> QED
    <2> DEFINE seen == ConfigMapRead(c)
    <2>1. CASE ~HasTrace(seen, at)
      <3>1. ~HasTrace(cm[c], at)
        BY <2>1 DEF BlindCleanup
      <3> QED BY <1>1, <1>3, <2>1, <3>1 DEF CleanupConfigMap, GoTo
    <2>2. CASE HasTrace(seen, at) /\ IsCurrent("ConfigMap", c, cmFresh)
      <3>1. seen = cm[c]
        BY <1>1, <2>2, WrittenFromCurrent
      <3> QED BY <1>1, <1>3, <2>2, <3>1 DEF CleanupConfigMap, GoTo, WriteConfigMap
    <2>3. CASE HasTrace(seen, at) /\ ~IsCurrent("ConfigMap", c, cmFresh)
      BY <1>1, <1>2, <2>3 DEF CleanupConfigMap
    <2> QED BY <2>1, <2>2, <2>3

\* The exposer goes when no map of any component has a trace of it, and none of its
\* copies can be taken for one that is alive.
LEMMA OrphanInvRelease ==
    ASSUME TypeOK, OrphanInv, RemoveExposerFinalizer
    PROVE  OrphanInv'
  <1>1. /\ UNCHANGED <<cm, exC>> /\ pc = "release" /\ at \in Exposers /\ cr \in ExposerObject
    BY DEF RemoveExposerFinalizer, TypeOK, WorkerTyped
  <1>2. CASE ~held
    BY <1>1, <1>2, OrphanInvFinish DEF RemoveExposerFinalizer, Retry
  <1>3. CASE held
    <2>1. PICK w \in Exposers : w = at
      BY <1>1
    <2>2. /\ ex' = [ex EXCEPT ![w] = None] /\ fresh' = fresh \ {w} /\ Finish
      BY <1>3, <2>1 DEF RemoveExposerFinalizer, WriteExposer, Done
    <2>3. ex'[w] = None /\ \A e \in Exposers : e # w => ex'[e] = ex[e]
      BY <2>2 DEF TypeOK, StoredTyped
    <2>4. ex[w] = cr /\ ExposerRead(w) = cr /\ cr.deleting
      BY <1>1, <1>3, <2>1 DEF OrphanInv, HeldIsCurrent, PhaseFitsCopy
    <2>5. NoTraceLeft'
      <3> SUFFICES ASSUME NEW e \in Exposers, NEW c \in Components, HasTrace(cm[c], e)
                   PROVE  IsProtected(e, c)'
        BY <1>1 DEF NoTraceLeft, HasTrace, IsProtected
      <3>1. IsProtected(e, c)
        BY DEF OrphanInv, NoTraceLeft, IsProtected
      <3>2. e # w
        BY <1>1, <2>1, <2>4, <3>1 DEF OrphanInv, CleanedBeforeRelease, IsProtected
      <3> QED BY <2>3, <3>1, <3>2 DEF IsProtected
    <2>6. CopiesAgree'
      BY <1>1, <2>2, <2>3 DEF OrphanInv, CopiesAgree
    <2>7. SeenIsProtected'
      <3> SUFFICES ASSUME NEW e \in Exposers, ExposerRead(e)' # None, ExposerRead(e)'.fin,
                          ~ExposerRead(e)'.deleting
                   PROVE  IsProtected(e, ExposerRead(e).comp)'
        BY DEF SeenIsProtected, IsProtected
      <3>1. CASE e # w
        <4>1. ExposerRead(e)' = ExposerRead(e)
          BY <1>1, <2>3, <3>1 DEF ExposerRead
        <4>2. IsProtected(e, ExposerRead(e).comp)
          BY <4>1 DEF OrphanInv, SeenIsProtected
        <4> QED BY <2>3, <3>1, <4>1, <4>2 DEF IsProtected
      <3>2. CASE e = w
        <4>1. ExposerRead(e)' = cr \/ ExposerRead(e)' = None
          BY <1>1, <2>3, <2>4, <3>2 DEF ExposerRead
        <4> QED BY <2>4, <4>1
      <3> QED BY <3>1, <3>2
    <2> QED
      BY <2>2, <2>5, <2>6, <2>7
         DEF Finish, OrphanInv, HeldIsCurrent, PublisherIsProtected, RereadIsProtected,
             PhaseFitsCopy, CleanedBeforeRelease
  <1> QED BY <1>2, <1>3

LEMMA OrphanInvWork ==
    ASSUME TypeOK, OrphanInv, MapCopiesAgree, Work, ~BlindCleanup
    PROVE  OrphanInv'
  <1>0. pc # "idle" => at \in Exposers /\ cr \in ExposerObject
    BY DEF TypeOK, WorkerTyped
  <1>1. CASE EnsureFinalizer
    <2>1. CASE held
      <3>1. /\ [cr EXCEPT !.fin = TRUE] \in ExposerObject
            /\ [cr EXCEPT !.fin = TRUE].comp = cr.comp /\ [cr EXCEPT !.fin = TRUE].fin
        BY <1>0, <1>1 DEF EnsureFinalizer, ExposerObject
      <3>2. PICK w \in Exposers : w = at
        BY <1>0, <1>1 DEF EnsureFinalizer
      <3> QED BY <1>1, <2>1, <3>1, <3>2, OrphanInvWorkerWrite DEF EnsureFinalizer
    <2>2. CASE ~held
      BY <1>1, <2>2, OrphanInvFinish DEF EnsureFinalizer, Retry
    <2> QED BY <2>1, <2>2
  <1>2. CASE \/ ValidateDependencies \/ SkipConfigMap \/ SkipDeployment
             \/ SkipIngress \/ BuildIngress
    BY <1>2, OrphanInvNextReducer
       DEF ValidateDependencies, SkipConfigMap, SkipDeployment, SkipIngress, BuildIngress,
           GoTo, api, caches
  <1>3. CASE HandleDependencyError
    <2> DEFINE o == [cr EXCEPT !.ready = @ \ {"DependenciesReady"}]
    <2>1. CASE held /\ WriteExposer(at, o)
      <3>1. o \in ExposerObject /\ o.comp = cr.comp /\ o.fin = cr.fin
        BY <1>0, <1>3 DEF HandleDependencyError, ExposerObject
      <3>2. PICK w \in Exposers : w = at
        BY <1>0, <1>3 DEF HandleDependencyError
      <3>3. pc # "idle" /\ WriteExposer(w, o) /\ Finish /\ UNCHANGED <<cm, exC>>
        BY <1>3, <2>1, <3>2 DEF HandleDependencyError, Retry
      <3> QED BY <2>1, <3>1, <3>2, <3>3, OrphanInvWorkerWrite DEF Finish
    <2>2. CASE UNCHANGED <<ex, fresh>>
      BY <1>3, <2>2, OrphanInvFinish DEF HandleDependencyError, Retry
    <2> QED BY <1>3, <2>1, <2>2 DEF HandleDependencyError
  <1>4. CASE UpdateComponentDeployment
    <2>1. /\ UNCHANGED <<ex, cm, exC, fresh>> /\ pc = "deployment"
          /\ Retry \/ (pc' = "ingress" /\ UNCHANGED <<at, cr, held>>)
      BY <1>4 DEF UpdateComponentDeployment
    <2> QED BY <2>1, OrphanInvFinish, OrphanInvNextReducer DEF Retry
  <1>5. CASE UpdateStatus
    <2> DEFINE o == [cr EXCEPT !.ready = cr.ready \cup marks]
    <2>1. CASE cr.ready \cup marks # cr.ready /\ held
      <3>1. o \in ExposerObject /\ o.comp = cr.comp /\ o.fin = cr.fin
        BY <1>0, <1>5 DEF UpdateStatus, ExposerObject, TypeOK, WorkerTyped
      <3>2. PICK w \in Exposers : w = at
        BY <1>0, <1>5 DEF UpdateStatus
      <3>3. pc # "idle" /\ WriteExposer(w, o) /\ Finish /\ UNCHANGED <<cm, exC>>
        BY <1>5, <2>1, <3>2 DEF UpdateStatus, Done
      <3> QED BY <2>1, <3>1, <3>2, <3>3, OrphanInvWorkerWrite DEF Finish
    <2>2. CASE ~(cr.ready \cup marks # cr.ready /\ held)
      <3>1. Finish /\ UNCHANGED <<ex, cm, exC, fresh>>
        BY <1>5, <2>2 DEF UpdateStatus, Done, Retry
      <3> QED BY <3>1, OrphanInvFinish
    <2> QED BY <2>1, <2>2
  <1>6. CASE RemoveVolumeFromDeployment
    <2>1. /\ UNCHANGED <<ex, cm, exC, fresh>> /\ pc = "unmount"
          /\ Retry \/ (pc' = "cleanup" /\ UNCHANGED <<at, cr, held>>)
      BY <1>6 DEF RemoveVolumeFromDeployment, GoTo
    <2>2. CASE Retry
      BY <2>1, <2>2, OrphanInvFinish DEF Retry
    <2>3. CASE pc' = "cleanup" /\ UNCHANGED <<at, cr, held>>
      BY <2>1, <2>3
         DEF OrphanInv, NoTraceLeft, CopiesAgree, HeldIsCurrent, SeenIsProtected,
             PublisherIsProtected, RereadIsProtected, PhaseFitsCopy, CleanedBeforeRelease,
             IsProtected, ExposerRead
    <2> QED BY <2>1, <2>2, <2>3
  <1>7. CASE DeleteEmptyMap
    <2>1. /\ UNCHANGED <<ex, exC, fresh, at, cr, held>> /\ pc = "deleteMap" /\ pc' = "release"
          /\ cm' = [cm EXCEPT ![cr.comp] = Deleted(cr.comp)] /\ cr.comp \in Components
      BY <1>0, <1>7 DEF DeleteEmptyMap, GoTo, WriteConfigMap, ExposerObject
    <2>2. \A e \in Exposers, c \in Components : HasTrace(cm'[c], e) => HasTrace(cm[c], e)
      BY <2>1 DEF HasTrace, Deleted, Stored, TypeOK, StoredTyped, ConfigMapObject
    <2> QED
      BY <1>0, <2>1, <2>2
         DEF OrphanInv, NoTraceLeft, CopiesAgree, HeldIsCurrent, SeenIsProtected,
             PublisherIsProtected, RereadIsProtected, PhaseFitsCopy, CleanedBeforeRelease,
             IsProtected, ExposerRead
  <1>8. CASE ReconcileIngress
    <2>1. /\ UNCHANGED <<ex, cm, exC, fresh>> /\ pc = "reference"
          /\ Retry \/ (pc' = "status" /\ UNCHANGED <<at, cr, held>>)
      BY <1>8 DEF ReconcileIngress, caches
    <2> QED BY <2>1, OrphanInvFinish, OrphanInvNextReducer DEF Retry
  <1> QED
    BY <1>1, <1>2, <1>3, <1>4, <1>5, <1>6, <1>7, <1>8, OrphanInvReadAgain, OrphanInvPublish,
       OrphanInvCleanup, OrphanInvRelease DEF Work

LEMMA OrphanInvEnvironment ==
    ASSUME TypeOK, OrphanInv, Sync \/ Disturb, ~Move
    PROVE  OrphanInv'
  <1>1. ASSUME NEW e \in Exposers, SyncExposer(e) PROVE OrphanInv'
    <2>1. /\ UNCHANGED <<ex, cm, pc, at, cr, held>> /\ fresh' = fresh \cup {e}
          /\ exC' = Copied("Exposer", exC, e, ex[e])
      BY <1>1 DEF SyncExposer, api, worker
    <2>2. /\ \A f \in Exposers : f # e => ExposerRead(f)' = ExposerRead(f) /\ exC'[f] = exC[f]
          /\ ExposerRead(e)' = ex[e]
          /\ "Exposer" \in Lagging => exC'[e] = ex[e]
      BY <2>1 DEF ExposerRead, Copied, TypeOK, CopiesTyped
    <2>3. pc # "idle" => at \in Exposers
      BY DEF TypeOK, WorkerTyped
    <2>4. CopiesAgree' /\ NoTraceLeft'
      BY <2>1, <2>2 DEF OrphanInv, CopiesAgree, NoTraceLeft, HasTrace
    <2>5. SeenIsProtected'
      BY <2>1, <2>2 DEF OrphanInv, SeenIsProtected, IsProtected
    <2>6. HeldIsCurrent' /\ RereadIsProtected'
      <3>1. CASE pc = "idle"
        BY <2>1, <3>1 DEF HeldIsCurrent, RereadIsProtected
      <3>2. CASE pc # "idle" /\ at # e
        BY <2>1, <2>2, <2>3, <3>2
           DEF OrphanInv, HeldIsCurrent, RereadIsProtected, IsProtected
      <3>3. CASE pc # "idle" /\ at = e
        BY <2>1, <2>2, <2>3, <3>3
           DEF OrphanInv, HeldIsCurrent, RereadIsProtected, IsProtected
      <3> QED BY <3>1, <3>2, <3>3
    <2> QED
      BY <2>1, <2>4, <2>5, <2>6
         DEF OrphanInv, PublisherIsProtected, PhaseFitsCopy, CleanedBeforeRelease, IsProtected
  <1>2. CASE \E c \in Components : SyncConfigMap(c) \/ SyncDeployment(c) \/ ReplaceDeployment(c)
    BY <1>2, OrphanInvFrame
       DEF SyncConfigMap, SyncDeployment, ReplaceDeployment, api, worker, HasTrace
  <1>3. ASSUME NEW e \in Exposers, NEW r, ChangeDependency(e, r) \/ DeleteIngress(e)
        PROVE  OrphanInv'
    BY <1>3, OrphanInvFrame DEF ChangeDependency, DeleteIngress, api, caches, worker, HasTrace
  <1>4. ASSUME NEW c \in Components, DeleteConfigMap(c) PROVE OrphanInv'
    <2>1. cm' = [cm EXCEPT ![c] = Deleted(c)] /\ UNCHANGED <<ex, exC, fresh, worker>>
      BY <1>4 DEF DeleteConfigMap, WriteConfigMap
    <2>2. \A e \in Exposers, d \in Components : HasTrace(cm'[d], e) => HasTrace(cm[d], e)
      BY <2>1 DEF HasTrace, Deleted, Stored, TypeOK, StoredTyped, ConfigMapObject
    <2> QED BY <2>1, <2>2, OrphanInvFrame DEF worker
  <1>5. ASSUME NEW e \in Exposers, NEW c \in Components, NEW v \in Values, Create(e, c, v)
        PROVE  OrphanInv'
    <2>1. New(c, v) \in ExposerObject /\ ~New(c, v).fin /\ ~New(c, v).deleting
      BY NewType DEF New
    <2>2. New(c, v) # None
      BY <2>1, NoneAssumption
    <2> QED BY <1>5, <2>1, <2>2, OrphanInvUserWrite DEF Create
  <1>6. ASSUME NEW e \in Exposers, NEW c \in Components, NEW v \in Values, Edit(e, c, v)
        PROVE  OrphanInv'
    <2> DEFINE o == [ex[e] EXCEPT !.comp = c, !.val = v]
    <2>1. ex[e] \in ExposerObject /\ ex[e] # None
      BY <1>6 DEF Edit, TypeOK, StoredTyped
    <2>2. ex[e].fin => c = ex[e].comp
      BY <1>6, <2>1 DEF Move
    <2>3. /\ o \in ExposerObject /\ o.fin = ex[e].fin
          /\ ex[e].fin => o.comp = ex[e].comp
      BY <2>1, <2>2 DEF ExposerObject
    <2>4. o # None
      BY <2>3, NoneAssumption
    <2>5. UserWrites(e, o)
      BY <1>6 DEF Edit
    <2> HIDE DEF o
    <2> QED BY <2>1, <2>3, <2>4, <2>5, OrphanInvUserWrite
  <1>7. ASSUME NEW e \in Exposers, Delete(e) PROVE OrphanInv'
    <2> DEFINE o == [ex[e] EXCEPT !.deleting = TRUE]
    <2>1. ex[e] \in ExposerObject /\ ex[e] # None
      BY <1>7 DEF Delete, TypeOK, StoredTyped
    <2>2. o \in ExposerObject /\ o.fin = ex[e].fin /\ o.comp = ex[e].comp
      BY <2>1 DEF ExposerObject
    <2>3. o # None
      BY <2>2, NoneAssumption
    <2>4. UserWrites(e, IF ex[e].fin THEN o ELSE None)
      BY <1>7 DEF Delete
    <2> HIDE DEF o
    <2>5. CASE ex[e].fin
      BY <2>1, <2>2, <2>3, <2>4, <2>5, OrphanInvUserWrite
    <2>6. CASE ~ex[e].fin
      BY <2>1, <2>4, <2>6, OrphanInvUserWrite
    <2> QED BY <2>5, <2>6
  <1>8. CASE Fail
    BY <1>8, OrphanInvFinish DEF Fail, Retry, api, caches
  <1>9. CASE Crash
    <2>1. /\ UNCHANGED <<ex, cm>> /\ Finish
          /\ exC' = [e \in Exposers |-> IF "Exposer" \in Lagging THEN ex[e] ELSE exC[e]]
      BY <1>9 DEF Crash, api
    <2>2. \A e \in Exposers : /\ ExposerRead(e)' = ex[e]
                              /\ "Exposer" \in Lagging => exC'[e] = ex[e]
      BY <2>1 DEF ExposerRead
    <2> QED
      BY <2>1, <2>2
         DEF OrphanInv, Finish, NoTraceLeft, CopiesAgree, HeldIsCurrent, SeenIsProtected,
             PublisherIsProtected, RereadIsProtected, PhaseFitsCopy, CleanedBeforeRelease,
             IsProtected
  <1>10. ASSUME Disturb PROVE OrphanInv'
    BY <1>2, <1>3, <1>4, <1>5, <1>6, <1>7, <1>8, <1>9, <1>10 DEF Disturb
  <1> QED BY <1>1, <1>2, <1>10 DEF Sync

LEMMA OrphanInvStep ==
    ASSUME TypeOK, OrphanInv, MapCopiesAgree, [Next]_vars, ~BlindCleanup, ~Move
    PROVE  OrphanInv'
  <1>1. CASE \E e \in Exposers : Take(e)
    <2>1. ASSUME NEW e \in Exposers, ReconcileNotFound(e) PROVE OrphanInv'
      BY <2>1, OrphanInvFrame DEF ReconcileNotFound, api, caches, worker, HasTrace
    <2> QED BY <1>1, <2>1, OrphanInvReconcile DEF Take
  <1>2. CASE UNCHANGED vars
    BY <1>2, OrphanInvFrame DEF vars, HasTrace
  <1> QED BY <1>1, <1>2, OrphanInvWork, OrphanInvEnvironment DEF Next

\* An Ingress is made only for an exposer that is there and has its finalizer; when
\* the exposer goes, so does its Ingress.
LEMMA NoIngressLeftStep ==
    ASSUME TypeOK, OrphanInv, NoIngressLeft, [Next]_vars
    PROVE  NoIngressLeft'
  <1>0. /\ ex \in [Exposers -> ExposerObject \cup {None}]
        /\ ing \in [Exposers -> IngressObject \cup {None}]
        /\ pc # "idle" => at \in Exposers /\ cr \in ExposerObject
    BY DEF TypeOK, StoredTyped, WorkerTyped
  <1>1. ASSUME NEW w \in Exposers, NEW o, WriteExposer(w, o),
               o = None \/ (ex[w] # None /\ ex[w].fin => o.fin)
        PROVE  NoIngressLeft'
    BY <1>0, <1>1 DEF WriteExposer, NoIngressLeft
  <1>2. ASSUME UNCHANGED ex, \A e \in Exposers : ing'[e] # None => ing[e] # None
        PROVE  NoIngressLeft'
    BY <1>2 DEF NoIngressLeft
  <1>3. held /\ pc # "idle" => ex[at] = cr
    BY DEF OrphanInv, HeldIsCurrent
  <1>4. CASE EnsureFinalizer
    <2>1. [cr EXCEPT !.fin = TRUE].fin
      BY <1>0, <1>4 DEF EnsureFinalizer, ExposerObject
    <2> QED BY <1>0, <1>1, <1>2, <1>4, <2>1 DEF EnsureFinalizer
  <1>5. CASE HandleDependencyError
    <2>1. [cr EXCEPT !.ready = @ \ {"DependenciesReady"}].fin = cr.fin
      BY <1>0, <1>5 DEF HandleDependencyError, ExposerObject
    <2> QED BY <1>0, <1>1, <1>2, <1>3, <1>5, <2>1 DEF HandleDependencyError
  <1>6. CASE UpdateStatus
    <2> DEFINE o == [cr EXCEPT !.ready = cr.ready \cup marks]
    <2>1. pc = "status" /\ at \in Exposers /\ o.fin = cr.fin
      BY <1>0, <1>6 DEF UpdateStatus, ExposerObject
    <2> HIDE DEF o
    <2>2. UNCHANGED <<ex, ing>> \/ (held /\ WriteExposer(at, o))
      BY <1>6 DEF UpdateStatus, o
    <2> QED BY <1>1, <1>2, <1>3, <2>1, <2>2
  <1>7. CASE RemoveExposerFinalizer
    BY <1>0, <1>1, <1>2, <1>7 DEF RemoveExposerFinalizer
  <1>8. CASE ReconcileIngress
    <2>1. UNCHANGED ex /\ pc = "reference" /\ \A e \in Exposers : e # at => ing'[e] = ing[e]
      BY <1>0, <1>8 DEF ReconcileIngress
    <2>2. ex[at] # None /\ ex[at].fin
      BY <2>1 DEF OrphanInv, PublisherIsProtected, IsProtected
    <2> QED BY <2>1, <2>2 DEF NoIngressLeft
  <1>9. CASE SkipIngress \/ \E e \in Exposers : DeleteIngress(e)
    BY <1>0, <1>2, <1>9 DEF SkipIngress, DeleteIngress
  <1>10. CASE \/ ReadAgain \/ ValidateDependencies \/ SkipConfigMap \/ ReconcileConfigMap
              \/ SkipDeployment \/ UpdateComponentDeployment \/ BuildIngress
              \/ RemoveVolumeFromDeployment \/ CleanupConfigMap \/ DeleteEmptyMap
    BY <1>2, <1>10
       DEF ReadAgain, ValidateDependencies, SkipConfigMap, ReconcileConfigMap, SkipDeployment,
           UpdateComponentDeployment, BuildIngress, RemoveVolumeFromDeployment,
           CleanupConfigMap, DeleteEmptyMap, api
  <1>11. CASE (\E e \in Exposers : Take(e)) \/ Sync
    BY <1>2, <1>11
       DEF Take, Reconcile, ReconcileNotFound, Sync, SyncExposer, SyncConfigMap, SyncDeployment,
           api
  <1>12. CASE \/ \E c \in Components : DeleteConfigMap(c) \/ ReplaceDeployment(c)
              \/ \E e \in Exposers, r \in Routes \cup {None, "missing"} : ChangeDependency(e, r)
              \/ Fail \/ Crash \/ UNCHANGED vars
    BY <1>2, <1>12 DEF DeleteConfigMap, ReplaceDeployment, ChangeDependency, Fail, Crash, vars, api
  <1>13. ASSUME NEW e \in Exposers, NEW c \in Components, NEW v \in Values,
                Create(e, c, v) \/ Edit(e, c, v)
         PROVE  NoIngressLeft'
    <2>1. CASE Create(e, c, v)
      BY <1>1, <2>1 DEF Create, UserWrites
    <2>2. CASE Edit(e, c, v)
      <3>1. [ex[e] EXCEPT !.comp = c, !.val = v].fin = ex[e].fin
        BY <1>0, <2>2 DEF Edit, ExposerObject
      <3> QED BY <1>1, <2>2, <3>1 DEF Edit, UserWrites
    <2> QED BY <1>13, <2>1, <2>2
  <1>14. ASSUME NEW e \in Exposers, Delete(e) PROVE NoIngressLeft'
    <2>1. [ex[e] EXCEPT !.deleting = TRUE].fin = ex[e].fin
      BY <1>0, <1>14 DEF Delete, ExposerObject
    <2> QED BY <1>1, <1>14, <2>1 DEF Delete, UserWrites
  <1>15. CASE Work
    BY <1>4, <1>5, <1>6, <1>7, <1>8, <1>9, <1>10, <1>15 DEF Work
  <1>16. CASE Disturb
    BY <1>9, <1>12, <1>13, <1>14, <1>16 DEF Disturb
  <1> QED BY <1>11, <1>12, <1>15, <1>16 DEF Next

\* However the steps of deletion interleave with failures, crashes, other exposers and
\* copies of anything however old, an exposer that is gone left nothing in a shared map and
\* no Ingress (deletion.go:21-56), unless at some time a cleanup missed its traces in an
\* outdated copy of the map, or a user gave an exposer with its finalizer another component:
\* nothing else can leave something behind.
THEOREM NothingIsOrphaned == Spec => []NoOrphans \/ <><<BlindCleanup \/ Move>>_vars
<1>1. Init => MapCopiesAgree
  BY DEF Init, MapCopiesAgree
<1>2. TypeOK /\ MapCopiesAgree /\ [Next]_vars => MapCopiesAgree'
  BY MapCopiesStillAgree
<1>3. TypeOK /\ OrphanInv /\ MapCopiesAgree /\ [Next]_vars /\ ~<<BlindCleanup \/ Move>>_vars
          => OrphanInv'
  <2>1. ASSUME UNCHANGED vars, OrphanInv PROVE OrphanInv'
    BY <2>1 DEF vars, OrphanInv, NoTraceLeft, HasTrace, CopiesAgree, HeldIsCurrent,
                SeenIsProtected, PublisherIsProtected, RereadIsProtected, PhaseFitsCopy,
                CleanedBeforeRelease, IsProtected, ExposerRead
  <2> QED BY <2>1, OrphanInvStep
<1>4. Init => NoIngressLeft
  BY DEF Init, NoIngressLeft
<1>5. TypeOK /\ OrphanInv /\ NoIngressLeft /\ [Next]_vars => NoIngressLeft'
  BY NoIngressLeftStep
<1>6. OrphanInv /\ NoIngressLeft => NoOrphans
  BY DEF OrphanInv, NoOrphans
<1> QED BY <1>1, <1>2, <1>3, <1>4, <1>5, <1>6, OrphanInvInit, TypeCorrect, PTL DEF Spec
=============================================================================
