------------------------------ MODULE RestProofs ------------------------------
(* Proof that the exposer controller never rests too early, for every set of  *)
(* exposers, components and values, and whatever is outdated, fails or        *)
(* changes.                                                                   *)
EXTENDS ExposerRefinement

MapPhases == {"deployment", "ingress", "reference", "status"}

\* While nothing else brings it back to its exposer, the worker works from the exposer as
\* it is, and what it has done so far is still there.
WorkerKnows ==
    pc # "idle" /\ ~Due(at) =>
        /\ held /\ ex[at] = cr
        /\ pc # "reread"
        /\ pc \notin {"finalizer", "unmount", "cleanup", "deleteMap", "release"} => ~cr.deleting
        /\ at \in available =>
             /\ pc \in MapPhases \cup {"configmap"} => "DependenciesReady" \in marks
             /\ pc \in MapPhases => /\ "ConfigMapReady" \in marks
                                       /\ InMap(cr.comp, at, EntryFor(at, cr.val))
             /\ pc = "reference" => rules = route[at]
        /\ pc = "status" => IsRouted(at)

RestInv == CopiesAgree /\ MapCopiesAgree /\ WorkerKnows /\ NothingForgotten

-----------------------------------------------------------------------------
(* What a step leaves alone. *)

\* No write goes unnoticed: only an exposer that nobody wrote has a current copy.
LEMMA Unwritten ==
    ASSUME TypeOK, [Next]_vars, NEW e \in Exposers, e \in fresh'
    PROVE  ex'[e] = ex[e]
  <1>1. ASSUME NEW w \in Exposers, NEW o, WriteExposer(w, o) \/ UNCHANGED ex
        PROVE  ex'[e] = ex[e]
    BY <1>1 DEF WriteExposer, TypeOK, StoredTyped
  <1>2. pc # "idle" => at \in Exposers
    BY DEF TypeOK, WorkerTyped
  <1>3. CASE Work
    BY <1>1, <1>2, <1>3
       DEF Work, EnsureFinalizer, ReadAgain, ValidateDependencies, HandleDependencyError,
           SkipConfigMap, ReconcileConfigMap, SkipDeployment, UpdateComponentDeployment,
           SkipIngress, BuildIngress, ReconcileIngress, UpdateStatus,
           RemoveVolumeFromDeployment, CleanupConfigMap, DeleteEmptyMap, RemoveExposerFinalizer, api
  <1>4. CASE Disturb
    BY <1>1, <1>4
       DEF Disturb, Create, Edit, Delete, UserWrites, DeleteIngress, ChangeDependency,
           DeleteConfigMap, ReplaceDeployment, Fail, Crash, api
  <1>5. CASE Sync \/ (\E f \in Exposers : Take(f)) \/ UNCHANGED vars
    BY <1>5 DEF Sync, SyncExposer, SyncConfigMap, SyncDeployment, Take, Reconcile,
                ReconcileNotFound, api, vars
  <1> QED BY <1>3, <1>4, <1>5 DEF Next

\* Only news of an exposer, and a restart, make its copy current again.
LEMMA News ==
    ASSUME TypeOK, [Next]_vars, NEW e \in Exposers, e \notin fresh, e \in fresh'
    PROVE  SyncExposer(e) \/ Crash
  <1>1. ASSUME NEW w, NEW o, WriteExposer(w, o)
        PROVE  FALSE
    BY <1>1 DEF WriteExposer
  <1>2. fresh' # fresh
    OBVIOUS
  <1>3. ~Work
    <2>1. ~(EnsureFinalizer \/ HandleDependencyError \/ UpdateStatus \/ RemoveExposerFinalizer)
      BY <1>1, <1>2 DEF EnsureFinalizer, HandleDependencyError, UpdateStatus, RemoveExposerFinalizer
    <2>2. ~(ReadAgain \/ ValidateDependencies \/ SkipConfigMap \/ SkipDeployment \/ SkipIngress
            \/ BuildIngress \/ ReconcileIngress)
      BY <1>2 DEF ReadAgain, ValidateDependencies, SkipConfigMap, SkipDeployment, SkipIngress,
                  BuildIngress, ReconcileIngress, caches
    <2>3. ~(ReconcileConfigMap \/ UpdateComponentDeployment \/ RemoveVolumeFromDeployment
            \/ CleanupConfigMap \/ DeleteEmptyMap)
      BY <1>2 DEF ReconcileConfigMap, UpdateComponentDeployment, RemoveVolumeFromDeployment,
                  CleanupConfigMap, DeleteEmptyMap
    <2> QED BY <2>1, <2>2, <2>3 DEF Work
  <1>4. Disturb => Crash
    BY <1>1, <1>2 DEF Disturb, Create, Edit, Delete, UserWrites, DeleteIngress,
                      ChangeDependency, DeleteConfigMap, ReplaceDeployment, Fail, caches
  <1> QED BY <1>3, <1>4 DEF Next, Sync, SyncExposer, SyncConfigMap, SyncDeployment, Take,
                            Reconcile, ReconcileNotFound, caches, vars

LEMMA CopiesStillAgree ==
    ASSUME TypeOK, CopiesAgree, [Next]_vars
    PROVE  CopiesAgree'
  <1> SUFFICES ASSUME NEW e \in Exposers, "Exposer" \in Lagging, e \in fresh'
               PROVE  exC'[e] = ex'[e]
    BY DEF CopiesAgree
  <1>1. ex'[e] = ex[e]
    BY Unwritten
  <1>2. CASE e \in fresh
    <2>1. exC'[e] = exC[e] \/ exC'[e] = ex[e]
      BY DEF Next, Work, EnsureFinalizer, ReadAgain, ValidateDependencies, HandleDependencyError,
           SkipConfigMap, ReconcileConfigMap, SkipDeployment, UpdateComponentDeployment,
           SkipIngress, BuildIngress, ReconcileIngress, UpdateStatus,
           RemoveVolumeFromDeployment, CleanupConfigMap, DeleteEmptyMap, RemoveExposerFinalizer,
           Disturb, Create, Edit, Delete, UserWrites, DeleteIngress, ChangeDependency,
           DeleteConfigMap, ReplaceDeployment, Fail, Crash, Sync, SyncExposer, SyncConfigMap,
           SyncDeployment, Copied, Take, Reconcile, ReconcileNotFound, caches, vars,
           TypeOK, CopiesTyped
    <2> QED BY <1>1, <1>2, <2>1 DEF CopiesAgree
  <1>3. CASE e \notin fresh
    <2>1. SyncExposer(e) \/ Crash
      BY <1>3, News
    <2> QED BY <1>1, <2>1 DEF SyncExposer, Crash, Copied, TypeOK, CopiesTyped
  <1> QED BY <1>2, <1>3

\* An exposer that nothing brings the worker to was not due, unless the worker just
\* went to it, and nothing that concerns it changed: the handlers queue the exposers
\* that a change of a map or of a dependency concerns.
LEMMA NothingNew ==
    ASSUME TypeOK, CopiesAgree, [Next]_vars, NEW e \in Exposers, ex[e] # None, ~Due(e)'
    PROVE  /\ e \in fresh /\ ExposerRead(e) = ex[e] /\ ex'[e] = ex[e]
           /\ ~Due(e) \/ Reconcile(e)
           /\ UNCHANGED <<route[e], ing[e]>>
           /\ \A v : InMap(ex[e].comp, e, v) => InMap(ex[e].comp, e, v)'
  <1>1. e \in fresh' /\ e \notin queue'
    BY DEF Due
  <1>2. ex'[e] = ex[e]
    BY <1>1, Unwritten
  <1>3. ~Crash /\ ~SyncExposer(e)
    BY <1>1 DEF Crash, SyncExposer
  <1>4. e \in fresh
    BY <1>1, <1>3, News
  <1>5. ExposerRead(e) = ex[e]
    BY <1>4 DEF CopiesAgree, ExposerRead
  <1>6. pc # "idle" => at \in Exposers
    BY DEF TypeOK, WorkerTyped
  <1> USE DEF Next, Work, EnsureFinalizer, ReadAgain, ValidateDependencies, HandleDependencyError,
              SkipConfigMap, ReconcileConfigMap, SkipDeployment, UpdateComponentDeployment,
              SkipIngress, BuildIngress, ReconcileIngress, UpdateStatus, RemoveVolumeFromDeployment,
              CleanupConfigMap, DeleteEmptyMap, RemoveExposerFinalizer,
              Disturb, Create, Edit, Delete, UserWrites, DeleteIngress, ChangeDependency,
              DeleteConfigMap, ReplaceDeployment, Fail, Sync, SyncExposer, SyncConfigMap,
              SyncDeployment, Take, ReconcileNotFound, api, vars
  <1>7. e \in queue => Reconcile(e)
    <2>1. ~ReconcileNotFound(e)
      BY <1>5
    <2> QED BY <1>1, <1>3, <2>1 DEF Retry, Done, GoTo, Reconcile
  <1>8. route'[e] = route[e]
    BY <1>1, <1>3, <1>5 DEF Reconcile, TypeOK, WorkerTyped
  <1>9. ing'[e] = ing[e]
    <2>1. CASE \E w \in Exposers : \E o : WriteExposer(w, o)
      BY <1>1, <2>1 DEF WriteExposer, TypeOK, StoredTyped
    <2>2. CASE ReconcileIngress
      BY <1>1, <1>6, <2>2 DEF Retry, TypeOK, StoredTyped
    <2> QED BY <1>1, <1>3, <1>6, <2>1, <2>2 DEF Reconcile, TypeOK, StoredTyped
  <1>10. ASSUME NEW v, InMap(ex[e].comp, e, v)
         PROVE  InMap(ex[e].comp, e, v)'
    <2> DEFINE c == ex[e].comp
    <2>1. SUFFICES ASSUME c \in cmFresh'
                   PROVE  c \in cmFresh /\ cm'[c] = cm[c]
      BY <1>2, <1>10 DEF InMap
    <2>2. ~SyncConfigMap(c)
      BY <1>1, <1>5 DEF FindExposersForComponent
    <2>3. c \in Components
      BY DEF TypeOK, StoredTyped, ExposerObject
    <2> HIDE DEF c
    <2>4. c \in cmFresh
      BY <1>3, <2>1, <2>2 DEF WriteConfigMap, Reconcile, caches
    <2>5. cm'[c] = cm[c]
      BY <1>3, <2>1, <2>3 DEF WriteConfigMap, Reconcile, TypeOK, StoredTyped
    <2> QED BY <2>4, <2>5
  <1> QED BY <1>2, <1>4, <1>5, <1>7, <1>8, <1>9, <1>10 DEF Due

-----------------------------------------------------------------------------
(* The worker. *)

LEMMA RestInvInit == Init => RestInv
  <1> SUFFICES ASSUME Init
               PROVE  RestInv
    OBVIOUS
  <1>1. \A e \in Exposers : ex[e] = None \/ e \notin fresh
    BY DEF Init
  <1>2. CopiesAgree /\ MapCopiesAgree
    BY DEF Init, CopiesAgree, MapCopiesAgree
  <1> QED BY <1>1, <1>2 DEF Init, RestInv, WorkerKnows, NothingForgotten, Due

\* A reconciliation begins with the exposer as it is.
LEMMA KnowsFromStart ==
    ASSUME TypeOK, NEW e \in Exposers, Reconcile(e), e \in fresh, ExposerRead(e) = ex[e]
    PROVE  WorkerKnows'
  <1>1. /\ ex' = ex /\ at' = e /\ cr' = ex[e] /\ held'
        /\ pc' = FirstPhase(cr')
    BY DEF Reconcile, IsCurrent, api
  <1>2. cr' \in ExposerObject
    BY <1>1 DEF Reconcile, TypeOK, StoredTyped
  <1>3. /\ pc' \in {"unmount", "finalizer", "dependencies"}
        /\ pc' = "dependencies" => ~cr'.deleting
    BY <1>1 DEF FirstPhase
  <1> QED BY <1>1, <1>3 DEF WorkerKnows, MapPhases

\* Each reducer leaves behind what the next one relies on.
LEMMA KnowsAfterReducer ==
    ASSUME TypeOK, RestInv, Work, NEW e \in Exposers, at = e, at' = e, pc' # "idle",
           ~Due(e)', ~Due(e), ex'[e] = ex[e], UNCHANGED <<route[e], ing[e]>>,
           \A v : InMap(ex[e].comp, e, v) => InMap(ex[e].comp, e, v)'
    PROVE  WorkerKnows'
  <1>1. /\ pc # "idle" /\ at \in Exposers /\ cr \in ExposerObject
        /\ held /\ ex[at] = cr /\ pc # "reread"
    BY DEF Work, EnsureFinalizer, ReadAgain, ValidateDependencies, HandleDependencyError,
           SkipConfigMap, ReconcileConfigMap, SkipDeployment, UpdateComponentDeployment,
           SkipIngress, BuildIngress, ReconcileIngress, UpdateStatus, RemoveVolumeFromDeployment,
           CleanupConfigMap, DeleteEmptyMap, RemoveExposerFinalizer, RestInv, WorkerKnows,
           TypeOK, WorkerTyped
  <1>2. /\ at \in available <=> at \in available'
        /\ \A v : EntryFor(at, v)' = EntryFor(at, v)
    BY <1>1 DEF available, EntryFor
  <1>3. ~EnsureFinalizer /\ ~ReadAgain
    BY <1>1 DEF EnsureFinalizer, ReadAgain, WriteExposer, Retry, Finish, Due
  <1>4. CASE ValidateDependencies \/ SkipConfigMap \/ SkipDeployment \/ SkipIngress \/ BuildIngress
    BY <1>1, <1>2, <1>4
       DEF ValidateDependencies, SkipConfigMap, SkipDeployment, SkipIngress, BuildIngress, GoTo,
           RestInv, WorkerKnows, MapPhases, IsRouted
  <1>5. CASE ReconcileConfigMap
    <2> DEFINE c == cr.comp
               seen == ConfigMapRead(c)
               val == EntryFor(at, cr.val)
               want == Published(seen, at, val)
    <2>1. /\ pc = "configmap" /\ pc' = "deployment" /\ UNCHANGED <<cr, held>>
          /\ marks' = marks \cup {"ConfigMapReady"}
          /\ (seen = want /\ UNCHANGED <<cm, cmFresh>>) \/ WriteConfigMap(c, want)
      BY <1>5 DEF ReconcileConfigMap, Retry, Finish
    <2>2. InMap(c, at, val)'
      <3>1. CASE WriteConfigMap(c, want)
        BY <2>1, <3>1 DEF WriteConfigMap, InMap
      <3>2. CASE seen = want /\ UNCHANGED <<cm, cmFresh>>
        <4>1. SUFFICES ASSUME c \in cmFresh
                       PROVE  cm[c] # None /\ cm[c].data[at] = val
          BY <1>1, <1>2, <2>1, <3>2 DEF InMap
        <4>2. c \in Components /\ val \in Values
          BY <1>1, <1>5, EntryForType DEF ExposerObject, ReconcileConfigMap
        <4> HIDE DEF val
        <4>3. seen = cm[c] /\ seen \in ConfigMapObject \cup {None}
          BY <4>1, <4>2, ReadTypes DEF RestInv, MapCopiesAgree, ConfigMapRead
        <4>4. want # None /\ want.data[at] = val
          <5>1. want \in ConfigMapObject
            BY <1>1, <4>2, <4>3, PublishedType
          <5>2. want.data[at] = val
            BY <1>1, <4>3 DEF Published, EmptyMap, NoEntries, ConfigMapObject, Data
          <5> QED BY <5>1, <5>2, NoneAssumption
        <4> QED BY <3>2, <4>3, <4>4
      <3> QED BY <2>1, <3>1, <3>2
    <2> QED BY <1>1, <1>2, <1>5, <2>1, <2>2
            DEF ReconcileConfigMap, RestInv, WorkerKnows, MapPhases
  <1>6. CASE UpdateComponentDeployment
    <2>1. /\ pc = "deployment" /\ pc' = "ingress" /\ UNCHANGED <<cr, held>>
          /\ marks' = marks \cup {"DeploymentReady"}
      BY <1>6 DEF UpdateComponentDeployment, Retry, Finish
    <2> QED BY <1>1, <1>2, <2>1 DEF RestInv, WorkerKnows, MapPhases
  <1>7. CASE ReconcileIngress
    <2>1. /\ pc = "reference" /\ pc' = "status" /\ UNCHANGED <<cr, held, marks, route>>
          /\ ing' = [ing EXCEPT ![at] = ReferenceIngress(at, rules)]
      BY <1>7 DEF ReconcileIngress, Retry, Finish
    <2>2. IsRouted(at)'
      BY <1>1, <1>2, <2>1
         DEF RestInv, WorkerKnows, IsRouted, ReferenceIngress, TypeOK, StoredTyped
    <2> QED BY <1>1, <1>2, <2>1, <2>2 DEF RestInv, WorkerKnows, MapPhases
  <1>8. CASE RemoveVolumeFromDeployment \/ CleanupConfigMap \/ DeleteEmptyMap
    <2>1. /\ pc' \in {"cleanup", "deleteMap", "release"} /\ UNCHANGED <<cr, held>>
      BY <1>8 DEF RemoveVolumeFromDeployment, CleanupConfigMap, DeleteEmptyMap, GoTo, Retry, Finish
    <2> QED BY <1>1, <2>1 DEF WorkerKnows, MapPhases
  <1>9. CASE HandleDependencyError \/ UpdateStatus \/ RemoveExposerFinalizer
    BY <1>9 DEF HandleDependencyError, UpdateStatus, RemoveExposerFinalizer, Retry, Done, Finish
  <1> QED BY <1>3, <1>4, <1>5, <1>6, <1>7, <1>8, <1>9 DEF Work

LEMMA KnowsStep ==
    ASSUME TypeOK, RestInv, [Next]_vars
    PROVE  WorkerKnows'
  <1> SUFFICES ASSUME pc' # "idle", ~Due(at)'
               PROVE  WorkerKnows'
    BY DEF WorkerKnows
  <1>1. CASE \E e \in Exposers : Reconcile(e)
    <2>1. PICK e \in Exposers : Reconcile(e)
      BY <1>1
    <2>2. at' = e /\ fresh' = fresh
      BY <2>1 DEF Reconcile, caches
    <2>3. e \in fresh
      BY <2>2 DEF Due
    <2>4. ExposerRead(e) = ex[e]
      BY <2>3 DEF RestInv, CopiesAgree, ExposerRead
    <2> QED BY <2>1, <2>3, <2>4, KnowsFromStart
  <1>2. CASE ~\E e \in Exposers : Reconcile(e)
    <2>1. pc # "idle" /\ at' = at
      BY <1>2 DEF Next, Work, EnsureFinalizer, ReadAgain, ValidateDependencies, HandleDependencyError,
           SkipConfigMap, ReconcileConfigMap, SkipDeployment, UpdateComponentDeployment,
           SkipIngress, BuildIngress, ReconcileIngress, UpdateStatus, RemoveVolumeFromDeployment,
           CleanupConfigMap, DeleteEmptyMap, RemoveExposerFinalizer, GoTo, Retry, Done, Finish,
           Disturb, Create, Edit, Delete, UserWrites, DeleteIngress, ChangeDependency,
           DeleteConfigMap, ReplaceDeployment, Fail, Crash, Sync, SyncExposer, SyncConfigMap,
           SyncDeployment, Take, ReconcileNotFound, worker, vars
    <2>2. PICK e \in Exposers : e = at
      BY <2>1 DEF TypeOK, WorkerTyped
    <2>3. at' = e /\ ~Due(e)'
      BY <2>1, <2>2 DEF Due
    <2>4. e \in fresh /\ ~SyncExposer(e) /\ ~Crash
      BY <2>1, <2>3, News DEF SyncExposer, Crash, Finish, Due
    <2>5. e \notin queue
      BY <1>2, <2>2, <2>3, <2>4, <2>1
         DEF Next, Work, EnsureFinalizer, ReadAgain, ValidateDependencies, HandleDependencyError,
         SkipConfigMap, ReconcileConfigMap, SkipDeployment, UpdateComponentDeployment,
         SkipIngress, BuildIngress, ReconcileIngress, UpdateStatus, RemoveVolumeFromDeployment,
         CleanupConfigMap, DeleteEmptyMap, RemoveExposerFinalizer, GoTo, Retry, Done, Finish,
         Disturb, Create, Edit, Delete, UserWrites, DeleteIngress, ChangeDependency,
         DeleteConfigMap, ReplaceDeployment, Fail, Sync, SyncExposer, SyncConfigMap,
         SyncDeployment, Take, ReconcileNotFound, vars, Due
    <2>6. held /\ ex[e] = cr /\ ~Due(e)
      BY <2>1, <2>2, <2>4, <2>5 DEF Due, RestInv, WorkerKnows
    <2>7. ex[e] # None
      BY <2>1, <2>6, NoneAssumption DEF TypeOK, WorkerTyped
    <2>8. /\ ex'[e] = ex[e] /\ UNCHANGED <<route[e], ing[e]>>
          /\ \A v : InMap(ex[e].comp, e, v) => InMap(ex[e].comp, e, v)'
      BY <2>3, <2>7, NothingNew DEF RestInv
    <2>9. CASE Work
      BY <2>1, <2>2, <2>3, <2>6, <2>8, <2>9, KnowsAfterReducer
    <2>10. CASE ~Work
      <3>1. UNCHANGED <<pc, cr, marks, rules>> /\ held'
        <4>1. ASSUME NEW w, NEW o, UserWrites(w, o)
              PROVE  UNCHANGED <<pc, cr, marks, rules>> /\ held'
          BY <2>2, <2>3, <2>6, <4>1 DEF UserWrites, WriteExposer, Due
        <4>2. ~Fail
          BY <2>1 DEF Fail, Retry, Finish
        <4>3. CASE Disturb
          BY <2>4, <2>6, <4>1, <4>2, <4>3
             DEF Disturb, Create, Edit, Delete, DeleteIngress, ChangeDependency, DeleteConfigMap,
             ReplaceDeployment, worker
        <4>4. CASE Sync \/ (\E f \in Exposers : Take(f)) \/ UNCHANGED vars
          BY <1>2, <2>6, <4>4
             DEF Sync, SyncExposer, SyncConfigMap, SyncDeployment, Take, ReconcileNotFound,
             worker, vars
        <4> QED BY <2>10, <4>3, <4>4 DEF Next
      <3>2. e \in available <=> e \in available'
        BY <2>8 DEF available
      <3>3. InMap(cr.comp, e, EntryFor(e, cr.val)) => InMap(cr.comp, e, EntryFor(e, cr.val))'
        BY <2>6, <2>8, <3>1 DEF InMap, EntryFor
      <3>4. IsRouted(e) => IsRouted(e)'
        BY <2>8, <3>2 DEF IsRouted
      <3> QED BY <2>1, <2>2, <2>3, <2>6, <2>8, <3>1, <3>2, <3>3, <3>4 DEF RestInv, WorkerKnows
    <2> QED BY <2>9, <2>10
  <1> QED BY <1>1, <1>2

\* It ends only when everything is done.
LEMMA ForgottenStep ==
    ASSUME TypeOK, RestInv, [Next]_vars
    PROVE  NothingForgotten'
  <1> SUFFICES ASSUME NEW e \in Exposers, ex'[e] # None, at' # e, ~Due(e)'
               PROVE  /\ ~ex'[e].deleting
                      /\ e \in available' =>
                           /\ {"DependenciesReady", "ConfigMapReady"} \subseteq ex'[e].ready
                           /\ InMap(ex[e].comp, e, EntryFor(e, ex[e].val))'
                      /\ IsRouted(e)'
    BY DEF NothingForgotten
  <1>1. ex'[e] = ex[e]
    BY Unwritten DEF Due
  <1>2. /\ UNCHANGED <<route[e], ing[e]>>
        /\ \A v : InMap(ex[e].comp, e, v) => InMap(ex[e].comp, e, v)'
        /\ ~Due(e)
    <2>1. ~Reconcile(e)
      BY DEF Reconcile
    <2> QED BY <1>1, <2>1, NothingNew DEF RestInv
  <1>3. e \in available <=> e \in available'
    BY <1>2 DEF available
  <1>4. IsRouted(e) => IsRouted(e)'
    BY <1>2, <1>3 DEF IsRouted
  <1>5. InMap(ex[e].comp, e, EntryFor(e, ex[e].val))
            => InMap(ex[e].comp, e, EntryFor(e, ex[e].val))'
    BY <1>1, <1>2 DEF InMap, EntryFor
  <1>6. CASE at # e
    BY <1>1, <1>2, <1>3, <1>4, <1>5, <1>6 DEF RestInv, NothingForgotten
  <1>7. CASE at = e
    <2>1. pc # "idle"
      BY <1>7, NoneAssumption DEF TypeOK, WorkerTyped
    <2>2. held /\ ex[e] = cr
      BY <1>2, <1>7, <2>1 DEF RestInv, WorkerKnows
    <2>3. UpdateStatus \/ RemoveExposerFinalizer
      BY <1>1, <1>7, <2>1
         DEF Next, Work, EnsureFinalizer, ReadAgain, ValidateDependencies, HandleDependencyError,
         SkipConfigMap, ReconcileConfigMap, SkipDeployment, UpdateComponentDeployment,
         SkipIngress, BuildIngress, ReconcileIngress, RemoveVolumeFromDeployment,
         CleanupConfigMap, DeleteEmptyMap, GoTo, Retry,
         Disturb, Create, Edit, Delete, UserWrites, DeleteIngress, ChangeDependency,
         DeleteConfigMap, ReplaceDeployment, Fail, Crash, Sync, SyncExposer, SyncConfigMap,
         SyncDeployment, Take, Reconcile, ReconcileNotFound, worker, vars, Due
    <2>4. CASE UpdateStatus
      <3>1. cr.ready \cup marks = cr.ready /\ pc = "status"
        BY <1>7, <2>4 DEF UpdateStatus, WriteExposer, Retry, Due
      <3> QED BY <1>1, <1>2, <1>3, <1>4, <1>5, <1>7, <2>1, <2>2, <3>1
              DEF RestInv, WorkerKnows, MapPhases
    <2>5. CASE RemoveExposerFinalizer
      BY <1>7, <2>2, <2>5 DEF RemoveExposerFinalizer, WriteExposer, Due
    <2> QED BY <2>3, <2>4, <2>5
  <1> QED BY <1>6, <1>7

\* The controller never rests too early, in any order of events, failures, crashes and
\* edits, and however outdated its caches are: whatever a step leaves undone, a retry
\* or an event that is still to come brings it back to (controller.go:61-138,
\* watch_handlers.go:19-104).
THEOREM NothingIsForgotten == Spec => []NothingForgotten
  <1>1. Init => EntryHasFinalizer
    BY DEF Init, EntryHasFinalizer, EntryOf
  <1>2. TypeOK /\ EntryHasFinalizer /\ RestInv /\ [Next]_vars => EntryHasFinalizer' /\ RestInv'
    BY MapKept, CopiesStillAgree, KnowsStep, ForgottenStep DEF RestInv, MapStep
  <1>3. RestInv => NothingForgotten
    BY DEF RestInv
  <1> QED BY <1>1, <1>2, <1>3, RestInvInit, TypeCorrect, PTL DEF Spec
==============================================================================
