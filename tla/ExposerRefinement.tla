-------------------------- MODULE ExposerRefinement --------------------------
(* Proof that the exposer controller implements SharedConfig, that its reports *)
(* are true, and that no update of a shared map is lost, for every set of      *)
(* exposers, components and values.                                            *)
EXTENDS ExposerProofs

\* What the refinement needs besides OrphanInv.  No entry without its finalizer;
EntryHasFinalizer ==
    \A c \in Components, e \in Exposers : EntryOf(c, e) # None => e \in cm[c].fins

\* what an exposer reports is there,
AnnouncedIsPublished ==
    \A e \in Announced : ex[e].fin /\ EntryOf(ex[e].comp, e) # None

\* and what the worker is about to report for it, too;
MarkedIsPublished ==
    "ConfigMapReady" \in marks =>
        /\ pc \in {"deployment", "ingress", "reference", "status"}
        /\ EntryOf(cr.comp, at) # None

\* a copy that is being deleted is not one of an exposer that came back and was
\* taken up again since.
DeletionIsSeen ==
    \A e \in Exposers :
        /\ ExposerRead(e) # None /\ ExposerRead(e).deleting
        /\ ex[e] # None /\ ex[e].fin
        => ex[e].deleting

WithdrawerIsDeleted ==
    /\ pc = "finalizer" => ~cr.deleting
    /\ pc \in {"unmount", "cleanup", "deleteMap", "release"} /\ ex[at] # None /\ ex[at].fin
           => ex[at].deleting

RegistryInv ==
    /\ EntryHasFinalizer /\ AnnouncedIsPublished /\ MarkedIsPublished
    /\ DeletionIsSeen /\ WithdrawerIsDeleted

-----------------------------------------------------------------------------
(* Which changes of the cluster are which steps of SharedConfig. *)

SameHomes == \A e \in Exposers : HomeOf(e)' = HomeOf(e)

SameEntries == \A c \in Components, e \in Exposers : EntryOf(c, e)' = EntryOf(c, e)

LEMMA StutterStep ==
    ASSUME SameHomes, SameEntries, Announced' = Announced
    PROVE  UNCHANGED Registry!vars
  BY DEF SameHomes, SameEntries, Registry!vars

LEMMA RegisterStep ==
    ASSUME NEW w \in Exposers, NEW c \in Components, SameEntries, Announced' = Announced,
           HomeOf(w) = None, HomeOf(w)' = c, \A e \in Exposers \ {w} : HomeOf(e)' = HomeOf(e)
    PROVE  Registry!Next
  <1>1. Registry!Register(w, c)
    BY DEF SameEntries, Registry!Register
  <1> QED BY <1>1 DEF Registry!Next

LEMMA PublishStep ==
    ASSUME NEW w \in Exposers, NEW v \in Values, NEW c \in Components,
           SameHomes, Announced' = Announced,
           HomeOf(w) = c, c # None, EntryOf(c, w)' = v,
           \A d \in Components, e \in Exposers :
               d # c \/ e # w => EntryOf(d, e)' = EntryOf(d, e)
    PROVE  Registry!Next
  <1>1. Registry!Publish(w, v)
    BY DEF SameHomes, Registry!Publish
  <1> QED BY <1>1 DEF Registry!Next

LEMMA AnnounceStep ==
    ASSUME NEW w \in Exposers, NEW c \in Components, SameHomes, SameEntries,
           Announced' = Announced \cup {w}, HomeOf(w) = c, c # None, EntryOf(c, w) # None
    PROVE  Registry!Next
  <1>1. Registry!Announce(w)
    BY DEF SameHomes, SameEntries, Registry!Announce
  <1> QED BY <1>1 DEF Registry!Next

LEMMA RetireStep ==
    ASSUME NEW w \in Exposers, SameHomes, SameEntries, Announced' = Announced \ {w}
    PROVE  Registry!Next
  <1>1. Registry!Retire(w)
    BY DEF SameHomes, SameEntries, Registry!Retire
  <1> QED BY <1>1 DEF Registry!Next

LEMMA WithdrawStep ==
    ASSUME NEW w \in Exposers, NEW c \in Components, SameHomes, Announced' = Announced,
           HomeOf(w) = c, c # None, w \notin Announced, EntryOf(c, w)' = None,
           \A d \in Components, e \in Exposers :
               d # c \/ e # w => EntryOf(d, e)' = EntryOf(d, e)
    PROVE  Registry!Next
  <1> DEFINE homes == [e \in Exposers |-> HomeOf(e)]
             entries == [d \in Components |-> [e \in Exposers |-> EntryOf(d, e)]]
             withdrawn == [entries EXCEPT ![c][w] = None]
  <1>1. homes[w] = c /\ homes' = homes
    BY DEF SameHomes
  <1>2. entries' = withdrawn
    <2>1. entries' = [d \in Components |-> [e \in Exposers |-> EntryOf(d, e)']]
      OBVIOUS
    <2>2. withdrawn = [d \in Components |->
                         [e \in Exposers |-> IF d = c /\ e = w THEN None ELSE EntryOf(d, e)]]
      OBVIOUS
    <2> QED BY <2>1, <2>2
  <1> HIDE DEF homes, entries
  <1>3. Registry!Withdraw(w)
    BY <1>1, <1>2 DEF Registry!Withdraw, homes, entries
  <1> QED BY <1>3 DEF Registry!Next

LEMMA LeaveStep ==
    ASSUME NEW w \in Exposers, NEW c \in Components, SameEntries, Announced' = Announced,
           HomeOf(w) = c, c # None, w \notin Announced, EntryOf(c, w) = None,
           HomeOf(w)' = None, \A e \in Exposers \ {w} : HomeOf(e)' = HomeOf(e)
    PROVE  Registry!Next
  <1>1. Registry!Leave(w)
    BY DEF SameEntries, Registry!Leave
  <1> QED BY <1>1 DEF Registry!Next

-----------------------------------------------------------------------------
(* The steps of the controller. *)

RegistryStep == RegistryInv' /\ [Registry!Next]_(Registry!vars)

\* Steps that change neither exposers nor shared maps nor copies of exposers;
LEMMA QuietStep ==
    ASSUME RegistryInv, UNCHANGED <<ex, cm, exC>>, MarkedIsPublished', WithdrawerIsDeleted'
    PROVE  RegistryStep
  <1>1. SameHomes /\ SameEntries /\ Announced' = Announced
    BY DEF SameHomes, SameEntries, HomeOf, EntryOf, Announced
  <1>2. EntryHasFinalizer' /\ AnnouncedIsPublished' /\ DeletionIsSeen'
    BY <1>1 DEF RegistryInv, EntryHasFinalizer, AnnouncedIsPublished, DeletionIsSeen, EntryOf,
                ExposerRead
  <1> QED BY <1>1, <1>2, StutterStep DEF RegistryStep, RegistryInv

\* among them those that end a reconciliation,
LEMMA QuietFinish ==
    ASSUME RegistryInv, UNCHANGED <<ex, cm, exC>>, Finish
    PROVE  RegistryStep
  <1>1. MarkedIsPublished' /\ WithdrawerIsDeleted'
    BY DEF Finish, MarkedIsPublished, WithdrawerIsDeleted
  <1> QED BY <1>1, QuietStep

\* those that go on to another reducer after the map's,
LEMMA QuietReducer ==
    ASSUME RegistryInv, UNCHANGED <<ex, cm, exC, at, cr>>,
           pc \in {"dependencies", "configmap", "deployment", "ingress", "reference"},
           pc' \in {"configmap", "deployment", "ingress", "reference", "status"},
           pc' = "configmap" => pc = "dependencies",
           "ConfigMapReady" \in marks' => "ConfigMapReady" \in marks
    PROVE  RegistryStep
  <1>1. MarkedIsPublished'
    BY DEF RegistryInv, MarkedIsPublished, EntryOf
  <1>2. WithdrawerIsDeleted'
    BY DEF WithdrawerIsDeleted
  <1> QED BY <1>1, <1>2, QuietStep

\* those that go on in a deletion,
LEMMA QuietDeletion ==
    ASSUME RegistryInv, UNCHANGED <<ex, cm, exC, at, cr, marks>>,
           pc \in {"unmount", "cleanup", "deleteMap", "release"},
           pc' \in {"unmount", "cleanup", "deleteMap", "release"}
    PROVE  RegistryStep
  <1>1. MarkedIsPublished'
    BY DEF RegistryInv, MarkedIsPublished
  <1>2. WithdrawerIsDeleted'
    BY DEF RegistryInv, WithdrawerIsDeleted
  <1> QED BY <1>1, <1>2, QuietStep

\* those that leave the worker alone.
LEMMA QuietEnvironment ==
    ASSUME RegistryInv, UNCHANGED <<ex, cm, exC, pc, at, cr, marks>>
    PROVE  RegistryStep
  <1>1. MarkedIsPublished' /\ WithdrawerIsDeleted'
    BY DEF RegistryInv, MarkedIsPublished, WithdrawerIsDeleted, EntryOf
  <1> QED BY <1>1, QuietStep

LEMMA QuietWork ==
    ASSUME TypeOK, RegistryInv,
           \/ ReadAgain \/ ValidateDependencies \/ SkipConfigMap \/ SkipDeployment
           \/ UpdateComponentDeployment \/ SkipIngress \/ BuildIngress \/ ReconcileIngress
           \/ RemoveVolumeFromDeployment
    PROVE  RegistryStep
  <1>1. CASE ReadAgain
    <2>1. UNCHANGED <<ex, cm, exC>> /\ pc = "reread"
      BY <1>1 DEF ReadAgain, api, caches
    <2>2. CASE Retry
      BY <1>1, <2>2, QuietFinish DEF ReadAgain, Retry, api, caches
    <2>3. CASE pc' = "dependencies" /\ UNCHANGED marks
      <3>1. MarkedIsPublished' /\ WithdrawerIsDeleted'
        BY <2>1, <2>3 DEF RegistryInv, MarkedIsPublished, WithdrawerIsDeleted
      <3> QED BY <1>1, <3>1, QuietStep DEF ReadAgain, api, caches
    <2> QED BY <1>1, <2>2, <2>3 DEF ReadAgain
  <1>2. CASE ValidateDependencies
    BY <1>2, QuietReducer DEF ValidateDependencies, api, caches
  <1>3. CASE SkipConfigMap \/ SkipDeployment \/ SkipIngress \/ BuildIngress
    BY <1>3, QuietReducer
       DEF SkipConfigMap, SkipDeployment, SkipIngress, BuildIngress, GoTo, api, caches
  <1>4. CASE UpdateComponentDeployment
    <2>1. /\ UNCHANGED <<ex, cm, exC>> /\ pc = "deployment"
          /\ \/ Retry
             \/ /\ pc' = "ingress" /\ marks' = marks \cup {"DeploymentReady"}
                /\ UNCHANGED <<at, cr>>
      BY <1>4 DEF UpdateComponentDeployment
    <2> QED BY <2>1, QuietFinish, QuietReducer DEF Retry
  <1>5. CASE ReconcileIngress
    <2>1. /\ UNCHANGED <<ex, cm, exC>> /\ pc = "reference"
          /\ Retry \/ (pc' = "status" /\ UNCHANGED <<at, cr, marks>>)
      BY <1>5 DEF ReconcileIngress, caches
    <2> QED BY <2>1, QuietFinish, QuietReducer DEF Retry
  <1>6. CASE RemoveVolumeFromDeployment
    <2>1. /\ UNCHANGED <<ex, cm, exC>> /\ pc = "unmount"
          /\ Retry \/ (pc' = "cleanup" /\ UNCHANGED <<at, cr, marks>>)
      BY <1>6 DEF RemoveVolumeFromDeployment, GoTo
    <2> QED BY <2>1, QuietFinish, QuietDeletion DEF Retry
  <1> QED BY <1>1, <1>2, <1>3, <1>4, <1>5, <1>6

LEMMA TakeStep ==
    ASSUME TypeOK, RegistryInv, NEW e \in Exposers, Take(e)
    PROVE  RegistryStep
  <1>1. CASE ReconcileNotFound(e)
    BY <1>1, QuietEnvironment DEF ReconcileNotFound, api, caches, worker
  <1>2. CASE Reconcile(e)
    <2>1. /\ UNCHANGED <<ex, cm, exC, marks>> /\ pc = "idle" /\ marks = {}
          /\ pc' = FirstPhase(ExposerRead(e)) /\ at' = e /\ cr' = ExposerRead(e)
      BY <1>2 DEF Reconcile, TypeOK, WorkerTyped, api, caches
    <2>2. MarkedIsPublished'
      BY <2>1 DEF MarkedIsPublished
    <2>3. ExposerRead(e) # None /\ ExposerRead(e) \in ExposerObject
      BY <1>2, ReadTypes DEF Reconcile
    <2>4. CASE ExposerRead(e).deleting
      <3>1. pc' = "unmount"
        BY <2>1, <2>3, <2>4 DEF FirstPhase, ExposerObject
      <3>2. WithdrawerIsDeleted'
        BY <2>1, <2>3, <2>4, <3>1 DEF RegistryInv, DeletionIsSeen, WithdrawerIsDeleted
      <3> QED BY <2>1, <2>2, <3>2, QuietStep
    <2>5. CASE ~ExposerRead(e).deleting
      <3>1. pc' \in {"finalizer", "dependencies"}
        BY <2>1, <2>3, <2>5 DEF FirstPhase, ExposerObject
      <3>2. WithdrawerIsDeleted'
        BY <2>1, <2>5, <3>1 DEF WithdrawerIsDeleted
      <3> QED BY <2>1, <2>2, <3>2, QuietStep
    <2> QED BY <2>4, <2>5
  <1> QED BY <1>1, <1>2 DEF Take

\* A write of an exposer: nobody's entry, and nobody else's finalizer or report.
LEMMA ExposerWriteStep ==
    ASSUME TypeOK, RegistryInv, NEW w \in Exposers, NEW o \in ExposerObject \cup {None},
           WriteExposer(w, o), UNCHANGED <<cm, exC>>,
           o # None /\ ~o.deleting /\ "ConfigMapReady" \in o.ready
               => o.fin /\ EntryOf(o.comp, w) # None,
           o # None /\ o.fin /\ ~o.deleting /\ ExposerRead(w) # None => ~ExposerRead(w).deleting,
           MarkedIsPublished', WithdrawerIsDeleted'
    PROVE  /\ RegistryInv' /\ SameEntries
           /\ HomeOf(w)' = IF o # None /\ o.fin THEN o.comp ELSE None
           /\ \A e \in Exposers \ {w} : HomeOf(e)' = HomeOf(e)
           /\ Announced' = IF o # None /\ ~o.deleting /\ "ConfigMapReady" \in o.ready
                             THEN Announced \cup {w} ELSE Announced \ {w}
  <1>1. /\ ex' = [ex EXCEPT ![w] = o] /\ ex'[w] = o
        /\ \A e \in Exposers \ {w} : ex'[e] = ex[e]
    BY DEF WriteExposer, TypeOK, StoredTyped
  <1>2. \A e \in Exposers : ExposerRead(e)' = ExposerRead(e) \/ (e = w /\ ExposerRead(e)' = o)
    BY <1>1 DEF ExposerRead
  <1>3. SameEntries
    BY DEF SameEntries, EntryOf
  <1>4. /\ HomeOf(w)' = IF o # None /\ o.fin THEN o.comp ELSE None
        /\ \A e \in Exposers \ {w} : HomeOf(e)' = HomeOf(e)
    BY <1>1 DEF HomeOf
  <1>5. Announced' = IF o # None /\ ~o.deleting /\ "ConfigMapReady" \in o.ready
                       THEN Announced \cup {w} ELSE Announced \ {w}
    BY <1>1 DEF Announced
  <1>6. EntryHasFinalizer'
    BY DEF RegistryInv, EntryHasFinalizer, EntryOf
  <1>7. AnnouncedIsPublished'
    <2> SUFFICES ASSUME NEW e \in Exposers, e \in Announced'
                 PROVE  ex'[e].fin /\ EntryOf(ex'[e].comp, e) # None
      BY DEF AnnouncedIsPublished, EntryOf, Announced
    <2>1. CASE e = w
      BY <1>1, <2>1 DEF Announced
    <2>2. CASE e # w
      BY <1>1, <1>5, <2>2 DEF RegistryInv, AnnouncedIsPublished
    <2> QED BY <2>1, <2>2
  <1>8. DeletionIsSeen'
    <2> SUFFICES ASSUME NEW e \in Exposers, ExposerRead(e)' # None, ExposerRead(e)'.deleting,
                        ex'[e] # None, ex'[e].fin
                 PROVE  ex'[e].deleting
      BY DEF DeletionIsSeen
    <2>1. CASE e = w
      BY <1>1, <1>2, <2>1
    <2>2. CASE e # w
      BY <1>1, <1>2, <2>2 DEF RegistryInv, DeletionIsSeen
    <2> QED BY <2>1, <2>2
  <1> QED BY <1>3, <1>4, <1>5, <1>6, <1>7, <1>8 DEF RegistryInv

\* The finalizer is the registration.
LEMMA EnsureFinalizerStep ==
    ASSUME TypeOK, OrphanInv, RegistryInv, EnsureFinalizer
    PROVE  RegistryStep
  <1>1. CASE ~held
    BY <1>1, QuietFinish DEF EnsureFinalizer, Retry
  <1>2. CASE held
    <2> DEFINE o == [cr EXCEPT !.fin = TRUE]
    <2>1. PICK w \in Exposers : w = at /\ cr \in ExposerObject
      BY DEF EnsureFinalizer, TypeOK, WorkerTyped
    <2>2. ex[w] = cr /\ ExposerRead(w) = cr /\ ~cr.fin /\ ~cr.deleting /\ cr # None
      BY <1>2, <2>1, NoneAssumption
         DEF EnsureFinalizer, OrphanInv, HeldIsCurrent, PhaseFitsCopy, RegistryInv,
             WithdrawerIsDeleted
    <2>3. w \notin Announced /\ "ConfigMapReady" \notin cr.ready
      BY <2>2 DEF RegistryInv, AnnouncedIsPublished, Announced
    <2>4. /\ o \in ExposerObject /\ o.comp = cr.comp /\ o.fin /\ ~o.deleting /\ o.ready = cr.ready
          /\ cr.comp \in Components
      BY <2>1, <2>2 DEF ExposerObject
    <2>5. o # None
      BY <2>4, NoneAssumption
    <2>6. WriteExposer(w, o) /\ UNCHANGED <<cm, exC, marks>> /\ pc = "finalizer" /\ pc' = "reread"
      BY <1>2, <2>1 DEF EnsureFinalizer
    <2>7. MarkedIsPublished' /\ WithdrawerIsDeleted'
      BY <2>6 DEF RegistryInv, MarkedIsPublished, WithdrawerIsDeleted
    <2> HIDE DEF o
    <2>8. /\ RegistryInv' /\ SameEntries /\ HomeOf(w)' = cr.comp
          /\ \A e \in Exposers \ {w} : HomeOf(e)' = HomeOf(e)
          /\ Announced' = Announced
      BY <2>2, <2>3, <2>4, <2>5, <2>6, <2>7, ExposerWriteStep
    <2>9. HomeOf(w) = None
      BY <2>2 DEF HomeOf
    <2>10. Registry!Next
      BY <2>4, <2>8, <2>9, RegisterStep
    <2> QED BY <2>8, <2>10 DEF RegistryStep
  <1> QED BY <1>1, <1>2

\* The status is the report.
LEMMA StatusStep ==
    ASSUME TypeOK, OrphanInv, RegistryInv, HandleDependencyError \/ UpdateStatus
    PROVE  RegistryStep
  <1>0. PICK w \in Exposers : w = at /\ cr \in ExposerObject /\ pc # "idle"
    BY DEF HandleDependencyError, UpdateStatus, TypeOK, WorkerTyped
  <1>1. CASE UNCHANGED <<ex, fresh>> /\ Finish
    BY <1>1, QuietFinish DEF HandleDependencyError, UpdateStatus
  <1>2. ASSUME NEW ready, held, WriteExposer(w, [cr EXCEPT !.ready = ready]), Finish,
               ready \subseteq cr.ready \cup marks, ready \in SUBSET {"DependenciesReady", "ConfigMapReady", "DeploymentReady"},
               "ConfigMapReady" \in cr.ready => "ConfigMapReady" \in ready
        PROVE  RegistryStep
    <2> DEFINE o == [cr EXCEPT !.ready = ready]
    <2>1. ex[w] = cr /\ ExposerRead(w) = cr /\ cr # None /\ cr.comp \in Components
      BY <1>0, <1>2, NoneAssumption DEF OrphanInv, HeldIsCurrent, ExposerObject
    <2>2. IsProtected(w, cr.comp)
      BY <1>0 DEF OrphanInv, PublisherIsProtected, HandleDependencyError, UpdateStatus
    <2>3. cr.fin /\ HomeOf(w) = cr.comp
      BY <2>1, <2>2 DEF IsProtected, HomeOf
    <2>4. /\ o \in ExposerObject /\ o.comp = cr.comp /\ o.fin /\ o.deleting = cr.deleting
          /\ o.ready = ready
      BY <1>0, <1>2, <2>3 DEF ExposerObject
    <2>5. o # None
      BY <2>4, NoneAssumption
    <2>6. ~cr.deleting /\ "ConfigMapReady" \in ready => EntryOf(cr.comp, w) # None
      BY <1>0, <1>2, <2>1
         DEF RegistryInv, AnnouncedIsPublished, MarkedIsPublished, Announced
    <2>7. MarkedIsPublished' /\ WithdrawerIsDeleted'
      BY <1>2 DEF Finish, MarkedIsPublished, WithdrawerIsDeleted
    <2>8. WriteExposer(w, o) /\ UNCHANGED <<cm, exC>>
      BY <1>2 DEF HandleDependencyError, UpdateStatus
    <2> HIDE DEF o
    <2>9. /\ RegistryInv' /\ SameEntries /\ HomeOf(w)' = cr.comp
          /\ \A e \in Exposers \ {w} : HomeOf(e)' = HomeOf(e)
          /\ Announced' = IF ~cr.deleting /\ "ConfigMapReady" \in ready
                            THEN Announced \cup {w} ELSE Announced \ {w}
      BY <2>1, <2>3, <2>4, <2>5, <2>6, <2>7, <2>8, ExposerWriteStep
    <2>10. SameHomes
      BY <2>3, <2>9 DEF SameHomes
    <2>11. CASE ~cr.deleting /\ "ConfigMapReady" \in ready
      <3>1. Registry!Next
        BY <2>1, <2>3, <2>6, <2>9, <2>10, <2>11, NoneAssumption, AnnounceStep
      <3> QED BY <2>9, <3>1 DEF RegistryStep
    <2>12. CASE ~(~cr.deleting /\ "ConfigMapReady" \in ready)
      <3>1. Registry!Next
        BY <2>9, <2>10, <2>12, RetireStep
      <3> QED BY <2>9, <3>1 DEF RegistryStep
    <2> QED BY <2>11, <2>12
  <1>3. CASE HandleDependencyError
    <2>1. CASE held /\ WriteExposer(at, [cr EXCEPT !.ready = @ \ {"DependenciesReady"}])
      <3>1. WriteExposer(w, [cr EXCEPT !.ready = cr.ready \ {"DependenciesReady"}]) /\ Finish
        BY <1>0, <1>3, <2>1 DEF HandleDependencyError, Retry
      <3> QED BY <1>0, <1>2, <2>1, <3>1 DEF ExposerObject
    <2>2. CASE UNCHANGED <<ex, fresh>>
      BY <1>1, <1>3, <2>2 DEF HandleDependencyError, Retry
    <2> QED BY <1>3, <2>1, <2>2 DEF HandleDependencyError
  <1>4. CASE UpdateStatus
    <2>1. CASE held /\ cr.ready \cup marks # cr.ready
      <3>1. WriteExposer(w, [cr EXCEPT !.ready = cr.ready \cup marks]) /\ Finish
        BY <1>0, <1>4, <2>1 DEF UpdateStatus, Done
      <3> QED BY <1>0, <1>2, <2>1, <3>1 DEF ExposerObject, TypeOK, WorkerTyped
    <2>2. CASE ~(held /\ cr.ready \cup marks # cr.ready)
      BY <1>1, <1>4, <2>2 DEF UpdateStatus, Done, Retry
    <2> QED BY <2>1, <2>2
  <1> QED BY <1>3, <1>4

\* The entry of the exposer is published, the others stay.
LEMMA ReconcileConfigMapStep ==
    ASSUME TypeOK, OrphanInv, MapCopiesAgree, RegistryInv, ReconcileConfigMap, ~BlindPublish
    PROVE  RegistryStep
  <1> DEFINE c == cr.comp
             val == EntryFor(at, cr.val)
             seen == ConfigMapRead(c)
             want == Published(cm[c], at, val)
  <1>0. cr.val \in Values /\ at \in available
    BY DEF ReconcileConfigMap, TypeOK, WorkerTyped, ExposerObject
  <1>1. /\ UNCHANGED <<ex, exC>> /\ pc = "configmap"
        /\ at \in Exposers /\ c \in Components /\ val \in Values
        /\ cm \in [Components -> ConfigMapObject \cup {None}]
    BY <1>0, EntryForType
       DEF ReconcileConfigMap, TypeOK, WorkerTyped, StoredTyped, ExposerObject
  <1> HIDE DEF val
  <1>2. CASE Retry /\ UNCHANGED cm
    BY <1>1, <1>2, QuietFinish DEF Retry
  <1>3. CASE /\ cm' = [cm EXCEPT ![c] = want]
             /\ pc' = "deployment" /\ marks' = marks \cup {"ConfigMapReady"} /\ UNCHANGED <<at, cr>>
    <2>1. /\ want \in ConfigMapObject /\ want # None /\ want.data[at] = val /\ val # None
          /\ at \in want.fins
      <3>1. want \in ConfigMapObject
        BY <1>1, PublishedType
      <3>2. want.data[at] = val /\ at \in want.fins
        BY <1>1 DEF Published, EmptyMap, NoEntries, ConfigMapObject, Data
      <3> QED BY <1>1, <3>1, <3>2, NoneAssumption
    <2>2. \A e \in Exposers \ {at} :
             /\ want.data[e] = EntryOf(c, e)
             /\ cm[c] # None /\ e \in cm[c].fins => e \in want.fins
      BY <1>1 DEF Published, EmptyMap, NoEntries, ConfigMapObject, Data, EntryOf
    <2>3. cm'[c] = want /\ \A d \in Components \ {c} : cm'[d] = cm[d]
      BY <1>1, <1>3
    <2>4. /\ EntryOf(c, at)' = val
          /\ \A d \in Components, e \in Exposers : d # c \/ e # at => EntryOf(d, e)' = EntryOf(d, e)
      BY <1>3, <2>1, <2>2, <2>3 DEF EntryOf
    <2>5. SameHomes /\ Announced' = Announced
      BY <1>1 DEF SameHomes, HomeOf, Announced
    <2>6. EntryHasFinalizer'
      <3> SUFFICES ASSUME NEW d \in Components, NEW e \in Exposers, EntryOf(d, e)' # None
                   PROVE  e \in cm'[d].fins
        BY DEF EntryHasFinalizer
      <3>1. CASE d = c /\ e = at
        BY <2>1, <2>3, <3>1
      <3>2. CASE d # c \/ e # at
        <4>1. EntryOf(d, e) # None /\ e \in cm[d].fins /\ cm[d] # None
          BY <2>4, <3>2 DEF RegistryInv, EntryHasFinalizer, EntryOf
        <4> QED BY <2>2, <2>3, <3>2, <4>1
      <3> QED BY <3>1, <3>2
    <2>7. AnnouncedIsPublished'
      <3> SUFFICES ASSUME NEW e \in Exposers, e \in Announced
                   PROVE  ex[e].fin /\ EntryOf(ex[e].comp, e)' # None
        BY <1>1, <2>5 DEF AnnouncedIsPublished, Announced, EntryOf
      <3>1. ex[e].fin /\ EntryOf(ex[e].comp, e) # None /\ ex[e].comp \in Components
        BY DEF RegistryInv, AnnouncedIsPublished, Announced, TypeOK, StoredTyped, ExposerObject
      <3>2. PICK d \in Components : d = ex[e].comp
        BY <3>1
      <3>3. CASE d = c /\ e = at
        BY <1>1, <2>1, <2>3, <3>1, <3>2, <3>3 DEF EntryOf
      <3>4. CASE d # c \/ e # at
        BY <1>1, <2>4, <3>1, <3>2, <3>4
      <3> QED BY <3>3, <3>4
    <2>8. MarkedIsPublished'
      BY <1>3, <2>1, <2>4 DEF MarkedIsPublished, EntryOf
    <2>9. DeletionIsSeen' /\ WithdrawerIsDeleted'
      BY <1>1, <1>3 DEF RegistryInv, DeletionIsSeen, WithdrawerIsDeleted, ExposerRead
    <2>10. HomeOf(at) = c /\ c # None
      BY <1>1, NoneAssumption DEF OrphanInv, PublisherIsProtected, IsProtected, HomeOf
    <2>11. Registry!Next
      <3>1. PICK w \in Exposers, v \in Values, d \in Components : w = at /\ v = val /\ d = c
        BY <1>1
      <3>2. EntryOf(d, w)' = v
        BY <1>3, <2>4, <3>1
      <3> QED BY <2>4, <2>5, <2>10, <3>1, <3>2, PublishStep
    <2> QED BY <2>6, <2>7, <2>8, <2>9, <2>11 DEF RegistryStep, RegistryInv
  <1>4. CASE /\ UNCHANGED cm /\ EntryOf(c, at) # None
             /\ pc' = "deployment" /\ UNCHANGED <<at, cr>>
    <2>1. MarkedIsPublished' /\ WithdrawerIsDeleted'
      BY <1>4 DEF MarkedIsPublished, WithdrawerIsDeleted, EntryOf
    <2> QED BY <1>1, <1>4, <2>1, QuietStep
  <1> QED
    <2> DEFINE new == Published(seen, at, EntryFor(at, cr.val))
    <2>1. CASE seen = new
      <3>1. EntryOf(c, at) # None
        BY <2>1 DEF BlindPublish
      <3> QED BY <1>4, <2>1, <3>1 DEF ReconcileConfigMap
    <2>2. CASE seen # new /\ IsCurrent("ConfigMap", c, cmFresh) /\ Accepted(cm[c], at)
      <3>1. seen = cm[c]
        BY <1>1, <2>2, WrittenFromCurrent
      <3> QED BY <1>3, <2>2, <3>1 DEF ReconcileConfigMap, WriteConfigMap, val
    <2>3. CASE seen # new /\ ~(IsCurrent("ConfigMap", c, cmFresh) /\ Accepted(cm[c], at))
      BY <1>1, <1>2, <2>3 DEF ReconcileConfigMap
    <2> QED BY <2>1, <2>2, <2>3

\* Steps that change the maps without changing an entry, of an exposer or in the reports.
LEMMA SameEntriesStep ==
    ASSUME TypeOK, RegistryInv, UNCHANGED <<ex, exC>>, SameEntries, EntryHasFinalizer',
           MarkedIsPublished', WithdrawerIsDeleted'
    PROVE  RegistryStep
  <1>1. SameHomes /\ Announced' = Announced
    BY DEF SameHomes, HomeOf, Announced
  <1>2. AnnouncedIsPublished'
    <2> SUFFICES ASSUME NEW e \in Exposers, e \in Announced
                 PROVE  ex[e].fin /\ EntryOf(ex[e].comp, e)' # None
      BY <1>1 DEF AnnouncedIsPublished, Announced, EntryOf
    <2>1. ex[e].fin /\ EntryOf(ex[e].comp, e) # None /\ ex[e].comp \in Components
      BY DEF RegistryInv, AnnouncedIsPublished, Announced, TypeOK, StoredTyped, ExposerObject
    <2> QED BY <2>1 DEF SameEntries
  <1>3. DeletionIsSeen'
    BY DEF RegistryInv, DeletionIsSeen, ExposerRead
  <1> QED BY <1>1, <1>2, <1>3, StutterStep DEF RegistryStep, RegistryInv

\* A map is deleted with its last finalizer, and no entry is without one.
LEMMA DeletedKeepsEntries ==
    ASSUME TypeOK, EntryHasFinalizer, NEW c \in Components, cm' = [cm EXCEPT ![c] = Deleted(c)]
    PROVE  SameEntries /\ EntryHasFinalizer'
  <1>1. /\ cm \in [Components -> ConfigMapObject \cup {None}]
        /\ cm'[c] = Deleted(c) /\ \A d \in Components \ {c} : cm'[d] = cm[d]
    BY DEF TypeOK, StoredTyped
  <1>2. CASE cm[c] = None
    BY <1>1, <1>2 DEF Deleted, SameEntries, EntryHasFinalizer, EntryOf
  <1>3. CASE cm[c] # None /\ cm[c].fins = {}
    <2>1. Deleted(c) = None
      BY <1>1, <1>3 DEF Deleted, Stored, ConfigMapObject
    <2>2. \A e \in Exposers : EntryOf(c, e) = None
      BY <1>3 DEF EntryHasFinalizer
    <2> QED BY <1>1, <2>1, <2>2 DEF SameEntries, EntryHasFinalizer, EntryOf
  <1>4. CASE cm[c] # None /\ cm[c].fins # {}
    <2>1. Deleted(c) = [cm[c] EXCEPT !.deleting = TRUE] /\ cm[c] \in ConfigMapObject
      BY <1>1, <1>4 DEF Deleted, Stored, ConfigMapObject
    <2>2. /\ Deleted(c) \in ConfigMapObject
          /\ Deleted(c).data = cm[c].data /\ Deleted(c).fins = cm[c].fins
      BY <2>1 DEF ConfigMapObject
    <2>3. Deleted(c) # None
      BY <2>2, NoneAssumption
    <2> QED BY <1>1, <1>4, <2>2, <2>3 DEF SameEntries, EntryHasFinalizer, EntryOf
  <1> QED BY <1>2, <1>3, <1>4

\* The entry of the exposer is withdrawn, the others stay.
LEMMA CleanupConfigMapStep ==
    ASSUME TypeOK, OrphanInv, MapCopiesAgree, RegistryInv, CleanupConfigMap
    PROVE  RegistryStep
  <1> DEFINE c == cr.comp
             left == Withdrawn(cm[c], at)
  <1>1. /\ UNCHANGED <<ex, exC>> /\ pc = "cleanup"
        /\ at \in Exposers /\ c \in Components
        /\ cm \in [Components -> ConfigMapObject \cup {None}]
    BY DEF CleanupConfigMap, TypeOK, WorkerTyped, StoredTyped, ExposerObject
  <1>2. CASE UNCHANGED cm
    <2>1. Retry \/ GoTo("deleteMap") \/ GoTo("release")
      BY DEF CleanupConfigMap
    <2> QED BY <1>1, <1>2, <2>1, QuietFinish, QuietDeletion DEF Retry, GoTo
  <1>3. CASE /\ HasTrace(cm[c], at) /\ cm' = [cm EXCEPT ![c] = Stored(left)]
             /\ pc' \in {"deleteMap", "release"} /\ UNCHANGED <<at, cr, marks>>
    <2>1. /\ cm[c] \in ConfigMapObject /\ left \in ConfigMapObject
          /\ left.data = [cm[c].data EXCEPT ![at] = None] /\ left.fins = cm[c].fins \ {at}
          /\ cm'[c] = Stored(left) /\ \A d \in Components \ {c} : cm'[d] = cm[d]
      BY <1>1, <1>3, WithdrawnType DEF HasTrace, Withdrawn, ConfigMapObject
    <2>2. left # None /\ cm[c] # None
      BY <2>1, NoneAssumption
    <2>3. \A e \in Exposers \ {at} : EntryOf(c, e) # None => e \in left.fins
      BY <1>1, <2>1 DEF RegistryInv, EntryHasFinalizer
    <2>4. EntryOf(c, at)' = None
      BY <1>1, <1>3, <2>1, <2>2 DEF EntryOf, Stored, ConfigMapObject, Data
    <2>5. \A d \in Components, e \in Exposers : d # c \/ e # at => EntryOf(d, e)' = EntryOf(d, e)
      <3> SUFFICES ASSUME NEW d \in Components, NEW e \in Exposers, d # c \/ e # at
                   PROVE  EntryOf(d, e)' = EntryOf(d, e)
        OBVIOUS
      <3>1. CASE d # c
        BY <2>1, <3>1 DEF EntryOf
      <3>2. CASE d = c
        BY <2>1, <2>2, <2>3, <3>2 DEF EntryOf, Stored, ConfigMapObject, Data
      <3> QED BY <3>1, <3>2
    <2>6. EntryHasFinalizer'
      <3> SUFFICES ASSUME NEW d \in Components, NEW e \in Exposers, EntryOf(d, e)' # None
                   PROVE  e \in cm'[d].fins
        BY DEF EntryHasFinalizer
      <3>1. (d # c \/ e # at) /\ EntryOf(d, e) # None
        <4>1. CASE d = c /\ e = at
          BY <1>3, <2>4, <4>1
        <4> QED BY <2>5, <4>1
      <3>2. e \in cm[d].fins
        BY <3>1 DEF RegistryInv, EntryHasFinalizer
      <3>3. CASE d # c
        BY <2>1, <3>2, <3>3
      <3>4. CASE d = c
        BY <2>1, <2>3, <3>1, <3>4 DEF Stored
      <3> QED BY <3>3, <3>4
    <2>7. HomeOf(at) = c /\ c # None /\ at \notin Announced
      <3>1. ex[at] # None /\ ex[at].fin /\ ex[at].comp = c
        BY <1>1, <1>3 DEF OrphanInv, NoTraceLeft
      <3>2. ex[at].deleting
        BY <1>1, <3>1 DEF RegistryInv, WithdrawerIsDeleted
      <3> QED BY <1>1, <3>1, <3>2, NoneAssumption DEF HomeOf, Announced
    <2>8. SameHomes /\ Announced' = Announced
      BY <1>1 DEF SameHomes, HomeOf, Announced
    <2>9. AnnouncedIsPublished'
      <3> SUFFICES ASSUME NEW e \in Exposers, e \in Announced
                   PROVE  ex[e].fin /\ EntryOf(ex[e].comp, e)' # None
        BY <1>1, <2>8 DEF AnnouncedIsPublished, Announced, EntryOf
      <3>1. ex[e].fin /\ EntryOf(ex[e].comp, e) # None /\ ex[e].comp \in Components
        BY DEF RegistryInv, AnnouncedIsPublished, Announced, TypeOK, StoredTyped, ExposerObject
      <3> QED BY <1>1, <2>5, <2>7, <3>1
    <2>10. MarkedIsPublished' /\ WithdrawerIsDeleted' /\ DeletionIsSeen'
      BY <1>1, <1>3 DEF RegistryInv, MarkedIsPublished, WithdrawerIsDeleted, DeletionIsSeen,
                        ExposerRead
    <2>11. Registry!Next
      <3>1. PICK w \in Exposers, d \in Components : w = at /\ d = c
        BY <1>1
      <3>2. EntryOf(d, w)' = None
        BY <1>3, <2>4, <3>1
      <3> QED BY <2>5, <2>7, <2>8, <3>1, <3>2, WithdrawStep
    <2> QED BY <2>6, <2>9, <2>10, <2>11 DEF RegistryStep, RegistryInv
  <1> QED
    <2> DEFINE seen == ConfigMapRead(c)
    <2>1. CASE HasTrace(seen, at) /\ IsCurrent("ConfigMap", c, cmFresh)
      <3>1. seen = cm[c]
        BY <1>1, <2>1, WrittenFromCurrent
      <3> QED BY <1>1, <1>3, <2>1, <3>1 DEF CleanupConfigMap, WriteConfigMap, GoTo
    <2>2. CASE ~(HasTrace(seen, at) /\ IsCurrent("ConfigMap", c, cmFresh))
      BY <1>1, <1>2, <2>2 DEF CleanupConfigMap
    <2> QED BY <2>1, <2>2

\* The exposer leaves when nothing of it is left.
LEMMA ReleaseStep ==
    ASSUME TypeOK, OrphanInv, RegistryInv, RemoveExposerFinalizer
    PROVE  RegistryStep
  <1>1. CASE ~held
    BY <1>1, QuietFinish DEF RemoveExposerFinalizer, Retry
  <1>2. CASE held
    <2>1. PICK w \in Exposers : w = at /\ cr \in ExposerObject
      BY DEF RemoveExposerFinalizer, TypeOK, WorkerTyped
    <2>2. /\ ex[w] = cr /\ cr.deleting /\ cr # None /\ cr.comp \in Components
          /\ ~HasTrace(cm[cr.comp], w)
      BY <1>2, <2>1, NoneAssumption
         DEF RemoveExposerFinalizer, OrphanInv, HeldIsCurrent, PhaseFitsCopy,
             CleanedBeforeRelease, ExposerObject
    <2>3. WriteExposer(w, None) /\ UNCHANGED <<cm, exC>> /\ Finish
      BY <1>2, <2>1 DEF RemoveExposerFinalizer, Done
    <2>4. MarkedIsPublished' /\ WithdrawerIsDeleted'
      BY <2>3 DEF Finish, MarkedIsPublished, WithdrawerIsDeleted
    <2>5. /\ RegistryInv' /\ SameEntries /\ HomeOf(w)' = None
          /\ \A e \in Exposers \ {w} : HomeOf(e)' = HomeOf(e)
          /\ Announced' = Announced \ {w}
      BY <2>3, <2>4, ExposerWriteStep
    <2>6. w \notin Announced /\ EntryOf(cr.comp, w) = None
      BY <2>2 DEF Announced, HasTrace, EntryOf
    <2>7. CASE cr.fin
      <3>1. HomeOf(w) = cr.comp /\ cr.comp # None
        BY <2>2, <2>7, NoneAssumption DEF HomeOf
      <3>2. Announced' = Announced
        BY <2>5, <2>6
      <3>3. Registry!Next
        BY <2>2, <2>5, <2>6, <3>1, <3>2, LeaveStep
      <3> QED BY <2>5, <3>3 DEF RegistryStep
    <2>8. CASE ~cr.fin
      <3>1. HomeOf(w) = None
        BY <2>2, <2>8 DEF HomeOf
      <3>2. SameHomes /\ Announced' = Announced
        BY <2>5, <2>6, <3>1 DEF SameHomes
      <3> QED BY <2>5, <3>2, StutterStep DEF RegistryStep
    <2> QED BY <2>7, <2>8
  <1> QED BY <1>1, <1>2

LEMMA WorkStep ==
    ASSUME TypeOK, OrphanInv, MapCopiesAgree, RegistryInv, Work, ~BlindPublish
    PROVE  RegistryStep
  <1>1. CASE DeleteEmptyMap
    <2>1. /\ UNCHANGED <<ex, exC, at, cr, marks>> /\ pc = "deleteMap" /\ pc' = "release"
          /\ cm' = [cm EXCEPT ![cr.comp] = Deleted(cr.comp)] /\ cr.comp \in Components
      BY <1>1 DEF DeleteEmptyMap, GoTo, WriteConfigMap, TypeOK, WorkerTyped, ExposerObject
    <2>2. SameEntries /\ EntryHasFinalizer'
      BY <2>1, DeletedKeepsEntries DEF RegistryInv
    <2>3. MarkedIsPublished' /\ WithdrawerIsDeleted'
      BY <2>1 DEF RegistryInv, MarkedIsPublished, WithdrawerIsDeleted
    <2> QED BY <2>1, <2>2, <2>3, SameEntriesStep
  <1> QED BY <1>1, QuietWork, EnsureFinalizerStep, StatusStep, ReconcileConfigMapStep,
             CleanupConfigMapStep, ReleaseStep DEF Work

\* Users create, edit and delete exposers; an edit does not give them another component.
LEMMA UserStep ==
    ASSUME TypeOK, RegistryInv, ~Move,
           NEW e \in Exposers, NEW c \in Components, NEW v \in Values,
           Create(e, c, v) \/ Edit(e, c, v) \/ Delete(e)
    PROVE  RegistryStep
  <1>0. ex[e] \in ExposerObject \cup {None}
    BY DEF TypeOK, StoredTyped
  <1>1. ASSUME NEW o \in ExposerObject \cup {None}, UserWrites(e, o),
               o # None /\ o.fin => /\ ex[e] # None /\ ex[e].fin /\ o.comp = ex[e].comp
                                    /\ ex[e].deleting => o.deleting
                                    /\ o.ready = ex[e].ready,
               o # None /\ ~o.deleting /\ "ConfigMapReady" \in o.ready => o.fin,
               o = None \/ ~o.fin => ex[e] = None \/ ~ex[e].fin
        PROVE  RegistryStep
    <2>1. WriteExposer(e, o) /\ UNCHANGED <<cm, exC, pc, at, cr, marks>>
      BY <1>1 DEF UserWrites
    <2>2. /\ ex'[e] = o /\ \A f \in Exposers \ {e} : ex'[f] = ex[f]
      BY <2>1 DEF WriteExposer, TypeOK, StoredTyped
    <2>3. MarkedIsPublished'
      BY <2>1 DEF RegistryInv, MarkedIsPublished, EntryOf
    <2>4. WithdrawerIsDeleted'
      <3>1. pc # "idle" => at \in Exposers
        BY DEF TypeOK, WorkerTyped
      <3> QED BY <1>1, <2>1, <2>2, <3>1 DEF RegistryInv, WithdrawerIsDeleted
    <2>5. o # None /\ ~o.deleting /\ "ConfigMapReady" \in o.ready => e \in Announced
      BY <1>1 DEF Announced
    <2>6. o # None /\ ~o.deleting /\ "ConfigMapReady" \in o.ready
              => o.fin /\ EntryOf(o.comp, e) # None
      BY <1>1, <2>5 DEF RegistryInv, AnnouncedIsPublished
    <2>7. o # None /\ o.fin /\ ~o.deleting /\ ExposerRead(e) # None => ~ExposerRead(e).deleting
      BY <1>1 DEF RegistryInv, DeletionIsSeen
    <2>8. /\ RegistryInv' /\ SameEntries
          /\ HomeOf(e)' = IF o # None /\ o.fin THEN o.comp ELSE None
          /\ \A f \in Exposers \ {e} : HomeOf(f)' = HomeOf(f)
          /\ Announced' = IF o # None /\ ~o.deleting /\ "ConfigMapReady" \in o.ready
                             THEN Announced \cup {e} ELSE Announced \ {e}
      BY <2>1, <2>3, <2>4, <2>6, <2>7, ExposerWriteStep
    <2>9. SameHomes
      <3>1. HomeOf(e)' = HomeOf(e)
        BY <1>1, <2>8 DEF HomeOf
      <3> QED BY <2>8, <3>1 DEF SameHomes
    <2>10. Announced' = Announced \/ Announced' = Announced \ {e}
      BY <2>5, <2>8
    <2> QED BY <2>8, <2>9, <2>10, StutterStep, RetireStep DEF RegistryStep
  <1>2. CASE Create(e, c, v)
    <2>1. New(c, v) \in ExposerObject /\ ~New(c, v).fin /\ New(c, v).ready = {}
      BY NewType DEF New
    <2> QED BY <1>1, <1>2, <2>1 DEF Create
  <1>3. CASE Edit(e, c, v)
    <2> DEFINE o == [ex[e] EXCEPT !.comp = c, !.val = v]
    <2>1. ex[e] \in ExposerObject /\ ex[e] # None
      BY <1>0, <1>3 DEF Edit
    <2>2. ex[e].fin => c = ex[e].comp
      BY <1>3, <2>1 DEF Move
    <2>3. /\ o \in ExposerObject /\ o.fin = ex[e].fin
          /\ ex[e].fin => o.comp = ex[e].comp
          /\ o.deleting = ex[e].deleting /\ o.ready = ex[e].ready
      BY <2>1, <2>2 DEF ExposerObject
    <2>4. UserWrites(e, o) /\ o # None
      BY <1>3, <2>3, NoneAssumption DEF Edit
    <2>5. ~ex[e].deleting /\ "ConfigMapReady" \in ex[e].ready => ex[e].fin
      BY <2>1 DEF RegistryInv, AnnouncedIsPublished, Announced
    <2> HIDE DEF o
    <2> QED BY <1>1, <2>1, <2>3, <2>4, <2>5
  <1>4. CASE Delete(e)
    <2> DEFINE o == [ex[e] EXCEPT !.deleting = TRUE]
    <2>1. ex[e] \in ExposerObject /\ ex[e] # None
      BY <1>0, <1>4 DEF Delete
    <2>2. /\ o \in ExposerObject /\ o.fin = ex[e].fin /\ o.comp = ex[e].comp
          /\ o.deleting /\ o.ready = ex[e].ready
      BY <2>1 DEF ExposerObject
    <2>3. UserWrites(e, IF ex[e].fin THEN o ELSE None)
      BY <1>4 DEF Delete
    <2> HIDE DEF o
    <2>4. CASE ex[e].fin
      <3>1. o # None
        BY <2>2, NoneAssumption
      <3> QED BY <1>1, <2>1, <2>2, <2>3, <2>4, <3>1
    <2>5. CASE ~ex[e].fin
      BY <1>1, <2>3, <2>5
    <2> QED BY <2>4, <2>5
  <1> QED BY <1>2, <1>3, <1>4

\* A copy that is made anew is the exposer.
LEMMA SyncStep ==
    ASSUME TypeOK, RegistryInv, (\E e \in Exposers : SyncExposer(e)) \/ Crash
    PROVE  RegistryStep
  <1>1. UNCHANGED <<ex, cm>>
    BY DEF SyncExposer, Crash, api
  <1>2. SameHomes /\ SameEntries /\ Announced' = Announced
    BY <1>1 DEF SameHomes, SameEntries, HomeOf, EntryOf, Announced
  <1>3. EntryHasFinalizer' /\ AnnouncedIsPublished'
    BY <1>1, <1>2 DEF RegistryInv, EntryHasFinalizer, AnnouncedIsPublished, EntryOf
  <1>4. \A e \in Exposers : ExposerRead(e)' \in {ExposerRead(e), ex[e]}
    BY <1>1 DEF SyncExposer, Crash, ExposerRead, Copied, TypeOK, CopiesTyped
  <1>5. DeletionIsSeen'
    <2> SUFFICES ASSUME NEW e \in Exposers, ExposerRead(e)' # None, ExposerRead(e)'.deleting,
                        ex[e] # None, ex[e].fin
                 PROVE  ex[e].deleting
      BY <1>1 DEF DeletionIsSeen
    <2> QED BY <1>4 DEF RegistryInv, DeletionIsSeen
  <1>6. MarkedIsPublished' /\ WithdrawerIsDeleted'
    BY <1>1 DEF SyncExposer, Crash, Finish, worker, RegistryInv, MarkedIsPublished,
                WithdrawerIsDeleted, EntryOf
  <1> QED BY <1>2, <1>3, <1>5, <1>6, StutterStep DEF RegistryStep, RegistryInv

LEMMA EnvironmentStep ==
    ASSUME TypeOK, RegistryInv, ~Move, Sync \/ Disturb \/ UNCHANGED vars
    PROVE  RegistryStep
  <1>1. CASE \/ \E c \in Components : SyncConfigMap(c) \/ SyncDeployment(c) \/ ReplaceDeployment(c)
             \/ \E e \in Exposers, r \in Routes \cup {None, "missing"} : ChangeDependency(e, r)
             \/ \E e \in Exposers : DeleteIngress(e)
             \/ UNCHANGED vars
    <2>1. UNCHANGED <<ex, cm, exC, pc, at, cr, marks>>
      BY <1>1 DEF SyncConfigMap, SyncDeployment, ReplaceDeployment, ChangeDependency,
                  DeleteIngress, vars, api, caches, worker
    <2> QED BY <2>1, QuietEnvironment
  <1>2. CASE Fail
    BY <1>2, QuietFinish DEF Fail, Retry, api, caches
  <1>3. ASSUME NEW c \in Components, DeleteConfigMap(c) PROVE RegistryStep
    <2>1. /\ UNCHANGED <<ex, exC, pc, at, cr, marks>>
          /\ cm' = [cm EXCEPT ![c] = Deleted(c)]
      BY <1>3 DEF DeleteConfigMap, WriteConfigMap, worker
    <2>2. SameEntries /\ EntryHasFinalizer'
      BY <2>1, DeletedKeepsEntries DEF RegistryInv
    <2>3. MarkedIsPublished'
      <3>1. pc # "idle" => at \in Exposers /\ cr.comp \in Components
        BY DEF TypeOK, WorkerTyped, ExposerObject
      <3>2. "ConfigMapReady" \in marks => EntryOf(cr.comp, at)' = EntryOf(cr.comp, at)
        BY <2>1, <2>2, <3>1 DEF SameEntries, RegistryInv, MarkedIsPublished
      <3> QED BY <2>1, <3>2 DEF RegistryInv, MarkedIsPublished
    <2>4. WithdrawerIsDeleted'
      BY <2>1 DEF RegistryInv, WithdrawerIsDeleted
    <2> QED BY <2>1, <2>2, <2>3, <2>4, SameEntriesStep
  <1>4. ASSUME NEW e \in Exposers, Delete(e) PROVE RegistryStep
    <2>1. ex[e].comp \in Components /\ ex[e].val \in Values
      BY <1>4 DEF Delete, TypeOK, StoredTyped, ExposerObject
    <2> QED BY <1>4, <2>1, UserStep
  <1> QED BY <1>1, <1>2, <1>3, <1>4, SyncStep, UserStep DEF Sync, Disturb

\* The steps that break it: a cleanup or a publication from an outdated copy of the map
\* that leaves the map as it is, and a user's move.
Broken == BlindCleanup \/ BlindPublish \/ Move

\* What is kept until then.
LEMMA RegistryKept ==
    /\ Init => OrphanInv /\ MapCopiesAgree /\ RegistryInv
    /\ TypeOK /\ MapCopiesAgree /\ [Next]_vars => MapCopiesAgree'
    /\ TypeOK /\ OrphanInv /\ MapCopiesAgree /\ [Next]_vars /\ ~<<Broken>>_vars => OrphanInv'
    /\ TypeOK /\ OrphanInv /\ MapCopiesAgree /\ RegistryInv /\ [Next]_vars /\ ~<<Broken>>_vars
          => RegistryStep
<1>1. Init => OrphanInv /\ MapCopiesAgree /\ RegistryInv
  <2>1. Init => MapCopiesAgree
    BY DEF Init, MapCopiesAgree
  <2>2. Init => RegistryInv
    BY DEF Init, New, RegistryInv, EntryHasFinalizer, AnnouncedIsPublished, Announced, EntryOf,
           MarkedIsPublished, DeletionIsSeen, WithdrawerIsDeleted
  <2> QED BY <2>1, <2>2, OrphanInvInit
<1>2. TypeOK /\ OrphanInv /\ MapCopiesAgree /\ [Next]_vars /\ ~<<Broken>>_vars => OrphanInv'
  <2>1. ASSUME UNCHANGED vars, OrphanInv PROVE OrphanInv'
    BY <2>1 DEF vars, OrphanInv, NoTraceLeft, HasTrace, CopiesAgree, HeldIsCurrent,
                SeenIsProtected, PublisherIsProtected, RereadIsProtected, PhaseFitsCopy,
                CleanedBeforeRelease, IsProtected, ExposerRead
  <2> QED BY <2>1, OrphanInvStep DEF Broken
<1>3. ASSUME TypeOK, OrphanInv, MapCopiesAgree, RegistryInv, [Next]_vars, ~<<Broken>>_vars
      PROVE  RegistryStep
  <2>1. CASE UNCHANGED vars
    BY <1>3, <2>1, QuietEnvironment DEF vars
  <2>2. CASE ~Broken
    BY <1>3, <2>2, WorkStep, TakeStep, EnvironmentStep DEF Next, Broken
  <2> QED BY <1>3, <2>1, <2>2
<1> QED BY <1>1, <1>2, <1>3, MapCopiesStillAgree

\* The exposers share the map as SharedConfig says (configmap.go:31-126, deletion.go:21-56),
\* however old the copies they read, unless at some time a cleanup or a publication from an
\* outdated copy of the map left the map as it was, or a user gave an exposer with its
\* finalizer another component: no other step breaks the promise.
THEOREM SharedAsPromised == Spec => ImplementsSharedConfig \/ <><<Broken>>_vars
<1>1. Init => Registry!Init
  <2> SUFFICES ASSUME Init PROVE Registry!Init
    OBVIOUS
  <2>1. \A c \in Components, e \in Exposers : EntryOf(c, e) = None
    BY DEF Init, EntryOf
  <2>2. Announced = {} /\ \A e \in Exposers : HomeOf(e) = None
    BY DEF Init, New, Announced, HomeOf
  <2> QED BY <2>1, <2>2 DEF Registry!Init
<1>2. RegistryStep => RegistryInv' /\ [Registry!Next]_(Registry!vars)
  BY DEF RegistryStep
<1> QED BY <1>1, <1>2, RegistryKept, TypeCorrect, PTL
       DEF Spec, ImplementsSharedConfig, Registry!Spec

\* In particular an exposer that reports its entry as published has it in the map,
\* whatever the others do to it, until such a step.
THEOREM ReportsAreTrue == Spec => []ReadyIsPublished \/ <><<Broken>>_vars
<1>1. TypeOK /\ RegistryInv => ReadyIsPublished
  <2> SUFFICES ASSUME TypeOK, RegistryInv, NEW e \in Exposers,
                      ex[e] # None, ~ex[e].deleting, "ConfigMapReady" \in ex[e].ready
               PROVE  LET m == cm[ex[e].comp]
                      IN  m # None /\ e \in m.fins /\ m.data[e] # None
    BY DEF ReadyIsPublished
  <2>1. EntryOf(ex[e].comp, e) # None
    BY DEF RegistryInv, AnnouncedIsPublished, Announced
  <2>2. ex[e].comp \in Components
    BY DEF TypeOK, StoredTyped, ExposerObject
  <2> QED BY <2>1, <2>2 DEF RegistryInv, EntryHasFinalizer, EntryOf
<1>2. RegistryStep => RegistryInv'
  BY DEF RegistryStep
<1> QED BY <1>1, <1>2, RegistryKept, TypeCorrect, PTL DEF Spec

-----------------------------------------------------------------------------
(* No lost updates, however outdated the copies of the map are. *)

OthersKept ==
    \A c \in Components, e \in Exposers :
        e # at /\ EntryOf(c, e) # None => EntryOf(c, e)' = EntryOf(c, e)

MapStep == EntryHasFinalizer' /\ MapCopiesAgree' /\ OthersKept

\* Steps that do not write the map,
LEMMA UnwrittenStep ==
    ASSUME EntryHasFinalizer, MapCopiesAgree, UNCHANGED <<cm, cmC, cmFresh>>
    PROVE  MapStep
  BY DEF MapStep, EntryHasFinalizer, MapCopiesAgree, OthersKept, EntryOf

\* those that write it and leave the copy outdated.
LEMMA WrittenStep ==
    ASSUME TypeOK, EntryHasFinalizer, MapCopiesAgree, UNCHANGED cmC,
           NEW c \in Components, NEW o \in ConfigMapObject \cup {None}, WriteConfigMap(c, o),
           \A e \in Exposers :
               o # None /\ o.data[e] # None => e \in o.fins,
           \A e \in Exposers :
               e # at /\ EntryOf(c, e) # None => o # None /\ o.data[e] = cm[c].data[e]
    PROVE  MapStep
  <1>1. /\ cm'[c] = o /\ \A d \in Components \ {c} : cm'[d] = cm[d]
        /\ cmFresh' = cmFresh \ {c}
    BY DEF WriteConfigMap, TypeOK, StoredTyped
  <1>2. EntryHasFinalizer'
    BY <1>1 DEF EntryHasFinalizer, EntryOf
  <1>3. MapCopiesAgree'
    BY <1>1 DEF MapCopiesAgree
  <1>4. OthersKept
    BY <1>1 DEF OthersKept, EntryOf
  <1> QED BY <1>2, <1>3, <1>4 DEF MapStep

LEMMA PublishKeepsOthers ==
    ASSUME TypeOK, EntryHasFinalizer, MapCopiesAgree, ReconcileConfigMap
    PROVE  MapStep
  <1> DEFINE c == cr.comp
             seen == ConfigMapRead(c)
             val == EntryFor(at, cr.val)
             want == Published(seen, at, val)
  <1>0. cr.val \in Values /\ at \in available
    BY DEF ReconcileConfigMap, TypeOK, WorkerTyped, ExposerObject
  <1>1. /\ UNCHANGED cmC /\ at \in Exposers /\ c \in Components /\ val \in Values
        /\ cm[c] \in ConfigMapObject \cup {None} /\ seen \in ConfigMapObject \cup {None}
    BY <1>0, EntryForType, ReadTypes
       DEF ReconcileConfigMap, TypeOK, WorkerTyped, StoredTyped, ExposerObject
  <1>2. CASE UNCHANGED <<cm, cmFresh>>
    BY <1>1, <1>2, UnwrittenStep
  <1>3. CASE WriteConfigMap(c, want) /\ IsCurrent("ConfigMap", c, cmFresh)
    <2>1. seen = cm[c]
      BY <1>1, <1>3 DEF ConfigMapRead, IsCurrent, MapCopiesAgree
    <2>2. want \in ConfigMapObject /\ want # None
      <3>1. want \in ConfigMapObject
        BY <1>1, PublishedType
      <3> QED BY <3>1, NoneAssumption
    <2>3. /\ at \in want.fins
          /\ \A e \in Exposers \ {at} : /\ want.data[e] = EntryOf(c, e)
                                        /\ seen # None /\ e \in seen.fins => e \in want.fins
      BY <1>1, <2>1 DEF Published, EmptyMap, NoEntries, ConfigMapObject, Data, EntryOf
    <2>4. \A e \in Exposers : want.data[e] # None => e \in want.fins
      BY <1>1, <2>1, <2>3 DEF EntryHasFinalizer, EntryOf
    <2>5. \A e \in Exposers : e # at /\ EntryOf(c, e) # None => want.data[e] = cm[c].data[e]
      BY <2>3 DEF EntryOf
    <2> HIDE DEF c, seen, want
    <2> QED BY <1>1, <1>3, <2>2, <2>4, <2>5, WrittenStep
  <1> QED
    <2>1. CASE seen # want /\ IsCurrent("ConfigMap", c, cmFresh) /\ Accepted(cm[c], at)
      BY <1>3, <2>1 DEF ReconcileConfigMap
    <2>2. CASE ~(seen # want /\ IsCurrent("ConfigMap", c, cmFresh) /\ Accepted(cm[c], at))
      BY <1>2, <2>2 DEF ReconcileConfigMap
    <2> QED BY <2>1, <2>2

LEMMA CleanupKeepsOthers ==
    ASSUME TypeOK, EntryHasFinalizer, MapCopiesAgree, CleanupConfigMap
    PROVE  MapStep
  <1> DEFINE c == cr.comp
             seen == ConfigMapRead(c)
             left == Withdrawn(seen, at)
  <1>1. /\ UNCHANGED cmC /\ at \in Exposers /\ c \in Components
        /\ cm[c] \in ConfigMapObject \cup {None} /\ seen \in ConfigMapObject \cup {None}
    BY ReadTypes DEF CleanupConfigMap, TypeOK, WorkerTyped, StoredTyped, ExposerObject
  <1>2. CASE UNCHANGED <<cm, cmFresh>>
    BY <1>1, <1>2, UnwrittenStep
  <1>3. CASE HasTrace(seen, at) /\ WriteConfigMap(c, Stored(left)) /\ IsCurrent("ConfigMap", c, cmFresh)
    <2>1. seen = cm[c] /\ cm[c] \in ConfigMapObject
      BY <1>1, <1>3 DEF ConfigMapRead, IsCurrent, MapCopiesAgree, HasTrace
    <2>2. /\ left \in ConfigMapObject /\ left.fins = cm[c].fins \ {at}
          /\ left.data = [cm[c].data EXCEPT ![at] = None]
      BY <1>1, <2>1, WithdrawnType DEF Withdrawn, ConfigMapObject
    <2>3. left # None
      BY <2>2, NoneAssumption
    <2>4. \A e \in Exposers \ {at} : left.data[e] = EntryOf(c, e) /\ (EntryOf(c, e) # None => e \in left.fins)
      BY <1>1, <2>1, <2>2, NoneAssumption DEF EntryHasFinalizer, EntryOf, ConfigMapObject, Data
    <2>5. left.data[at] = None
      BY <1>1, <2>1, <2>2 DEF ConfigMapObject, Data
    <2>6. \A e \in Exposers : Stored(left) # None /\ Stored(left).data[e] # None => e \in Stored(left).fins
      BY <2>3, <2>4, <2>5 DEF Stored
    <2>7. \A e \in Exposers : e # at /\ EntryOf(c, e) # None
             => Stored(left) # None /\ Stored(left).data[e] = cm[c].data[e]
      BY <1>1, <2>1, <2>3, <2>4 DEF Stored, EntryOf
    <2>8. Stored(left) \in ConfigMapObject \cup {None}
      BY <2>2, StoredType
    <2> HIDE DEF c, seen, left
    <2> QED BY <1>1, <1>3, <2>6, <2>7, <2>8, WrittenStep
  <1> QED
    <2>1. CASE HasTrace(seen, at) /\ IsCurrent("ConfigMap", c, cmFresh)
      BY <1>3, <2>1 DEF CleanupConfigMap
    <2>2. CASE ~(HasTrace(seen, at) /\ IsCurrent("ConfigMap", c, cmFresh))
      BY <1>2, <2>2 DEF CleanupConfigMap
    <2> QED BY <2>1, <2>2

LEMMA DeleteKeepsOthers ==
    ASSUME TypeOK, EntryHasFinalizer, MapCopiesAgree,
           NEW c \in Components, WriteConfigMap(c, Deleted(c)), UNCHANGED cmC
    PROVE  MapStep
  <1>1. cm' = [cm EXCEPT ![c] = Deleted(c)] /\ cmFresh' = cmFresh \ {c}
    BY DEF WriteConfigMap
  <1>2. SameEntries /\ EntryHasFinalizer'
    BY <1>1, DeletedKeepsEntries
  <1>3. MapCopiesAgree'
    BY <1>1 DEF MapCopiesAgree, TypeOK, StoredTyped
  <1> QED BY <1>2, <1>3 DEF MapStep, OthersKept, SameEntries

LEMMA MapKept ==
    ASSUME TypeOK, EntryHasFinalizer, MapCopiesAgree, [Next]_vars
    PROVE  MapStep
  <1>1. CASE \/ EnsureFinalizer \/ ReadAgain \/ ValidateDependencies \/ HandleDependencyError
             \/ SkipConfigMap \/ SkipDeployment \/ UpdateComponentDeployment
             \/ SkipIngress \/ BuildIngress \/ ReconcileIngress \/ UpdateStatus
             \/ RemoveVolumeFromDeployment \/ RemoveExposerFinalizer
    <2>1. UNCHANGED <<cm, cmC, cmFresh>>
      BY <1>1 DEF EnsureFinalizer, ReadAgain, ValidateDependencies, HandleDependencyError,
           SkipConfigMap, SkipDeployment, UpdateComponentDeployment, SkipIngress, BuildIngress,
           ReconcileIngress, UpdateStatus, RemoveVolumeFromDeployment, RemoveExposerFinalizer,
           api, caches
    <2> QED BY <2>1, UnwrittenStep
  <1>2. CASE DeleteEmptyMap
    <2>1. cr.comp \in Components
      BY <1>2 DEF DeleteEmptyMap, TypeOK, WorkerTyped, ExposerObject
    <2> QED BY <1>2, <2>1, DeleteKeepsOthers DEF DeleteEmptyMap
  <1>3. CASE Work
    BY <1>1, <1>2, <1>3, PublishKeepsOthers, CleanupKeepsOthers DEF Work
  <1>4. CASE (\E e \in Exposers : Take(e) \/ SyncExposer(e)) \/ (\E c \in Components : SyncDeployment(c))
    <2>1. UNCHANGED <<cm, cmC, cmFresh>>
      BY <1>4 DEF Take, Reconcile, ReconcileNotFound, SyncExposer, SyncDeployment, api, caches
    <2> QED BY <2>1, UnwrittenStep
  <1>5. ASSUME NEW c \in Components, SyncConfigMap(c) PROVE MapStep
    <2>1. UNCHANGED cm /\ cmFresh' = cmFresh \cup {c} /\ cmC' = Copied("ConfigMap", cmC, c, cm[c])
      BY <1>5 DEF SyncConfigMap, api
    <2>2. MapCopiesAgree'
      BY <2>1 DEF MapCopiesAgree, Copied, TypeOK, CopiesTyped
    <2> QED BY <2>1, <2>2 DEF MapStep, EntryHasFinalizer, OthersKept, EntryOf
  <1>6. ASSUME NEW c \in Components, DeleteConfigMap(c) PROVE MapStep
    BY <1>6, DeleteKeepsOthers DEF DeleteConfigMap
  <1>7. CASE Crash
    <2>1. UNCHANGED cm /\ cmC' = [c \in Components |-> IF "ConfigMap" \in Lagging THEN cm[c] ELSE cmC[c]]
      BY <1>7 DEF Crash, api
    <2> QED BY <2>1 DEF MapStep, EntryHasFinalizer, MapCopiesAgree, OthersKept, EntryOf
  <1>8. CASE \/ \E e \in Exposers, c \in Components, v \in Values : Create(e, c, v) \/ Edit(e, c, v)
             \/ \E e \in Exposers : Delete(e) \/ DeleteIngress(e)
             \/ \E e \in Exposers, r \in Routes \cup {None, "missing"} : ChangeDependency(e, r)
             \/ \E c \in Components : ReplaceDeployment(c)
             \/ Fail \/ UNCHANGED vars
    <2>1. UNCHANGED <<cm, cmC, cmFresh>>
      BY <1>8 DEF Create, Edit, Delete, UserWrites, DeleteIngress, ChangeDependency,
                  ReplaceDeployment, Fail, vars, api, caches
    <2> QED BY <2>1, UnwrittenStep
  <1> QED BY <1>3, <1>4, <1>5, <1>6, <1>7, <1>8 DEF Next, Sync, Disturb

\* Whatever exposers publish, withdraw and delete at the same time, from copies of the
\* map however old: no step for one of them touches the entry of another.
THEOREM NothingIsLost == Spec => NoLostEntries
<1>1. Init => EntryHasFinalizer /\ MapCopiesAgree
  BY DEF Init, EntryHasFinalizer, MapCopiesAgree, EntryOf
<1>2. TypeOK /\ EntryHasFinalizer /\ MapCopiesAgree /\ [Next]_vars
          => (EntryHasFinalizer /\ MapCopiesAgree)'
  BY MapKept DEF MapStep
<1>3. TypeOK /\ EntryHasFinalizer /\ MapCopiesAgree /\ [Next]_vars
          => [\A e \in Exposers, c \in Components :
                 e # at /\ cm[c] # None /\ cm[c].data[e] # None
                     => cm'[c] # None /\ cm'[c].data[e] = cm[c].data[e]]_vars
  BY MapKept DEF MapStep, OthersKept, EntryOf
<1> QED BY <1>1, <1>2, <1>3, TypeCorrect, PTL DEF Spec, NoLostEntries
=============================================================================
