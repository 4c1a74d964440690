--------------------------- MODULE ComponentProofs ---------------------------
(* Proofs about the component controller, for every set of images and *)
(* configurations.                                                    *)
EXTENDS Component, TLAPS

\* What the reconciler and Kubernetes write is an object of the right kind.
LEMMA NewComponentType ==
    ASSUME NEW i \in Images
    PROVE  NewComponent(i) \in ComponentObject /\ ~NewComponent(i).gone
  BY DEF NewComponent, ComponentObject

LEMMA ObservedType ==
    ASSUME NEW d \in DeploymentObject
    PROVE  /\ Observed(d) \in DeploymentObject /\ Unobserved(d) \in DeploymentObject
           /\ Observed(d).img = d.img /\ Unobserved(d).img = d.img
  BY DEF Observed, Unobserved, DeploymentObject

LEMMA NewDeploymentType ==
    ASSUME NEW i \in Images, NEW old \in BOOLEAN
    PROVE  NewDeployment(i, old) \in DeploymentObject
  <1> DEFINE d == [img |-> i, mounted |-> FALSE, observed |-> FALSE, ready |-> FALSE,
                   updated |-> TRUE, old |-> old]
  <1>1. d \in DeploymentObject
    BY DEF DeploymentObject
  <1> HIDE DEF d
  <1>2. Unobserved(d) \in DeploymentObject
    BY <1>1, ObservedType
  <1> QED BY <1>2 DEF NewDeployment, d

LEMMA WithImageType ==
    ASSUME NEW d \in DeploymentObject, NEW i \in Images
    PROVE  WithImage(d, i) \in DeploymentObject
  <1>1. [d EXCEPT !.img = i] \in DeploymentObject
    BY DEF DeploymentObject
  <1> QED BY <1>1, ObservedType DEF WithImage

LEMMA RecordedType ==
    ASSUME NEW o \in ComponentObject, NEW i \in Images, NEW body \in Answers
    PROVE  Recorded(o, i, body) \in ComponentObject /\ Recorded(o, i, body).gone = o.gone
  BY DEF Recorded, ComponentObject, Answers, Bodies, Reasons

LEMMA OwnerGoneTypes ==
    /\ \A o \in ComponentObject \cup {None} : Gone(o) \in ComponentObject \cup {None}
    /\ \A d \in DeploymentObject \cup {None} : Disowned(d) \in DeploymentObject \cup {None}
    /\ \A s \in ServiceStates : DisownedService(s) \in ServiceStates
  BY DEF Gone, Disowned, DisownedService, ComponentObject, DeploymentObject, ServiceStates

LEMMA ReadTypes ==
    ASSUME TypeOK
    PROVE  /\ ComponentRead \in ComponentObject \cup {None}
           /\ DeploymentRead \in DeploymentObject \cup {None}
           /\ ServiceRead \in ServiceStates
  BY DEF TypeOK, ApiTyped, CopiesTyped, ComponentRead, DeploymentRead, ServiceRead, Read

-----------------------------------------------------------------------------
(* Ways a step ends. *)

LEMMA FinishTyped ==
    ASSUME TypeOK, Finish, queued' \in BOOLEAN
    PROVE  WorkerTyped'
  BY DEF TypeOK, WorkerTyped, Finish

LEMMA DoneTyped ==
    ASSUME TypeOK, Done
    PROVE  WorkerTyped'
  BY FinishTyped DEF TypeOK, WorkerTyped, Done

LEMMA RetryTyped ==
    ASSUME TypeOK, Retry
    PROVE  WorkerTyped'
  BY FinishTyped DEF Retry

LEMMA GoToTyped ==
    ASSUME TypeOK, NEW step, GoTo(step),
           \/ pc \in {"deployment", "service"} /\ step \in {"service", "check"}
           \/ pc = "record" /\ step = "clear"
    PROVE  WorkerTyped'
  BY DEF TypeOK, WorkerTyped, GoTo

LEMMA AfterStatusTyped ==
    ASSUME TypeOK, NEW refused \in BOOLEAN, AfterStatus(refused), pc = "record"
    PROVE  WorkerTyped'
  <1>1. Retry \/ GoTo("clear")
    BY DEF AfterStatus
  <1> QED BY <1>1, RetryTyped, GoToTyped

LEMMA EndTyped ==
    ASSUME TypeOK, EndAfter(got)
    PROVE  WorkerTyped'
  <1>1. Done \/ Retry
    BY DEF EndAfter
  <1> QED BY <1>1, DoneTyped, RetryTyped

LEMMA SameWorkerTyped ==
    ASSUME TypeOK, UNCHANGED worker, queued' \in BOOLEAN
    PROVE  WorkerTyped'
  BY DEF TypeOK, WorkerTyped, worker

\* What a step leaves alone, and what it writes.
LEMMA WriteComponentTyped ==
    ASSUME TypeOK, NEW o \in ComponentObject \cup {None}, o # None => ~o.gone,
           WriteComponent(o), UNCHANGED <<dep, svc, crC, depC, depFresh, svcC>>
    PROVE  ApiTyped' /\ CopiesTyped'
  BY DEF TypeOK, ApiTyped, CopiesTyped, WriteComponent

LEMMA WriteDeploymentTyped ==
    ASSUME TypeOK, NEW o \in DeploymentObject \cup {None},
           WriteDeployment(o), UNCHANGED <<cr, svc, crC, crFresh, depC, svcC>>
    PROVE  ApiTyped' /\ CopiesTyped'
  BY DEF TypeOK, ApiTyped, CopiesTyped, WriteDeployment

LEMMA SameObjectsTyped ==
    ASSUME TypeOK, UNCHANGED <<api, caches>>
    PROVE  ApiTyped' /\ CopiesTyped'
  BY DEF TypeOK, ApiTyped, CopiesTyped, api, caches

LEMMA SameClusterTyped ==
    ASSUME TypeOK, UNCHANGED cluster
    PROVE  ClusterTyped'
  BY DEF TypeOK, ClusterTyped, cluster

-----------------------------------------------------------------------------
(* Type correctness.  That the component stored is not one that is gone needs that *)
(* what counts as current is what is stored.                                        *)

CopiesAgree ==
    /\ "Component" \in Lagging /\ crFresh => crC = cr
    /\ held => pc # "idle" /\ (pc # "clear" => copy = cr)

TypeInv == TypeOK /\ CopiesAgree

LEMMA CurrentRead ==
    ASSUME TypeInv, IsCurrent("Component", crFresh)
    PROVE  ComponentRead = cr
  BY DEF TypeInv, CopiesAgree, IsCurrent, ComponentRead, Read

LEMMA TypeInit == Init => TypeOK
  <1> SUFFICES ASSUME Init
               PROVE  TypeOK
    OBVIOUS
  <1>1. cr \in ComponentObject /\ ~cr.gone
    BY NewComponentType DEF Init
  <1>2. dep \in DeploymentObject \cup {None}
    BY NewDeploymentType DEF Init, Leftovers
  <1>3. ApiTyped /\ CopiesTyped
    BY <1>1, <1>2 DEF Init, ApiTyped, CopiesTyped, ServiceStates
  <1>4. ClusterTyped /\ WorkerTyped
    BY DEF Init, ClusterTyped, WorkerTyped
  <1> QED BY <1>3, <1>4 DEF TypeOK

LEMMA TakeTyped == TypeOK /\ Take => TypeOK'
  <1> SUFFICES ASSUME TypeOK, Take
               PROVE  TypeOK'
    OBVIOUS
  <1> USE DEF Take, Reconcile, ReconcileNotFound
  <1>1. ApiTyped' /\ CopiesTyped'
    BY SameObjectsTyped
  <1>2. ClusterTyped'
    BY SameClusterTyped
  <1>3. WorkerTyped'
    <2>1. CASE ReconcileNotFound
      BY <2>1, SameWorkerTyped
    <2>2. CASE Reconcile
      <3>1. copy' \in ComponentObject
        BY <2>2, ReadTypes
      <3>2. held' \in BOOLEAN
        BY <2>2 DEF IsCurrent, TypeOK, CopiesTyped
      <3> QED BY <2>2, <3>1, <3>2 DEF TypeOK, WorkerTyped
    <2> QED BY <2>1, <2>2
  <1> QED BY <1>1, <1>2, <1>3 DEF TypeOK

LEMMA WorkTyped == TypeInv /\ Work => TypeOK'
  <1> SUFFICES ASSUME TypeOK, CopiesAgree, Work
               PROVE  TypeOK'
    BY DEF TypeInv
  <1>1. CASE CreateDeployment
    <2>1. copy \in ComponentObject /\ copy.img \in Images /\ copy.gone \in BOOLEAN
      BY <1>1 DEF CreateDeployment, TypeOK, WorkerTyped, ComponentObject
    <2>2. NewDeployment(copy.img, copy.gone) \in DeploymentObject
      BY <2>1, NewDeploymentType
    <2>3. ClusterTyped'
      BY <1>1, SameClusterTyped DEF CreateDeployment
    <2>4. CASE dep = None
      BY <1>1, <2>2, <2>3, <2>4, WriteDeploymentTyped, GoToTyped DEF CreateDeployment, TypeOK
    <2>5. CASE dep # None
      BY <1>1, <2>3, <2>5, SameObjectsTyped, RetryTyped
         DEF CreateDeployment, TypeOK, api, caches
    <2> QED BY <2>4, <2>5
  <1>2. CASE UpdateDeployment
    <2>1. DeploymentRead \in DeploymentObject
      BY <1>2, ReadTypes DEF UpdateDeployment
    <2>2. copy.img \in Images
      BY <1>2 DEF UpdateDeployment, TypeOK, WorkerTyped, ComponentObject
    <2>3. WithImage(DeploymentRead, copy.img) \in DeploymentObject
      BY <2>1, <2>2, WithImageType
    <2>4. ClusterTyped'
      BY <1>2, SameClusterTyped DEF UpdateDeployment
    <2>5. \/ UNCHANGED <<dep, depFresh>> /\ (Retry \/ GoTo("service"))
          \/ WriteDeployment(WithImage(DeploymentRead, copy.img)) /\ GoTo("service")
      BY <1>2 DEF UpdateDeployment
    <2>6. WorkerTyped'
      BY <1>2, <2>5, RetryTyped, GoToTyped DEF UpdateDeployment
    <2>7. CASE UNCHANGED <<dep, depFresh>>
      BY <1>2, <2>4, <2>6, <2>7, SameObjectsTyped DEF UpdateDeployment, TypeOK, api, caches
    <2>8. CASE WriteDeployment(WithImage(DeploymentRead, copy.img))
      BY <1>2, <2>3, <2>4, <2>6, <2>8, WriteDeploymentTyped DEF UpdateDeployment, TypeOK
    <2> QED BY <2>5, <2>7, <2>8
  <1>3. CASE CreateOrUpdateService
    <2>1. ClusterTyped'
      BY <1>3, SameClusterTyped DEF CreateOrUpdateService
    <2>2. Retry \/ GoTo("check")
      BY <1>3 DEF CreateOrUpdateService
    <2>3. WorkerTyped'
      BY <1>3, <2>2, RetryTyped, GoToTyped DEF CreateOrUpdateService
    <2>4. svc' \in ServiceStates
      BY <1>3 DEF CreateOrUpdateService, TypeOK, ApiTyped, ServiceStates
    <2>5. ApiTyped' /\ CopiesTyped'
      BY <1>3, <2>4 DEF CreateOrUpdateService, TypeOK, ApiTyped, CopiesTyped, caches
    <2> QED BY <2>1, <2>3, <2>5 DEF TypeOK
  <1>4. CASE ProcessUIComponentConfig
    <2>1. ApiTyped' /\ CopiesTyped' /\ ClusterTyped'
      BY <1>4, SameObjectsTyped, SameClusterTyped DEF ProcessUIComponentConfig
    <2>2. CASE Retry \/ Done
      BY <2>1, <2>2, RetryTyped, DoneTyped DEF TypeOK
    <2>3. CASE ~(Retry \/ Done)
      <3>1. DeploymentRead # None /\ pc' = "fetch" /\ image' = DeploymentRead.img
            /\ UNCHANGED <<copy, held, got, queued>>
        BY <1>4, <2>3 DEF ProcessUIComponentConfig, RolledOut
      <3>2. image' \in Images /\ image' # None
        BY <3>1, ReadTypes, NoneAssumption DEF DeploymentObject
      <3>3. WorkerTyped'
        BY <1>4, <3>1, <3>2 DEF ProcessUIComponentConfig, TypeOK, WorkerTyped
      <3> QED BY <2>1, <3>3 DEF TypeOK
    <2> QED BY <2>2, <2>3
  <1>5. CASE FetchConfig
    <2>1. got' \in Answers
      BY <1>5 DEF FetchConfig, TypeOK, ClusterTyped, Answers
    <2>2. WorkerTyped'
      BY <1>5, <2>1, NoneAssumption DEF FetchConfig, TypeOK, WorkerTyped
    <2> QED BY <1>5, <2>2, SameObjectsTyped, SameClusterTyped DEF FetchConfig, TypeOK
  <1>6. CASE ParseAndApplyConfig
    <2> DEFINE new == Recorded(copy, image, got)
    <2>1. copy \in ComponentObject /\ image \in Images /\ got \in Answers
      BY <1>6 DEF ParseAndApplyConfig, TypeOK, WorkerTyped
    <2>2. new \in ComponentObject /\ new.gone = copy.gone
      BY <2>1, RecordedType
    <2>3. (new # copy /\ ~held) \in BOOLEAN
      BY DEF TypeOK, WorkerTyped
    <2>4. WorkerTyped'
      BY <1>6, <2>3, AfterStatusTyped DEF ParseAndApplyConfig
    <2>5. ClusterTyped'
      BY <1>6, SameClusterTyped DEF ParseAndApplyConfig
    <2>6. CASE held
      <3>1. copy = cr
        BY <1>6, <2>6 DEF CopiesAgree, ParseAndApplyConfig
      <3>2. new # None => ~new.gone
        BY <2>1, <2>2, <3>1, NoneAssumption DEF TypeOK, ApiTyped
      <3> QED BY <1>6, <2>2, <2>4, <2>5, <2>6, <3>2, WriteComponentTyped
              DEF ParseAndApplyConfig, TypeOK
    <2>7. CASE ~held
      BY <1>6, <2>4, <2>5, <2>7, SameObjectsTyped DEF ParseAndApplyConfig, TypeOK, api, caches
    <2> QED BY <2>6, <2>7
  <1>7. CASE RemoveForceRefreshAnnotation
    <2>1. WorkerTyped' /\ ClusterTyped'
      BY <1>7, EndTyped, SameClusterTyped DEF RemoveForceRefreshAnnotation
    <2>2. CASE UNCHANGED <<cr, crFresh>>
      BY <1>7, <2>1, <2>2, SameObjectsTyped DEF RemoveForceRefreshAnnotation, TypeOK, api, caches
    <2>3. CASE WriteComponent([cr EXCEPT !.force = FALSE]) /\ cr # None
      <3>1. [cr EXCEPT !.force = FALSE] \in ComponentObject /\ ~[cr EXCEPT !.force = FALSE].gone
        BY <2>3 DEF TypeOK, ApiTyped, ComponentObject
      <3> QED BY <1>7, <2>1, <2>3, <3>1, WriteComponentTyped
              DEF RemoveForceRefreshAnnotation, TypeOK
    <2>4. ComponentRead # None /\ IsCurrent("Component", crFresh) => cr # None
      BY CurrentRead DEF TypeInv
    <2> QED BY <1>7, <2>2, <2>3, <2>4 DEF RemoveForceRefreshAnnotation
  <1> QED BY <1>1, <1>2, <1>3, <1>4, <1>5, <1>6, <1>7 DEF Work

LEMMA SyncTyped == TypeOK /\ Sync => TypeOK'
  <1> SUFFICES ASSUME TypeOK, Sync
               PROVE  TypeOK'
    OBVIOUS
  <1>1. UNCHANGED worker /\ UNCHANGED cluster /\ queued' \in BOOLEAN
    BY DEF Sync, SyncComponent, SyncDeployment, SyncService
  <1>2. WorkerTyped' /\ ClusterTyped'
    BY <1>1, SameWorkerTyped, SameClusterTyped
  <1>3. ApiTyped' /\ CopiesTyped'
    BY DEF Sync, SyncComponent, SyncDeployment, SyncService, TypeOK, ApiTyped, CopiesTyped, api
  <1> QED BY <1>2, <1>3 DEF TypeOK

LEMMA RolloutTyped == TypeOK /\ Rollout => TypeOK'
  <1> SUFFICES ASSUME TypeOK, Rollout
               PROVE  TypeOK'
    OBVIOUS
  <1>1. dep \in DeploymentObject /\ dep.img \in Images /\ pods \subseteq Images
    BY DEF Rollout, ObserveSpec, PodReady, OldPodsStop, TypeOK, ApiTyped, ClusterTyped,
           DeploymentObject
  <1>2. \E o \in DeploymentObject : WriteDeployment(o)
    <2>1. CASE ObserveSpec
      BY <1>1, <2>1, ObservedType DEF ObserveSpec
    <2>2. CASE PodReady
      <3>1. [dep EXCEPT !.ready = TRUE, !.updated = (pods = {})] \in DeploymentObject
        BY <1>1 DEF DeploymentObject
      <3> QED BY <2>2, <3>1 DEF PodReady
    <2>3. CASE OldPodsStop
      <3>1. [dep EXCEPT !.updated = TRUE] \in DeploymentObject
        BY <1>1 DEF DeploymentObject
      <3> QED BY <2>3, <3>1 DEF OldPodsStop
    <2> QED BY <2>1, <2>2, <2>3 DEF Rollout
  <1>3. ApiTyped' /\ CopiesTyped'
    BY <1>2, WriteDeploymentTyped DEF Rollout, ObserveSpec, PodReady, OldPodsStop
  <1>4. ClusterTyped'
    BY <1>1 DEF Rollout, ObserveSpec, PodReady, OldPodsStop, TypeOK, ClusterTyped, cluster
  <1>5. WorkerTyped'
    BY SameWorkerTyped DEF Rollout, ObserveSpec, PodReady, OldPodsStop, TypeOK, WorkerTyped
  <1> QED BY <1>3, <1>4, <1>5 DEF TypeOK

LEMMA CollectTyped == TypeOK /\ Collect => TypeOK'
  <1> SUFFICES ASSUME TypeOK, Collect
               PROVE  TypeOK'
    OBVIOUS
  <1>1. WorkerTyped'
    BY SameWorkerTyped DEF Collect, CollectDeployment, CollectService, TypeOK, WorkerTyped
  <1>2. CASE CollectDeployment
    <2>1. ClusterTyped'
      BY <1>2 DEF CollectDeployment, TypeOK, ClusterTyped
    <2> QED BY <1>1, <1>2, <2>1, WriteDeploymentTyped DEF CollectDeployment, TypeOK
  <1>3. CASE CollectService
    BY <1>1, <1>3, SameClusterTyped
       DEF CollectService, TypeOK, ApiTyped, CopiesTyped, ServiceStates, caches
  <1> QED BY <1>2, <1>3 DEF Collect

\* A user's write of the component.
LEMMA UserWritesTyped ==
    ASSUME TypeOK, NEW o \in ComponentObject, ~o.gone, UserWrites(o)
    PROVE  ApiTyped' /\ CopiesTyped' /\ WorkerTyped' /\ pods' = pods
  <1>1. ApiTyped' /\ CopiesTyped'
    BY WriteComponentTyped DEF UserWrites
  <1>2. WorkerTyped'
    BY DEF UserWrites, TypeOK, WorkerTyped
  <1> QED BY <1>1, <1>2 DEF UserWrites

LEMMA EditsTyped ==
    ASSUME TypeOK, NEW i \in Images, NEW b \in Answers,
           Edit(i) \/ ForceRefresh \/ Refresh(i, b)
    PROVE  TypeOK'
  <1>1. cr \in ComponentObject /\ ~cr.gone
    BY DEF Edit, ForceRefresh, Refresh, UserWrites, TypeOK, ApiTyped
  <1>2. \E o \in ComponentObject : ~o.gone /\ UserWrites(o)
    <2>1. /\ [cr EXCEPT !.img = i] \in ComponentObject /\ ~[cr EXCEPT !.img = i].gone
          /\ [cr EXCEPT !.force = TRUE] \in ComponentObject /\ ~[cr EXCEPT !.force = TRUE].gone
      BY <1>1 DEF ComponentObject
    <2> QED BY <2>1 DEF Edit, ForceRefresh, Refresh
  <1>3. ApiTyped' /\ CopiesTyped' /\ WorkerTyped' /\ pods' = pods
    BY <1>2, UserWritesTyped
  <1>4. content' \in [Images -> Answers]
    BY DEF Edit, ForceRefresh, Refresh, TypeOK, ClusterTyped
  <1> QED BY <1>3, <1>4 DEF TypeOK, ClusterTyped

LEMMA DisturbTyped == TypeOK /\ Disturb => TypeOK'
  <1> SUFFICES ASSUME TypeOK, Disturb
               PROVE  TypeOK'
    OBVIOUS
  <1>1. ASSUME NEW i \in Images, Edit(i)
        PROVE  TypeOK'
    BY <1>1, EditsTyped DEF Answers
  <1>2. CASE ForceRefresh
    <2>1. cr # None /\ cr.img \in Images
      BY <1>2 DEF ForceRefresh, UserWrites, TypeOK, ApiTyped, ComponentObject
    <2> QED BY <1>2, <2>1, EditsTyped DEF Answers
  <1>3. ASSUME NEW i \in Images, NEW b \in Answers, Refresh(i, b)
        PROVE  TypeOK'
    BY <1>3, EditsTyped
  <1>4. ASSUME NEW i \in Images, NEW b \in Answers, Repair(i, b)
        PROVE  TypeOK'
    <2>1. ClusterTyped'
      BY <1>4 DEF Repair, TypeOK, ClusterTyped
    <2>2. WorkerTyped'
      BY <1>4, SameWorkerTyped DEF Repair, TypeOK, WorkerTyped
    <2> QED BY <1>4, <2>1, <2>2, SameObjectsTyped DEF Repair, TypeOK
  <1>5. ASSUME NEW i \in Images, PodsCrash(i)
        PROVE  TypeOK'
    <2>1. dep \in DeploymentObject
      BY <1>5 DEF PodsCrash, TypeOK, ApiTyped
    <2>2. [dep EXCEPT !.ready = (pods # {i}), !.updated = (pods \subseteq {i, dep.img})]
            \in DeploymentObject
      BY <2>1 DEF DeploymentObject
    <2>3. ClusterTyped'
      BY <1>5 DEF PodsCrash, TypeOK, ClusterTyped
    <2>4. WorkerTyped'
      BY <1>5, SameWorkerTyped DEF PodsCrash, TypeOK, WorkerTyped
    <2> QED BY <1>5, <2>2, <2>3, <2>4, WriteDeploymentTyped DEF PodsCrash, TypeOK
  <1>6. ASSUME NEW i \in Images, Create(i)
        PROVE  TypeOK'
    <2>1. ApiTyped' /\ CopiesTyped'
      BY <1>6, NewComponentType DEF Create, TypeOK, ApiTyped, CopiesTyped
    <2>2. WorkerTyped'
      BY <1>6, SameWorkerTyped DEF Create, TypeOK, WorkerTyped
    <2> QED BY <1>6, <2>1, <2>2, SameClusterTyped DEF Create, TypeOK
  <1>7. CASE Delete
    <2>1. ApiTyped' /\ CopiesTyped'
      BY <1>7, OwnerGoneTypes DEF Delete, TypeOK, ApiTyped, CopiesTyped
    <2>2. copy = None => copy' = None
      BY <1>7 DEF Delete, Gone
    <2>3. copy \in ComponentObject => copy' \in ComponentObject
      BY <1>7 DEF Delete, Gone, ComponentObject
    <2>4. WorkerTyped'
      BY <1>7, <2>2, <2>3 DEF Delete, TypeOK, WorkerTyped
    <2> QED BY <1>7, <2>1, <2>4, SameClusterTyped DEF Delete, TypeOK
  <1>8. CASE DeleteDeployment
    <2>1. ClusterTyped'
      BY <1>8 DEF DeleteDeployment, TypeOK, ClusterTyped
    <2>2. WorkerTyped'
      BY <1>8, SameWorkerTyped DEF DeleteDeployment, TypeOK, WorkerTyped
    <2> QED BY <1>8, <2>1, <2>2, WriteDeploymentTyped DEF DeleteDeployment, TypeOK
  <1>9. CASE DeleteService
    <2>1. WorkerTyped'
      BY <1>9, SameWorkerTyped DEF DeleteService, TypeOK, WorkerTyped
    <2> QED BY <1>9, <2>1, SameClusterTyped
            DEF DeleteService, TypeOK, ApiTyped, CopiesTyped, ServiceStates, caches
  <1>10. CASE WriteFails \/ ClearFails
    <2>1. CASE Retry \/ EndAfter(got)
      BY <1>10, <2>1, RetryTyped, EndTyped, SameObjectsTyped, SameClusterTyped
         DEF WriteFails, ClearFails, TypeOK
    <2>2. CASE pc = "record" /\ AfterStatus(TRUE)
      BY <1>10, <2>2, AfterStatusTyped, SameObjectsTyped, SameClusterTyped
         DEF WriteFails, ClearFails, TypeOK
    <2> QED BY <1>10, <2>1, <2>2 DEF WriteFails, ClearFails
  <1>11. CASE FetchFails
    <2>1. got' \in Answers /\ got' # None
      BY <1>11, NoneAssumption DEF FetchFails, Answers
    <2>2. WorkerTyped'
      BY <1>11, <2>1 DEF FetchFails, TypeOK, WorkerTyped
    <2> QED BY <1>11, <2>2, SameObjectsTyped, SameClusterTyped DEF FetchFails, TypeOK
  <1>12. CASE Crash
    <2>1. WorkerTyped'
      BY <1>12, FinishTyped DEF Crash
    <2>2. ApiTyped' /\ CopiesTyped'
      BY <1>12 DEF Crash, TypeOK, ApiTyped, CopiesTyped, api, Read
    <2> QED BY <1>12, <2>1, <2>2, SameClusterTyped DEF Crash, TypeOK
  <1> QED BY <1>1, <1>2, <1>3, <1>4, <1>5, <1>6, <1>7, <1>8, <1>9, <1>10, <1>11, <1>12
          DEF Disturb

\* A write of the component makes the copy of it outdated, or changes nothing.
LEMMA WriteKeepsCopies ==
    ASSUME CopiesAgree, NEW o, WriteComponent(o), UNCHANGED crC
    PROVE  "Component" \in Lagging /\ crFresh' => crC' = cr'
  BY DEF CopiesAgree, WriteComponent

\* A worker that has ended its reconciliation holds nothing.
LEMMA EndedHoldsNothing ==
    ASSUME Retry \/ Done \/ Finish
    PROVE  held' = FALSE
  BY DEF Retry, Done, Finish

LEMMA TakeWorkAgree == TypeInv /\ (Take \/ Work) => CopiesAgree'
  <1> SUFFICES ASSUME TypeOK, CopiesAgree, Take \/ Work
               PROVE  CopiesAgree'
    BY DEF TypeInv
  <1>1. CASE Take
    <2>1. CASE ReconcileNotFound
      BY <2>1 DEF ReconcileNotFound, CopiesAgree, api, caches, worker
    <2>2. CASE Reconcile
      <3>1. held' => copy' = cr
        BY <2>2, CurrentRead DEF Reconcile, TypeInv
      <3> QED BY <2>2, <3>1 DEF Reconcile, CopiesAgree, api, caches
    <2> QED BY <1>1, <2>1, <2>2 DEF Take
  <1>2. CASE CreateDeployment \/ UpdateDeployment
    <2>1. UNCHANGED <<cr, crC, crFresh>>
      BY <1>2 DEF CreateDeployment, UpdateDeployment
    <2>2. held' = FALSE \/ (held' = held /\ copy' = copy /\ pc' = "service")
      BY <1>2, EndedHoldsNothing DEF CreateDeployment, UpdateDeployment, GoTo
    <2> QED BY <1>2, <2>1, <2>2 DEF CopiesAgree, CreateDeployment, UpdateDeployment
  <1>3. CASE CreateOrUpdateService
    <2>1. UNCHANGED <<cr, crC, crFresh>>
      BY <1>3 DEF CreateOrUpdateService, caches
    <2>2. held' = FALSE \/ (held' = held /\ copy' = copy /\ pc' = "check")
      BY <1>3, EndedHoldsNothing DEF CreateOrUpdateService, GoTo
    <2> QED BY <1>3, <2>1, <2>2 DEF CopiesAgree, CreateOrUpdateService
  <1>4. CASE ProcessUIComponentConfig
    <2>1. UNCHANGED <<cr, crC, crFresh>>
      BY <1>4 DEF ProcessUIComponentConfig, api, caches
    <2>2. held' = FALSE \/ (held' = held /\ copy' = copy /\ pc' = "fetch")
      BY <1>4, EndedHoldsNothing DEF ProcessUIComponentConfig, RolledOut
    <2> QED BY <1>4, <2>1, <2>2 DEF CopiesAgree, ProcessUIComponentConfig
  <1>5. CASE FetchConfig
    BY <1>5 DEF FetchConfig, CopiesAgree, api, caches
  <1>6. CASE ParseAndApplyConfig
    <2>1. held' = FALSE \/ (held' = held /\ pc' = "clear")
      BY <1>6, EndedHoldsNothing DEF ParseAndApplyConfig, AfterStatus, GoTo
    <2>2. "Component" \in Lagging /\ crFresh' => crC' = cr'
      BY <1>6, WriteKeepsCopies DEF ParseAndApplyConfig, CopiesAgree
    <2> QED BY <2>1, <2>2 DEF CopiesAgree
  <1>7. CASE RemoveForceRefreshAnnotation
    <2>1. held' = FALSE
      BY <1>7, EndedHoldsNothing DEF RemoveForceRefreshAnnotation, EndAfter
    <2>2. "Component" \in Lagging /\ crFresh' => crC' = cr'
      BY <1>7, WriteKeepsCopies DEF RemoveForceRefreshAnnotation, CopiesAgree
    <2> QED BY <2>1, <2>2 DEF CopiesAgree
  <1> QED BY <1>1, <1>2, <1>3, <1>4, <1>5, <1>6, <1>7 DEF Work

LEMMA EnvironmentAgrees == TypeInv /\ (Sync \/ Rollout \/ Collect) => CopiesAgree'
  BY DEF TypeInv, CopiesAgree, Sync, SyncComponent, SyncDeployment, SyncService,
         Rollout, ObserveSpec, PodReady, OldPodsStop, Collect, CollectDeployment, CollectService,
         api, caches, worker

LEMMA DisturbAgrees == TypeInv /\ Disturb => CopiesAgree'
  <1> SUFFICES ASSUME TypeOK, CopiesAgree, Disturb
               PROVE  CopiesAgree'
    BY DEF TypeInv
  <1>1. ASSUME NEW o, UserWrites(o)
        PROVE  CopiesAgree'
    BY <1>1 DEF UserWrites, WriteComponent, CopiesAgree
  <1>2. ASSUME NEW i \in Images, Edit(i) \/ PodsCrash(i)
        PROVE  CopiesAgree'
    BY <1>1, <1>2 DEF Edit, PodsCrash, CopiesAgree, worker
  <1>3. ASSUME NEW i \in Images, NEW b \in Answers, Refresh(i, b)
        PROVE  CopiesAgree'
    BY <1>1, <1>3 DEF Refresh
  <1>4. ASSUME NEW i \in Images, NEW b \in Answers, Repair(i, b)
        PROVE  CopiesAgree'
    BY <1>4 DEF Repair, CopiesAgree, api, caches, worker
  <1>5. ASSUME NEW i \in Images, Create(i)
        PROVE  CopiesAgree'
    <2>1. held => pc = "clear"
      BY <1>5, NoneAssumption DEF Create, CopiesAgree, TypeOK, ApiTyped, WorkerTyped
    <2> QED BY <1>5, <2>1 DEF Create, CopiesAgree, worker
  <1>6. CASE ForceRefresh
    BY <1>1, <1>6 DEF ForceRefresh
  <1>7. CASE Delete
    BY <1>7 DEF Delete, CopiesAgree
  <1>8. CASE DeleteDeployment \/ DeleteService
    BY <1>8 DEF DeleteDeployment, DeleteService, CopiesAgree, worker, caches
  <1>9. CASE WriteFails \/ FetchFails \/ ClearFails
    <2>1. UNCHANGED <<cr, crC, crFresh>>
      BY <1>9 DEF WriteFails, FetchFails, ClearFails, api, caches
    <2>2. held' = FALSE \/ (held' = held /\ copy' = copy /\ pc = "fetch" /\ pc' = "record")
          \/ pc' = "clear"
      BY <1>9, EndedHoldsNothing
         DEF WriteFails, FetchFails, ClearFails, AfterStatus, EndAfter, GoTo
    <2> QED BY <2>1, <2>2 DEF CopiesAgree
  <1>10. CASE Crash
    BY <1>10, EndedHoldsNothing DEF Crash, CopiesAgree, Read, api
  <1> QED BY <1>2, <1>3, <1>4, <1>5, <1>6, <1>7, <1>8, <1>9, <1>10 DEF Disturb

LEMMA TypeInvStep == TypeInv /\ [Next]_vars => TypeInv'
  <1> SUFFICES ASSUME TypeInv, [Next]_vars
               PROVE  TypeInv'
    OBVIOUS
  <1>1. CASE Next
    BY <1>1, TakeTyped, WorkTyped, SyncTyped, RolloutTyped, CollectTyped, DisturbTyped,
       TakeWorkAgree, EnvironmentAgrees, DisturbAgrees DEF Next, TypeInv
  <1>2. CASE UNCHANGED vars
    BY <1>2 DEF vars, TypeInv, TypeOK, ApiTyped, CopiesTyped, ClusterTyped, WorkerTyped, CopiesAgree
  <1> QED BY <1>1, <1>2

LEMMA TypeInvHolds == Spec => []TypeInv
  <1>1. Init => TypeInv
    BY TypeInit DEF TypeInv, CopiesAgree, Init
  <1> QED BY <1>1, TypeInvStep, PTL DEF Spec

\* Every object that the controller, Kubernetes and users write is of its type, and the
\* worker has an image and a body to record when, and only when, it needs them.
THEOREM TypeCorrect == Spec => []TypeOK
  <1>1. TypeInv => TypeOK
    BY DEF TypeInv
  <1> QED BY <1>1, TypeInvHolds, PTL

-----------------------------------------------------------------------------
(* What is recorded is what is served, until the worker trusts an old status or an *)
(* image changes what it serves: no other step can make it untrue.                 *)

DeploymentsAgree == "Deployment" \in Lagging /\ depFresh => depC = dep

\* A success that is recorded is one of an image, and has what the image serves.
SuccessIsTrue ==
    cr # None /\ cr.reason = "FetchSucceeded" => cr.last \in Images /\ cr.cfg = content[cr.last]

\* A Deployment whose status is about its spec, and says that the rollout is complete, has
\* no pods of another image.
RolloutIsTrue ==
    IF dep = None THEN pods = {} ELSE dep.observed /\ dep.updated => pods \subseteq {dep.img}

\* While the worker asks, no pod of another image is ready, and none will be: the image
\* of the Deployment is changed by this worker only.
OnlyTheImageAnswers ==
    pc = "fetch" => pods \subseteq {image} /\ (dep # None => dep.img = image)

\* What the worker brings back is what the image serves.
AnswerIsTrue == pc \in {"record", "clear"} /\ got # "failed" => got = content[image]

ServedInv ==
    TypeInv /\ DeploymentsAgree /\ SuccessIsTrue /\ RolloutIsTrue /\ OnlyTheImageAnswers /\ AnswerIsTrue

LEMMA ServedInit == Init => SuccessIsTrue /\ RolloutIsTrue /\ OnlyTheImageAnswers /\ AnswerIsTrue
  BY NoneAssumption
     DEF Init, NewComponent, SuccessIsTrue, RolloutIsTrue, OnlyTheImageAnswers, AnswerIsTrue, Reasons

\* Only the steps named here touch the component.
LEMMA ComponentWriters ==
    ASSUME Next
    PROVE  \/ cr' = cr
           \/ ParseAndApplyConfig \/ RemoveForceRefreshAnnotation \/ Delete
           \/ \E i \in Images : Edit(i) \/ Create(i)
           \/ ForceRefresh
           \/ \E i \in Images, b \in Answers : Refresh(i, b)
  BY DEF Next, Take, Work, Sync, Rollout, Collect, Disturb, Reconcile, ReconcileNotFound,
         CreateDeployment, UpdateDeployment, CreateOrUpdateService, ProcessUIComponentConfig,
         FetchConfig, SyncComponent, SyncDeployment, SyncService, ObserveSpec, PodReady, OldPodsStop,
         CollectDeployment, CollectService, PodsCrash, Repair,
         DeleteDeployment, DeleteService, WriteFails, FetchFails, ClearFails, Crash, api

\* A success is recorded only of a body that is a configuration, for its image.
LEMMA RecordedSuccess ==
    ASSUME NEW o \in ComponentObject, NEW i \in Images, NEW body \in Answers,
           Recorded(o, i, body).reason = "FetchSucceeded"
    PROVE  body # "failed" /\ Recorded(o, i, body).last = i /\ Recorded(o, i, body).cfg = body
  BY DEF Recorded, ComponentObject

LEMMA SuccessStep == ServedInv /\ Next /\ ~ContentChanges => SuccessIsTrue'
  <1> SUFFICES ASSUME ServedInv, Next, ~ContentChanges
               PROVE  SuccessIsTrue'
    OBVIOUS
  <1> USE DEF ServedInv
  <1>1. content' = content
    BY DEF ContentChanges
  <1>2. CASE cr' = cr
    BY <1>1, <1>2 DEF SuccessIsTrue
  <1>3. CASE ParseAndApplyConfig /\ held
    <2>1. copy \in ComponentObject /\ image \in Images /\ got \in Answers
      BY <1>3 DEF ParseAndApplyConfig, TypeInv, TypeOK, WorkerTyped
    <2>2. cr' = Recorded(copy, image, got)
      BY <1>3 DEF ParseAndApplyConfig, WriteComponent
    <2>3. got # "failed" => got = content[image]
      BY <1>3 DEF ParseAndApplyConfig, AnswerIsTrue
    <2> QED BY <1>1, <2>1, <2>2, <2>3, RecordedSuccess DEF SuccessIsTrue
  <1>4. ASSUME NEW o \in ComponentObject, cr \in ComponentObject, cr' = o,
               o.last = cr.last, o.reason = cr.reason, o.cfg = cr.cfg
        PROVE  SuccessIsTrue'
    BY <1>1, <1>4, NoneAssumption DEF SuccessIsTrue
  <1>5. ASSUME cr # None, NEW i \in Images,
               \/ cr' = [cr EXCEPT !.img = i]
               \/ cr' = [cr EXCEPT !.force = TRUE]
               \/ cr' = [cr EXCEPT !.force = FALSE]
        PROVE  SuccessIsTrue'
    <2>1. cr \in ComponentObject
      BY <1>5 DEF TypeInv, TypeOK, ApiTyped
    <2>2. /\ cr' \in ComponentObject
          /\ cr'.last = cr.last /\ cr'.reason = cr.reason /\ cr'.cfg = cr.cfg
      BY <1>5, <2>1 DEF ComponentObject
    <2> QED BY <1>4, <2>1, <2>2
  <1>6. cr # None => cr.img \in Images
    BY DEF TypeInv, TypeOK, ApiTyped, ComponentObject
  <1>7. CASE RemoveForceRefreshAnnotation
    <2>1. ComponentRead # None /\ IsCurrent("Component", crFresh) => cr # None
      BY CurrentRead
    <2> QED BY <1>2, <1>5, <1>6, <1>7, <2>1 DEF RemoveForceRefreshAnnotation, WriteComponent
  <1>8. ASSUME NEW i \in Images, Edit(i)
        PROVE  SuccessIsTrue'
    BY <1>5, <1>8 DEF Edit, UserWrites, WriteComponent
  <1>9. CASE ForceRefresh
    BY <1>5, <1>6, <1>9 DEF ForceRefresh, UserWrites, WriteComponent
  <1>10. CASE Delete
    BY <1>10 DEF Delete, SuccessIsTrue
  <1>11. ASSUME NEW i \in Images, Create(i)
         PROVE  SuccessIsTrue'
    BY <1>11, NoneAssumption DEF Create, NewComponent, SuccessIsTrue, Reasons
  <1>12. CASE ParseAndApplyConfig /\ ~held
    BY <1>2, <1>12 DEF ParseAndApplyConfig
  <1>13. ASSUME NEW i \in Images, NEW b \in Answers, Refresh(i, b)
         PROVE  SuccessIsTrue'
    BY <1>5, <1>6, <1>13 DEF Refresh, UserWrites, WriteComponent
  <1> QED BY <1>2, <1>3, <1>7, <1>8, <1>9, <1>10, <1>11, <1>12, <1>13, ComponentWriters

LEMMA DeploymentWriters ==
    ASSUME Next
    PROVE  \/ dep' = dep /\ pods' = pods
           \/ CreateDeployment \/ UpdateDeployment
           \/ Rollout \/ CollectDeployment \/ DeleteDeployment \/ Delete
           \/ \E i \in Images : PodsCrash(i)
  BY DEF Next, Take, Work, Sync, Collect, Disturb, Reconcile, ReconcileNotFound,
         CreateOrUpdateService, ProcessUIComponentConfig,
         FetchConfig, ParseAndApplyConfig, RemoveForceRefreshAnnotation,
         SyncComponent, SyncDeployment, SyncService, CollectService, Edit, Create, Refresh, Repair,
         ForceRefresh, UserWrites, DeleteService, WriteFails, FetchFails, ClearFails, Crash,
         api, caches, cluster

\* The status of a Deployment that was just written is true, if it is about its spec.
LEMMA StatusIsTrue ==
    ASSUME NEW d \in DeploymentObject
    PROVE  Unobserved(d).observed /\ Unobserved(d).updated => pods \subseteq {Unobserved(d).img}
  BY DEF Unobserved, Observed, DeploymentObject

LEMMA NewStatusIsTrue ==
    ASSUME NEW i \in Images, NEW old \in BOOLEAN
    PROVE  LET new == NewDeployment(i, old)
           IN  new.observed /\ new.updated => pods \subseteq {new.img}
  <1> DEFINE d == [img |-> i, mounted |-> FALSE, observed |-> FALSE, ready |-> FALSE,
                   updated |-> TRUE, old |-> old]
  <1>1. d \in DeploymentObject
    BY DEF DeploymentObject
  <1> HIDE DEF d
  <1>2. Unobserved(d).observed /\ Unobserved(d).updated => pods \subseteq {Unobserved(d).img}
    BY <1>1, StatusIsTrue
  <1> QED BY <1>2 DEF NewDeployment, d

LEMMA RolloutStep == ServedInv /\ Next => RolloutIsTrue'
  <1> SUFFICES ASSUME ServedInv, Next
               PROVE  RolloutIsTrue'
    OBVIOUS
  <1> USE DEF ServedInv, RolloutIsTrue
  <1>1. dep \in DeploymentObject \cup {None} /\ None \notin DeploymentObject /\ pods \subseteq Images
    BY NoneAssumption DEF TypeInv, TypeOK, ApiTyped, ClusterTyped
  <1>2. CASE dep' = dep /\ pods' = pods
    BY <1>2
  <1>3. CASE CreateDeployment
    <2>1. copy.img \in Images /\ copy.gone \in BOOLEAN
      BY <1>3 DEF CreateDeployment, TypeInv, TypeOK, WorkerTyped, ComponentObject
    <2>2. pods' = pods /\ (dep' = dep \/ dep' = NewDeployment(copy.img, copy.gone))
      BY <1>3 DEF CreateDeployment, WriteDeployment, cluster
    <2>3. NewDeployment(copy.img, copy.gone) # None
      BY <1>1, <2>1, NewDeploymentType
    <2> QED BY <1>2, <2>1, <2>2, <2>3, NewStatusIsTrue
  <1>4. CASE UpdateDeployment
    <2>1. copy.img \in Images
      BY <1>4 DEF UpdateDeployment, TypeInv, TypeOK, WorkerTyped, ComponentObject
    <2>2. CASE dep' = dep
      BY <1>2, <1>4, <2>2 DEF UpdateDeployment, cluster
    <2>3. CASE dep' # dep
      <3>1. DeploymentRead = dep /\ dep # None
        BY <1>4, <2>3 DEF UpdateDeployment, DeploymentRead, Read, DeploymentsAgree, IsCurrent
      <3>2. pods' = pods /\ dep' = Unobserved([dep EXCEPT !.img = copy.img])
        BY <1>4, <2>3, <3>1 DEF UpdateDeployment, WriteDeployment, WithImage, cluster
      <3>3. [dep EXCEPT !.img = copy.img] \in DeploymentObject
        BY <1>1, <2>1, <3>1 DEF DeploymentObject
      <3>4. dep' \in DeploymentObject
        BY <3>2, <3>3, ObservedType
      <3> QED BY <1>1, <3>2, <3>3, <3>4, StatusIsTrue
    <2> QED BY <2>2, <2>3
  <1>5. CASE Rollout
    <2>1. dep \in DeploymentObject /\ dep.img \in Images
      BY <1>1, <1>5 DEF Rollout, ObserveSpec, PodReady, OldPodsStop, DeploymentObject
    <2>2. CASE ObserveSpec
      <3>1. dep' = Observed(dep) /\ pods' = pods
        BY <2>2 DEF ObserveSpec, WriteDeployment, cluster
      <3> QED BY <1>1, <2>1, <3>1, ObservedType DEF Observed, DeploymentObject
    <2>3. CASE PodReady
      <3> DEFINE o == [dep EXCEPT !.ready = TRUE, !.updated = (pods = {})]
      <3>1. o \in DeploymentObject /\ o.img = dep.img /\ (o.updated <=> pods = {})
        BY <2>1 DEF DeploymentObject
      <3>2. dep' = o /\ pods' = pods \cup {dep.img}
        BY <2>3 DEF PodReady, WriteDeployment
      <3> HIDE DEF o
      <3> QED BY <1>1, <3>1, <3>2
    <2>4. CASE OldPodsStop
      <3>1. [dep EXCEPT !.updated = TRUE] \in DeploymentObject
            /\ [dep EXCEPT !.updated = TRUE].img = dep.img
        BY <2>1 DEF DeploymentObject
      <3> QED BY <1>1, <2>4, <3>1 DEF OldPodsStop, WriteDeployment
    <2> QED BY <1>5, <2>2, <2>3, <2>4 DEF Rollout
  <1>6. CASE CollectDeployment \/ DeleteDeployment
    BY <1>6 DEF CollectDeployment, DeleteDeployment, WriteDeployment
  <1>7. CASE Delete
    <2>1. pods' = pods /\ dep' = Disowned(dep)
      BY <1>7 DEF Delete, cluster
    <2>2. dep # None => /\ [dep EXCEPT !.old = TRUE] \in DeploymentObject
                        /\ [dep EXCEPT !.old = TRUE].img = dep.img
                        /\ [dep EXCEPT !.old = TRUE].updated = dep.updated
                        /\ [dep EXCEPT !.old = TRUE].observed = dep.observed
      BY <1>1 DEF DeploymentObject
    <2> QED BY <1>1, <2>1, <2>2 DEF Disowned
  <1>8. ASSUME NEW i \in Images, PodsCrash(i)
        PROVE  RolloutIsTrue'
    <2> DEFINE o == [dep EXCEPT !.ready = (pods # {i}), !.updated = (pods \subseteq {i, dep.img})]
    <2>1. dep' = o /\ pods' = pods \ {i} /\ dep # None
      BY <1>8 DEF PodsCrash, WriteDeployment
    <2>2. o \in DeploymentObject /\ o.img = dep.img /\ (o.updated <=> pods \subseteq {i, dep.img})
      BY <1>1, <2>1 DEF DeploymentObject
    <2> HIDE DEF o
    <2> QED BY <1>1, <2>1, <2>2
  <1> QED BY <1>2, <1>3, <1>4, <1>5, <1>6, <1>7, <1>8, DeploymentWriters

\* The steps of the worker between its question and its record.
LEMMA AskingSteps ==
    ASSUME ServedInv, Next, ~TrustsOldStatus, pc' = "fetch"
    PROVE  \/ /\ dep # None /\ dep.observed /\ dep.updated /\ dep.img = image'
              /\ UNCHANGED <<dep, pods>>
           \/ pc = "fetch" /\ image' = image
  <1>1. CASE Take \/ Sync \/ Rollout \/ Collect
    BY <1>1 DEF Take, Reconcile, ReconcileNotFound, Sync, SyncComponent, SyncDeployment, SyncService,
                Rollout, ObserveSpec, PodReady, OldPodsStop, Collect, CollectDeployment,
                CollectService, worker
  <1>2. CASE ProcessUIComponentConfig
    BY <1>2 DEF TrustsOldStatus, ProcessUIComponentConfig, api, cluster
  <1>3. CASE Work /\ ~ProcessUIComponentConfig
    BY <1>3 DEF Work, CreateDeployment, UpdateDeployment, CreateOrUpdateService, FetchConfig,
                ParseAndApplyConfig, RemoveForceRefreshAnnotation, AfterStatus, EndAfter,
                Retry, Done, Finish, GoTo
  <1>4. CASE Disturb
    BY <1>4 DEF Disturb, Edit, PodsCrash, Create, Refresh, Repair, UserWrites, Delete, ForceRefresh,
                DeleteDeployment, DeleteService, WriteFails, FetchFails, ClearFails, Crash,
                AfterStatus, EndAfter, Retry, Done, Finish, GoTo, worker
  <1> QED BY <1>1, <1>2, <1>3, <1>4 DEF Next

LEMMA AskingStep == ServedInv /\ Next /\ ~TrustsOldStatus => OnlyTheImageAnswers'
  <1> SUFFICES ASSUME ServedInv, Next, ~TrustsOldStatus, pc' = "fetch"
               PROVE  pods' \subseteq {image'} /\ (dep' # None => dep'.img = image')
    BY DEF OnlyTheImageAnswers
  <1> USE DEF ServedInv
  <1>1. CASE /\ dep # None /\ dep.observed /\ dep.updated /\ dep.img = image'
            /\ UNCHANGED <<dep, pods>>
    BY <1>1 DEF RolloutIsTrue
  <1>2. CASE pc = "fetch" /\ image' = image
    <2>1. pods \subseteq {image} /\ (dep # None => dep.img = image)
      BY <1>2 DEF OnlyTheImageAnswers
    <2>2. dep # None => dep \in DeploymentObject
      BY DEF TypeInv, TypeOK, ApiTyped
    <2>3. CASE dep' = dep /\ pods' = pods
      BY <1>2, <2>1, <2>3
    <2>4. CASE Rollout
      <3>1. dep # None
        BY <2>4 DEF Rollout, ObserveSpec, PodReady, OldPodsStop
      <3>2. dep'.img = dep.img
        BY <2>2, <2>4, <3>1, ObservedType
           DEF Rollout, ObserveSpec, PodReady, OldPodsStop, WriteDeployment, DeploymentObject
      <3> QED BY <1>2, <2>1, <2>4, <3>1, <3>2
              DEF Rollout, ObserveSpec, PodReady, OldPodsStop, cluster
    <2>5. CASE CollectDeployment \/ DeleteDeployment
      BY <2>5 DEF CollectDeployment, DeleteDeployment, WriteDeployment
    <2>6. CASE Delete
      <3>1. dep # None => [dep EXCEPT !.old = TRUE].img = dep.img
        BY <2>2 DEF DeploymentObject
      <3> QED BY <1>2, <2>1, <2>6, <3>1 DEF Delete, Disowned, cluster
    <2>7. ASSUME NEW i \in Images, PodsCrash(i)
          PROVE  pods' \subseteq {image'} /\ (dep' # None => dep'.img = image')
      <3>1. dep # None /\ dep'.img = dep.img
        BY <2>2, <2>7 DEF PodsCrash, WriteDeployment, DeploymentObject
      <3> QED BY <1>2, <2>1, <2>7, <3>1 DEF PodsCrash
    <2>8. ~CreateDeployment /\ ~UpdateDeployment
      BY <1>2 DEF CreateDeployment, UpdateDeployment
    <2> QED BY <2>3, <2>4, <2>5, <2>6, <2>7, <2>8, DeploymentWriters
  <1> QED BY <1>1, <1>2, AskingSteps

LEMMA AnswerStep == ServedInv /\ Next /\ ~ContentChanges => AnswerIsTrue'
  <1> SUFFICES ASSUME ServedInv, Next, ~ContentChanges, pc' \in {"record", "clear"}, got' # "failed"
               PROVE  got' = content'[image']
    BY DEF AnswerIsTrue
  <1>1. content' = content
    BY DEF ContentChanges
  <1>2. \/ FetchConfig
        \/ pc \in {"record", "clear"} /\ got' = got /\ image' = image
    <2>1. CASE Take \/ Sync \/ Rollout \/ Collect
      BY <2>1 DEF Take, Reconcile, ReconcileNotFound, Sync, SyncComponent, SyncDeployment, SyncService,
                  Rollout, ObserveSpec, PodReady, OldPodsStop, Collect, CollectDeployment,
                  CollectService, worker
    <2>2. CASE Work
      BY <2>2 DEF Work, CreateDeployment, UpdateDeployment, CreateOrUpdateService,
                  ProcessUIComponentConfig, RolledOut,
                  ParseAndApplyConfig, RemoveForceRefreshAnnotation, AfterStatus, EndAfter,
                  Retry, Done, Finish, GoTo
    <2>3. CASE Disturb
      BY <2>3 DEF Disturb, Edit, PodsCrash, Create, Refresh, Repair, UserWrites, Delete, ForceRefresh,
                  DeleteDeployment, DeleteService, WriteFails, FetchFails, ClearFails, Crash,
                  AfterStatus, EndAfter, Retry, Done, Finish, GoTo, worker
    <2> QED BY <2>1, <2>2, <2>3 DEF Next
  <1>3. CASE FetchConfig
    BY <1>1, <1>3 DEF FetchConfig, ServedInv, OnlyTheImageAnswers
  <1>4. CASE pc \in {"record", "clear"} /\ got' = got /\ image' = image
    BY <1>1, <1>4 DEF ServedInv, AnswerIsTrue
  <1> QED BY <1>2, <1>3, <1>4

\* Every write of the Deployment makes its copy outdated, or changes nothing.
LEMMA DeploymentsStillAgree ==
    ASSUME DeploymentsAgree, Next
    PROVE  DeploymentsAgree'
  <1>1. ASSUME NEW o, WriteDeployment(o), UNCHANGED depC
        PROVE  DeploymentsAgree'
    BY <1>1 DEF WriteDeployment, DeploymentsAgree
  <1>2. ASSUME UNCHANGED <<dep, depC, depFresh>>
        PROVE  DeploymentsAgree'
    BY <1>2 DEF DeploymentsAgree
  <1>3. CASE SyncDeployment \/ Crash
    BY <1>3 DEF SyncDeployment, Crash, DeploymentsAgree, Read, api
  <1>4. CASE Delete
    BY <1>4 DEF Delete, DeploymentsAgree
  <1>5. CASE Take \/ Work
    BY <1>1, <1>2, <1>5
       DEF Take, Work, Reconcile, ReconcileNotFound, CreateDeployment, UpdateDeployment,
           CreateOrUpdateService, ProcessUIComponentConfig, FetchConfig, ParseAndApplyConfig,
           RemoveForceRefreshAnnotation, api, caches
  <1>6. CASE SyncComponent \/ SyncService \/ Rollout \/ Collect
    BY <1>1, <1>2, <1>6
       DEF SyncComponent, SyncService, Rollout, ObserveSpec, PodReady, OldPodsStop, Collect,
           CollectDeployment, CollectService, api, caches
  <1>7. CASE Disturb /\ ~Delete /\ ~Crash
    BY <1>1, <1>2, <1>7
       DEF Disturb, Edit, PodsCrash, Create, Refresh, Repair, ForceRefresh, UserWrites,
           DeleteDeployment, DeleteService, WriteFails, FetchFails, ClearFails, api, caches
  <1> QED BY <1>3, <1>4, <1>5, <1>6, <1>7 DEF Next, Sync

LEMMA ServedStep ==
    ServedInv /\ [Next]_vars /\ ~<<TrustsOldStatus \/ ContentChanges>>_vars => ServedInv'
  <1> SUFFICES ASSUME ServedInv, [Next]_vars, ~<<TrustsOldStatus \/ ContentChanges>>_vars
               PROVE  ServedInv'
    OBVIOUS
  <1>1. TypeInv'
    BY TypeInvStep DEF ServedInv
  <1>2. ASSUME UNCHANGED vars
        PROVE  ServedInv'
    BY <1>1, <1>2
       DEF vars, ServedInv, DeploymentsAgree, SuccessIsTrue, RolloutIsTrue, OnlyTheImageAnswers,
           AnswerIsTrue
  <1>3. CASE Next /\ vars' # vars
    <2>1. ~TrustsOldStatus /\ ~ContentChanges
      BY <1>3
    <2> QED BY <1>1, <1>3, <2>1, SuccessStep, RolloutStep, AskingStep, AnswerStep,
               DeploymentsStillAgree DEF ServedInv
  <1> QED BY <1>2, <1>3

\* A configuration that is recorded as fetched for an image is what that image serves,
\* whatever users, crashes, failures and outdated copies do between the checks of the
\* Deployment, the fetch and the write of the status (controller.go:277-360); unless the
\* worker once took an old status for that of a complete rollout, or an image changed
\* what it serves.
THEOREM RecordsAreTrue ==
    Spec => []RecordedIsServed \/ <><<TrustsOldStatus \/ ContentChanges>>_vars
  <1>1. Init => ServedInv
    BY TypeInit, ServedInit DEF ServedInv, TypeInv, CopiesAgree, DeploymentsAgree, Init
  <1>2. ServedInv /\ [Next]_vars /\ ~<<TrustsOldStatus \/ ContentChanges>>_vars => ServedInv'
    BY ServedStep
  <1>3. ServedInv => RecordedIsServed
    BY DEF ServedInv, SuccessIsTrue, RecordedIsServed
  <1> QED BY <1>1, <1>2, <1>3, PTL DEF Spec

-----------------------------------------------------------------------------
(* The controller never rests too early. *)

\* What the code reads of the Service is the informer's copy.
ServiceIsCached == "Service" \in Lagging

\* A copy says that the component owns a Service only if the last Service it owned is there
\* or gone.
ServicesAgree == svc = "old" => svcC # "own"

\* Nothing that happens to the component itself brings the worker back to it.
Alone == cr # None /\ crFresh /\ ~queued

DeploymentDone == dep # None /\ ~dep.old /\ dep.img = cr.img

AsksPods == pc \in {"fetch", "record", "clear"}

\* Then the worker works from the component as it is, and what it has done so far is
\* still there, or an event of the Deployment or the Service is to come.
WorkerKnows ==
    Alone /\ pc # "idle" =>
        /\ copy = cr
        /\ depFresh /\ pc # "deployment" => DeploymentDone
        /\ depFresh /\ AsksPods => dep.ready /\ dep.updated /\ image = dep.img
        /\ pc \notin {"deployment", "service"} => svc # "old" /\ svcC # "old"
        /\ AsksPods => svcC = "own"
        /\ pc = "clear" /\ got \in Configs => cr.last = image

\* And when it has ended, everything is done.
RestKnows ==
    Alone /\ pc = "idle" =>
        /\ depFresh => DeploymentDone /\ dep.ready /\ dep.updated /\ cr.last = cr.img
        /\ svc # "old" /\ svcC = "own"
        /\ "clearFails" \notin Disturbances => ~cr.force

RestInv == TypeInv /\ DeploymentsAgree /\ ServicesAgree /\ WorkerKnows /\ RestKnows

LEMMA RestInvInit == Init => RestInv
  BY TypeInit DEF Init, RestInv, TypeInv, CopiesAgree, DeploymentsAgree, ServicesAgree, WorkerKnows,
                  RestKnows, Alone

LEMMA ServicesStillAgree ==
    ASSUME ServiceIsCached, ServicesAgree, TypeOK, Next
    PROVE  ServicesAgree'
  <1>1. CASE UNCHANGED <<svc, svcC>> \/ svc' = "none"
    BY <1>1 DEF ServicesAgree
  <1>2. CASE CreateOrUpdateService
    BY <1>1, <1>2
       DEF CreateOrUpdateService, ServicesAgree, ServiceRead, Read, ServiceIsCached, caches
  <1>3. CASE SyncService \/ Crash
    BY <1>3 DEF SyncService, Crash, ServicesAgree, api
  <1>4. CASE Delete
    BY <1>4 DEF Delete, DisownedService, ServicesAgree, TypeOK, CopiesTyped, ServiceStates
  <1>5. CASE Take \/ (Work /\ ~CreateOrUpdateService)
    BY <1>1, <1>5
       DEF Take, Work, Reconcile, ReconcileNotFound, CreateDeployment, UpdateDeployment,
           ProcessUIComponentConfig, FetchConfig, ParseAndApplyConfig,
           RemoveForceRefreshAnnotation, api, caches
  <1>6. CASE SyncComponent \/ SyncDeployment \/ Rollout \/ Collect
    BY <1>1, <1>6
       DEF SyncComponent, SyncDeployment, Rollout, ObserveSpec, PodReady, OldPodsStop, Collect,
           CollectDeployment, CollectService, api, caches
  <1>7. CASE Disturb /\ ~Delete /\ ~Crash
    BY <1>1, <1>7
       DEF Disturb, Edit, PodsCrash, Create, Refresh, Repair, ForceRefresh, UserWrites,
           DeleteDeployment, DeleteService, WriteFails, FetchFails, ClearFails, api, caches
  <1> QED BY <1>2, <1>3, <1>4, <1>5, <1>6, <1>7 DEF Next, Sync

\* The worker is alone with the component only if it was before: a write or a
\* deletion is followed by an event, an event queues the component, and only a
\* reconciliation takes it from the queue.
LEMMA NothingNew ==
    ASSUME TypeInv, Next, ~Take, Alone'
    PROVE  /\ Alone /\ cr' = cr /\ svcC' = svcC
           /\ depFresh' => depFresh /\ dep' = dep
           /\ ~Sync /\ ~Delete /\ ~Crash
  <1>1. ~Sync /\ ~Delete /\ ~Crash
    BY DEF Alone, Sync, SyncComponent, SyncDeployment, SyncService, Delete, Crash
  <1>2. \A i \in Images : ~Create(i)
    BY DEF Create, Alone
  <1>3. queued => queued'
    BY <1>1, <1>2
       DEF Next, Work, CreateDeployment, UpdateDeployment, CreateOrUpdateService,
           ProcessUIComponentConfig, FetchConfig, ParseAndApplyConfig, RemoveForceRefreshAnnotation,
           AfterStatus, EndAfter, Done, Retry, GoTo, Rollout, ObserveSpec, PodReady, OldPodsStop,
           Collect, CollectDeployment, CollectService, Disturb, Edit, PodsCrash, Refresh, Repair,
           ForceRefresh, UserWrites, DeleteDeployment, DeleteService, WriteFails, FetchFails,
           ClearFails, worker
  <1>4. cr' = cr /\ (crFresh' => crFresh)
    <2>1. ASSUME NEW o, WriteComponent(o)
          PROVE  cr' = cr /\ (crFresh' => crFresh)
      BY <2>1 DEF WriteComponent, Alone
    <2>2. CASE Work
      BY <2>1, <2>2
         DEF Work, CreateDeployment, UpdateDeployment, CreateOrUpdateService,
           ProcessUIComponentConfig, FetchConfig, ParseAndApplyConfig, RemoveForceRefreshAnnotation,
           api, caches
    <2>3. CASE Rollout \/ Collect
      BY <2>3 DEF Rollout, ObserveSpec, PodReady, OldPodsStop, Collect, CollectDeployment,
           CollectService, caches
    <2>4. CASE Disturb
      <3>1. ASSUME NEW o, UserWrites(o)
            PROVE  cr' = cr /\ (crFresh' => crFresh)
        BY <2>1, <3>1 DEF UserWrites
      <3>2. ASSUME NEW i \in Images, Edit(i) \/ PodsCrash(i)
            PROVE  cr' = cr /\ (crFresh' => crFresh)
        BY <3>1, <3>2 DEF Edit, PodsCrash
      <3>3. ASSUME NEW i \in Images, NEW b \in Answers, Refresh(i, b) \/ Repair(i, b)
            PROVE  cr' = cr /\ (crFresh' => crFresh)
        BY <3>1, <3>3 DEF Refresh, Repair, api, caches
      <3>4. CASE ForceRefresh
        BY <3>1, <3>4 DEF ForceRefresh
      <3>5. CASE DeleteDeployment
        BY <3>5 DEF DeleteDeployment
      <3>6. CASE DeleteService
        BY <3>6 DEF DeleteService, caches
      <3>7. CASE WriteFails \/ FetchFails \/ ClearFails
        <4>1. UNCHANGED <<api, caches>>
          BY <3>7 DEF WriteFails, FetchFails, ClearFails
        <4> QED BY <4>1 DEF api, caches
      <3> QED BY <1>1, <1>2, <2>4, <3>2, <3>3, <3>4, <3>5, <3>6, <3>7 DEF Disturb
    <2> QED BY <1>1, <2>2, <2>3, <2>4 DEF Next
  <1>5. svcC' = svcC
    BY <1>1, <1>2
       DEF Next, Work, CreateDeployment, UpdateDeployment, CreateOrUpdateService,
           ProcessUIComponentConfig, FetchConfig, ParseAndApplyConfig, RemoveForceRefreshAnnotation,
           Rollout, ObserveSpec, PodReady, OldPodsStop,
           Collect, CollectDeployment, CollectService, Disturb, Edit, PodsCrash, Refresh, Repair,
           ForceRefresh, UserWrites, DeleteDeployment, DeleteService, WriteFails, FetchFails,
           ClearFails, caches
  <1>6. depFresh' => depFresh /\ dep' = dep
    <2>1. ASSUME NEW o, WriteDeployment(o)
          PROVE  depFresh' => depFresh /\ dep' = dep
      BY <2>1 DEF WriteDeployment
    <2> QED BY <1>1, <1>2, <2>1
            DEF Next, Work, CreateDeployment, UpdateDeployment, CreateOrUpdateService,
           ProcessUIComponentConfig, FetchConfig, ParseAndApplyConfig, RemoveForceRefreshAnnotation,
           Rollout, ObserveSpec, PodReady, OldPodsStop,
           Collect, CollectDeployment, CollectService, Disturb, Edit, PodsCrash, Refresh, Repair,
           ForceRefresh, UserWrites, DeleteDeployment, DeleteService, WriteFails, FetchFails,
           ClearFails, api, caches
  <1> QED BY <1>1, <1>3, <1>4, <1>5, <1>6 DEF Alone, TypeInv, TypeOK, CopiesTyped

\* A reconciliation begins with the component as it is.
LEMMA KnowsFromStart ==
    ASSUME TypeInv, Take, Alone'
    PROVE  pc' = "deployment" /\ copy' = cr'
  <1>1. cr' = cr /\ crFresh' = crFresh
    BY DEF Take, Reconcile, ReconcileNotFound, api, caches
  <1>2. ComponentRead = cr
    BY <1>1, CurrentRead DEF Alone, IsCurrent
  <1> QED BY <1>1, <1>2 DEF Take, Reconcile, ReconcileNotFound, Alone

\* A Deployment that is not written already runs the image, for the component.
LEMMA DeploymentReducer ==
    ASSUME RestInv, CreateDeployment \/ UpdateDeployment, Alone', Alone,
           cr' = cr, depFresh' => depFresh /\ dep' = dep
    PROVE  pc' = "service" /\ copy' = cr' /\ (depFresh' => DeploymentDone')
  <1>1. copy = cr /\ copy \in ComponentObject /\ ~copy.gone
    <2>1. pc # "idle"
      BY DEF CreateDeployment, UpdateDeployment
    <2> QED BY <2>1, NoneAssumption
            DEF RestInv, WorkerKnows, TypeInv, TypeOK, ApiTyped, WorkerTyped
  <1>2. ~Retry
    BY DEF Retry, Alone
  <1>3. GoTo("service")
    BY <1>2 DEF CreateDeployment, UpdateDeployment
  <1>4. ASSUME depFresh'
        PROVE  DeploymentDone'
    <2>1. depFresh /\ dep' = dep /\ DeploymentRead = dep
      BY <1>4 DEF RestInv, DeploymentsAgree, DeploymentRead, Read
    <2>2. ~CreateDeployment
      <3>1. CASE CreateDeployment
        <4>1. dep = None /\ dep' = NewDeployment(copy.img, copy.gone)
          BY <1>2, <2>1, <3>1 DEF CreateDeployment, WriteDeployment
        <4>2. NewDeployment(copy.img, copy.gone) \in DeploymentObject
          BY <1>1, NewDeploymentType DEF ComponentObject
        <4> QED BY <2>1, <4>1, <4>2, NoneAssumption
      <3> QED BY <3>1
    <2>3. dep # None /\ dep \in DeploymentObject
      BY <2>1, <2>2 DEF UpdateDeployment, RestInv, TypeInv, TypeOK, ApiTyped
    <2>4. ~dep.old
      <3>1. dep.old \in BOOLEAN /\ copy.gone \in BOOLEAN
        BY <1>1, <2>3 DEF DeploymentObject, ComponentObject
      <3> QED BY <1>1, <1>2, <2>1, <2>2, <3>1 DEF UpdateDeployment, Refusals
    <2>5. WithImage(dep, copy.img) = dep
      BY <1>2, <2>1, <2>2 DEF UpdateDeployment, WriteDeployment
    <2>6. dep.img = copy.img
      <3>1. CASE dep.img # copy.img
        <4>1. [dep EXCEPT !.img = copy.img] \in DeploymentObject
              /\ [dep EXCEPT !.img = copy.img].img = copy.img
          BY <1>1, <2>3 DEF DeploymentObject, ComponentObject
        <4> QED BY <2>5, <3>1, <4>1, ObservedType DEF WithImage
      <3> QED BY <3>1
    <2> QED BY <1>1, <2>1, <2>3, <2>4, <2>6 DEF DeploymentDone
  <1> QED BY <1>1, <1>3, <1>4 DEF GoTo

\* A Service that is seen is the component's own.
LEMMA ServiceReducer ==
    ASSUME ServiceIsCached, RestInv, CreateOrUpdateService, Alone', Alone, cr' = cr, svcC' = svcC
    PROVE  pc' = "check" /\ UNCHANGED <<copy, dep, depFresh>> /\ svc' # "old" /\ svcC' # "old"
  <1>1. copy = cr /\ ~copy.gone
    BY NoneAssumption
       DEF CreateOrUpdateService, RestInv, WorkerKnows, TypeInv, TypeOK, ApiTyped, WorkerTyped
  <1>2. ~Retry
    BY DEF Retry, Alone
  <1>3. GoTo("check") /\ UNCHANGED <<dep, depFresh>>
    BY <1>2 DEF CreateOrUpdateService, caches
  <1>4. ServiceRead = svcC
    BY DEF ServiceRead, Read, ServiceIsCached
  <1>5. CASE svcC = "none"
    BY <1>1, <1>2, <1>3, <1>4, <1>5 DEF CreateOrUpdateService, GoTo
  <1>6. CASE svcC # "none"
    <2>1. copy.gone = FALSE
      BY <1>1 DEF CreateOrUpdateService, RestInv, TypeInv, TypeOK, WorkerTyped, ComponentObject
    <2>2. svcC # "old" /\ svc' = svc
      BY <1>2, <1>4, <1>6, <2>1 DEF CreateOrUpdateService, Refusals
    <2>3. svcC = "own"
      BY <1>6, <2>2 DEF RestInv, TypeInv, TypeOK, CopiesTyped, ServiceStates
    <2> QED BY <1>3, <2>2, <2>3 DEF RestInv, ServicesAgree, GoTo
  <1> QED BY <1>3, <1>5, <1>6 DEF GoTo

\* The pods are asked about the rolled out image, and otherwise nothing is left to do.
LEMMA ConfigReducer ==
    ASSUME ServiceIsCached, RestInv, ProcessUIComponentConfig, Alone', Alone
    PROVE  /\ UNCHANGED <<cr, dep, depFresh, svc, svcC>>
           /\ svc # "old" /\ svcC = "own"
           /\ depFresh => dep # None /\ dep.ready /\ dep.updated
           /\ \/ pc' = "fetch" /\ copy' = cr /\ (depFresh => image' = dep.img)
              \/ pc' = "idle" /\ (depFresh => cr.last = dep.img) /\ ~cr.force
  <1>1. copy = cr /\ svc # "old" /\ svcC # "old"
    BY DEF ProcessUIComponentConfig, RestInv, WorkerKnows
  <1>2. ~Retry
    BY DEF Retry, Alone
  <1>3. UNCHANGED <<cr, dep, depFresh, svc, svcC>>
    BY DEF ProcessUIComponentConfig, api, caches
  <1>4. ServiceRead = svcC
    BY DEF ServiceRead, Read, ServiceIsCached
  <1>5. depFresh => DeploymentRead = dep
    BY DEF RestInv, DeploymentsAgree, DeploymentRead, Read
  <1>6. svcC = "own" /\ RolledOut(DeploymentRead)
    BY <1>1, <1>2, <1>4
       DEF ProcessUIComponentConfig, RestInv, TypeInv, TypeOK, CopiesTyped, ServiceStates
  <1>7. CASE NeedsFetch(copy, DeploymentRead.img)
    BY <1>1, <1>2, <1>3, <1>4, <1>5, <1>6, <1>7 DEF ProcessUIComponentConfig, RolledOut
  <1>8. CASE ~NeedsFetch(copy, DeploymentRead.img)
    <2>1. Done /\ copy = cr /\ copy.last = DeploymentRead.img /\ ~copy.force
      BY <1>1, <1>4, <1>6, <1>8 DEF ProcessUIComponentConfig, NeedsFetch
    <2> QED BY <1>1, <1>3, <1>5, <1>6, <2>1 DEF Done, Finish, RolledOut
  <1> QED BY <1>7, <1>8

\* A configuration is recorded as fetched, or the reconciliation is repeated.
LEMMA RecordReducer ==
    ASSUME RestInv, ParseAndApplyConfig, Alone', Alone, cr' = cr
    PROVE  /\ pc' = "clear" /\ UNCHANGED <<copy, image, got, dep, depFresh, svc, svcC>>
           /\ got \in Configs => cr.last = image
  <1>1. copy = cr /\ copy \in ComponentObject /\ pc = "record" /\ image \in Images
    BY DEF ParseAndApplyConfig, RestInv, WorkerKnows, TypeInv, TypeOK, WorkerTyped
  <1>2. ~Retry
    BY DEF Retry, Alone
  <1>3. GoTo("clear") /\ UNCHANGED <<dep, depFresh, svc, svcC>>
    BY <1>2 DEF ParseAndApplyConfig, AfterStatus
  <1>4. ASSUME got \in Configs
        PROVE  cr.last = image
    <2>1. cr = Recorded(copy, image, got)
      BY <1>1, <1>2, <1>4 DEF ParseAndApplyConfig, AfterStatus, WriteComponent
    <2>2. Recorded(copy, image, got).last = image
      BY <1>1, <1>4, ConfigsAssumption DEF Recorded, ComponentObject
    <2> QED BY <2>1, <2>2
  <1> QED BY <1>3, <1>4 DEF GoTo

\* A reconciliation that ends with a success leaves no request behind.
LEMMA ClearReducer ==
    ASSUME RestInv, RemoveForceRefreshAnnotation \/ ClearFails, Alone', Alone, cr' = cr
    PROVE  /\ pc' = "idle" /\ got \in Configs /\ UNCHANGED <<dep, depFresh, svc, svcC>>
           /\ "clearFails" \notin Disturbances => ~cr.force
  <1>1. copy = cr /\ pc = "clear"
    BY DEF RemoveForceRefreshAnnotation, ClearFails, RestInv, WorkerKnows
  <1>2. ~Retry
    BY DEF Retry, Alone
  <1>3. Done /\ got \in Configs /\ UNCHANGED <<dep, depFresh, svc, svcC>>
    BY <1>2 DEF RemoveForceRefreshAnnotation, ClearFails, EndAfter, api, caches
  <1>4. ASSUME RemoveForceRefreshAnnotation, cr.force
        PROVE  FALSE
    <2>1. ComponentRead = cr /\ cr # None /\ IsCurrent("Component", crFresh)
      BY CurrentRead DEF RestInv, Alone, IsCurrent
    <2>2. cr = [cr EXCEPT !.force = FALSE]
      BY <1>1, <1>4, <2>1 DEF RemoveForceRefreshAnnotation, WriteComponent
    <2>3. cr \in ComponentObject
      BY <2>1 DEF RestInv, TypeInv, TypeOK, ApiTyped
    <2> QED BY <1>4, <2>2, <2>3 DEF ComponentObject
  <1> QED BY <1>3, <1>4 DEF Done, Finish, ClearFails

\* What is not the worker's work leaves what it knows.
LEMMA OthersStep ==
    ASSUME RestInv, Next, ~Take, Alone',
           ~(Work \/ WriteFails \/ FetchFails \/ ClearFails)
    PROVE  UNCHANGED <<pc, copy, image, got>> /\ (svc' = svc \/ svc' = "none")
  <1>1. ~Sync /\ ~Delete /\ ~Crash
    BY NothingNew DEF RestInv
  <1>2. CASE Rollout \/ Collect
    BY <1>2 DEF Rollout, ObserveSpec, PodReady, OldPodsStop, Collect, CollectDeployment,
                CollectService, worker
  <1>3. CASE Disturb
    BY <1>1, <1>3 DEF Disturb, Edit, PodsCrash, Create, Refresh, Repair, ForceRefresh, UserWrites,
                DeleteDeployment, DeleteService, worker, api
  <1> QED BY <1>1, <1>2, <1>3 DEF Next

LEMMA KnowsStep ==
    ASSUME ServiceIsCached, RestInv, Next, Alone'
    PROVE  WorkerKnows' /\ RestKnows'
  <1>1. CASE Take
    BY <1>1, KnowsFromStart DEF RestInv, WorkerKnows, RestKnows, AsksPods
  <1>2. CASE ~Take
    <2>1. /\ Alone /\ cr' = cr /\ svcC' = svcC
          /\ depFresh' => depFresh /\ dep' = dep
      BY <1>2, NothingNew DEF RestInv
    <2>2. depFresh' /\ DeploymentDone => DeploymentDone'
      BY <2>1 DEF DeploymentDone
    <2>3. CASE CreateDeployment \/ UpdateDeployment
      BY <2>1, <2>3, DeploymentReducer DEF WorkerKnows, RestKnows, AsksPods
    <2>4. CASE CreateOrUpdateService
      <3>1. pc = "service" /\ copy = cr /\ (depFresh => DeploymentDone)
        BY <2>1, <2>4 DEF CreateOrUpdateService, RestInv, WorkerKnows
      <3> QED BY <2>1, <2>2, <2>4, <3>1, ServiceReducer DEF WorkerKnows, RestKnows, AsksPods
    <2>5. CASE ProcessUIComponentConfig
      <3>1. depFresh => DeploymentDone
        BY <2>1, <2>5 DEF ProcessUIComponentConfig, RestInv, WorkerKnows
      <3> QED BY <2>1, <2>2, <2>5, <3>1, ConfigReducer
              DEF WorkerKnows, RestKnows, AsksPods, DeploymentDone
    <2>6. CASE FetchConfig \/ FetchFails
      <3>1. /\ pc = "fetch" /\ pc' = "record"
            /\ UNCHANGED <<copy, image, dep, depFresh, svc>>
        BY <2>6 DEF FetchConfig, FetchFails, api, caches
      <3> QED BY <2>1, <2>2, <3>1 DEF RestInv, WorkerKnows, RestKnows, AsksPods
    <2>7. CASE ParseAndApplyConfig
      <3>1. pc = "record"
        BY <2>7 DEF ParseAndApplyConfig
      <3> QED BY <2>1, <2>2, <2>7, <3>1, RecordReducer DEF RestInv, WorkerKnows, RestKnows, AsksPods
    <2>8. CASE RemoveForceRefreshAnnotation \/ ClearFails
      <3>1. pc = "clear"
        BY <2>8 DEF RemoveForceRefreshAnnotation, ClearFails
      <3> QED BY <2>1, <2>2, <2>8, <3>1, ClearReducer
              DEF RestInv, WorkerKnows, RestKnows, AsksPods, DeploymentDone
    <2>9. CASE WriteFails
      <3>1. ~Retry
        BY DEF Retry, Alone
      <3>2. /\ pc = "record" /\ pc' = "clear" /\ got \notin Configs
            /\ UNCHANGED <<copy, image, got, dep, depFresh, svc>>
        BY <2>9, <3>1 DEF WriteFails, AfterStatus, GoTo, api, caches
      <3> QED BY <2>1, <2>2, <3>2 DEF RestInv, WorkerKnows, RestKnows, AsksPods
    <2>10. CASE ~(Work \/ WriteFails \/ FetchFails \/ ClearFails)
      <3>1. UNCHANGED <<pc, copy, image, got>> /\ (svc' = svc \/ svc' = "none")
        BY <1>2, <2>10, OthersStep
      <3> QED BY <2>1, <2>2, <3>1 DEF RestInv, WorkerKnows, RestKnows, AsksPods
    <2> QED BY <2>3, <2>4, <2>5, <2>6, <2>7, <2>8, <2>9, <2>10 DEF Work
  <1> QED BY <1>1, <1>2

LEMMA RestInvStep == ServiceIsCached /\ RestInv /\ [Next]_vars => RestInv'
  <1> SUFFICES ASSUME ServiceIsCached, RestInv, [Next]_vars
               PROVE  RestInv'
    OBVIOUS
  <1>1. TypeInv'
    BY TypeInvStep DEF RestInv
  <1>2. CASE Next
    <2>1. WorkerKnows' /\ RestKnows'
      BY <1>2, KnowsStep DEF WorkerKnows, RestKnows
    <2> QED BY <1>1, <1>2, <2>1, DeploymentsStillAgree, ServicesStillAgree DEF RestInv, TypeInv
  <1>3. CASE UNCHANGED vars
    BY <1>1, <1>3
       DEF RestInv, DeploymentsAgree, ServicesAgree, WorkerKnows, RestKnows, Alone, DeploymentDone,
           AsksPods, vars
  <1> QED BY <1>2, <1>3

\* Whatever is outdated, fails, crashes or is edited, in any order, the component
\* controller is not at rest before the image of the spec is rolled out behind the
\* component's own Service and counts as fetched (controller.go:128-360), since
\* every step that leaves something undone is retried or followed by an event.
THEOREM NothingIsForgotten ==
    ASSUME ServiceIsCached
    PROVE  Spec => []NothingForgotten
  <1>1. ServiceIsCached /\ RestInv => NothingForgotten
    <2> SUFFICES ASSUME ServiceIsCached, RestInv, cr # None, pc = "idle", ~Due
                 PROVE  /\ dep # None /\ ~dep.old /\ dep.img = cr.img /\ dep.ready /\ dep.updated
                        /\ svc = "own"
                        /\ cr.last = cr.img
                        /\ "clearFails" \notin Disturbances => ~cr.force
      BY DEF NothingForgotten
    <2>1. Alone /\ depFresh /\ svcC = svc
      BY DEF Due, Alone
    <2> QED BY <2>1 DEF RestInv, RestKnows, DeploymentDone
  <1> QED BY <1>1, RestInvInit, RestInvStep, PTL DEF Spec
====
