--------------------------- MODULE ScalityUIProofs ---------------------------
(* Proofs about the ScalityUI controller, for every set of components and *)
(* every hold-off window.                                                 *)
EXTENDS ScalityUI, TLAPS

\* Nothing of the right kind is None.
LEMMA NoneIsNothing ==
    /\ None \notin Configs /\ None \notin Apps /\ None \notin Contents /\ None \notin UIObject
    /\ None \notin 0 .. Cap
  BY NoneAssumption

LEMMA NewType == ASSUME NEW v \in Configs PROVE New(v) \in UIObject
  BY DEF New, UIObject, Phases

\* The list that a reducer computes is a list.
LEMMA DeployedAppsType ==
    ASSUME ClusterTyped
    PROVE  DeployedApps \in Apps /\ NotReady \subseteq Components
  BY DEF ClusterTyped, DeployedApps, NotReady, Apps

\* Times that are kept, noted, and grow older are times up to the cap.
LEMMA TimesTypes ==
    ASSUME NEW times \in [Components -> 0 .. Cap \cup {None}], NEW notReady \in SUBSET Components
    PROVE  /\ Kept(times, notReady) \in [Components -> 0 .. Cap \cup {None}]
           /\ Noted(times, notReady) \in [Components -> 0 .. Cap \cup {None}]
           /\ NoTimes \in [Components -> 0 .. Cap \cup {None}]
  BY CapAssumption DEF Kept, Noted, NoTimes

LEMMA OlderType ==
    ASSUME NEW t \in 0 .. Cap \cup {None}
    PROVE  Older(t) \in 0 .. Cap \cup {None}
  BY CapAssumption DEF Older

LEMMA FinishTyped ==
    ASSUME Finish
    PROVE  WorkerTyped' /\ pc' = "idle"
  BY DEF Finish, WorkerTyped, NoHashes

LEMMA SameWorkerTyped ==
    ASSUME WorkerTyped, UNCHANGED worker
    PROVE  WorkerTyped'
  BY DEF WorkerTyped, worker

LEMMA SameObjectsTyped ==
    ASSUME ObjectsTyped, UNCHANGED objects
    PROVE  ObjectsTyped'
  BY DEF ObjectsTyped, objects, maps

\* A UI that is being reconciled exists.
Present == pc # "idle" => ui # None

TypeInv == TypeOK /\ Present

LEMMA TypeInit == Init => TypeOK
  <1> SUFFICES ASSUME Init
               PROVE  TypeOK
    OBVIOUS
  <1>1. ClusterTyped
    BY NewType DEF Init, ClusterTyped
  <1>2. ObjectsTyped
    BY DEF Init, ObjectsTyped
  <1>3. TimesTyped
    BY DEF Init, TimesTyped, NoTimes
  <1>4. WorkerTyped
    BY DEF Init, WorkerTyped, NoHashes
  <1> QED BY <1>1, <1>2, <1>3, <1>4 DEF TypeOK

LEMMA ReducersTyped == TypeInv /\ Work => TypeOK'
  <1> SUFFICES ASSUME ClusterTyped, ObjectsTyped, TimesTyped, WorkerTyped, Present, Work
               PROVE  TypeOK'
    BY DEF TypeInv, TypeOK
  <1> USE NoneIsNothing
  <1>1. pc # "idle" => copy \in UIObject /\ copy.cfg \in Configs /\ copy.phase \in Phases
    BY DEF WorkerTyped, UIObject
  <1>2. CASE ReduceConfigMap
    <2> USE <1>2 DEF ReduceConfigMap
    <2>1. ClusterTyped' /\ TimesTyped'
      BY DEF ClusterTyped, TimesTyped, GoTo, cluster
    <2>2. ObjectsTyped'
      BY <1>1 DEF ObjectsTyped
    <2>3. hashes' \in [cfg : Configs \cup {None}, apps : Apps \cup {None}] /\ hashes'.cfg # None
      BY <1>1 DEF WorkerTyped
    <2>4. WorkerTyped'
      BY <2>3 DEF WorkerTyped, GoTo
    <2> QED BY <2>1, <2>2, <2>4 DEF TypeOK
  <1>3. CASE ReduceDeployedApps
    <2> USE <1>3 DEF ReduceDeployedApps
    <2>1. ClusterTyped' /\ ObjectsTyped'
      BY SameObjectsTyped DEF ClusterTyped, cluster
    <2>2. notReadySince' \in [Components -> 0 .. Cap \cup {None}]
      BY DeployedAppsType, TimesTypes DEF TimesTyped
    <2>3. CASE Finish /\ timer' = TRUE /\ UNCHANGED queued
      BY <2>1, <2>2, <2>3, FinishTyped DEF TypeOK, TimesTyped
    <2>4. CASE hashes' = WithApps(hashes, DeployedApps) /\ GoTo("write", FALSE)
      <3>1. /\ hashes' \in [cfg : Configs \cup {None}, apps : Apps \cup {None}]
            /\ hashes'.cfg = hashes.cfg /\ hashes'.apps # None
        BY <2>4, DeployedAppsType DEF WorkerTyped, WithApps
      <3>2. WorkerTyped'
        BY <2>4, <3>1 DEF WorkerTyped, GoTo
      <3>3. TimesTyped'
        BY <2>2, <2>4 DEF TimesTyped, GoTo
      <3> QED BY <2>1, <3>2, <3>3 DEF TypeOK
    <2> QED BY <2>3, <2>4
  <1>4. CASE WriteDeployedApps
    <2> USE <1>4 DEF WriteDeployedApps
    <2>1. ClusterTyped'
      BY DEF ClusterTyped, cluster
    <2>2. hashes.apps \in Apps
      BY DEF WorkerTyped
    <2>3. ObjectsTyped'
      BY <2>2 DEF ObjectsTyped, WriteMap
    <2>4. CASE Retry
      BY <2>1, <2>3, <2>4, FinishTyped DEF TypeOK, TimesTyped, Retry
    <2>5. CASE GoTo("deployment", FALSE) /\ UNCHANGED hashes
      BY <2>1, <2>3, <2>5 DEF TypeOK, TimesTyped, WorkerTyped, GoTo
    <2> QED BY <2>4, <2>5
  <1>5. CASE ReduceDeployment \/ ReduceService \/ ReduceIngress
    <2> USE <1>5 DEF ReduceDeployment, ReduceService, ReduceIngress
    <2>1. ClusterTyped'
      BY DEF ClusterTyped, cluster
    <2>2. ObjectsTyped'
      <3>1. ReduceDeployment => hashes \in Contents
        BY DEF WorkerTyped, Contents
      <3> QED BY <1>1, <3>1 DEF ObjectsTyped, Combined, IngressNetworks, maps
    <2>3. CASE Retry
      BY <2>1, <2>2, <2>3, FinishTyped DEF TypeOK, TimesTyped, Retry
    <2>4. ASSUME NEW r \in {"service", "ingress", "status"}, NEW changed \in BOOLEAN,
                 pc \in {"deployment", "service", "ingress"}, GoTo(r, changed), UNCHANGED hashes
          PROVE  TypeOK'
      BY <2>1, <2>2, <2>4 DEF TypeOK, TimesTyped, WorkerTyped, GoTo
    <2> QED BY <2>3, <2>4
  <1>6. CASE UpdateStatus
    <2> USE <1>6 DEF UpdateStatus
    <2>1. ObjectsTyped'
      BY SameObjectsTyped
    <2>2. ui \in UIObject
      BY DEF Present, ClusterTyped
    <2>3. \A r : Phase(r) \in Phases
      BY DEF Phase, Phases
    <2>4. \A r : [ui EXCEPT !.phase = Phase(r)] \in UIObject
      BY <2>2, <2>3 DEF UIObject
    <2>5. ui' \in UIObject
      BY <2>2, <2>4
    <2>6. ClusterTyped'
      BY <2>5 DEF ClusterTyped, cluster
    <2>7. Done \/ (Finish /\ queued' = TRUE /\ UNCHANGED timer)
      BY DEF Retry
    <2>8. WorkerTyped'
      BY <2>7, FinishTyped DEF Done
    <2>9. TimesTyped'
      BY <2>7 DEF TimesTyped, Done
    <2> QED BY <2>1, <2>6, <2>8, <2>9 DEF TypeOK
  <1> QED BY <1>2, <1>3, <1>4, <1>5, <1>6 DEF Work

\* What happens around the reducers.
LEMMA StartTyped == TypeInv /\ (Reconcile \/ ReconcileNotFound) => TypeOK'
  <1> SUFFICES ASSUME ClusterTyped, ObjectsTyped, TimesTyped, WorkerTyped,
                      Reconcile \/ ReconcileNotFound
               PROVE  TypeOK'
    BY DEF TypeInv, TypeOK
  <1>1. ObjectsTyped'
    BY SameObjectsTyped DEF Reconcile, ReconcileNotFound
  <1>2. ClusterTyped'
    BY DEF Reconcile, ReconcileNotFound, ClusterTyped, cluster
  <1>3. TimesTyped'
    BY DEF Reconcile, ReconcileNotFound, TimesTyped, NoTimes
  <1>4. WorkerTyped'
    BY NoneIsNothing DEF Reconcile, ReconcileNotFound, WorkerTyped, ClusterTyped, worker
  <1> QED BY <1>1, <1>2, <1>3, <1>4 DEF TypeOK

LEMMA EnvironmentTyped == TypeInv /\ (Tick \/ SyncConfigMap \/ RollOut) => TypeOK'
  <1> SUFFICES ASSUME ClusterTyped, ObjectsTyped, TimesTyped, WorkerTyped,
                      Tick \/ SyncConfigMap \/ RollOut
               PROVE  TypeOK'
    BY DEF TypeInv, TypeOK
  <1>1. ClusterTyped' /\ WorkerTyped'
    BY SameWorkerTyped DEF Tick, SyncConfigMap, RollOut, ClusterTyped, cluster
  <1>2. ObjectsTyped'
    BY DEF Tick, SyncConfigMap, RollOut, ObjectsTyped, objects, maps
  <1>3. TimesTyped'
    <2>1. CASE Tick
      BY <2>1, OlderType DEF Tick, TimesTyped
    <2>2. CASE SyncConfigMap \/ RollOut
      BY <2>2 DEF SyncConfigMap, RollOut, TimesTyped
    <2> QED BY <2>1, <2>2
  <1> QED BY <1>1, <1>2, <1>3 DEF TypeOK

LEMMA DisturbTyped == TypeInv /\ Disturb => TypeOK'
  <1> SUFFICES ASSUME ClusterTyped, ObjectsTyped, TimesTyped, WorkerTyped, Disturb
               PROVE  TypeOK'
    BY DEF TypeInv, TypeOK
  <1> USE NoneIsNothing
  <1>1. ASSUME Environment, ClusterTyped', queued' \in BOOLEAN
        PROVE  TypeOK'
    <2>1. ObjectsTyped' /\ WorkerTyped'
      BY <1>1, SameObjectsTyped, SameWorkerTyped DEF Environment
    <2> QED BY <1>1, <2>1 DEF Environment, TypeOK, TimesTyped
  <1>2. ASSUME NEW c \in Components, NEW s \in {"missing", "pending"} \cup Versions,
               ChangeComponent(c, s)
        PROVE  TypeOK'
    <2>1. ClusterTyped' /\ queued' \in BOOLEAN
      BY <1>2 DEF ChangeComponent, ClusterTyped, TimesTyped
    <2> QED BY <1>1, <1>2, <2>1 DEF ChangeComponent
  <1>3. ASSUME NEW c \in Components, ChangeExposer(c)
        PROVE  TypeOK'
    <2>1. ClusterTyped' /\ queued' \in BOOLEAN
      BY <1>3 DEF ChangeExposer, ClusterTyped
    <2> QED BY <1>1, <1>3, <2>1 DEF ChangeExposer
  <1>4. ASSUME NEW v \in Configs, Edit(v)
        PROVE  TypeOK'
    <2>1. ui' \in UIObject
      BY <1>4 DEF Edit, ClusterTyped, UIObject
    <2>2. ClusterTyped' /\ ObjectsTyped'
      BY <1>4, <2>1, SameObjectsTyped DEF Edit, ClusterTyped, cluster
    <2>3. WorkerTyped' /\ TimesTyped'
      BY <1>4 DEF Edit, WorkerTyped, TimesTyped
    <2> QED BY <2>2, <2>3 DEF TypeOK
  <1>5. ASSUME NEW v \in Configs, Create(v)
        PROVE  TypeOK'
    <2>1. ClusterTyped' /\ queued' \in BOOLEAN
      BY <1>5, NewType DEF Create, ClusterTyped, cluster
    <2> QED BY <1>1, <1>5, <2>1 DEF Create
  <1>6. CASE Delete \/ DeleteConfigMap \/ DeleteDeployment \/ DeleteService \/ DeleteIngress
    <2> USE <1>6 DEF Delete, DeleteConfigMap, DeleteDeployment, DeleteService, DeleteIngress
    <2>1. ClusterTyped'
      BY DEF ClusterTyped, cluster
    <2>2. ObjectsTyped'
      BY DEF ObjectsTyped, WriteMap, maps
    <2>3. WorkerTyped'
      BY SameWorkerTyped
    <2>4. TimesTyped'
      BY DEF TimesTyped
    <2> QED BY <2>1, <2>2, <2>3, <2>4 DEF TypeOK
  <1>7. CASE Fail
    <2>1. ClusterTyped' /\ ObjectsTyped'
      BY <1>7, SameObjectsTyped DEF Fail, ClusterTyped, cluster
    <2> QED BY <1>7, <2>1, FinishTyped DEF Fail, Retry, TypeOK, TimesTyped
  <1>8. CASE Crash
    <2>1. ClusterTyped' /\ ObjectsTyped'
      BY <1>8 DEF Crash, ClusterTyped, ObjectsTyped, cluster
    <2>2. TimesTyped'
      BY <1>8 DEF Crash, TimesTyped, NoTimes
    <2> QED BY <1>8, <2>1, <2>2, FinishTyped DEF Crash, TypeOK
  <1> QED BY <1>2, <1>3, <1>4, <1>5, <1>6, <1>7, <1>8 DEF Disturb

LEMMA PresentStep == TypeInv /\ Next => Present'
  <1> SUFFICES ASSUME TypeOK, Present, Next, pc' # "idle"
               PROVE  ui' # None
    BY DEF TypeInv, Present
  <1>1. CASE Reconcile
    BY <1>1 DEF Reconcile
  <1>2. CASE ~Reconcile
    <2>1. pc # "idle"
      BY <1>2 DEF Next, ReconcileNotFound, Work, ReduceConfigMap, ReduceDeployedApps, WriteDeployedApps,
                  ReduceDeployment, ReduceService, ReduceIngress, UpdateStatus, Tick, SyncConfigMap,
                  RollOut, Disturb, ChangeComponent, ChangeExposer, Edit, Create, Delete,
                  DeleteConfigMap, DeleteDeployment, DeleteService, DeleteIngress, Fail, Crash,
                  Environment, Retry, Finish, worker
    <2>2. ui # None /\ ui \in UIObject
      BY <2>1 DEF Present, TypeOK, ClusterTyped
    <2>3. ui' = ui \/ Work \/ (\E v \in Configs : Edit(v))
      BY <1>2, <2>1, <2>2
         DEF Next, ReconcileNotFound, Tick, SyncConfigMap,
             RollOut, Disturb, ChangeComponent, ChangeExposer, Create, Delete,
             DeleteConfigMap, DeleteDeployment, DeleteService, DeleteIngress, Fail, Crash
    <2>4. ASSUME NEW v \in Configs, Edit(v)
          PROVE  ui' # None
      <3>1. [ui EXCEPT !.cfg = v] \in UIObject
        BY <2>2 DEF UIObject
      <3> QED BY <2>4, <3>1, NoneIsNothing DEF Edit
    <2>5. CASE Work
      <3>1. CASE UpdateStatus
        BY <2>2, <3>1 DEF UpdateStatus, Finish, Done, Retry
      <3> QED BY <2>2, <2>5, <3>1
              DEF Work, ReduceConfigMap, ReduceDeployedApps, WriteDeployedApps,
                  ReduceDeployment, ReduceService, ReduceIngress
    <2> QED BY <2>2, <2>3, <2>4, <2>5
  <1> QED BY <1>1, <1>2

LEMMA TypeInvStep == TypeInv /\ [Next]_vars => TypeInv'
  <1> SUFFICES ASSUME TypeInv, [Next]_vars
               PROVE  TypeInv'
    OBVIOUS
  <1>1. CASE Next
    BY <1>1, ReducersTyped, StartTyped, EnvironmentTyped, DisturbTyped, PresentStep
       DEF Next, TypeInv
  <1>2. CASE UNCHANGED vars
    BY <1>2 DEF vars, TypeInv, TypeOK, ClusterTyped, ObjectsTyped, TimesTyped, WorkerTyped, Present
  <1> QED BY <1>1, <1>2

LEMMA TypeInvHolds == Spec => []TypeInv
  <1>1. Init => TypeInv
    BY TypeInit DEF TypeInv, Present, Init
  <1> QED BY <1>1, TypeInvStep, PTL DEF Spec

\* Every object, time and copy is of its type; the Deployment is reduced only when
\* both hashes are known.
THEOREM TypeCorrect == Spec => []TypeOK
  <1>1. TypeInv => TypeOK
    BY DEF TypeInv
  <1> QED BY <1>1, TypeInvHolds, PTL

-----------------------------------------------------------------------------
(* No component is dropped early. *)

\* From the decision to the write, a list that exists comes with no component in its
\* window: the times change only between two reconciliations, and nobody else makes
\* a list.
NobodyInWindow ==
    pc = "write" => appsMap = None \/ \A c \in Components : notReadySince[c] \in {None, Cap}

\* Past the window, a time is the cap; of components that are ready there is none.
LEMMA DecisionIsLate ==
    ASSUME TypeOK, NotReady = {} \/ ~WithinCap(Noted(Kept(notReadySince, NotReady), NotReady), NotReady)
    PROVE  \A c \in Components : Noted(Kept(notReadySince, NotReady), NotReady)[c] \in {None, Cap}
  <1> DEFINE times == Noted(Kept(notReadySince, NotReady), NotReady)
  <1>1. NotReady \subseteq Components /\ notReadySince \in [Components -> 0 .. Cap \cup {None}]
    BY DeployedAppsType DEF TypeOK, TimesTyped
  <1>2. times \in [Components -> 0 .. Cap \cup {None}]
    BY <1>1, TimesTypes
  <1>3. \A c \in Components \ NotReady : times[c] = None
    BY DEF Noted, Kept
  <1>4. \A c \in NotReady : times[c] # None
    BY <1>1, NoneIsNothing, CapAssumption DEF Noted, Kept
  <1>5. \A c \in NotReady : times[c] \in 0 .. Cap /\ ~(times[c] < Cap)
    BY <1>1, <1>2, <1>4 DEF WithinCap
  <1> HIDE DEF times
  <1>6. \A c \in NotReady : times[c] = Cap
    BY <1>5, CapAssumption
  <1> QED BY <1>1, <1>3, <1>6 DEF times

LEMMA WindowStep ==
    ASSUME Lagging = {}, TypeOK, NobodyInWindow, [Next]_vars
    PROVE  NobodyInWindow'
  <1>1. CASE ReduceDeployedApps
    <2>1. MapRead = appsMap
      BY DEF MapRead
    <2>2. CASE Finish
      BY <2>2 DEF Finish, NobodyInWindow
    <2>3. CASE ~Finish
      <3>1. appsMap = None \/ NotReady = {}
            \/ ~WithinCap(Noted(Kept(notReadySince, NotReady), NotReady), NotReady)
        BY <1>1, <2>1, <2>3 DEF ReduceDeployedApps
      <3>2. appsMap' = appsMap /\ notReadySince' = Noted(Kept(notReadySince, NotReady), NotReady)
        BY <1>1 DEF ReduceDeployedApps, objects, maps
      <3> QED BY <3>1, <3>2, DecisionIsLate DEF NobodyInWindow
    <2> QED BY <2>2, <2>3
  <1>2. CASE ~ReduceDeployedApps /\ pc' = "write"
    <2>1. pc = "write" /\ notReadySince' = notReadySince /\ (appsMap' = appsMap \/ appsMap' = None)
      BY <1>2 DEF Next, Reconcile, ReconcileNotFound, Work, ReduceConfigMap, WriteDeployedApps,
                  ReduceDeployment, ReduceService, ReduceIngress, UpdateStatus, Tick, SyncConfigMap,
                  RollOut, Disturb, ChangeComponent, ChangeExposer, Edit, Create, Delete,
                  DeleteConfigMap, DeleteDeployment, DeleteService, DeleteIngress, Fail, Crash,
                  Environment, Done, Retry, Finish, GoTo, WriteMap, worker, objects, maps, vars
    <2> QED BY <2>1 DEF NobodyInWindow
  <1>3. CASE pc' # "write"
    BY <1>3 DEF NobodyInWindow
  <1> QED BY <1>1, <1>2, <1>3

\* A component that leaves the list was seen not ready for the whole window, or is ready,
\* or is no longer exposed: for any number of components, each with its own window
\* (deployed_apps_configmap.go:119-146 and 228-250), if the list is read as it is.
THEOREM PlaceIsKept ==
    ASSUME Lagging = {}
    PROVE  Spec => NoEarlyDrop
  <1>1. Init => NobodyInWindow
    BY DEF Init, NobodyInWindow
  <1>2. TypeInv /\ NobodyInWindow /\ [Next]_vars => NobodyInWindow'
    BY WindowStep DEF TypeInv
  <1>3. TypeInv /\ NobodyInWindow =>
          (pc = "write" /\ pc' = "deployment" =>
             \A c \in Listed(appsMap) \ Listed(appsMap') : notReadySince[c] \in {None, Cap})
    <2> SUFFICES ASSUME TypeInv, NobodyInWindow, pc = "write", NEW c \in Listed(appsMap)
                 PROVE  notReadySince[c] \in {None, Cap}
      OBVIOUS
    <2>1. appsMap # None /\ appsMap \in Apps
      BY DEF Listed, TypeInv, TypeOK, ObjectsTyped
    <2>2. c \in Components
      BY <2>1 DEF Listed, Apps
    <2> QED BY <2>1, <2>2 DEF NobodyInWindow
  <1> QED BY <1>1, <1>2, <1>3, TypeInvHolds, PTL DEF Spec, NoEarlyDrop

-----------------------------------------------------------------------------
(* The controller never rests too early. *)

MapsAgree == "ConfigMap" \in Lagging /\ mapFresh => appsMapC = appsMap

\* Nothing but a hold-off brings the worker back to the UI.
Alone == ui # None /\ ~queued /\ mapFresh

TimesAreNotReady == \A c \in Components : notReadySince[c] # None => c \in NotReady

ListKnown == pc \notin {"configmap", "apps"}

ListWritten == pc \notin {"configmap", "apps", "write"}

\* Then the worker works from the UI as it is, and what the reducers have done so far is
\* still there.
WorkerKnows ==
    Alone /\ pc # "idle" =>
        /\ copy = ui
        /\ pc # "configmap" => cfgMap = ui.cfg /\ hashes.cfg = ui.cfg
        /\ ListKnown => hashes.apps = DeployedApps /\ TimesAreNotReady
        /\ ListWritten => appsMap = DeployedApps
        /\ pc \in {"service", "ingress", "status"} => dep = [cfg |-> ui.cfg, apps |-> DeployedApps]
        /\ pc \in {"ingress", "status"} => svc
        /\ pc = "status" => ing = ui.cfg

RestInv == TypeInv /\ MapsAgree /\ WorkerKnows /\ NothingForgotten

LEMMA RestInvInit == Init => RestInv
  BY TypeInit DEF Init, RestInv, TypeInv, Present, MapsAgree, WorkerKnows, NothingForgotten, Alone, Due

LEMMA MapsStillAgree ==
    ASSUME MapsAgree, [Next]_vars
    PROVE  MapsAgree'
  <1>1. ASSUME NEW m, WriteMap(m), UNCHANGED appsMapC
        PROVE  MapsAgree'
    BY <1>1 DEF WriteMap, MapsAgree
  <1>2. ASSUME UNCHANGED <<appsMap, appsMapC, mapFresh>>
        PROVE  MapsAgree'
    BY <1>2 DEF MapsAgree
  <1>3. CASE SyncConfigMap \/ Crash
    BY <1>3 DEF SyncConfigMap, Crash, MapsAgree
  <1>4. CASE WriteDeployedApps \/ Delete \/ DeleteConfigMap
    BY <1>1, <1>2, <1>4 DEF WriteDeployedApps, Delete, DeleteConfigMap
  <1>5. CASE Work /\ ~WriteDeployedApps
    BY <1>2, <1>5 DEF Work, ReduceConfigMap, ReduceDeployedApps, ReduceDeployment, ReduceService,
                      ReduceIngress, UpdateStatus, objects, maps
  <1>6. CASE Reconcile \/ ReconcileNotFound \/ Tick \/ RollOut \/ UNCHANGED vars
    BY <1>2, <1>6 DEF Reconcile, ReconcileNotFound, Tick, RollOut, objects, maps, vars
  <1>7. CASE Disturb /\ ~Delete /\ ~DeleteConfigMap /\ ~Crash
    BY <1>2, <1>7 DEF Disturb, ChangeComponent, ChangeExposer, Edit, Create, DeleteDeployment,
                      DeleteService, DeleteIngress, Fail, Environment, objects, maps
  <1> QED BY <1>3, <1>4, <1>5, <1>6, <1>7 DEF Next

\* The worker is alone with the UI only if it was before and nothing that concerns the
\* UI changed, but by the worker: the rest is followed by an event or a retry.
LEMMA NothingNew ==
    ASSUME TypeInv, [Next]_vars, ~Reconcile, Alone'
    PROVE  /\ Alone
           /\ Work \/ Tick \/ (UNCHANGED <<ui, worker, objects, notReadySince, timer>>)
           /\ DeployedApps' = DeployedApps /\ NotReady' = NotReady
  <1>1. ~SyncConfigMap /\ ~RollOut /\ ~Crash /\ ~Fail /\ ~Delete
    BY DEF Alone, SyncConfigMap, RollOut, Crash, Fail, Retry, Delete
  <1>2. \A v \in Configs : ~Edit(v) /\ ~Create(v)
    BY DEF Alone, Edit, Create
  <1>3. ~ReconcileNotFound
    BY DEF Alone, ReconcileNotFound
  <1>4. ~DeleteConfigMap
    <2>1. ASSUME appsMap # None, WriteMap(None)
          PROVE  ~mapFresh'
      BY <2>1 DEF WriteMap
    <2> QED BY <2>1 DEF DeleteConfigMap, Alone
  <1>5. ~DeleteDeployment /\ ~DeleteService /\ ~DeleteIngress
    BY DEF Alone, DeleteDeployment, DeleteService, DeleteIngress
  <1>6. CASE Work
    <2>1. UNCHANGED cluster /\ (queued => queued')
      BY <1>6 DEF Work, ReduceConfigMap, ReduceDeployedApps, WriteDeployedApps, ReduceDeployment,
                  ReduceService, ReduceIngress, UpdateStatus, Done, Retry, GoTo
    <2>2. mapFresh' => mapFresh
      BY <1>6 DEF Work, ReduceConfigMap, ReduceDeployedApps, WriteDeployedApps, ReduceDeployment,
                  ReduceService, ReduceIngress, UpdateStatus, WriteMap, objects, maps, TypeInv, TypeOK,
                  ObjectsTyped
    <2>3. pc # "idle"
      BY <1>6 DEF Work, ReduceConfigMap, ReduceDeployedApps, WriteDeployedApps, ReduceDeployment,
                  ReduceService, ReduceIngress, UpdateStatus
    <2> QED BY <1>6, <2>1, <2>2, <2>3
            DEF Alone, TypeInv, Present, DeployedApps, NotReady, cluster
  <1>7. CASE Tick \/ UNCHANGED vars
    <2>1. UNCHANGED cluster
      BY <1>7 DEF Tick, cluster, vars
    <2>2. DeployedApps' = DeployedApps /\ NotReady' = NotReady
      BY <2>1 DEF DeployedApps, NotReady, cluster
    <2>3. CASE Tick
      BY <2>2, <2>3 DEF Tick, Alone, objects, maps
    <2>4. CASE UNCHANGED vars
      BY <2>2, <2>4 DEF vars, Alone, objects, maps, worker
    <2> QED BY <1>7, <2>3, <2>4
  <1>8. ASSUME NEW c \in Components,
               ChangeExposer(c) \/ \E s \in {"missing", "pending"} \cup Versions : ChangeComponent(c, s)
        PROVE  /\ Alone /\ UNCHANGED <<ui, worker, objects, notReadySince, timer>>
               /\ DeployedApps' = DeployedApps /\ NotReady' = NotReady
    <2>1. /\ c \notin exposed /\ exposed' = exposed /\ \A d \in exposed : status'[d] = status[d]
          /\ Environment /\ ui' = ui /\ ~queued
      BY <1>8 DEF ChangeExposer, ChangeComponent, Alone, TypeInv, TypeOK, ClusterTyped
    <2>2. DeployedApps' = DeployedApps /\ NotReady' = NotReady
      BY <2>1 DEF DeployedApps, NotReady
    <2> QED BY <2>1, <2>2 DEF Alone, Environment, objects, maps
  <1> QED BY <1>1, <1>2, <1>3, <1>4, <1>5, <1>6, <1>7, <1>8 DEF Next, Disturb

\* Each reducer leaves behind what the next one relies on.
LEMMA MapReducers ==
    ASSUME RestInv, Alone', Alone, DeployedApps' = DeployedApps, NotReady' = NotReady,
           ReduceConfigMap \/ ReduceDeployedApps \/ WriteDeployedApps
    PROVE  WorkerKnows' /\ NothingForgotten'
  <1>1. /\ copy = ui /\ ui' = ui
        /\ pc # "configmap" => cfgMap = ui.cfg /\ hashes.cfg = ui.cfg
        /\ pc = "write" => hashes.apps = DeployedApps /\ TimesAreNotReady
    BY DEF ReduceConfigMap, ReduceDeployedApps, WriteDeployedApps, RestInv, WorkerKnows, ListKnown
  <1>2. /\ hashes \in [cfg : Configs \cup {None}, apps : Apps \cup {None}]
        /\ notReadySince \in [Components -> 0 .. Cap \cup {None}]
    BY DEF RestInv, TypeInv, TypeOK, TimesTyped, WorkerTyped
  <1>3. CASE ReduceConfigMap
    BY <1>1, <1>2, <1>3
       DEF ReduceConfigMap, GoTo, WorkerKnows, NothingForgotten, ListKnown, ListWritten
  <1>4. CASE ReduceDeployedApps
    <2>1. CASE Finish /\ timer' = TRUE
      BY <2>1 DEF Finish, WorkerKnows, NothingForgotten, Due
    <2>2. CASE hashes' = WithApps(hashes, DeployedApps) /\ GoTo("write", FALSE)
      <3>1. hashes'.apps = DeployedApps /\ hashes'.cfg = hashes.cfg
        BY <1>2, <2>2 DEF WithApps
      <3>2. TimesAreNotReady'
        BY <1>4 DEF ReduceDeployedApps, TimesAreNotReady, Noted, Kept
      <3>3. pc' = "write" /\ copy' = copy /\ cfgMap' = cfgMap
        BY <1>4, <2>2 DEF ReduceDeployedApps, GoTo, objects, maps
      <3>4. pc = "apps"
        BY <1>4 DEF ReduceDeployedApps
      <3> QED BY <1>1, <3>1, <3>2, <3>3, <3>4 DEF WorkerKnows, NothingForgotten, ListWritten
    <2> QED BY <1>4, <2>1, <2>2 DEF ReduceDeployedApps
  <1>5. CASE WriteDeployedApps
    <2>1. ~Retry
      BY DEF Retry, Alone
    <2>2. /\ pc = "write" /\ pc' = "deployment"
          /\ UNCHANGED <<copy, hashes, cfgMap, notReadySince>>
      BY <1>5, <2>1 DEF WriteDeployedApps, GoTo
    <2>3. appsMap' = DeployedApps
      <3>1. MapRead = appsMap
        BY DEF MapRead, Alone, RestInv, MapsAgree
      <3> QED BY <1>1, <1>5, <2>1, <2>2, <3>1 DEF WriteDeployedApps, WriteMap
    <2>4. TimesAreNotReady'
      BY <1>1, <2>2 DEF TimesAreNotReady
    <2> QED BY <1>1, <2>2, <2>3, <2>4 DEF WorkerKnows, NothingForgotten
  <1> QED BY <1>3, <1>4, <1>5

LEMMA ObjectReducers ==
    ASSUME RestInv, Alone', Alone, DeployedApps' = DeployedApps, NotReady' = NotReady,
           ReduceDeployment \/ ReduceService \/ ReduceIngress
    PROVE  WorkerKnows' /\ NothingForgotten'
  <1>1. /\ copy = ui /\ ui' = ui
        /\ cfgMap = ui.cfg /\ hashes.cfg = ui.cfg /\ hashes.apps = DeployedApps
        /\ TimesAreNotReady /\ appsMap = DeployedApps
    BY DEF ReduceDeployment, ReduceService, ReduceIngress, RestInv, WorkerKnows, ListKnown, ListWritten
  <1>2. ~Retry
    BY DEF Retry, Alone
  <1>3. UNCHANGED <<copy, hashes, cfgMap, appsMap, notReadySince>>
    BY <1>2 DEF ReduceDeployment, ReduceService, ReduceIngress, GoTo, maps
  <1>4. TimesAreNotReady'
    BY <1>1, <1>3 DEF TimesAreNotReady
  <1>5. CASE ReduceDeployment
    <2>1. hashes = [cfg |-> ui.cfg, apps |-> DeployedApps]
      BY <1>1 DEF RestInv, TypeInv, TypeOK, WorkerTyped
    <2>2. pc' = "service" /\ dep' = hashes
      BY <1>2, <1>5 DEF ReduceDeployment, Combined, GoTo
    <2> QED BY <1>1, <1>3, <1>4, <2>1, <2>2 DEF WorkerKnows, NothingForgotten
  <1>6. CASE ReduceService
    <2>1. pc' = "ingress" /\ svc' /\ dep' = dep /\ dep = [cfg |-> ui.cfg, apps |-> DeployedApps]
      BY <1>2, <1>6 DEF ReduceService, GoTo, RestInv, WorkerKnows
    <2> QED BY <1>1, <1>3, <1>4, <2>1 DEF WorkerKnows, NothingForgotten
  <1>7. CASE ReduceIngress
    <2>1. /\ pc' = "status" /\ ing' = ui.cfg /\ UNCHANGED <<dep, svc>>
          /\ svc /\ dep = [cfg |-> ui.cfg, apps |-> DeployedApps]
      BY <1>1, <1>2, <1>7 DEF ReduceIngress, IngressNetworks, GoTo, RestInv, WorkerKnows
    <2> QED BY <1>1, <1>3, <1>4, <2>1 DEF WorkerKnows, NothingForgotten
  <1> QED BY <1>5, <1>6, <1>7

\* The worker ends with everything done.
LEMMA StatusReducer ==
    ASSUME RestInv, Alone', Alone, DeployedApps' = DeployedApps, NotReady' = NotReady, UpdateStatus
    PROVE  WorkerKnows' /\ NothingForgotten'
  <1>1. /\ copy = ui /\ cfgMap = ui.cfg /\ TimesAreNotReady /\ appsMap = DeployedApps
        /\ dep = [cfg |-> ui.cfg, apps |-> DeployedApps] /\ svc /\ ing = ui.cfg
    BY DEF UpdateStatus, RestInv, WorkerKnows, ListKnown, ListWritten
  <1>2. \E ready \in DeploymentReady : Phase(ready) = copy.phase
    BY DEF UpdateStatus, Retry, Alone
  <1>3. pc' = "idle" /\ UNCHANGED <<ui, objects, notReadySince>>
    BY DEF UpdateStatus, Done, Retry, Finish, Alone
  <1>4. cfgMap # None /\ ing # None
    BY <1>1, NoneIsNothing DEF Alone, RestInv, TypeInv, TypeOK, ClusterTyped, UIObject
  <1>5. RolledOut => ui.phase = "Ready"
    BY <1>1, <1>2, <1>4 DEF DeploymentReady, Phase
  <1>6. TimesAreNotReady'
    BY <1>1, <1>3 DEF TimesAreNotReady
  <1>7. RolledOut' <=> RolledOut
    BY <1>3 DEF RolledOut, objects
  <1> QED BY <1>1, <1>3, <1>5, <1>6, <1>7
          DEF WorkerKnows, NothingForgotten, TimesAreNotReady, objects, maps

LEMMA RestStep == RestInv /\ [Next]_vars => WorkerKnows' /\ NothingForgotten'
  <1> SUFFICES ASSUME RestInv, [Next]_vars, Alone'
               PROVE  WorkerKnows' /\ NothingForgotten'
    BY DEF WorkerKnows, NothingForgotten, Alone, Due
  <1>1. CASE Reconcile
    BY <1>1 DEF Reconcile, WorkerKnows, NothingForgotten, ListKnown, ListWritten
  <1>2. CASE ~Reconcile
    <2>1. /\ Alone /\ DeployedApps' = DeployedApps /\ NotReady' = NotReady
          /\ Work \/ Tick \/ UNCHANGED <<ui, worker, objects, notReadySince, timer>>
      BY <1>2, NothingNew DEF RestInv
    <2>2. CASE Work
      BY <2>1, <2>2, MapReducers, ObjectReducers, StatusReducer DEF Work
    <2>3. CASE Tick
      <3>1. /\ pc = "idle" /\ pc' = "idle" /\ ~timer
            /\ UNCHANGED <<ui, objects>>
        BY <2>3 DEF Tick, Alone, worker
      <3>2. ~Due
        BY <2>1, <3>1 DEF Alone, Due
      <3>3. \A c \in Components : notReadySince[c] = None => notReadySince'[c] = None
        BY <2>3 DEF Tick, Older
      <3>4. RolledOut' <=> RolledOut
        BY <3>1 DEF RolledOut, objects
      <3> QED BY <2>1, <3>1, <3>2, <3>3, <3>4
              DEF RestInv, WorkerKnows, NothingForgotten, Alone, objects, maps
    <2>4. CASE UNCHANGED <<ui, worker, objects, notReadySince, timer>>
      <3>1. TimesAreNotReady' = TimesAreNotReady /\ (RolledOut' <=> RolledOut)
        BY <2>1, <2>4 DEF TimesAreNotReady, RolledOut, objects
      <3>2. WorkerKnows'
        BY <2>1, <2>4, <3>1
           DEF RestInv, WorkerKnows, ListKnown, ListWritten, worker, objects, maps
      <3>3. NothingForgotten'
        BY <2>1, <2>4, <3>1 DEF RestInv, NothingForgotten, Due, Alone, worker, objects, maps
      <3> QED BY <3>2, <3>3
    <2> QED BY <2>1, <2>2, <2>3, <2>4
  <1> QED BY <1>1, <1>2

\* Whatever is outdated, fails, crashes or changes, in any order, the ScalityUI
\* controller is not at rest before everything it makes is that of the spec and of the
\* components as they are (controller.go:247-302), since a list that is held off comes
\* with a timer, a write with an event, and an error with a retry.
THEOREM NothingIsForgotten == Spec => []NothingForgotten
  <1>1. RestInv /\ [Next]_vars => RestInv'
    BY TypeInvStep, MapsStillAgree, RestStep DEF RestInv
  <1>2. RestInv => NothingForgotten
    BY DEF RestInv
  <1> QED BY <1>1, <1>2, RestInvInit, PTL DEF Spec
====
