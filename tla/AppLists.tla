------------------------------- MODULE AppLists -------------------------------
(***************************************************************************)
(* The lists of applications of all ScalityUIs, and how a change of an     *)
(* exposer or of a component finds the lists it concerns.                  *)
(*                                                                         *)
(* Everything is read from the informers' caches.  Of each change of a     *)
(* cache a handler of the ScalityUI controller hears some time later, and  *)
(* maps it to the UIs to reconcile - for a component through the exposers  *)
(* that are in the cache by then.  One worker reconciles the UIs: it lists *)
(* the exposers of a UI, reads the component of each in turn, and writes   *)
(* the UI's list, or holds it off while a component is not ready.  The     *)
(* times since when they are not are those of all UIs, in one map, and are *)
(* dropped by the prefix of their keys.  The UIs exist throughout, and a   *)
(* write of a list is seen at once: the rest of the controller is the      *)
(* subject of ScalityUI.                                                   *)
(***************************************************************************)
EXTENDS Naturals, FiniteSetsExt, SequencesExt

CONSTANTS
    Exposers,      \* exposers, numbered in the order of namespace and name
    UIs,           \* names of UIs, sequences of words
    Components,    \* names of components
    Versions,      \* what the status of a component can say of its application
    Cap,           \* partialWriteCap, in ticks of partialWriteRequeue
    Moving,        \* exposers that users create, change and delete; others stay as they are
    Disturbances,  \* what components and failures may do
    None           \* no exposer, no list, no time

ASSUME ExposersAssumption == Exposers \subseteq Nat

\* A name of a UI has no slash in it.
ASSUME UIsAssumption ==
    \A u \in UIs : u \in Seq({u[i] : i \in DOMAIN u}) /\ \A i \in DOMAIN u : u[i] # "/"

ASSUME CapAssumption == Cap \in Nat \ {0}

ASSUME MovingAssumption == Moving \subseteq Exposers

ASSUME DisturbancesAssumption == Disturbances \subseteq {"status", "fail"}

\* Which component an exposer adds to which UI; its AppHistoryBasePath is its own.
Exposer == [ui : UIs, comp : Components]

App == [comp : Components, version : Versions, path : Exposers]

\* What the worker reads of an exposer.
Read == [path : Exposers, comp : Components]

Key(u, c) == u \o <<"/", c>>

ASSUME VersionsAssumption == "missing" \notin Versions /\ "pending" \notin Versions

ASSUME NoneAssumption ==
    \A o \in UIs \cup Exposer \cup 0 .. Cap \cup SUBSET App : None # o

VARIABLES
    ex,       \* exposers in the cache
    status,   \* of each component there: "missing", "pending" or what it says when ready
    moved,    \* UIs named by changes of exposers that the handler is yet to hear of
    stirred,  \* components with changes that the handler is yet to hear of
    list,     \* the list of each UI, in its ConfigMap <name>-deployed-ui-apps
    notReadySince,  \* ticks since a component was first seen not ready, by key
    queue,    \* the controller's work queue
    timer,    \* UIs that will be queued again after 5 seconds
    at,       \* the UI that the worker reconciles
    todo,     \* exposers it listed and has not looked at yet
    apps,     \* applications found so far
    pending   \* components found not ready so far

caches  == <<ex, status>>
events  == <<moved, stirred>>
worker  == <<at, todo, apps, pending>>
vars    == <<ex, status, moved, stirred, list, notReadySince, queue, timer,
             at, todo, apps, pending>>

Keys == {Key(u, c) : u \in UIs, c \in Components}

CachesTyped ==
    /\ ex \in [Exposers -> Exposer \cup {None}]
    /\ status \in [Components -> {"missing", "pending"} \cup Versions]
    /\ moved \in SUBSET UIs /\ stirred \in SUBSET Components

ListsTyped ==
    /\ list \in [UIs -> (SUBSET App) \cup {None}]
    /\ notReadySince \in [Keys -> 0 .. Cap \cup {None}]
    /\ queue \in SUBSET UIs /\ timer \in SUBSET UIs

WorkerTyped ==
    /\ at \in UIs \cup {None} /\ todo \in SUBSET Read
    /\ apps \in SUBSET App /\ pending \in SUBSET Components
    /\ at = None => todo = {} /\ apps = {} /\ pending = {}

TypeOK == CachesTyped /\ ListsTyped /\ WorkerTyped

-----------------------------------------------------------------------------
(* The mappers. *)

\* A mutation of MapExposerToUI: the UI that an exposer leaves is forgotten.
MapExposerToNewUI(old, new) == {o.ui : o \in {new} \ {None}}

\* The handler is given the old exposer and the new one, and maps both.
MapExposerToUI(old, new) == {o.ui : o \in {old, new} \ {None}}

\* A mutation of MapComponentToUI: one UI per component.
MapComponentToOneUI(c) ==
    LET exposed == {e \in Exposers : ex[e] # None /\ ex[e].comp = c}
    IN  {ex[e].ui : e \in {f \in exposed : f = Min(exposed)}}

MapComponentToUI(c) == {ex[e].ui : e \in {f \in Exposers : ex[f] # None /\ ex[f].comp = c}}

\* What the handler makes of an exposer depends on nothing but the exposer: the UIs are
\* known when it changes.
HearOfExposer(u) ==
    /\ u \in moved
    /\ queue' = queue \cup {u} /\ moved' = moved \ {u}
    /\ UNCHANGED <<caches, stirred, list, notReadySince, timer, worker>>

HearOfComponent(c) ==
    /\ c \in stirred
    /\ queue' = queue \cup MapComponentToUI(c) /\ stirred' = stirred \ {c}
    /\ UNCHANGED <<caches, moved, list, notReadySince, timer, worker>>

-----------------------------------------------------------------------------
(* The worker. *)

FindAllExposersForUI(u) ==
    {[path |-> e, comp |-> ex[e].comp] : e \in {f \in Exposers : ex[f] # None /\ ex[f].ui = u}}

Reconcile(u) ==
    /\ at = None /\ u \in queue
    /\ queue' = queue \ {u}
    /\ at' = u /\ todo' = FindAllExposersForUI(u)
    /\ UNCHANGED <<caches, events, list, notReadySince, timer, apps, pending>>

\* A mutation of Following: in the order of the cache, which is none.
FollowingAny(reads) == reads

\* The exposer that comes next, as a set.
Following(reads) == {r \in reads : \A other \in reads : r.path <= other.path}

Processed == {app.comp : app \in apps} \cup pending

\* An exposer of a component seen already is skipped, and so is one without component.
GetComponentForExposer ==
    /\ at # None /\ todo # {}
    /\ \E r \in Following(todo) :
         LET s == status[r.comp]
             seen == r.comp \in Processed
         IN  /\ todo' = todo \ {r}
             /\ pending' = IF s = "pending" /\ ~seen THEN pending \cup {r.comp} ELSE pending
             /\ apps' = IF s \in Versions /\ ~seen
                          THEN apps \cup {[comp |-> r.comp, version |-> s, path |-> r.path]}
                          ELSE apps
    /\ UNCHANGED <<caches, events, list, notReadySince, queue, timer, at>>

\* A mutation of Finish: what was found is taken along to the next UI.
FinishKeepsApps == at' = None /\ todo' = {} /\ UNCHANGED <<apps, pending>>

Finish == at' = None /\ todo' = {} /\ apps' = {} /\ pending' = {}

\* A mutation of Prefix: the name of one UI can begin that of another.
PrefixOfName(u) == u

Prefix(u) == Append(u, "/")

\* gcNotReadySince: of the times of this UI those of components that are not ready are
\* kept, and all those of other UIs; then components seen for the first time get one.
Kept(u, times, notReady) ==
    [k \in Keys |-> IF IsPrefix(Prefix(u), k) /\ k \notin {Key(u, c) : c \in notReady}
                     THEN None ELSE times[k]]

Noted(u, times, notReady) ==
    [k \in Keys |-> IF k \in {Key(u, c) : c \in notReady} /\ times[k] = None
                     THEN 0 ELSE times[k]]

Times == Noted(at, Kept(at, notReadySince, pending), pending)

\* A list that exists is held off while a component is not ready, and has not been for
\* long.
WriteList ==
    /\ at # None /\ todo = {}
    /\ notReadySince' = Times
    /\ IF list[at] # None /\ \E c \in pending : Times[Key(at, c)] < Cap
         THEN timer' = timer \cup {at} /\ UNCHANGED list
         ELSE list' = [list EXCEPT ![at] = apps] /\ UNCHANGED timer
    /\ Finish
    /\ UNCHANGED <<caches, events, queue>>

Work == GetComponentForExposer \/ WriteList

-----------------------------------------------------------------------------
(* Time, users, components, failures. *)

Older(t) == IF t = None THEN None ELSE IF t < Cap THEN t + 1 ELSE t

\* A reconciliation takes no time.  From time to time the informers send everything
\* again.
Tick(resync) ==
    /\ at = None /\ queue = {}
    /\ notReadySince' = [k \in Keys |-> Older(notReadySince[k])]
    /\ queue' = (IF resync THEN UIs ELSE timer) /\ timer' = {}
    /\ UNCHANGED <<caches, events, list, worker>>

\* The cache gets a new exposer, a new version of one, or loses one.
ChangeExposer(e, o) ==
    /\ e \in Moving
    /\ ex[e] # o /\ ex' = [ex EXCEPT ![e] = o]
    /\ moved' = moved \cup MapExposerToUI(ex[e], o)
    /\ UNCHANGED <<status, stirred, list, notReadySince, queue, timer, worker>>

\* It gets another version of a component, or loses it.
ChangeComponent(c, s) ==
    /\ "status" \in Disturbances
    /\ status[c] # s /\ status' = [status EXCEPT ![c] = s] /\ stirred' = stirred \cup {c}
    /\ UNCHANGED <<ex, moved, list, notReadySince, queue, timer, worker>>

\* When the write fails the times have been noted.
Fail ==
    /\ "fail" \in Disturbances
    /\ at # None
    /\ \/ UNCHANGED notReadySince
       \/ todo = {} /\ notReadySince' = Times
    /\ Finish /\ queue' = queue \cup {at}
    /\ UNCHANGED <<caches, events, list, timer>>

-----------------------------------------------------------------------------

\* The caches are filled and every UI is queued when the controller starts.
Init ==
    /\ ex \in [Exposers -> Exposer \cup {None}]
    /\ status \in [Components -> {"missing", "pending"} \cup Versions]
    /\ moved = {} /\ stirred = {}
    /\ list = [u \in UIs |-> None]
    /\ notReadySince = [k \in Keys |-> None]
    /\ queue = UIs /\ timer = {}
    /\ at = None /\ todo = {} /\ apps = {} /\ pending = {}

Hear ==
    \/ \E u \in UIs : HearOfExposer(u)
    \/ \E c \in Components : HearOfComponent(c)

Take == \E u \in UIs : Reconcile(u)

Time == \E resync \in BOOLEAN : Tick(resync)

Disturb ==
    \/ \E e \in Exposers, o \in Exposer \cup {None} : ChangeExposer(e, o)
    \/ \E c \in Components, s \in {"missing", "pending"} \cup Versions : ChangeComponent(c, s)
    \/ Fail

Next == Hear \/ Take \/ Work \/ Time \/ Disturb

Spec == Init /\ [][Next]_vars

\* The handlers hear of everything, the queue starves nobody, the worker goes on, time
\* passes.
Fairness ==
    /\ \A u \in UIs : WF_vars(HearOfExposer(u)) /\ SF_vars(Reconcile(u))
    /\ \A c \in Components : WF_vars(HearOfComponent(c))
    /\ WF_vars(Work) /\ WF_vars(Time)

FairSpec == Spec /\ Fairness

-----------------------------------------------------------------------------
(* Properties. *)

\* The exposers that bring a component into a UI.
Bringing(u, c) == {e \in Exposers : ex[e] # None /\ ex[e].ui = u /\ ex[e].comp = c}

\* What the list of a UI should be: of every component that is ready and exposed, what
\* it says, under the path of the first exposer.
Canonical(u) ==
    {[comp |-> c, version |-> status[c], path |-> Min(Bringing(u, c))] :
        c \in {d \in Components : status[d] \in Versions /\ Bringing(u, d) # {}}}

\* No event is lost between the caches and the lists: as long as the list of a UI is not
\* what the caches say, the UI is queued, waits for its timer or is being reconciled, or
\* a handler that will queue it is yet to hear of a change - although the handler of
\* components looks for the UIs in a cache that may have changed by then
\* (event_mappers.go:44-73).
NoLostEvent ==
    \A u \in UIs :
        list[u] # Canonical(u) =>
            \/ u \in moved \cup queue \cup timer \cup {at}
            \/ \E c \in stirred : u \in MapComponentToUI(c)

\* The reconciliation of one UI changes nothing of another, neither its list nor its times,
\* although the times are in one map, where those of a UI are found by a prefix of their
\* keys, and the name of one UI may begin that of another (controller.go:170-191,
\* deployed_apps_configmap.go:255-278).
OthersLeftAlone ==
    [][at # None => \A u \in UIs \ {at} :
          /\ list'[u] = list[u]
          /\ \A c \in Components : notReadySince'[Key(u, c)] = notReadySince[Key(u, c)]]_vars

\* From some time on nobody disturbs the controller.
Calm == <>[][Hear \/ Take \/ Work \/ Time]_vars

\* Left alone, every list becomes what it should be and then stays the same, however
\* often everything is reconciled again (exposer_service.go:44-47: otherwise "any
\* non-determinism here flaps the hash"), and whatever the other UIs are waiting for.
ListsConverge == Calm => <>[]\A u \in UIs : list[u] = Canonical(u)
=============================================================================
