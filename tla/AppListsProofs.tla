---------------------------- MODULE AppListsProofs ----------------------------
(* Proofs about the lists of applications, for every set of exposers, UIs and *)
(* components.                                                                *)
EXTENDS AppLists, SequenceTheorems, TLAPS

\* What the worker reads and what it makes of it.
LEMMA ReadType ==
    ASSUME CachesTyped, NEW u \in UIs
    PROVE  FindAllExposersForUI(u) \subseteq Read
  BY NoneAssumption DEF CachesTyped, FindAllExposersForUI, Read, Exposer

LEMMA MappedTypes ==
    ASSUME CachesTyped
    PROVE  /\ \A c \in Components : MapComponentToUI(c) \subseteq UIs
           /\ \A e \in Exposers, o \in Exposer \cup {None} : MapExposerToUI(ex[e], o) \subseteq UIs
  BY DEF CachesTyped, MapComponentToUI, MapExposerToUI, Exposer

LEMMA TimesTypes ==
    ASSUME ListsTyped
    PROVE  /\ Times \in [Keys -> 0 .. Cap \cup {None}]
           /\ [k \in Keys |-> Older(notReadySince[k])] \in [Keys -> 0 .. Cap \cup {None}]
  <1>1. Kept(at, notReadySince, pending) \in [Keys -> 0 .. Cap \cup {None}]
    BY DEF ListsTyped, Kept
  <1>2. Times \in [Keys -> 0 .. Cap \cup {None}]
    BY <1>1, CapAssumption DEF Times, Noted
  <1>3. \A t \in 0 .. Cap \cup {None} : Older(t) \in 0 .. Cap \cup {None}
    BY CapAssumption DEF Older
  <1>4. [k \in Keys |-> Older(notReadySince[k])] \in [Keys -> 0 .. Cap \cup {None}]
    BY <1>3 DEF ListsTyped
  <1> QED BY <1>2, <1>4

LEMMA TypeInit == Init => TypeOK
  <1> SUFFICES ASSUME Init
               PROVE  TypeOK
    OBVIOUS
  <1>1. CachesTyped
    BY DEF Init, CachesTyped
  <1>2. ListsTyped
    BY DEF Init, ListsTyped
  <1>3. WorkerTyped
    BY DEF Init, WorkerTyped
  <1> QED BY <1>1, <1>2, <1>3 DEF TypeOK

LEMMA SameTyped ==
    ASSUME TypeOK
    PROVE  /\ UNCHANGED <<caches, events>> => CachesTyped'
           /\ UNCHANGED worker => WorkerTyped'
           /\ Finish => WorkerTyped'
  BY DEF TypeOK, CachesTyped, WorkerTyped, caches, events, worker, Finish

LEMMA TypeStep == TypeOK /\ [Next]_vars => TypeOK'
  <1> SUFFICES ASSUME TypeOK, CachesTyped, ListsTyped, WorkerTyped, [Next]_vars
               PROVE  TypeOK'
    BY DEF TypeOK
  <1>1. CASE Hear
    <2>1. WorkerTyped'
      BY <1>1, SameTyped DEF Hear, HearOfExposer, HearOfComponent
    <2>2. CachesTyped' /\ ListsTyped'
      BY <1>1, MappedTypes
         DEF Hear, HearOfExposer, HearOfComponent, caches, CachesTyped, ListsTyped
    <2> QED BY <2>1, <2>2 DEF TypeOK
  <1>2. CASE Take
    <2>1. PICK u \in UIs : Reconcile(u)
      BY <1>2 DEF Take
    <2>2. WorkerTyped'
      BY <2>1, ReadType, NoneAssumption DEF Reconcile, WorkerTyped
    <2>3. CachesTyped' /\ ListsTyped'
      BY <2>1, SameTyped DEF Reconcile, ListsTyped
    <2> QED BY <2>2, <2>3 DEF TypeOK
  <1>3. CASE GetComponentForExposer
    <2>1. PICK r \in Following(todo) :
            LET s == status[r.comp]
                seen == r.comp \in Processed
            IN  /\ todo' = todo \ {r}
                /\ pending' = IF s = "pending" /\ ~seen THEN pending \cup {r.comp} ELSE pending
                /\ apps' = IF s \in Versions /\ ~seen
                             THEN apps \cup {[comp |-> r.comp, version |-> s, path |-> r.path]}
                             ELSE apps
      BY <1>3 DEF GetComponentForExposer
    <2>2. r \in Read /\ r.comp \in Components /\ r.path \in Exposers
      BY <2>1 DEF Following, WorkerTyped, Read
    <2>3. WorkerTyped'
      BY <1>3, <2>1, <2>2 DEF GetComponentForExposer, WorkerTyped, App
    <2>4. CachesTyped' /\ ListsTyped'
      BY <1>3, SameTyped DEF GetComponentForExposer, ListsTyped
    <2> QED BY <2>3, <2>4 DEF TypeOK
  <1>4. CASE WriteList
    <2>1. CachesTyped' /\ WorkerTyped'
      BY <1>4, SameTyped DEF WriteList
    <2>2. list' \in [UIs -> (SUBSET App) \cup {None}] /\ timer' \in SUBSET UIs
      BY <1>4 DEF WriteList, ListsTyped, WorkerTyped
    <2>3. ListsTyped'
      BY <1>4, <2>2, TimesTypes DEF WriteList, ListsTyped
    <2> QED BY <2>1, <2>3 DEF TypeOK
  <1>5. CASE Time
    <2>1. CachesTyped' /\ WorkerTyped'
      BY <1>5, SameTyped DEF Time, Tick
    <2>2. ListsTyped'
      BY <1>5, TimesTypes DEF Time, Tick, ListsTyped
    <2> QED BY <2>1, <2>2 DEF TypeOK
  <1>6. ASSUME NEW e \in Exposers, NEW o \in Exposer \cup {None}, ChangeExposer(e, o)
        PROVE  TypeOK'
    <2>1. WorkerTyped' /\ ListsTyped'
      BY <1>6, SameTyped DEF ChangeExposer, ListsTyped
    <2>2. CachesTyped'
      BY <1>6, MappedTypes DEF ChangeExposer, CachesTyped
    <2> QED BY <2>1, <2>2 DEF TypeOK
  <1>7. ASSUME NEW c \in Components, NEW s \in {"missing", "pending"} \cup Versions,
               ChangeComponent(c, s)
        PROVE  TypeOK'
    <2>1. WorkerTyped' /\ ListsTyped'
      BY <1>7, SameTyped DEF ChangeComponent, ListsTyped
    <2>2. CachesTyped'
      BY <1>7 DEF ChangeComponent, CachesTyped
    <2> QED BY <2>1, <2>2 DEF TypeOK
  <1>8. CASE Fail
    <2>1. CachesTyped' /\ WorkerTyped'
      BY <1>8, SameTyped DEF Fail
    <2>2. ListsTyped'
      BY <1>8, TimesTypes DEF Fail, ListsTyped, WorkerTyped
    <2> QED BY <2>1, <2>2 DEF TypeOK
  <1>9. CASE UNCHANGED vars
    BY <1>9 DEF vars, TypeOK, CachesTyped, ListsTyped, WorkerTyped
  <1> QED BY <1>1, <1>2, <1>3, <1>4, <1>5, <1>6, <1>7, <1>8, <1>9 DEF Next, Work, Disturb

\* Lists hold applications, times are below the cap, and a worker at rest holds nothing.
THEOREM TypeCorrect == Spec => []TypeOK
  BY TypeInit, TypeStep, PTL DEF Spec

-----------------------------------------------------------------------------
(* No event is lost. *)

\* Something is under way that will bring the worker to u again.
Disturbed(u) ==
    u \in moved \cup queue \/ \E c \in stirred : u \in MapComponentToUI(c)

\* What the worker has looked at, if nothing changed since it began.
Seen == FindAllExposersForUI(at) \ todo

IsFirst(r, done) == \A o \in done : o.comp = r.comp => r.path <= o.path

AppOf(r) == [comp |-> r.comp, version |-> status[r.comp], path |-> r.path]

AppsOf(done) == {AppOf(r) : r \in {f \in done : status[f.comp] \in Versions /\ IsFirst(f, done)}}

PendingOf(done) == {r.comp : r \in {f \in done : status[f.comp] = "pending"}}

\* It goes through the exposers in order, and has found the first of each component.
InOrder(done, left) ==
    /\ \A r \in done, t \in left : r.path < t.path
    /\ \A r \in done : \E f \in done : f.comp = r.comp /\ IsFirst(f, done)

WalkInv ==
    at # None /\ ~Disturbed(at) =>
        /\ todo \subseteq FindAllExposersForUI(at)
        /\ InOrder(Seen, todo)
        /\ apps = AppsOf(Seen) /\ pending = PendingOf(Seen)

EventInv == TypeOK /\ WalkInv /\ NoLostEvent

\* The path of a read tells it from the others.
LEMMA ReadsDiffer ==
    ASSUME CachesTyped, NEW u \in UIs
    PROVE  /\ \A r, o \in FindAllExposersForUI(u) : r.path = o.path => r = o
           /\ \A r \in FindAllExposersForUI(u) :
                r \in Read /\ r.path \in Exposers /\ r.path \in Nat /\ r.comp \in Components
  <1>1. FindAllExposersForUI(u) \subseteq Read
    BY ReadType
  <1>2. \A r \in FindAllExposersForUI(u) :
          r.path \in Exposers /\ r = [path |-> r.path, comp |-> ex[r.path].comp]
    BY DEF FindAllExposersForUI
  <1> QED BY <1>1, <1>2, ExposersAssumption DEF Read

\* One more exposer: the next one in order.
LEMMA NextInOrder ==
    ASSUME NEW done, NEW left, \A r \in done \cup left : r.path \in Nat,
           \A r, o \in done \cup left : r.path = o.path => r = o,
           InOrder(done, left), NEW n \in Following(left)
    PROVE  /\ InOrder(done \cup {n}, left \ {n})
           /\ \A r \in done : IsFirst(r, done \cup {n}) <=> IsFirst(r, done)
           /\ IsFirst(n, done \cup {n}) <=> ~\E r \in done : r.comp = n.comp
  <1>1. n \in left /\ \A o \in left : n.path <= o.path
    BY DEF Following
  <1>2. \A r \in done : r.path < n.path
    BY <1>1 DEF InOrder
  <1>3. \A r \in done : IsFirst(r, done \cup {n}) <=> IsFirst(r, done)
    BY <1>1, <1>2 DEF IsFirst
  <1>4. IsFirst(n, done \cup {n}) <=> ~\E r \in done : r.comp = n.comp
    BY <1>1, <1>2 DEF IsFirst
  <1>5. \A r \in done \cup {n}, t \in left \ {n} : r.path < t.path
    <2>1. \A t \in left \ {n} : n.path < t.path
      BY <1>1
    <2> QED BY <2>1 DEF InOrder
  <1>6. \A r \in done \cup {n} : \E f \in done \cup {n} :
          f.comp = r.comp /\ IsFirst(f, done \cup {n})
    BY <1>3, <1>4 DEF InOrder
  <1> QED BY <1>3, <1>4, <1>5, <1>6 DEF InOrder

\* What it finds is what there is to find.
LEMMA FoundSoFar ==
    ASSUME NEW done, NEW left, \A r \in done \cup left : r.path \in Nat,
           \A r, o \in done \cup left : r.path = o.path => r = o,
           InOrder(done, left), NEW n \in Following(left)
    PROVE  LET seen == \E r \in done : r.comp = n.comp /\ status[r.comp] \in Versions \cup {"pending"}
           IN  /\ AppsOf(done \cup {n}) =
                    IF status[n.comp] \in Versions /\ ~seen THEN AppsOf(done) \cup {AppOf(n)}
                                                            ELSE AppsOf(done)
               /\ PendingOf(done \cup {n}) =
                    IF status[n.comp] = "pending" /\ ~seen THEN PendingOf(done) \cup {n.comp}
                                                           ELSE PendingOf(done)
               /\ seen <=> n.comp \in {app.comp : app \in AppsOf(done)} \cup PendingOf(done)
  <1> DEFINE seen == \E r \in done : r.comp = n.comp /\ status[r.comp] \in Versions \cup {"pending"}
             new == done \cup {n}
  <1>1. /\ \A r \in done : IsFirst(r, new) <=> IsFirst(r, done)
        /\ IsFirst(n, new) <=> ~\E r \in done : r.comp = n.comp
    BY NextInOrder
  <1>2. status[n.comp] \in Versions => (IsFirst(n, new) <=> ~seen)
    BY <1>1
  <1>3. AppsOf(new) = IF status[n.comp] \in Versions /\ ~seen THEN AppsOf(done) \cup {AppOf(n)}
                                                              ELSE AppsOf(done)
    BY <1>1, <1>2 DEF AppsOf
  <1>4. PendingOf(new) = IF status[n.comp] = "pending" /\ ~seen THEN PendingOf(done) \cup {n.comp}
                                                                ELSE PendingOf(done)
    <2>1. CASE status[n.comp] = "pending"
      <3>1. seen <=> n.comp \in PendingOf(done)
        BY <2>1 DEF PendingOf
      <3> QED BY <2>1, <3>1 DEF PendingOf
    <2>2. CASE status[n.comp] # "pending"
      BY <2>2 DEF PendingOf
    <2> QED BY <2>1, <2>2
  <1>5. seen <=> n.comp \in {app.comp : app \in AppsOf(done)} \cup PendingOf(done)
    <2>1. ASSUME seen
          PROVE  n.comp \in {app.comp : app \in AppsOf(done)} \cup PendingOf(done)
      <3>1. PICK r \in done : r.comp = n.comp /\ status[r.comp] \in Versions \cup {"pending"}
        BY <2>1
      <3>2. CASE status[r.comp] = "pending"
        BY <3>1, <3>2 DEF PendingOf
      <3>3. CASE status[r.comp] \in Versions
        <4>1. PICK f \in done : f.comp = r.comp /\ IsFirst(f, done)
          BY DEF InOrder
        <4>2. AppOf(f) \in AppsOf(done) /\ AppOf(f).comp = n.comp
          BY <3>1, <3>3, <4>1 DEF AppsOf, AppOf
        <4> QED BY <4>2
      <3> QED BY <3>1, <3>2, <3>3
    <2>2. ASSUME n.comp \in {app.comp : app \in AppsOf(done)}
          PROVE  seen
      BY <2>2 DEF AppsOf, AppOf
    <2>3. ASSUME n.comp \in PendingOf(done)
          PROVE  seen
      BY <2>3 DEF PendingOf
    <2> QED BY <2>1, <2>2, <2>3
  <1> HIDE DEF new
  <1> QED BY <1>3, <1>4, <1>5 DEF new

\* At the end it has the list as it should be.
LEMMA WalkIsComplete ==
    ASSUME CachesTyped, NEW u \in UIs, InOrder(FindAllExposersForUI(u), {})
    PROVE  AppsOf(FindAllExposersForUI(u)) = Canonical(u)
  <1> DEFINE all == FindAllExposersForUI(u)
  <1>1. \A c \in Components, e \in Exposers :
          e \in Bringing(u, c) <=> [path |-> e, comp |-> c] \in all
    BY NoneAssumption DEF Bringing, FindAllExposersForUI, CachesTyped, Exposer
  <1>2. \A r \in all : /\ r.comp \in Components /\ r.path \in Nat /\ r.path \in Exposers
                       /\ r = [path |-> r.path, comp |-> r.comp]
    BY ReadsDiffer DEF Read
  <1> HIDE DEF all
  <1>3. ASSUME NEW r \in all, IsFirst(r, all)
        PROVE  Min(Bringing(u, r.comp)) = r.path /\ Bringing(u, r.comp) # {}
    <2>1. r.path \in Bringing(u, r.comp)
      BY <1>1, <1>2
    <2>2. \A e \in Bringing(u, r.comp) : r.path <= e
      <3> SUFFICES ASSUME NEW e \in Bringing(u, r.comp)
                   PROVE  r.path <= e
        OBVIOUS
      <3>1. e \in Exposers
        BY DEF Bringing
      <3>2. [path |-> e, comp |-> r.comp] \in all
        BY <1>1, <1>2, <3>1
      <3> QED BY <1>3, <3>2 DEF IsFirst
    <2>3. Bringing(u, r.comp) \subseteq Nat
      BY ExposersAssumption DEF Bringing
    <2> QED BY <2>1, <2>2, <2>3 DEF Min
  <1>4. ASSUME NEW c \in Components, Bringing(u, c) # {}
        PROVE  \E r \in all : r.comp = c /\ IsFirst(r, all)
    <2>1. PICK e \in Bringing(u, c) : TRUE
      BY <1>4
    <2>2. [path |-> e, comp |-> c] \in all
      BY <1>1, <2>1 DEF Bringing
    <2> QED BY <2>2 DEF InOrder, all
  <1>5. AppsOf(all) \subseteq Canonical(u)
    BY <1>2, <1>3 DEF AppsOf, AppOf, Canonical
  <1>6. ASSUME NEW c \in Components, status[c] \in Versions, Bringing(u, c) # {}
        PROVE  [comp |-> c, version |-> status[c], path |-> Min(Bringing(u, c))] \in AppsOf(all)
    <2>1. PICK r \in all : r.comp = c /\ IsFirst(r, all)
      BY <1>4, <1>6
    <2>2. AppOf(r) \in AppsOf(all)
      BY <1>6, <2>1 DEF AppsOf
    <2>3. AppOf(r) = [comp |-> c, version |-> status[c], path |-> Min(Bringing(u, c))]
      BY <1>3, <2>1 DEF AppOf
    <2> QED BY <2>2, <2>3
  <1>7. Canonical(u) \subseteq AppsOf(all)
    BY <1>6 DEF Canonical
  <1> QED BY <1>5, <1>7 DEF all

\* Whatever happens, a UI that is disturbed stays so until the worker takes it, and what
\* the worker looks at does not change under it unless the UI is disturbed.
LEMMA CalmLists ==
    ASSUME TypeOK, Next, NEW u \in UIs, ~Disturbed(u)', ~\E w \in UIs : Reconcile(w)
    PROVE  /\ ~Disturbed(u)
           /\ FindAllExposersForUI(u)' = FindAllExposersForUI(u)
           /\ \A r \in FindAllExposersForUI(u) : status'[r.comp] = status[r.comp]
           /\ Canonical(u)' = Canonical(u)
  <1> USE DEF TypeOK, CachesTyped
  <1>1. CASE UNCHANGED caches
    <2>1. /\ FindAllExposersForUI(u)' = FindAllExposersForUI(u)
          /\ \A c \in Components : MapComponentToUI(c)' = MapComponentToUI(c)
          /\ Canonical(u)' = Canonical(u)
          /\ status' = status
      BY <1>1 DEF caches, FindAllExposersForUI, MapComponentToUI, Canonical, Bringing
    <2>2. ~Disturbed(u)
      <3>1. CASE Hear
        BY <2>1, <3>1 DEF Hear, HearOfExposer, HearOfComponent, Disturbed
      <3>2. CASE ~Hear
        <4>1. moved' = moved /\ stirred' = stirred /\ queue \subseteq queue'
          BY <1>1, <3>2 DEF Next, Take, Work, GetComponentForExposer, WriteList, Time, Tick, Disturb,
                     ChangeExposer, ChangeComponent, Fail, events, caches
        <4> QED BY <2>1, <4>1 DEF Disturbed
      <3> QED BY <3>1, <3>2
    <2> QED BY <2>1, <2>2
  <1>2. ASSUME NEW e \in Exposers, NEW o \in Exposer \cup {None}, ChangeExposer(e, o)
        PROVE  /\ ~Disturbed(u)
               /\ FindAllExposersForUI(u)' = FindAllExposersForUI(u)
               /\ \A r \in FindAllExposersForUI(u) : status'[r.comp] = status[r.comp]
               /\ Canonical(u)' = Canonical(u)
    <2>1. u \notin moved' /\ status' = status /\ stirred' = stirred /\ queue' = queue
          /\ moved \subseteq moved' /\ ex' = [ex EXCEPT ![e] = o]
      BY <1>2 DEF ChangeExposer, Disturbed
    <2>2. u \notin MapExposerToUI(ex[e], o)
      BY <1>2, <2>1 DEF ChangeExposer
    <2>3. (ex[e] # None => ex[e].ui # u) /\ (o # None => o.ui # u)
      BY <2>2 DEF MapExposerToUI
    <2>4. \A f \in Exposers : (ex'[f] # None /\ ex'[f].ui = u) <=> (ex[f] # None /\ ex[f].ui = u)
      BY <2>1, <2>3
    <2>5. \A f \in Exposers : ex[f] # None /\ ex[f].ui = u => ex'[f] = ex[f]
      BY <2>1, <2>3
    <2>6. FindAllExposersForUI(u)' = FindAllExposersForUI(u)
      BY <2>4, <2>5 DEF FindAllExposersForUI
    <2>7. \A c \in Components : u \in MapComponentToUI(c)' <=> u \in MapComponentToUI(c)
      BY <2>4, <2>5 DEF MapComponentToUI
    <2>8. \A c \in Components : Bringing(u, c)' = Bringing(u, c)
      BY <2>4, <2>5 DEF Bringing
    <2>9. Canonical(u)' = Canonical(u)
      BY <2>1, <2>8 DEF Canonical
    <2> QED BY <2>1, <2>6, <2>7, <2>9 DEF Disturbed
  <1>3. ASSUME NEW c \in Components, NEW s \in {"missing", "pending"} \cup Versions,
               ChangeComponent(c, s)
        PROVE  /\ ~Disturbed(u)
               /\ FindAllExposersForUI(u)' = FindAllExposersForUI(u)
               /\ \A r \in FindAllExposersForUI(u) : status'[r.comp] = status[r.comp]
               /\ Canonical(u)' = Canonical(u)
    <2>1. ex' = ex /\ status' = [status EXCEPT ![c] = s] /\ stirred' = stirred \cup {c}
          /\ moved' = moved /\ queue' = queue
      BY <1>3 DEF ChangeComponent
    <2>2. /\ FindAllExposersForUI(u)' = FindAllExposersForUI(u)
          /\ \A d \in Components : MapComponentToUI(d)' = MapComponentToUI(d)
          /\ \A d \in Components : Bringing(u, d)' = Bringing(u, d)
      BY <2>1 DEF FindAllExposersForUI, MapComponentToUI, Bringing
    <2>3. u \notin MapComponentToUI(c)
      BY <2>1, <2>2 DEF Disturbed
    <2>4. \A r \in FindAllExposersForUI(u) : r.comp # c
      BY <2>3 DEF FindAllExposersForUI, MapComponentToUI
    <2>5. Bringing(u, c) = {}
      BY <2>3 DEF Bringing, MapComponentToUI
    <2>6. \A d \in Components : d # c => status'[d] = status[d]
      BY <2>1
    <2>7. Canonical(u)' = Canonical(u)
      BY <2>2, <2>5, <2>6 DEF Canonical
    <2>8. \A r \in FindAllExposersForUI(u) : status'[r.comp] = status[r.comp]
      BY <2>4, <2>6, ReadsDiffer
    <2> QED BY <2>1, <2>2, <2>7, <2>8 DEF Disturbed
  <1>4. \/ UNCHANGED caches
        \/ \E e \in Exposers, o \in Exposer \cup {None} : ChangeExposer(e, o)
        \/ \E c \in Components, s \in {"missing", "pending"} \cup Versions : ChangeComponent(c, s)
    BY DEF Next, Hear, HearOfExposer, HearOfComponent, Take, Work, GetComponentForExposer, WriteList,
           Time, Tick, Disturb, Fail
  <1> QED BY <1>1, <1>2, <1>3, <1>4


\* The worker begins: it has seen nothing yet.
LEMMA WalkBegins ==
    ASSUME TypeOK, NEW u \in UIs, Reconcile(u)
    PROVE  WalkInv'
  <1>1. /\ at' = u /\ todo' = FindAllExposersForUI(u)
        /\ FindAllExposersForUI(at)' = FindAllExposersForUI(u)
        /\ apps' = {} /\ pending' = {}
    BY DEF Reconcile, TypeOK, WorkerTyped, caches, FindAllExposersForUI
  <1>2. Seen' = {} /\ todo' \subseteq FindAllExposersForUI(at)'
    BY <1>1 DEF Seen
  <1>3. InOrder({}, todo')
    BY DEF InOrder
  <1>4. AppsOf({})' = {} /\ PendingOf({})' = {}
    BY DEF AppsOf, PendingOf
  <1>5. InOrder(Seen, todo)' /\ AppsOf(Seen)' = {} /\ PendingOf(Seen)' = {}
    BY <1>2, <1>3, <1>4 DEF InOrder, AppsOf, PendingOf
  <1> QED BY <1>1, <1>2, <1>5 DEF WalkInv

\* It looks at one exposer more.
LEMMA WalkGoesOn ==
    ASSUME TypeOK, WalkInv, GetComponentForExposer, ~Disturbed(at)
    PROVE  WalkInv'
  <1>1. at \in UIs /\ UNCHANGED <<ex, status, at>> /\ todo \subseteq Read
    BY DEF GetComponentForExposer, TypeOK, WorkerTyped, caches
  <1>2. /\ todo \subseteq FindAllExposersForUI(at) /\ InOrder(Seen, todo)
        /\ apps = AppsOf(Seen) /\ pending = PendingOf(Seen)
    BY DEF WalkInv, GetComponentForExposer
  <1>3. PICK n \in Following(todo) :
          LET s == status[n.comp]
              seen == n.comp \in Processed
          IN  /\ todo' = todo \ {n}
              /\ pending' = IF s = "pending" /\ ~seen THEN pending \cup {n.comp} ELSE pending
              /\ apps' = IF s \in Versions /\ ~seen
                           THEN apps \cup {[comp |-> n.comp, version |-> s, path |-> n.path]}
                           ELSE apps
    BY DEF GetComponentForExposer
  <1>4. Seen \cup todo = FindAllExposersForUI(at) /\ n \in todo
    BY <1>2, <1>3 DEF Seen, Following
  <1>5. /\ \A r \in Seen \cup todo : r.path \in Nat
        /\ \A r, o \in Seen \cup todo : r.path = o.path => r = o
    BY <1>1, <1>4, ReadsDiffer DEF TypeOK
  <1>6. FindAllExposersForUI(at)' = FindAllExposersForUI(at)
    BY <1>1 DEF FindAllExposersForUI
  <1>7. Seen' = Seen \cup {n}
    BY <1>3, <1>4, <1>6 DEF Seen
  <1>8. InOrder(Seen \cup {n}, todo \ {n})
    BY <1>2, <1>5, NextInOrder
  <1> DEFINE seen == \E r \in Seen : r.comp = n.comp /\ status[r.comp] \in Versions \cup {"pending"}
  <1>9. /\ AppsOf(Seen \cup {n}) =
             IF status[n.comp] \in Versions /\ ~seen THEN AppsOf(Seen) \cup {AppOf(n)}
                                                     ELSE AppsOf(Seen)
        /\ PendingOf(Seen \cup {n}) =
             IF status[n.comp] = "pending" /\ ~seen THEN PendingOf(Seen) \cup {n.comp}
                                                    ELSE PendingOf(Seen)
        /\ seen <=> n.comp \in {app.comp : app \in AppsOf(Seen)} \cup PendingOf(Seen)
    BY <1>2, <1>5, FoundSoFar
  <1>10. seen <=> n.comp \in Processed
    BY <1>2, <1>9 DEF Processed
  <1> HIDE DEF seen
  <1>11. apps' = AppsOf(Seen \cup {n}) /\ pending' = PendingOf(Seen \cup {n})
    BY <1>2, <1>3, <1>9, <1>10 DEF AppOf
  <1>12. AppsOf(Seen)' = AppsOf(Seen \cup {n}) /\ PendingOf(Seen)' = PendingOf(Seen \cup {n})
    BY <1>1, <1>7 DEF AppsOf, PendingOf, AppOf
  <1>13. InOrder(Seen, todo)'
    BY <1>3, <1>7, <1>8 DEF InOrder
  <1>14. todo' \subseteq FindAllExposersForUI(at)'
    BY <1>2, <1>3, <1>6
  <1> QED BY <1>11, <1>12, <1>13, <1>14 DEF WalkInv

LEMMA WalkStep == EventInv /\ [Next]_vars => WalkInv'
  <1> SUFFICES ASSUME TypeOK, WalkInv, [Next]_vars, at' # None, ~Disturbed(at)'
               PROVE  WalkInv'
    BY DEF EventInv, WalkInv
  <1>1. CASE \E u \in UIs : Reconcile(u)
    BY <1>1, WalkBegins
  <1>2. CASE Next /\ ~\E u \in UIs : Reconcile(u)
    <2>1. at' = at /\ at \in UIs
      BY <1>2 DEF Next, Hear, HearOfExposer, HearOfComponent, Take, Work, GetComponentForExposer,
                  WriteList, Finish, Time, Tick, Disturb, ChangeExposer, ChangeComponent, Fail,
                  worker, TypeOK, WorkerTyped
    <2>2. ~Disturbed(at)'  /\ ~Disturbed(at)
      BY <1>2, <2>1, CalmLists
    <2>3. CASE GetComponentForExposer
      BY <2>2, <2>3, WalkGoesOn
    <2>4. CASE ~GetComponentForExposer
      <3>1. UNCHANGED <<at, todo, apps, pending>>
        BY <1>2, <2>1, <2>4, at' # None
           DEF Next, Hear, HearOfExposer, HearOfComponent, Take, Work,
               WriteList, Finish, Time, Tick, Disturb, ChangeExposer, ChangeComponent, Fail, worker
      <3>2. /\ FindAllExposersForUI(at)' = FindAllExposersForUI(at)
            /\ \A r \in FindAllExposersForUI(at) : status'[r.comp] = status[r.comp]
        BY <1>2, <2>1, <2>2, CalmLists
      <3>3. Seen' = Seen
        BY <3>1, <3>2 DEF Seen
      <3>4. AppsOf(Seen)' = AppsOf(Seen) /\ PendingOf(Seen)' = PendingOf(Seen)
        BY <3>2, <3>3 DEF Seen, AppsOf, AppOf, PendingOf
      <3>5. /\ todo \subseteq FindAllExposersForUI(at) /\ InOrder(Seen, todo)
            /\ apps = AppsOf(Seen) /\ pending = PendingOf(Seen)
        BY <2>1, <2>2, NoneAssumption DEF WalkInv
      <3> QED BY <3>1, <3>2, <3>3, <3>4, <3>5 DEF WalkInv, InOrder
    <2> QED BY <2>3, <2>4
  <1>3. CASE UNCHANGED vars
    <2>1. Disturbed(at)' = Disturbed(at) /\ FindAllExposersForUI(at)' = FindAllExposersForUI(at)
      BY <1>3 DEF vars, Disturbed, MapComponentToUI, FindAllExposersForUI
    <2>2. Seen' = Seen
      BY <1>3, <2>1 DEF vars, Seen
    <2>3. AppsOf(Seen)' = AppsOf(Seen) /\ PendingOf(Seen)' = PendingOf(Seen)
      BY <1>3, <2>2 DEF vars, AppsOf, AppOf, PendingOf
    <2> QED BY <1>3, <2>1, <2>2, <2>3 DEF vars, WalkInv, InOrder
  <1> QED BY <1>1, <1>2, <1>3

\* The worker ends with the list as it should be, holds it off, or is disturbed.
LEMMA ListWritten ==
    ASSUME EventInv, WriteList, ~Disturbed(at)
    PROVE  at \in timer' \/ list'[at] = Canonical(at)
  <1>1. at \in UIs /\ todo = {} /\ list \in [UIs -> (SUBSET App) \cup {None}] /\ CachesTyped
    BY DEF WriteList, EventInv, TypeOK, WorkerTyped, ListsTyped
  <1>2. apps = AppsOf(Seen) /\ InOrder(Seen, {}) /\ Seen = FindAllExposersForUI(at)
    BY <1>1, NoneAssumption DEF EventInv, WalkInv, Seen
  <1>3. apps = Canonical(at)
    BY <1>1, <1>2, WalkIsComplete
  <1>4. at \in timer' \/ list' = [list EXCEPT ![at] = apps]
    BY DEF WriteList
  <1> QED BY <1>1, <1>3, <1>4

\* A UI that is disturbed, waits or is being reconciled.
Expected(u) == u \in timer \cup {at} \/ Disturbed(u)

LEMMA EventStep == EventInv /\ [Next]_vars => NoLostEvent'
  <1> SUFFICES ASSUME EventInv, [Next]_vars, NEW u \in UIs, ~Expected(u)'
               PROVE  list'[u] = Canonical(u)'
    BY DEF NoLostEvent, Expected, Disturbed
  <1> USE DEF EventInv
  <1>1. list[u] = Canonical(u) \/ Expected(u)
    BY DEF NoLostEvent, Expected, Disturbed
  <1>2. CASE \E w \in UIs : Reconcile(w)
    <2>1. PICK w \in UIs : Reconcile(w)
      BY <1>2
    <2>2. u # w /\ list' = list /\ timer' = timer /\ moved' = moved /\ stirred' = stirred
          /\ queue' = queue \ {w} /\ UNCHANGED caches
      BY <2>1 DEF Reconcile, Expected, events
    <2>3. Canonical(u)' = Canonical(u) /\ \A c \in Components : MapComponentToUI(c)' = MapComponentToUI(c)
      BY <2>2 DEF caches, Canonical, Bringing, MapComponentToUI
    <2>4. at = None /\ ~Expected(u)
      BY <2>1, <2>2, <2>3, NoneAssumption DEF Reconcile, Expected, Disturbed, TypeOK, CachesTyped
    <2> QED BY <1>1, <2>2, <2>3, <2>4
  <1>3. CASE Next /\ ~\E w \in UIs : Reconcile(w)
    <2>1. ~Disturbed(u) /\ Canonical(u)' = Canonical(u)
      BY <1>3, CalmLists DEF Expected
    <2>2. CASE WriteList
      <3>1. CASE at = u
        BY <2>1, <2>2, <3>1, ListWritten DEF Expected
      <3>2. CASE at # u
        <4>1. list'[u] = list[u] /\ timer \subseteq timer'
          BY <2>2, <3>2 DEF WriteList, TypeOK, ListsTyped
        <4> QED BY <1>1, <2>1, <3>2, <4>1 DEF Expected
      <3> QED BY <3>1, <3>2
    <2>3. CASE ~WriteList
      <3>1. list' = list
        BY <1>3, <2>3 DEF Next, Hear, HearOfExposer, HearOfComponent, Take, Work, GetComponentForExposer,
                          Time, Tick, Disturb, ChangeExposer, ChangeComponent, Fail
      <3>2. u \in timer => u \in timer' \cup queue'
        BY <1>3, <2>3 DEF Next, Hear, HearOfExposer, HearOfComponent, Take, Work, GetComponentForExposer,
                          Time, Tick, Disturb, ChangeExposer, ChangeComponent, Fail
      <3>3. u = at => u \in {at'} \cup queue'
        BY <1>3, <2>3 DEF Next, Hear, HearOfExposer, HearOfComponent, Take, Work, GetComponentForExposer,
                          Time, Tick, Disturb, ChangeExposer, ChangeComponent, Fail, worker
      <3>4. ~Expected(u)
        BY <2>1, <3>2, <3>3 DEF Expected, Disturbed
      <3> QED BY <1>1, <2>1, <3>1, <3>4
    <2> QED BY <2>2, <2>3
  <1>4. CASE UNCHANGED vars
    BY <1>1, <1>4 DEF vars, Expected, Disturbed, MapComponentToUI, Canonical, Bringing
  <1> QED BY <1>2, <1>3, <1>4

\* No change of an exposer or of a component is lost between the caches and the lists, in
\* whatever order the handlers hear of them and however long the worker takes
\* (event_mappers.go:25-73, exposer_service.go:27-67, deployed_apps_configmap.go:37-204).
THEOREM NothingIsMissed == Spec => []NoLostEvent
  <1>1. Init => EventInv
    <2> SUFFICES ASSUME Init
                 PROVE  EventInv
      OBVIOUS
    <2>1. WalkInv /\ NoLostEvent
      BY DEF Init, WalkInv, NoLostEvent
    <2> QED BY <2>1, TypeInit DEF EventInv
  <1>2. EventInv /\ [Next]_vars => EventInv'
    BY TypeStep, WalkStep, EventStep DEF EventInv
  <1>3. EventInv => NoLostEvent
    BY DEF EventInv
  <1> QED BY <1>1, <1>2, <1>3, PTL DEF Spec

-----------------------------------------------------------------------------
(* The times of all UIs are in one map. *)

\* The elements of the prefix and of the keys of a UI.
LEMMA PrefixElements ==
    ASSUME NEW u \in UIs
    PROVE  /\ Len(u) \in Nat /\ DOMAIN u = 1 .. Len(u)
           /\ Len(Prefix(u)) = Len(u) + 1 /\ Prefix(u)[Len(u) + 1] = "/"
           /\ \A i \in 1 .. Len(u) : Prefix(u)[i] = u[i] /\ u[i] # "/"
           /\ \A c \in Components : /\ Len(Key(u, c)) = Len(u) + 2 /\ Key(u, c)[Len(u) + 1] = "/"
                                    /\ \A i \in 1 .. Len(u) : Key(u, c)[i] = u[i]
  <1> DEFINE S == {u[i] : i \in DOMAIN u} \cup {"/"} \cup Components
  <1>1. u \in Seq(S) /\ \A i \in DOMAIN u : u[i] # "/"
    BY UIsAssumption, SeqMonotonic
  <1> HIDE DEF S
  <1>2. Len(u) \in Nat /\ DOMAIN u = 1 .. Len(u)
    BY <1>1
  <1>3. /\ Len(Prefix(u)) = Len(u) + 1 /\ Prefix(u)[Len(u) + 1] = "/"
        /\ \A i \in 1 .. Len(u) : Prefix(u)[i] = u[i]
    BY <1>1 DEF Prefix, S
  <1>4. ASSUME NEW c \in Components
        PROVE  /\ Len(Key(u, c)) = Len(u) + 2 /\ Key(u, c)[Len(u) + 1] = "/"
               /\ \A i \in 1 .. Len(u) : Key(u, c)[i] = u[i]
    BY <1>1 DEF Key, S
  <1> QED BY <1>1, <1>2, <1>3, <1>4

\* A name that begins another is not mistaken for it.
LEMMA PrefixTellsUIs ==
    ASSUME NEW u \in UIs, NEW v \in UIs, u # v, NEW c \in Components, NEW d \in Components
    PROVE  ~IsPrefix(Prefix(u), Key(v, c)) /\ Key(v, c) # Key(u, d)
  <1> DEFINE n == Len(u)
             m == Len(v)
  <1>1. n \in Nat /\ m \in Nat /\ Len(Prefix(u)) = n + 1 /\ Len(Key(v, c)) = m + 2 /\ Len(Key(u, d)) = n + 2
    BY PrefixElements
  <1>2. ASSUME NEW s, \A i \in 1 .. n : s[i] = u[i], s[n + 1] = "/",
               n <= m + 1, \A i \in 1 .. n + 1 : s[i] = Key(v, c)[i]
        PROVE  FALSE
    <2>1. CASE n < m
      BY <1>1, <1>2, <2>1, PrefixElements
    <2>2. CASE n = m
      <3>1. ASSUME NEW i \in 1 .. n
            PROVE  u[i] = v[i]
        <4>1. s[i] = u[i] /\ s[i] = Key(v, c)[i] /\ i \in 1 .. m
          BY <1>1, <1>2, <2>2
        <4>2. Key(v, c)[i] = v[i]
          BY <4>1, PrefixElements
        <4> QED BY <4>1, <4>2
      <3>2. PICK S : u \in Seq(S) /\ v \in Seq(S)
        <4> DEFINE U == {u[i] : i \in DOMAIN u}
                   V == {v[i] : i \in DOMAIN v}
        <4>1. u \in Seq(U) /\ v \in Seq(V)
          BY UIsAssumption
        <4> HIDE DEF U, V
        <4>2. u \in Seq(U \cup V) /\ v \in Seq(U \cup V)
          BY <4>1
        <4> QED BY <4>2
      <3> QED BY <2>2, <3>1, <3>2, SeqEqual
    <2>3. CASE n = m + 1
      BY <1>1, <1>2, <2>3, PrefixElements
    <2> QED BY <1>1, <1>2, <2>1, <2>2, <2>3
  <1>3. ASSUME IsPrefix(Prefix(u), Key(v, c))
        PROVE  FALSE
    <2>1. n + 1 <= m + 2 /\ SubSeq(Prefix(u), 1, n + 1) = SubSeq(Key(v, c), 1, n + 1)
      BY <1>1, <1>3 DEF IsPrefix
    <2>2. \A i \in 1 .. n + 1 : Prefix(u)[i] = Key(v, c)[i]
      BY <1>1, <2>1
    <2>3. /\ \A i \in 1 .. n : Prefix(u)[i] = u[i]
          /\ Prefix(u)[n + 1] = "/"
      BY PrefixElements
    <2>4. n <= m + 1
      BY <1>1, <2>1
    <2> HIDE DEF n, m
    <2> QED BY <1>2, <2>2, <2>3, <2>4
  <1>4. ASSUME Key(v, c) = Key(u, d)
        PROVE  FALSE
    BY <1>1, <1>2, <1>4, PrefixElements
  <1> QED BY <1>3, <1>4

LEMMA TimesOfOthers ==
    ASSUME NEW u \in UIs, at \in UIs, u # at, NEW c \in Components, pending \subseteq Components
    PROVE  Times[Key(u, c)] = notReadySince[Key(u, c)]
  <1>1. Key(u, c) \in Keys
    BY DEF Keys
  <1>2. ~IsPrefix(Prefix(at), Key(u, c)) /\ \A d \in pending : Key(u, c) # Key(at, d)
    BY PrefixTellsUIs
  <1> QED BY <1>1, <1>2 DEF Times, Noted, Kept

\* Neither the list nor a time of another UI changes while the worker reconciles one, for
\* any number of UIs and whatever begins their names (controller.go:170-191,
\* deployed_apps_configmap.go:255-278).
THEOREM OthersAreLeftAlone == Spec => OthersLeftAlone
  <1>1. ASSUME TypeOK, [Next]_vars, at # None, NEW u \in UIs \ {at}
        PROVE  /\ list'[u] = list[u]
               /\ \A c \in Components : notReadySince'[Key(u, c)] = notReadySince[Key(u, c)]
    <2>1. at \in UIs /\ pending \subseteq Components
      BY <1>1 DEF TypeOK, WorkerTyped
    <2>2. \A c \in Components : Times[Key(u, c)] = notReadySince[Key(u, c)]
      BY <1>1, <2>1, TimesOfOthers
    <2>3. CASE WriteList \/ Fail
      BY <1>1, <2>1, <2>2, <2>3 DEF WriteList, Fail, TypeOK, ListsTyped
    <2>4. CASE ~WriteList /\ ~Fail
      BY <1>1, <2>4
         DEF Next, Hear, HearOfExposer, HearOfComponent, Take, Reconcile, Work,
             GetComponentForExposer, Time, Tick, Disturb, ChangeExposer, ChangeComponent, vars
    <2> QED BY <2>3, <2>4
  <1>2. TypeOK /\ [Next]_vars =>
          (at # None => \A u \in UIs \ {at} :
              /\ list'[u] = list[u]
              /\ \A c \in Components : notReadySince'[Key(u, c)] = notReadySince[Key(u, c)])
    BY <1>1
  <1> QED BY <1>2, TypeInit, TypeStep, PTL DEF Spec, OthersLeftAlone
=============================================================================
