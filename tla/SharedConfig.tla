---------------------------- MODULE SharedConfig ----------------------------
(***************************************************************************)
(* What the exposers of a component promise each other about the ConfigMap *)
(* they share, whatever caches, conflicts, crashes and retries are behind  *)
(* it.  An exposer registers with a component before it publishes, changes *)
(* no entry but its own, announces only what is published, and leaves only *)
(* when its entry is gone.                                                 *)
(***************************************************************************)
CONSTANTS Exposers, Components, Values, None

VARIABLES
    home,      \* the component an exposer is registered with, or None
    entries,   \* the entries published for each component
    announced  \* exposers that report their entry as published

vars == <<home, entries, announced>>

Init ==
    /\ home = [e \in Exposers |-> None]
    /\ entries = [c \in Components |-> [e \in Exposers |-> None]]
    /\ announced = {}

Register(e, c) ==
    /\ home[e] = None
    /\ home' = [home EXCEPT ![e] = c]
    /\ UNCHANGED <<entries, announced>>

Publish(e, v) ==
    /\ home[e] # None
    /\ entries' = [entries EXCEPT ![home[e]][e] = v]
    /\ UNCHANGED <<home, announced>>

Announce(e) ==
    /\ home[e] # None /\ entries[home[e]][e] # None
    /\ announced' = announced \cup {e}
    /\ UNCHANGED <<home, entries>>

\* The exposer is going to be deleted.
Retire(e) ==
    /\ announced' = announced \ {e}
    /\ UNCHANGED <<home, entries>>

Withdraw(e) ==
    /\ home[e] # None /\ e \notin announced
    /\ entries' = [entries EXCEPT ![home[e]][e] = None]
    /\ UNCHANGED <<home, announced>>

Leave(e) ==
    /\ home[e] # None /\ e \notin announced /\ entries[home[e]][e] = None
    /\ home' = [home EXCEPT ![e] = None]
    /\ UNCHANGED <<entries, announced>>

Next ==
    \E e \in Exposers :
        \/ \E c \in Components : Register(e, c)
        \/ \E v \in Values : Publish(e, v)
        \/ Announce(e) \/ Retire(e) \/ Withdraw(e) \/ Leave(e)

Spec == Init /\ [][Next]_vars
=============================================================================
