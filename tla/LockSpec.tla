------------------------------- MODULE LockSpec -------------------------------
(***************************************************************************)
(* What mutexes promise: a mutex has at most one owner, only a free mutex  *)
(* is acquired, only its owner gives it up, and only a dead owner's mutex  *)
(* is taken away.                                                          *)
(***************************************************************************)
CONSTANTS Mutexes, Owners, NoOwner

VARIABLES
    owner,      \* of each mutex
    dead        \* tasks that have ended and are not yet freed

Init ==
    /\ owner = [m \in Mutexes |-> NoOwner]
    /\ dead = {}

Acquire(m, t) ==
    /\ owner[m] = NoOwner
    /\ t \notin dead
    /\ owner' = [owner EXCEPT ![m] = t]
    /\ UNCHANGED dead

Release(m) ==
    /\ owner[m] # NoOwner
    /\ owner[m] \notin dead
    /\ owner' = [owner EXCEPT ![m] = NoOwner]
    /\ UNCHANGED dead

\* A mutex of a dead task becomes free.
Reclaim(m) ==
    /\ owner[m] \in dead
    /\ owner' = [owner EXCEPT ![m] = NoOwner]
    /\ UNCHANGED dead

Die(t) ==
    /\ t \notin dead
    /\ dead' = dead \cup {t}
    /\ UNCHANGED owner

\* A dead task is forgotten once it owns nothing.
Forget(t) ==
    /\ t \in dead
    /\ \A m \in Mutexes : owner[m] # t
    /\ dead' = dead \ {t}
    /\ UNCHANGED owner

Next ==
    \/ \E m \in Mutexes, t \in Owners : Acquire(m, t)
    \/ \E m \in Mutexes : Release(m) \/ Reclaim(m)
    \/ \E t \in Owners : Die(t) \/ Forget(t)

Spec == Init /\ [][Next]_<<owner, dead>>
================================================================================
