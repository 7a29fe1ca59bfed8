------------------------------- MODULE Mutex --------------------------------
(***************************************************************************)
(* What an inter-process mutex of nginx promises: one owner at a time,     *)
(* released by its owner, or, once the owner is dead, by the master on the *)
(* owner's behalf.                                                         *)
(***************************************************************************)
CONSTANT Proc   \* the processes that may own the mutex

VARIABLES
    owners,     \* the processes that took the mutex and did not give it back
    dead        \* the processes that were killed

Init == owners = {} /\ dead = {}

Acquire(p) ==
    /\ owners = {}
    /\ p \notin dead
    /\ owners' = {p}
    /\ UNCHANGED dead

Release(p) ==
    /\ owners = {p}
    /\ p \notin dead
    /\ owners' = {}
    /\ UNCHANGED dead

Die(p) ==
    /\ p \notin dead
    /\ dead' = dead \cup {p}
    /\ UNCHANGED owners

Recover(p) ==
    /\ owners = {p}
    /\ p \in dead
    /\ owners' = {}
    /\ UNCHANGED dead

Next == \E p \in Proc : Acquire(p) \/ Release(p) \/ Die(p) \/ Recover(p)

Spec == Init /\ [][Next]_<<owners, dead>>
=============================================================================
