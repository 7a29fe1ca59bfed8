------------------------------- MODULE RWLock -------------------------------
(***************************************************************************)
(* What a reader-writer lock promises to its callers: any number of        *)
(* readers, or one writer and nobody else.  This is the contract under     *)
(* which the upstream balancer calls ngx_rwlock_rlock, ngx_rwlock_wlock    *)
(* and ngx_rwlock_unlock; NgxRwlock is shown to implement it.              *)
(***************************************************************************)
CONSTANT Proc        \* the worker processes that map the lock

VARIABLE held        \* held[p]: the mode in which p holds the lock

Mode == {"none", "r", "w"}

\* Nobody holds the lock h: a writer may enter.
WFree(h) == \A q \in Proc : h[q] = "none"

\* No writer holds the lock h: a reader may enter.
RFree(h) == \A q \in Proc : h[q] # "w"

Init == held = [p \in Proc |-> "none"]

AcquireW(p) ==
    /\ WFree(held)
    /\ held' = [held EXCEPT ![p] = "w"]

AcquireR(p) ==
    /\ held[p] = "none"
    /\ RFree(held)
    /\ held' = [held EXCEPT ![p] = "r"]

Release(p) ==
    /\ held[p] # "none"
    /\ held' = [held EXCEPT ![p] = "none"]

Next == \E p \in Proc : AcquireW(p) \/ AcquireR(p) \/ Release(p)

Spec == Init /\ [][Next]_held
=============================================================================
