----------------------------- MODULE NgxRwlock ------------------------------
(***************************************************************************)
(* The reader-writer spin lock of nginx (core/ngx_rwlock.c): one word of   *)
(* shared memory holding the number of readers, or NGX_RWLOCK_WLOCK, the   *)
(* all-ones word, while a writer is inside.  Every access of the word is   *)
(* a step of its own: the plain reads, the compare-and-set and the plain   *)
(* store of the writer's unlock.  The pauses, the doubling spin count and  *)
(* ngx_sched_yield() change nothing but the time of the next attempt, so   *)
(* a failed attempt simply goes back to the test.                          *)
(*                                                                         *)
(* A caller is a worker process that locks, works, and unlocks.  It may be *)
(* killed at any point; nothing in the code recovers its lock.             *)
(***************************************************************************)
EXTENDS Integers, FiniteSets

CONSTANTS
    Proc,       \* the worker processes that map the lock
    WLOCK       \* NGX_RWLOCK_WLOCK, the largest value of the word

\* The word counts every process without reaching the writer's mark.
ASSUME RwlockAssumption ==
    /\ IsFiniteSet(Proc)
    /\ WLOCK \in Nat
    /\ Cardinality(Proc) < WLOCK

VARIABLES
    lock,       \* the shared word
    readers,    \* readers[p]: the local variable of rlock and unlock
    pc,         \* where p is
    held        \* held[p]: the mode p was granted and has not given back

vars == <<lock, readers, pc, held>>

Word == 0 .. WLOCK

Held == INSTANCE RWLock

Label == {"idle", "w_test", "w_cas", "r_read", "r_cas", "locked",
          "u_read", "u_store", "u_cas", "u_reread", "dead"}

TypeOK ==
    /\ lock \in Word
    /\ readers \in [Proc -> Word]
    /\ pc \in [Proc -> Label]
    /\ held \in [Proc -> Held!Mode]

Init ==
    /\ lock = 0
    /\ readers = [p \in Proc |-> 0]
    /\ pc = [p \in Proc |-> "idle"]
    /\ held = [p \in Proc |-> "none"]

Goto(p, from, to) ==
    /\ pc[p] = from
    /\ pc' = [pc EXCEPT ![p] = to]
-----------------------------------------------------------------------------
(* ngx_rwlock_wlock *)

WCall(p) == Goto(p, "idle", "w_test") /\ UNCHANGED <<lock, readers, held>>

\* if (*lock == 0 && ...; while it is not 0 the process spins.
WTest(p) ==
    /\ lock = 0
    /\ Goto(p, "w_test", "w_cas")
    /\ UNCHANGED <<lock, readers, held>>

\* Mutant: a plain store after the test instead of the compare-and-set.
WCasBlind(p) ==
    /\ Goto(p, "w_cas", "locked")
    /\ lock' = WLOCK
    /\ held' = [held EXCEPT ![p] = "w"]
    /\ UNCHANGED readers

\* ngx_atomic_cmp_set(lock, 0, NGX_RWLOCK_WLOCK)
WCas(p) ==
    \/ /\ lock = 0
       /\ Goto(p, "w_cas", "locked")
       /\ lock' = WLOCK
       /\ held' = [held EXCEPT ![p] = "w"]
       /\ UNCHANGED readers
    \/ /\ lock # 0
       /\ Goto(p, "w_cas", "w_test")
       /\ UNCHANGED <<lock, readers, held>>
-----------------------------------------------------------------------------
(* ngx_rwlock_rlock *)

RCall(p) == Goto(p, "idle", "r_read") /\ UNCHANGED <<lock, readers, held>>

\* readers = *lock; if (readers != NGX_RWLOCK_WLOCK && ...
RRead(p) ==
    /\ Goto(p, "r_read", IF lock # WLOCK THEN "r_cas" ELSE "r_read")
    /\ readers' = [readers EXCEPT ![p] = lock]
    /\ UNCHANGED <<lock, held>>

\* ngx_atomic_cmp_set(lock, readers, readers + 1)
RCas(p) ==
    \/ /\ lock = readers[p]
       /\ Goto(p, "r_cas", "locked")
       /\ lock' = (readers[p] + 1) % (WLOCK + 1)
       /\ held' = [held EXCEPT ![p] = "r"]
       /\ UNCHANGED readers
    \/ /\ lock # readers[p]
       /\ Goto(p, "r_cas", "r_read")
       /\ UNCHANGED <<lock, readers, held>>
-----------------------------------------------------------------------------
(* ngx_rwlock_unlock: it is not told which mode the caller holds, and      *)
(* infers it from the word.                                                *)

UCall(p) == Goto(p, "locked", "u_read") /\ UNCHANGED <<lock, readers, held>>

\* readers = *lock; if (readers == NGX_RWLOCK_WLOCK) ...
URead(p) ==
    /\ Goto(p, "u_read", IF lock = WLOCK THEN "u_store" ELSE "u_cas")
    /\ readers' = [readers EXCEPT ![p] = lock]
    /\ UNCHANGED <<lock, held>>

\* *lock = 0
UStore(p) ==
    /\ Goto(p, "u_store", "idle")
    /\ lock' = 0
    /\ held' = [held EXCEPT ![p] = "none"]
    /\ UNCHANGED readers

\* Mutant: unlock returns although its compare-and-set failed.
UCasNoRetry(p) ==
    /\ Goto(p, "u_cas", "idle")
    /\ lock' = IF lock = readers[p] THEN lock - 1 ELSE lock
    /\ held' = [held EXCEPT ![p] = "none"]
    /\ UNCHANGED readers

\* ngx_atomic_cmp_set(lock, readers, readers - 1)
UCas(p) ==
    \/ /\ lock = readers[p]
       /\ Goto(p, "u_cas", "idle")
       /\ lock' = (readers[p] + WLOCK) % (WLOCK + 1)
       /\ held' = [held EXCEPT ![p] = "none"]
       /\ UNCHANGED readers
    \/ /\ lock # readers[p]
       /\ Goto(p, "u_cas", "u_reread")
       /\ UNCHANGED <<lock, readers, held>>

\* readers = *lock, at the end of the loop: the mode is not tested again.
UReread(p) ==
    /\ Goto(p, "u_reread", "u_cas")
    /\ readers' = [readers EXCEPT ![p] = lock]
    /\ UNCHANGED <<lock, held>>
-----------------------------------------------------------------------------
\* The process is killed; the word stays as it is.
Crash(p) ==
    /\ pc[p] # "dead"
    /\ pc' = [pc EXCEPT ![p] = "dead"]
    /\ UNCHANGED <<lock, readers, held>>

Call(p) == WCall(p) \/ RCall(p)

Run(p) == WTest(p) \/ WCas(p) \/ RRead(p) \/ RCas(p) \/ UCall(p)
          \/ URead(p) \/ UStore(p) \/ UCas(p) \/ UReread(p)

Next == \E p \in Proc : Call(p) \/ Run(p) \/ Crash(p)

Spec == Init /\ [][Next]_vars

\* A process that is inside one of the three functions, or between lock and
\* unlock, keeps running unless it is killed.
FairSpec == Spec /\ \A p \in Proc : WF_vars(Run(p))
-----------------------------------------------------------------------------
Readers == {p \in Proc : held[p] = "r"}
Writers == {p \in Proc : held[p] = "w"}

\* A writer shares the lock with nobody, a killed holder included: a word
\* left behind by a dead process never lets a conflicting process in.
Exclusion == \A p, q \in Proc : held[p] = "w" /\ held[q] # "none" => p = q

\* The word is exactly the number of read grants that were not given back,
\* or the writer's mark.  An unlock that decremented twice, or once too few
\* after a failed compare-and-set, breaks it.
WordCounts == lock = IF Writers # {} THEN WLOCK ELSE Cardinality(Readers)

\* unlock infers from the word the mode its caller was granted: it never
\* stores 0 for a reader nor decrements for a writer.
UnlockInfersMode ==
    \A p \in Proc : /\ pc[p] = "u_store" => held[p] = "w"
                    /\ pc[p] \in {"u_cas", "u_reread"} => held[p] = "r"

\* Where a live process is agrees with what it was granted, and a reader's
\* compare-and-set never starts from the writer's mark.
PcMatchesGrant ==
    \A p \in Proc :
        /\ pc[p] \in {"idle", "w_test", "w_cas", "r_read", "r_cas"}
              => held[p] = "none"
        /\ pc[p] \in {"locked", "u_read"} => held[p] # "none"
        /\ pc[p] = "r_cas" => readers[p] # WLOCK

\* The inductive invariant behind the theorems of NgxRwlockProofs.
IInv ==
    /\ TypeOK
    /\ Exclusion
    /\ WordCounts
    /\ UnlockInfersMode
    /\ PcMatchesGrant

\* The lock implements the abstract reader-writer lock.
ImplementsRWLock == Held!Spec

Waiting(p) == pc[p] \in {"w_test", "w_cas", "r_read", "r_cas"}

\* While some process waits, grants keep happening: the spinning processes
\* never block each other for good (a particular one may starve), nor does
\* one that was killed, unless it held the lock.
Progress ==
    \/ <>(\E p \in Proc : pc[p] = "dead" /\ held[p] # "none")
    \/ []<>(\A p \in Proc : ~Waiting(p))
    \/ []<><<\E p \in Proc : held[p] = "none" /\ held'[p] # "none">>_vars
=============================================================================
