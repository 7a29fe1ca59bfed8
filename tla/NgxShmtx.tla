------------------------------ MODULE NgxShmtx ------------------------------
(***************************************************************************)
(* The inter-process mutex of nginx (core/ngx_shmtx.c, built with atomic   *)
(* operations and POSIX semaphores) and its recovery by the master         *)
(* (os/unix/ngx_process.c).  The word holds the pid of the owner.  A       *)
(* process that cannot get it spins, then announces itself in the counter  *)
(* "wait" and sleeps on the semaphore; unlock takes one announcement back  *)
(* and posts.  Every access to shared memory is a step of its own.         *)
(*                                                                         *)
(* A process may be killed at any step.  The master then reaps it, and     *)
(* unlocks the mutex if the word still holds its pid.  A respawned worker  *)
(* has a pid of its own and is another element of Proc.                    *)
(*                                                                         *)
(* sem_wait() interrupted by a signal is called again, which is no step.   *)
(* Its other errors, and those of sem_post(), need an invalid semaphore or *)
(* one at SEM_VALUE_MAX: SurplusBounded excludes the latter.               *)
(***************************************************************************)
EXTENDS Integers, FiniteSets

CONSTANTS
    Proc,       \* the pids of the worker processes, respawned ones included
    Master,     \* the master process
    Free,       \* the word 0
    SPIN        \* attempts of the spin loop; 0 on one processor

ASSUME ShmtxAssumption ==
    /\ IsFiniteSet(Proc)
    /\ Master \notin Proc
    /\ Free \notin Proc
    /\ SPIN \in Nat

Actor == Proc \cup {Master}

VARIABLES
    lock,       \* *mtx->lock: the pid of the owner
    wait,       \* *mtx->wait, read as signed: announced and not yet woken
    sem,        \* the value of mtx->sem
    semaphore,  \* mtx->semaphore: sem_init() succeeded
    pc,         \* where each actor is; a killed process stays where it died
    tries,      \* attempts left in the spin loop, 0 outside
    seen,       \* the local variable "wait" of ngx_shmtx_wakeup, 0 outside
    alive,      \* the actors that were not killed
    reaped      \* the killed processes the master has reaped

vars == <<lock, wait, sem, semaphore, pc, tries, seen, alive, reaped>>
shared == <<lock, wait, sem>>
local == <<semaphore, seen, alive, reaped>>

\* In ngx_shmtx_lock, before and after the announcement.
Trying == {"l_test", "l_cas", "l_add", "a_test", "a_cas"}
\* In ngx_shmtx_wakeup.
Waking == {"wake", "w_cas", "post"}

Label == {"idle", "t_cas", "sem", "a_sub", "locked"} \cup Trying \cup Waking

TypeOK ==
    /\ lock \in Proc \cup {Free}
    /\ wait \in Int
    /\ sem \in Nat
    /\ semaphore \in BOOLEAN
    /\ pc \in [Actor -> Label]
    /\ tries \in [Proc -> 0 .. SPIN]
    /\ seen \in [Actor -> Int]
    /\ alive \in SUBSET Actor
    /\ reaped \in SUBSET Proc

\* ngx_shmtx_create in the master, before the workers are started.
Init ==
    /\ lock = Free
    /\ wait = 0
    /\ sem = 0
    /\ semaphore \in BOOLEAN
    /\ pc = [a \in Actor |-> "idle"]
    /\ tries = [p \in Proc |-> 0]
    /\ seen = [a \in Actor |-> 0]
    /\ alive = Actor
    /\ reaped = {}

\* a is running and stands at from.
At(a, from) == a \in alive /\ pc[a] = from

Goto(a, to) == pc' = [pc EXCEPT ![a] = to]
-----------------------------------------------------------------------------
(* ngx_shmtx_trylock *)

TryLock(p) ==
    /\ At(p, "idle")
    /\ lock = Free
    /\ Goto(p, "t_cas")
    /\ UNCHANGED <<shared, tries, local>>

TryCas(p) ==
    /\ At(p, "t_cas")
    /\ \/ /\ lock = Free
          /\ lock' = p
          /\ Goto(p, "locked")
       \/ /\ lock # Free
          /\ UNCHANGED lock
          /\ Goto(p, "idle")
    /\ UNCHANGED <<wait, sem, tries, local>>
-----------------------------------------------------------------------------
(* ngx_shmtx_lock *)

\* A round of attempts begins: one, and SPIN more in the spin loop.
Attempt(p) ==
    /\ Goto(p, "l_test")
    /\ tries' = [tries EXCEPT ![p] = SPIN]

Lock(p) ==
    /\ At(p, "idle")
    /\ Attempt(p)
    /\ UNCHANGED <<shared, local>>

\* The attempt failed: spin again, or announce oneself, or yield and start
\* again where there is no semaphore.
Failed(p) ==
    \/ /\ tries[p] > 0
       /\ Goto(p, "l_test")
       /\ tries' = [tries EXCEPT ![p] = @ - 1]
    \/ /\ tries[p] = 0
       /\ semaphore
       /\ Goto(p, "l_add")
       /\ UNCHANGED tries
    \/ /\ tries[p] = 0
       /\ ~semaphore
       /\ Attempt(p)

\* *mtx->lock == 0 && ...
LockTest(p) ==
    /\ At(p, "l_test")
    /\ \/ lock = Free /\ Goto(p, "l_cas") /\ UNCHANGED tries
       \/ lock # Free /\ Failed(p)
    /\ UNCHANGED <<shared, local>>

\* Mutant: the word is stored without comparing it again.
LockCasBlind(p) ==
    /\ At(p, "l_cas")
    /\ lock' = p
    /\ Goto(p, "locked")
    /\ UNCHANGED <<wait, sem, tries, local>>

\* ngx_atomic_cmp_set(mtx->lock, 0, ngx_pid)
LockCas(p) ==
    /\ At(p, "l_cas")
    /\ \/ /\ lock = Free
          /\ lock' = p
          /\ Goto(p, "locked")
          /\ tries' = [tries EXCEPT ![p] = 0]
       \/ /\ lock # Free
          /\ UNCHANGED lock
          /\ Failed(p)
    /\ UNCHANGED <<wait, sem, local>>

\* Mutant: the process goes to sleep without testing the word again.
AnnounceNoRetest(p) ==
    /\ At(p, "l_add")
    /\ wait' = wait + 1
    /\ Goto(p, "sem")
    /\ UNCHANGED <<lock, sem, tries, local>>

\* ngx_atomic_fetch_add(mtx->wait, 1)
Announce(p) ==
    /\ At(p, "l_add")
    /\ wait' = wait + 1
    /\ Goto(p, "a_test")
    /\ UNCHANGED <<lock, sem, tries, local>>

RetestTest(p) ==
    /\ At(p, "a_test")
    /\ Goto(p, IF lock = Free THEN "a_cas" ELSE "sem")
    /\ UNCHANGED <<shared, tries, local>>

RetestCas(p) ==
    /\ At(p, "a_cas")
    /\ \/ lock = Free /\ lock' = p /\ Goto(p, "a_sub")
       \/ lock # Free /\ UNCHANGED lock /\ Goto(p, "sem")
    /\ UNCHANGED <<wait, sem, tries, local>>

\* Mutant: the announcement is not taken back.
WithdrawForgotten(p) ==
    /\ At(p, "a_sub")
    /\ Goto(p, "locked")
    /\ UNCHANGED <<shared, tries, local>>

\* ngx_atomic_fetch_add(mtx->wait, -1): below 0 if an unlock came between.
Withdraw(p) ==
    /\ At(p, "a_sub")
    /\ wait' = wait - 1
    /\ Goto(p, "locked")
    /\ UNCHANGED <<lock, sem, tries, local>>

\* sem_wait() returned 0
SemWait(p) ==
    /\ At(p, "sem")
    /\ sem > 0
    /\ sem' = sem - 1
    /\ Attempt(p)
    /\ UNCHANGED <<lock, wait, local>>
-----------------------------------------------------------------------------
(* ngx_shmtx_unlock, ngx_shmtx_wakeup *)

\* Mutant: the word is cleared without comparing it with the caller's pid.
UnlockBlind(p) ==
    /\ At(p, "locked") \/ At(p, "idle")
    /\ lock' = Free
    /\ Goto(p, "wake")
    /\ UNCHANGED <<wait, sem, tries, local>>

\* A caller that does not own the mutex (the accept mutex is unlocked by
\* workers whose turn is over) finds another word and returns.
Unlock(p) ==
    /\ At(p, "locked") \/ At(p, "idle")
    /\ \/ lock = p /\ lock' = Free /\ Goto(p, "wake")
       \/ lock # p /\ UNCHANGED lock /\ Goto(p, "idle")
    /\ UNCHANGED <<wait, sem, tries, local>>

\* Mutant: an unlock that finds a negative counter posts as well.
WakeReadUnsigned(a) ==
    /\ At(a, "wake")
    /\ \/ /\ ~semaphore \/ wait = 0
          /\ Goto(a, "idle")
          /\ UNCHANGED seen
       \/ /\ semaphore /\ wait # 0
          /\ Goto(a, "w_cas")
          /\ seen' = [seen EXCEPT ![a] = wait]
    /\ UNCHANGED <<shared, semaphore, tries, alive, reaped>>

\* wait = *mtx->wait; if ((ngx_atomic_int_t) wait <= 0) return
WakeRead(a) ==
    /\ At(a, "wake")
    /\ \/ /\ ~semaphore \/ wait <= 0
          /\ Goto(a, "idle")
          /\ UNCHANGED seen
       \/ /\ semaphore /\ wait > 0
          /\ Goto(a, "w_cas")
          /\ seen' = [seen EXCEPT ![a] = wait]
    /\ UNCHANGED <<shared, semaphore, tries, alive, reaped>>

\* Mutant: a failed compare-and-set is not tried again.
WakeCasNoRetry(a) ==
    /\ At(a, "w_cas")
    /\ \/ wait = seen[a] /\ wait' = wait - 1 /\ Goto(a, "post")
       \/ wait # seen[a] /\ UNCHANGED wait /\ Goto(a, "idle")
    /\ seen' = [seen EXCEPT ![a] = 0]
    /\ UNCHANGED <<lock, sem, semaphore, tries, alive, reaped>>

\* ngx_atomic_cmp_set(mtx->wait, wait, wait - 1)
WakeCas(a) ==
    /\ At(a, "w_cas")
    /\ \/ wait = seen[a] /\ wait' = wait - 1 /\ Goto(a, "post")
       \/ wait # seen[a] /\ UNCHANGED wait /\ Goto(a, "wake")
    /\ seen' = [seen EXCEPT ![a] = 0]
    /\ UNCHANGED <<lock, sem, semaphore, tries, alive, reaped>>

\* sem_post()
SemPost(a) ==
    /\ At(a, "post")
    /\ sem' = sem + 1
    /\ Goto(a, "idle")
    /\ UNCHANGED <<lock, wait, tries, local>>
-----------------------------------------------------------------------------
(* The master: ngx_process_get_status, ngx_unlock_mutexes and              *)
(* ngx_shmtx_force_unlock for one mutex.                                   *)

Crash(p) ==
    /\ p \in alive
    /\ alive' = alive \ {p}
    /\ UNCHANGED <<shared, semaphore, pc, tries, seen, reaped>>

\* Mutant of Reap: the mutexes of the process are not looked at.
ReapForgets(p) ==
    /\ At(Master, "idle")
    /\ p \in Proc \ (alive \cup reaped)
    /\ reaped' = reaped \cup {p}
    /\ UNCHANGED <<lock, wait, sem, semaphore, pc, tries, seen, alive>>

\* Mutant: whoever owns the mutex is taken for the exited process.
ReapBlind(p) ==
    /\ At(Master, "idle")
    /\ p \in Proc \ (alive \cup reaped)
    /\ reaped' = reaped \cup {p}
    /\ lock' = Free
    /\ Goto(Master, "wake")
    /\ UNCHANGED <<wait, sem, semaphore, tries, seen, alive>>

\* waitpid() returned p; ngx_atomic_cmp_set(mtx->lock, pid, 0)
Reap(p) ==
    /\ At(Master, "idle")
    /\ p \in Proc \ (alive \cup reaped)
    /\ reaped' = reaped \cup {p}
    /\ \/ lock = p /\ lock' = Free /\ Goto(Master, "wake")
       \/ lock # p /\ UNCHANGED <<lock, pc>>
    /\ UNCHANGED <<wait, sem, semaphore, tries, seen, alive>>
-----------------------------------------------------------------------------
Wakeup(a) == WakeRead(a) \/ WakeCas(a) \/ SemPost(a)

Call(p) == Lock(p) \/ TryLock(p)

\* What a process does once it has called one of the functions.
Run(p) ==
    \/ LockTest(p) \/ LockCas(p) \/ Announce(p) \/ RetestTest(p)
    \/ RetestCas(p) \/ Withdraw(p) \/ SemWait(p) \/ TryCas(p)
    \/ Unlock(p) \/ Wakeup(p)

Recovery == Wakeup(Master) \/ \E p \in Proc : Reap(p)

Next ==
    \/ \E p \in Proc : Call(p) \/ Run(p) \/ Crash(p)
    \/ Recovery

Spec == Init /\ [][Next]_vars

\* The processes run until they are killed, and the master keeps running.
FairSpec ==
    /\ Spec
    /\ \A p \in Proc : WF_vars(Run(p))
    /\ WF_vars(Recovery)
-----------------------------------------------------------------------------
\* The processes that took the mutex and still have it, killed ones included
\* until the master has reaped them.
Owners == {p \in Proc \ reaped : pc[p] \in {"a_sub", "locked"}}

\* The word names the one process that took the mutex and did not give it
\* back.  A process is never released by another's unlock, nor a live one by
\* the master.
Exclusion == Owners = IF lock = Free THEN {} ELSE {lock}

Announced == {p \in Proc : pc[p] \in {"a_test", "a_cas", "a_sub", "sem"}}
Posters == {a \in Actor : pc[a] = "post"}

\* No announcement is lost or answered twice: the processes between their
\* announcement and its end are those that wait still counts, plus one for
\* every post on the semaphore or about to be made.
Conservation ==
    wait + sem + Cardinality(Posters) = Cardinality(Announced)

\* Posts that found nobody asleep do not pile up: there are never more than
\* processes, whatever happens, so that sem_post() cannot overflow and wait,
\* an unsigned word that does go below zero, stays close to it.
SurplusBounded ==
    /\ sem + Cardinality(Posters) <= Cardinality(Proc)
    /\ wait >= -Cardinality(Proc)

\* A process is never left asleep on a free mutex: either a wakeup is on its
\* way or some process is about to try for the mutex, and will pass by unlock.
\* A wakeup is thus lost only with a process that was killed inside these
\* functions, after its unlock or before its attempt, and never with one that
\* was killed in its critical section or asleep.
NoLostWakeup ==
    lock = Free /\ sem = 0 /\ (\E p \in Proc : pc[p] = "sem")
        => \E a \in Actor : pc[a] \in Waking \cup Trying

\* What else the argument for these invariants needs: killed processes are
\* not running, the master only recovers and is not killed, and without a
\* semaphore nobody announces itself.
Bookkeeping ==
    /\ alive \cap reaped = {}
    /\ Master \in alive
    /\ pc[Master] \in {"idle"} \cup Waking
    /\ \A a \in Actor : pc[a] = "w_cas" => seen[a] > 0
    /\ ~semaphore => \A p \in Proc : pc[p] \notin {"l_add", "a_test", "a_cas",
                                                   "a_sub", "sem"}

\* The inductive invariant behind the theorems of NgxShmtxProofs.
IInv ==
    /\ TypeOK
    /\ Bookkeeping
    /\ Exclusion
    /\ Conservation
    /\ SurplusBounded
    /\ NoLostWakeup

\* Who owns the mutex is read off the processes, not off the word: a word
\* freed under its owner shows as a second owner.
Abstract == INSTANCE Mutex WITH owners <- Owners, dead <- Proc \ alive

\* The mutex is taken by live processes only, and released by its owner or,
\* after the owner's death, by the master.
ImplementsMutex == Abstract!Spec

Asking(p) == p \in alive /\ pc[p] \in Trying \cup {"sem"}

\* A process was killed inside this file's functions, and not in its critical
\* section or where it does not touch the mutex.
KilledInside == \E p \in Proc \ alive : pc[p] \notin {"idle", "locked"}

\* While a live process asks for the mutex, it keeps being granted, even if
\* processes are killed inside their critical sections.
Progress ==
    \/ <>KilledInside
    \/ []<>(\A p \in Proc : ~Asking(p))
    \/ []<><<lock = Free /\ lock' # Free>>_vars

\* A mutex whose owner was killed is eventually freed.
DeadOwnerReleased ==
    \A p \in Proc : (lock = p /\ p \notin alive) ~> (lock # p)
=============================================================================
