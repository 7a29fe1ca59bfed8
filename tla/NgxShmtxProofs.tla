--------------------------- MODULE NgxShmtxProofs ---------------------------
(***************************************************************************)
(* The mutex of ngx_shmtx.c is correct for any number of processes, each   *)
(* of which may be killed at any step: exclusion, the accounting of        *)
(* announcements and posts, the absence of lost wakeups and the refinement *)
(* of the abstract mutex.  Each conjunct of the inductive invariant is     *)
(* shown to be preserved by a lemma of its own.                            *)
(***************************************************************************)
EXTENDS NgxShmtx, FiniteSetTheorems, TLAPS

(* Both counted sets are finite, and no more processes are announced than  *)
(* exist.                                                                  *)
LEMMA CountedSets ==
    /\ IsFiniteSet(Announced) /\ IsFiniteSet(Posters)
    /\ Cardinality(Announced) \in Nat /\ Cardinality(Posters) \in Nat
    /\ Cardinality(Proc) \in Nat
    /\ Cardinality(Announced) <= Cardinality(Proc)
<1>1. IsFiniteSet(Proc) /\ IsFiniteSet(Actor)
  BY ShmtxAssumption, FS_AddElement DEF Actor
<1>2. Announced \in SUBSET Proc /\ Posters \in SUBSET Actor
  BY DEF Announced, Posters
<1>3. /\ IsFiniteSet(Announced) /\ IsFiniteSet(Posters)
      /\ Cardinality(Announced) <= Cardinality(Proc)
  BY <1>1, <1>2, FS_Subset
<1>. QED
  BY <1>1, <1>3, FS_CardinalityType

(* The freshly created mutex satisfies the invariant. *)
LEMMA InitIInv == Init => IInv
<1> SUFFICES ASSUME Init PROVE IInv
  OBVIOUS
<1>1. TypeOK
  BY ShmtxAssumption DEF Init, TypeOK, Label, Actor
<1>2. Bookkeeping
  BY DEF Init, Bookkeeping, Actor
<1>3. Owners = {} /\ Announced = {} /\ Posters = {}
  BY DEF Init, Owners, Announced, Posters, Actor
<1>4. Exclusion
  BY <1>3 DEF Init, Exclusion
<1>5. Conservation /\ SurplusBounded
  BY <1>3, CountedSets, FS_EmptySet DEF Init, Conservation, SurplusBounded
<1>6. NoLostWakeup
  BY DEF Init, NoLostWakeup, Actor
<1>. QED
  BY <1>1, <1>2, <1>4, <1>5, <1>6 DEF IInv

(* Every step keeps the variables in their types. *)
LEMMA NextTypeOK == TypeOK /\ [Next]_vars => TypeOK'
<1> SUFFICES ASSUME TypeOK, [Next]_vars PROVE TypeOK'
  OBVIOUS
<1> USE ShmtxAssumption
<1> USE DEF TypeOK, At, Goto, Actor, Label, Trying, Waking, shared, local
<1>1. ASSUME NEW p \in Proc, Lock(p) \/ TryLock(p) \/ TryCas(p)
      PROVE  TypeOK'
  BY <1>1 DEF Lock, TryLock, TryCas, Attempt
<1>2. ASSUME NEW p \in Proc, LockTest(p) \/ LockCas(p)
      PROVE  TypeOK'
  BY <1>2 DEF LockTest, LockCas, Failed, Attempt
<1>3. ASSUME NEW p \in Proc, Announce(p) \/ RetestTest(p) \/ RetestCas(p)
                             \/ Withdraw(p)
      PROVE  TypeOK'
  BY <1>3 DEF Announce, RetestTest, RetestCas, Withdraw
<1>4. ASSUME NEW p \in Proc, SemWait(p) \/ Unlock(p) \/ Crash(p)
      PROVE  TypeOK'
  BY <1>4 DEF SemWait, Unlock, Crash, Attempt
<1>5. ASSUME NEW a \in Actor, Wakeup(a)
      PROVE  TypeOK'
  <2>1. CASE WakeRead(a)
    BY <2>1 DEF WakeRead
  <2>2. CASE WakeCas(a)
    BY <2>2 DEF WakeCas
  <2>3. CASE SemPost(a)
    BY <2>3 DEF SemPost
  <2>. QED
    BY <1>5, <2>1, <2>2, <2>3 DEF Wakeup
<1>6. ASSUME NEW p \in Proc, Reap(p)
      PROVE  TypeOK'
  BY <1>6 DEF Reap
<1>7. CASE UNCHANGED vars
  BY <1>7 DEF vars
<1>. QED
  BY <1>1, <1>2, <1>3, <1>4, <1>5, <1>6, <1>7 DEF Next, Call, Run, Recovery

(* The bookkeeping is preserved. *)
LEMMA NextBookkeeping == TypeOK /\ Bookkeeping /\ [Next]_vars => Bookkeeping'
<1> SUFFICES ASSUME TypeOK, Bookkeeping, [Next]_vars PROVE Bookkeeping'
  OBVIOUS
<1> USE ShmtxAssumption
<1> USE DEF TypeOK, Bookkeeping, At, Goto, Actor, Waking, shared, local
<1>1. ASSUME NEW p \in Proc, Lock(p) \/ TryLock(p) \/ TryCas(p)
      PROVE  Bookkeeping'
  BY <1>1 DEF Lock, TryLock, TryCas, Attempt
<1>2. ASSUME NEW p \in Proc, LockTest(p) \/ LockCas(p)
      PROVE  Bookkeeping'
  BY <1>2 DEF LockTest, LockCas, Failed, Attempt
<1>3. ASSUME NEW p \in Proc, Announce(p) \/ RetestTest(p) \/ RetestCas(p)
                             \/ Withdraw(p)
      PROVE  Bookkeeping'
  BY <1>3 DEF Announce, RetestTest, RetestCas, Withdraw
<1>4. ASSUME NEW p \in Proc, SemWait(p) \/ Unlock(p) \/ Crash(p)
      PROVE  Bookkeeping'
  BY <1>4 DEF SemWait, Unlock, Crash, Attempt
<1>5. ASSUME NEW a \in Actor, Wakeup(a)
      PROVE  Bookkeeping'
  <2>1. CASE WakeRead(a)
    BY <2>1 DEF WakeRead
  <2>2. CASE WakeCas(a)
    BY <2>2 DEF WakeCas
  <2>3. CASE SemPost(a)
    BY <2>3 DEF SemPost
  <2>. QED
    BY <1>5, <2>1, <2>2, <2>3 DEF Wakeup
<1>6. ASSUME NEW p \in Proc, Reap(p)
      PROVE  Bookkeeping'
  BY <1>6 DEF Reap
<1>7. CASE UNCHANGED vars
  BY <1>7 DEF vars
<1>. QED
  BY <1>1, <1>2, <1>3, <1>4, <1>5, <1>6, <1>7, ZenonT(30) DEF Next, Call, Run, Recovery

(* Who owns the mutex agrees with the word after every step. *)
LEMMA NextExclusion ==
    TypeOK /\ Bookkeeping /\ Exclusion /\ [Next]_vars => Exclusion'
<1> SUFFICES ASSUME TypeOK, Bookkeeping, Exclusion, [Next]_vars
             PROVE  Exclusion'
  OBVIOUS
<1> USE ShmtxAssumption
<1> USE DEF Exclusion, Owners, At, Goto, Actor, Waking, shared, local
<1>a. pc \in [Actor -> Label] /\ lock \in Proc \cup {Free}
  BY DEF TypeOK
<1>b. alive \cap reaped = {} /\ pc[Master] \in {"idle"} \cup Waking
  BY DEF Bookkeeping
<1>1. ASSUME NEW p \in Proc, Lock(p) \/ TryLock(p) \/ TryCas(p)
      PROVE  Exclusion'
  BY <1>1, <1>a, <1>b DEF Lock, TryLock, TryCas, Attempt
<1>2. ASSUME NEW p \in Proc, LockTest(p) \/ LockCas(p)
      PROVE  Exclusion'
  BY <1>2, <1>a, <1>b DEF LockTest, LockCas, Failed, Attempt
<1>3. ASSUME NEW p \in Proc, Announce(p) \/ RetestTest(p) \/ RetestCas(p)
                             \/ Withdraw(p)
      PROVE  Exclusion'
  BY <1>3, <1>a, <1>b DEF Announce, RetestTest, RetestCas, Withdraw
<1>4. ASSUME NEW p \in Proc, SemWait(p) \/ Unlock(p) \/ Crash(p)
      PROVE  Exclusion'
  BY <1>4, <1>a, <1>b DEF SemWait, Unlock, Crash, Attempt
<1>5. ASSUME NEW a \in Actor, Wakeup(a)
      PROVE  Exclusion'
  BY <1>5, <1>a, <1>b DEF Wakeup, WakeRead, WakeCas, SemPost
<1>6. ASSUME NEW p \in Proc, Reap(p)
      PROVE  Exclusion'
  BY <1>6, <1>a, <1>b DEF Reap
<1>7. CASE UNCHANGED vars
  BY <1>7 DEF vars
<1>. QED
  BY <1>1, <1>2, <1>3, <1>4, <1>5, <1>6, <1>7, ZenonT(30) DEF Next, Call, Run, Recovery

(* Steps that move nobody into or out of the counted sets. *)
LEMMA CountsUnchanged ==
    ASSUME Conservation, SurplusBounded, UNCHANGED <<wait, sem>>,
           Announced' = Announced, Posters' = Posters
    PROVE  Conservation' /\ SurplusBounded'
  BY DEF Conservation, SurplusBounded

(* The accounting of announcements and posts is preserved.  A post is made *)
(* only for a positive counter, hence when announced processes outnumber   *)
(* the posts; so posts never outnumber the processes.                      *)
LEMMA NextCounts ==
    TypeOK /\ Bookkeeping /\ Conservation /\ SurplusBounded /\ [Next]_vars
        => Conservation' /\ SurplusBounded'
<1> SUFFICES ASSUME TypeOK, Bookkeeping, Conservation, SurplusBounded,
                    [Next]_vars
             PROVE  Conservation' /\ SurplusBounded'
  OBVIOUS
<1> USE ShmtxAssumption
<1> USE DEF At, Goto, shared, local
<1>a. /\ pc \in [Actor -> Label] /\ wait \in Int /\ sem \in Nat
      /\ Proc \subseteq Actor /\ Master \in Actor
  BY DEF TypeOK, Actor
<1>b. pc[Master] \in {"idle"} \cup Waking
  BY DEF Bookkeeping
<1>c. \A a \in Actor : pc[a] = "w_cas" => seen[a] > 0
  BY DEF Bookkeeping
<1>1. ASSUME NEW p \in Proc, Lock(p) \/ TryLock(p) \/ TryCas(p)
      PROVE  Conservation' /\ SurplusBounded'
  <2>1. Announced' = Announced /\ Posters' = Posters
    BY <1>1, <1>a DEF Lock, TryLock, TryCas, Attempt, Announced, Posters
  <2>. QED
    BY <1>1, <2>1, CountsUnchanged DEF Lock, TryLock, TryCas
<1>2. ASSUME NEW p \in Proc, LockTest(p) \/ LockCas(p)
      PROVE  Conservation' /\ SurplusBounded'
  <2>1. Announced' = Announced /\ Posters' = Posters
    BY <1>2, <1>a, ZenonT(30) DEF LockTest, LockCas, Failed, Attempt, Announced, Posters
  <2>. QED
    BY <1>2, <2>1, CountsUnchanged DEF LockTest, LockCas
<1>3. ASSUME NEW p \in Proc, RetestTest(p) \/ RetestCas(p) \/ Unlock(p)
                             \/ Crash(p)
      PROVE  Conservation' /\ SurplusBounded'
  <2>1. Announced' = Announced /\ Posters' = Posters
    BY <1>3, <1>a, ZenonT(30) DEF RetestTest, RetestCas, Unlock, Crash, Announced, Posters
  <2>. QED
    BY <1>3, <2>1, CountsUnchanged DEF RetestTest, RetestCas, Unlock, Crash
<1>4. ASSUME NEW p \in Proc, Announce(p)
      PROVE  Conservation' /\ SurplusBounded'
  <2>1. /\ Announced' = Announced \cup {p} /\ p \notin Announced
        /\ Posters' = Posters
    BY <1>4, <1>a DEF Announce, Announced, Posters
  <2>2. Cardinality(Announced') = Cardinality(Announced) + 1
    BY <2>1, CountedSets, FS_AddElement, ZenonT(30)
  <2>3. wait' = wait + 1 /\ sem' = sem
    BY <1>4 DEF Announce
  <2>. QED
    BY <2>1, <2>2, <2>3, <1>a, CountedSets DEF Conservation, SurplusBounded
<1>5. ASSUME NEW p \in Proc, Withdraw(p)
      PROVE  Conservation' /\ SurplusBounded'
  <2>1. /\ Announced' = Announced \ {p} /\ p \in Announced
        /\ Posters' = Posters
    BY <1>5, <1>a DEF Withdraw, Announced, Posters
  <2>2. /\ Cardinality(Announced') = Cardinality(Announced) - 1
        /\ Cardinality(Announced') \in Nat
    BY <2>1, CountedSets, FS_RemoveElement, FS_CardinalityType
  <2>3. wait' = wait - 1 /\ sem' = sem
    BY <1>5 DEF Withdraw
  <2>. QED
    BY <2>1, <2>2, <2>3, <1>a, CountedSets DEF Conservation, SurplusBounded
<1>6. ASSUME NEW p \in Proc, SemWait(p)
      PROVE  Conservation' /\ SurplusBounded'
  <2>1. /\ Announced' = Announced \ {p} /\ p \in Announced
        /\ Posters' = Posters
    BY <1>6, <1>a DEF SemWait, Attempt, Announced, Posters
  <2>2. Cardinality(Announced') = Cardinality(Announced) - 1
    BY <2>1, CountedSets, FS_RemoveElement, ZenonT(30)
  <2>3. wait' = wait /\ sem' = sem - 1
    BY <1>6 DEF SemWait
  <2>. QED
    BY <2>1, <2>2, <2>3, <1>a, CountedSets DEF Conservation, SurplusBounded
<1>7. ASSUME NEW a \in Actor, WakeRead(a) \/ (WakeCas(a) /\ wait # seen[a])
      PROVE  Conservation' /\ SurplusBounded'
  <2>1. Announced' = Announced /\ Posters' = Posters
    BY <1>7, <1>a DEF WakeRead, WakeCas, Announced, Posters
  <2>. QED
    BY <1>7, <2>1, CountsUnchanged DEF WakeRead, WakeCas
<1>8. ASSUME NEW a \in Actor, WakeCas(a), wait = seen[a]
      PROVE  Conservation' /\ SurplusBounded'
  <2>1. /\ Announced' = Announced
        /\ Posters' = Posters \cup {a} /\ a \notin Posters
    BY <1>8, <1>a DEF WakeCas, Announced, Posters
  <2>2. Cardinality(Posters') = Cardinality(Posters) + 1
    BY <2>1, CountedSets, FS_AddElement, ZenonT(30)
  <2>3. wait' = wait - 1 /\ sem' = sem /\ wait > 0
    BY <1>8, <1>c DEF WakeCas
  <2>. QED
    BY <2>1, <2>2, <2>3, <1>a, CountedSets DEF Conservation, SurplusBounded
<1>9. ASSUME NEW a \in Actor, SemPost(a)
      PROVE  Conservation' /\ SurplusBounded'
  <2>1. /\ Announced' = Announced
        /\ Posters' = Posters \ {a} /\ a \in Posters
    BY <1>9, <1>a DEF SemPost, Announced, Posters
  <2>2. Cardinality(Posters') = Cardinality(Posters) - 1
    BY <2>1, CountedSets, FS_RemoveElement, ZenonT(30)
  <2>3. wait' = wait /\ sem' = sem + 1
    BY <1>9 DEF SemPost
  <2>. QED
    BY <2>1, <2>2, <2>3, <1>a, CountedSets DEF Conservation, SurplusBounded
<1>10. ASSUME NEW p \in Proc, Reap(p)
      PROVE  Conservation' /\ SurplusBounded'
  <2>1. Announced' = Announced /\ Posters' = Posters
    BY <1>10, <1>a DEF Reap, Announced, Posters
  <2>. QED
    BY <1>10, <2>1, CountsUnchanged DEF Reap
<1>11. CASE UNCHANGED vars
  <2>1. Announced' = Announced /\ Posters' = Posters
    BY <1>11 DEF vars, Announced, Posters
  <2>. QED
    BY <1>11, <2>1, CountsUnchanged DEF vars
<1>. QED
  BY <1>1, <1>2, <1>3, <1>4, <1>5, <1>6, <1>7, <1>8, <1>9, <1>10, <1>11, <1>a
  DEF Next, Call, Run, Recovery, Wakeup

(* A sleeper with no post to take has either its announcement still in     *)
(* wait or a post under way: the unlock that finds wait at or below zero   *)
(* may return, because somebody else is about to post.                     *)
LEMMA ZeroWaitMeansPoster ==
    ASSUME TypeOK, Conservation, wait <= 0, sem = 0,
           NEW p \in Proc, pc[p] = "sem"
    PROVE  Posters # {}
<1>1. Announced # {}
  BY DEF Announced
<1>2. Cardinality(Announced) # 0
  BY <1>1, CountedSets, FS_EmptySet
<1>3. Cardinality(Posters) # 0
  BY <1>2, CountedSets DEF Conservation, TypeOK
<1>. QED
  BY <1>3, FS_EmptySet

(* No step leaves a process asleep on a free mutex with nobody to wake it. *)
LEMMA NextNoLostWakeup ==
    IInv /\ [Next]_vars => NoLostWakeup'
<1> SUFFICES ASSUME IInv, [Next]_vars,
                    lock' = Free, sem' = 0,
                    NEW q \in Proc, pc'[q] = "sem"
             PROVE  \E a \in Actor : pc'[a] \in Waking \cup Trying
  BY DEF NoLostWakeup
<1> USE ShmtxAssumption
<1> USE DEF At, Goto, shared, local, Waking, Trying
<1>a. TypeOK /\ Bookkeeping /\ Exclusion /\ Conservation /\ NoLostWakeup
  BY DEF IInv
<1>b. /\ pc \in [Actor -> Label] /\ wait \in Int /\ sem \in Nat
      /\ Proc \subseteq Actor /\ Master \in Actor
      /\ lock \in Proc \cup {Free}
  BY <1>a DEF TypeOK, Actor
<1>c. lock = Free /\ sem = 0 /\ pc[q] = "sem"
        => \E a \in Actor : pc[a] \in Waking \cup Trying
  BY <1>a DEF NoLostWakeup
<1>1. ASSUME NEW p \in Proc, Lock(p) \/ LockTest(p) \/ LockCas(p)
      PROVE  \E a \in Actor : pc'[a] \in Waking \cup Trying
  <2>1. pc'[p] \in Trying
    BY <1>1, <1>b DEF Lock, LockTest, LockCas, Failed, Attempt
  <2>. QED
    BY <2>1, <1>b
<1>2. ASSUME NEW p \in Proc, TryLock(p) \/ TryCas(p)
      PROVE  \E a \in Actor : pc'[a] \in Waking \cup Trying
  <2>1. /\ lock = Free /\ sem = 0 /\ pc[q] = "sem"
        /\ \A a \in Actor : a # p => pc'[a] = pc[a]
        /\ pc[p] \notin Waking \cup Trying
    BY <1>2, <1>b DEF TryLock, TryCas
  <2>. QED
    BY <2>1, <1>c
<1>3. ASSUME NEW p \in Proc, Announce(p) \/ RetestTest(p) \/ RetestCas(p)
      PROVE  \E a \in Actor : pc'[a] \in Waking \cup Trying
  <2>1. pc'[p] \in Trying
    BY <1>3, <1>b DEF Announce, RetestTest, RetestCas
  <2>. QED
    BY <2>1, <1>b
<1>4. ASSUME NEW p \in Proc, Withdraw(p)
      PROVE  FALSE
  <2>1. p \in Owners /\ lock = Free
    BY <1>4, <1>a, <1>b DEF Withdraw, Owners, Bookkeeping
  <2>. QED
    BY <2>1, <1>a DEF Exclusion
<1>5. ASSUME NEW p \in Proc, SemWait(p)
      PROVE  \E a \in Actor : pc'[a] \in Waking \cup Trying
  <2>1. pc'[p] = "l_test"
    BY <1>5, <1>b DEF SemWait, Attempt
  <2>. QED
    BY <2>1, <1>b
<1>6. ASSUME NEW p \in Proc, Unlock(p)
      PROVE  \E a \in Actor : pc'[a] \in Waking \cup Trying
  <2>1. CASE lock = p
    <3>1. pc'[p] = "wake"
      BY <1>6, <2>1, <1>b DEF Unlock
    <3>. QED
      BY <3>1, <1>b
  <2>2. CASE lock # p
    <3>1. /\ lock = Free /\ sem = 0 /\ pc[q] = "sem"
          /\ \A a \in Actor : a # p => pc'[a] = pc[a]
          /\ pc[p] \notin Waking \cup Trying
      BY <1>6, <2>2, <1>b DEF Unlock
    <3>. QED
      BY <3>1, <1>c
  <2>. QED
    BY <2>1, <2>2
<1>7. ASSUME NEW p \in Proc, Crash(p) \/ Reap(p)
      PROVE  \E a \in Actor : pc'[a] \in Waking \cup Trying
  <2>1. CASE Reap(p) /\ lock = p
    <3>1. pc'[Master] = "wake"
      BY <2>1, <1>b DEF Reap
    <3>. QED
      BY <3>1, <1>b
  <2>2. CASE Crash(p) \/ lock # p
    <3>1. UNCHANGED <<lock, sem, pc>>
      BY <1>7, <2>2 DEF Crash, Reap
    <3>. QED
      BY <3>1, <1>c
  <2>. QED
    BY <1>7, <2>1, <2>2
<1>8. ASSUME NEW b \in Actor, WakeRead(b)
      PROVE  \E a \in Actor : pc'[a] \in Waking \cup Trying
  <2>1. CASE semaphore /\ wait > 0
    <3>1. pc'[b] = "w_cas"
      BY <1>8, <2>1, <1>b DEF WakeRead
    <3>. QED
      BY <3>1
  <2>2. CASE ~semaphore
    <3>1. pc[q] = "sem"
      BY <1>8, <1>b DEF WakeRead
    <3>. QED
      BY <3>1, <2>2, <1>a DEF Bookkeeping
  <2>3. CASE wait <= 0
    <3>1. pc[q] = "sem" /\ sem = 0
      BY <1>8, <1>b DEF WakeRead
    <3>2. PICK c \in Actor : pc[c] = "post"
      BY <3>1, <2>3, <1>a, ZeroWaitMeansPoster DEF Posters
    <3>3. pc'[c] = "post"
      BY <3>2, <1>8, <1>b DEF WakeRead
    <3>. QED
      BY <3>3
  <2>. QED
    BY <2>1, <2>2, <2>3, <1>b
<1>9. ASSUME NEW b \in Actor, WakeCas(b)
      PROVE  \E a \in Actor : pc'[a] \in Waking \cup Trying
  <2>1. pc'[b] \in Waking
    BY <1>9, <1>b DEF WakeCas
  <2>. QED
    BY <2>1
<1>10. ASSUME NEW b \in Actor, SemPost(b)
       PROVE  FALSE
  BY <1>10, <1>b DEF SemPost
<1>11. CASE UNCHANGED vars
  BY <1>11, <1>c DEF vars
<1>. QED
  BY <1>1, <1>2, <1>3, <1>4, <1>5, <1>6, <1>7, <1>8, <1>9, <1>10, <1>11, <1>b
  DEF Next, Call, Run, Recovery, Wakeup

(* The inductive invariant holds for any number of processes. *)
THEOREM ShmtxInvariant == Spec => []IInv
<1>1. IInv /\ [Next]_vars => IInv'
  BY NextTypeOK, NextBookkeeping, NextExclusion, NextCounts,
     NextNoLostWakeup DEF IInv
<1>. QED
  BY <1>1, InitIInv, PTL DEF Spec

(* The variables of ngx_shmtx.c keep their types; the counter of attempts  *)
(* and the local copy of wait included.                                    *)
THEOREM ShmtxTypeOK == Spec => []TypeOK
<1>1. IInv => TypeOK
  BY DEF IInv
<1>. QED
  BY <1>1, ShmtxInvariant, PTL

(* Mutual exclusion of ngx_shmtx.c, across kills and the master's forced   *)
(* unlocks: the word names the only owner.                                 *)
THEOREM ShmtxExclusion == Spec => []Exclusion
<1>1. IInv => Exclusion
  BY DEF IInv
<1>. QED
  BY <1>1, ShmtxInvariant, PTL

(* The wait counter and the semaphore account for every announced process. *)
THEOREM ShmtxConservation == Spec => []Conservation
<1>1. IInv => Conservation
  BY DEF IInv
<1>. QED
  BY <1>1, ShmtxInvariant, PTL

(* The semaphore of ngx_shmtx_wakeup never holds more posts than there are *)
(* processes.                                                              *)
THEOREM ShmtxSurplusBounded == Spec => []SurplusBounded
<1>1. IInv => SurplusBounded
  BY DEF IInv
<1>. QED
  BY <1>1, ShmtxInvariant, PTL

(* A wakeup of ngx_shmtx_unlock is lost at most with a process that is      *)
(* killed inside the functions.                                            *)
THEOREM ShmtxNoLostWakeup == Spec => []NoLostWakeup
<1>1. IInv => NoLostWakeup
  BY DEF IInv
<1>. QED
  BY <1>1, ShmtxInvariant, PTL

(* One step of the implementation is one step of the abstract mutex, or    *)
(* leaves its owner and the killed processes alone.                        *)
LEMMA StepSimulation ==
    IInv /\ IInv' /\ [Next]_vars => [Abstract!Next]_<<Owners, Proc \ alive>>
<1> SUFFICES ASSUME IInv, IInv', [Next]_vars,
                    ~ UNCHANGED <<Owners, Proc \ alive>>
             PROVE  Abstract!Next
  OBVIOUS
<1> USE ShmtxAssumption
<1> USE DEF At, Goto, shared, local
<1>a. /\ pc \in [Actor -> Label] /\ lock \in Proc \cup {Free}
      /\ alive \in SUBSET Actor /\ reaped \in SUBSET Proc
      /\ alive \cap reaped = {}
  BY DEF IInv, TypeOK, Bookkeeping
<1>b. /\ lock = Free => Owners = {}
      /\ lock # Free => Owners = {lock}
      /\ lock' = Free => Owners' = {}
      /\ lock' # Free => Owners' = {lock'}
  BY DEF IInv, Exclusion
<1>1. ASSUME NEW p \in Proc, TryCas(p) \/ LockCas(p) \/ RetestCas(p)
      PROVE  Abstract!Acquire(p)
  <2>1. p \in alive /\ UNCHANGED alive
    BY <1>1 DEF TryCas, LockCas, RetestCas
  <2>2. (lock = Free /\ lock' = p) \/ lock' = lock
    BY <1>1 DEF TryCas, LockCas, RetestCas
  <2>. QED
    BY <1>b, <2>1, <2>2 DEF Abstract!Acquire
<1>2. ASSUME NEW p \in Proc, Unlock(p)
      PROVE  Abstract!Release(p)
  <2>1. p \in alive /\ UNCHANGED alive
    BY <1>2 DEF Unlock
  <2>2. (lock = p /\ lock' = Free) \/ lock' = lock
    BY <1>2 DEF Unlock
  <2>. QED
    BY <1>b, <2>1, <2>2 DEF Abstract!Release
<1>3. ASSUME NEW p \in Proc, Crash(p)
      PROVE  Abstract!Die(p)
  <2>1. p \in alive /\ alive' = alive \ {p} /\ lock' = lock
    BY <1>3 DEF Crash
  <2>. QED
    BY <1>a, <1>b, <2>1 DEF Abstract!Die
<1>4. ASSUME NEW p \in Proc, Reap(p)
      PROVE  Abstract!Recover(p)
  <2>1. p \notin alive /\ UNCHANGED alive
    BY <1>4 DEF Reap
  <2>2. (lock = p /\ lock' = Free) \/ lock' = lock
    BY <1>4 DEF Reap
  <2>. QED
    BY <1>b, <2>1, <2>2 DEF Abstract!Recover
<1>5. ASSUME NEW p \in Proc, Lock(p) \/ TryLock(p) \/ LockTest(p) \/ Announce(p)
                             \/ RetestTest(p) \/ Withdraw(p) \/ SemWait(p)
      PROVE  FALSE
  <2>1. UNCHANGED <<lock, alive>>
    BY <1>5
    DEF Lock, TryLock, LockTest, Announce, RetestTest, Withdraw, SemWait
  <2>. QED
    BY <1>b, <2>1
<1>6. ASSUME NEW a \in Actor, Wakeup(a)
      PROVE  FALSE
  <2>1. UNCHANGED <<lock, alive>>
    BY <1>6 DEF Wakeup, WakeRead, WakeCas, SemPost
  <2>. QED
    BY <1>b, <2>1
<1>7. ASSUME UNCHANGED vars
      PROVE  FALSE
  <2>1. UNCHANGED <<lock, alive>>
    BY <1>7 DEF vars
  <2>. QED
    BY <1>b, <2>1
<1>. QED
  BY <1>1, <1>2, <1>3, <1>4, <1>5, <1>6, <1>7
  DEF Next, Call, Run, Recovery, Actor, Abstract!Next

(* ngx_shmtx.c together with ngx_unlock_mutexes implements the abstract    *)
(* mutex: only a live process takes it, only its owner gives it back, and  *)
(* the master frees it for nobody but a dead owner.                        *)
THEOREM ShmtxRefines == Spec => ImplementsMutex
<1>1. Init => Abstract!Init
  BY ShmtxAssumption DEF Init, Abstract!Init, Actor, Owners
<1>. QED
  BY <1>1, StepSimulation, ShmtxInvariant, PTL
  DEF Spec, ImplementsMutex, Abstract!Spec
=============================================================================
