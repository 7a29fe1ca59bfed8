-------------------------- MODULE NgxRwlockProofs ---------------------------
(***************************************************************************)
(* The reader-writer lock is correct for every finite set of processes and *)
(* every word that counts them: the invariants of NgxRwlock hold, and the  *)
(* lock implements the abstract lock of RWLock.                            *)
(***************************************************************************)
EXTENDS NgxRwlock, FiniteSetTheorems, TLAPS

(* The processes that hold the lock for reading are finitely many, and     *)
(* fewer than the writer's mark.                                           *)
LEMMA ReadersFinite ==
    /\ IsFiniteSet(Readers)
    /\ Cardinality(Readers) \in Nat
    /\ Cardinality(Readers) < WLOCK
<1>1. Readers \in SUBSET Proc
  BY DEF Readers
<1>2. IsFiniteSet(Proc) /\ WLOCK \in Nat /\ Cardinality(Proc) < WLOCK
  BY RwlockAssumption
<1>3. IsFiniteSet(Readers) /\ Cardinality(Readers) <= Cardinality(Proc)
  BY <1>1, <1>2, FS_Subset
<1>4. Cardinality(Readers) \in Nat /\ Cardinality(Proc) \in Nat
  BY <1>2, <1>3, FS_CardinalityType
<1>. QED
  BY <1>2, <1>3, <1>4

(* The same for the state after a step. *)
LEMMA ReadersFinitePrime ==
    /\ IsFiniteSet(Readers')
    /\ Cardinality(Readers') \in Nat
    /\ Cardinality(Readers') < WLOCK
<1>1. Readers' \in SUBSET Proc
  BY DEF Readers
<1>2. IsFiniteSet(Proc) /\ WLOCK \in Nat /\ Cardinality(Proc) < WLOCK
  BY RwlockAssumption
<1>3. IsFiniteSet(Readers') /\ Cardinality(Readers') <= Cardinality(Proc)
  BY <1>1, <1>2, FS_Subset
<1>4. Cardinality(Readers') \in Nat /\ Cardinality(Proc) \in Nat
  BY <1>2, <1>3, FS_CardinalityType
<1>. QED
  BY <1>2, <1>3, <1>4

(* The state in which nobody has called the lock satisfies the invariant. *)
LEMMA InitIInv == Init => IInv
<1> SUFFICES ASSUME Init PROVE IInv
  OBVIOUS
<1>1. WLOCK \in Nat
  BY RwlockAssumption
<1>2. TypeOK
  BY <1>1 DEF Init, TypeOK, Word, Label, Held!Mode
<1>3. Writers = {} /\ Readers = {}
  BY DEF Init, Writers, Readers
<1>4. WordCounts
  BY <1>3, FS_EmptySet DEF Init, WordCounts
<1>5. Exclusion /\ UnlockInfersMode /\ PcMatchesGrant
  BY DEF Init, Exclusion, UnlockInfersMode, PcMatchesGrant
<1>. QED
  BY <1>2, <1>4, <1>5 DEF IInv

(* Steps that neither grant nor release: held and the word are unchanged,  *)
(* so that only the control state has to be looked at.                     *)
LEMMA SilentStep ==
    ASSUME IInv, UNCHANGED <<lock, held>>, TypeOK',
           UnlockInfersMode', PcMatchesGrant'
    PROVE  IInv'
  BY DEF IInv, Exclusion, WordCounts, Writers, Readers

(* Every step of every process preserves the invariant. *)
LEMMA NextIInv == IInv /\ [Next]_vars => IInv'
<1> SUFFICES ASSUME IInv, [Next]_vars PROVE IInv'
  OBVIOUS
<1> USE RwlockAssumption DEF Goto
<1>a. TypeOK /\ Exclusion /\ WordCounts /\ UnlockInfersMode /\ PcMatchesGrant
  BY DEF IInv
<1>b. lock = WLOCK <=> Writers # {}
  BY <1>a, ReadersFinite DEF WordCounts
<1>1. ASSUME NEW p \in Proc, WCall(p) \/ RCall(p) \/ WTest(p) \/ UCall(p)
                             \/ Crash(p)
      PROVE  IInv'
  <2>1. TypeOK'
    BY <1>1, <1>a DEF WCall, RCall, WTest, UCall, Crash, TypeOK, Label
  <2>2. UnlockInfersMode' /\ PcMatchesGrant'
    BY <1>1, <1>a DEF WCall, RCall, WTest, UCall, Crash, TypeOK,
                      UnlockInfersMode, PcMatchesGrant
  <2>. QED
    BY <1>1, <2>1, <2>2, SilentStep DEF WCall, RCall, WTest, UCall, Crash
<1>2. ASSUME NEW p \in Proc, RRead(p) \/ UReread(p)
      PROVE  IInv'
  <2>1. TypeOK'
    BY <1>2, <1>a DEF RRead, UReread, TypeOK, Label
  <2>2. UnlockInfersMode' /\ PcMatchesGrant'
    BY <1>2, <1>a DEF RRead, UReread, TypeOK, UnlockInfersMode, PcMatchesGrant
  <2>. QED
    BY <1>2, <2>1, <2>2, SilentStep DEF RRead, UReread
<1>3. ASSUME NEW p \in Proc, URead(p)
      PROVE  IInv'
  <2>1. TypeOK'
    BY <1>3, <1>a DEF URead, TypeOK, Label
  <2>2. held[p] = "w" \/ held[p] = "r"
    BY <1>3, <1>a DEF URead, PcMatchesGrant, TypeOK, Held!Mode
  <2>3. lock = WLOCK <=> held[p] = "w"
    BY <2>2, <1>a, <1>b DEF Writers, Exclusion
  <2>4. UnlockInfersMode'
    BY <1>3, <1>a, <2>2, <2>3 DEF URead, TypeOK, UnlockInfersMode
  <2>5. PcMatchesGrant'
    BY <1>3, <1>a DEF URead, TypeOK, PcMatchesGrant
  <2>. QED
    BY <1>3, <2>1, <2>4, <2>5, SilentStep DEF URead
<1>4. ASSUME NEW p \in Proc, WCas(p)
      PROVE  IInv'
  <2>1. CASE lock # 0
    <3>1. TypeOK' /\ UnlockInfersMode' /\ PcMatchesGrant'
      BY <1>4, <2>1, <1>a DEF WCas, TypeOK, Label, UnlockInfersMode, PcMatchesGrant
    <3>. QED
      BY <1>4, <2>1, <3>1, SilentStep DEF WCas
  <2>2. CASE lock = 0
    <3>1. /\ pc[p] = "w_cas" /\ pc' = [pc EXCEPT ![p] = "locked"]
          /\ lock' = WLOCK /\ held' = [held EXCEPT ![p] = "w"]
          /\ readers' = readers
      BY <1>4, <2>2 DEF WCas
    <3>2. Writers = {} /\ Readers = {}
      BY <2>2, <1>a, <1>b, ReadersFinite, FS_EmptySet DEF WordCounts
    <3>3. \A q \in Proc : held[q] = "none"
      BY <3>2, <1>a DEF TypeOK, Held!Mode, Writers, Readers
    <3>4. TypeOK'
      BY <3>1, <1>a DEF TypeOK, Word, Label, Held!Mode
    <3>5. Exclusion'
      BY <3>1, <3>3, <1>a DEF Exclusion, TypeOK
    <3>6. WordCounts'
      BY <3>1, <1>a DEF WordCounts, Writers, TypeOK
    <3>7. UnlockInfersMode' /\ PcMatchesGrant'
      BY <3>1, <1>a DEF UnlockInfersMode, PcMatchesGrant, TypeOK
    <3>. QED
      BY <3>4, <3>5, <3>6, <3>7 DEF IInv
  <2>. QED
    BY <2>1, <2>2
<1>5. ASSUME NEW p \in Proc, RCas(p)
      PROVE  IInv'
  <2>1. CASE lock # readers[p]
    <3>1. TypeOK' /\ UnlockInfersMode' /\ PcMatchesGrant'
      BY <1>5, <2>1, <1>a DEF RCas, TypeOK, Label, UnlockInfersMode, PcMatchesGrant
    <3>. QED
      BY <1>5, <2>1, <3>1, SilentStep DEF RCas
  <2>2. CASE lock = readers[p]
    <3>1. /\ pc[p] = "r_cas" /\ pc' = [pc EXCEPT ![p] = "locked"]
          /\ lock' = (lock + 1) % (WLOCK + 1)
          /\ held' = [held EXCEPT ![p] = "r"]
          /\ readers' = readers
      BY <1>5, <2>2 DEF RCas
    <3>2. lock # WLOCK /\ held[p] = "none"
      BY <3>1, <2>2, <1>a DEF PcMatchesGrant
    <3>3. Writers = {} /\ lock = Cardinality(Readers)
      BY <3>2, <1>a, <1>b DEF WordCounts
    <3>4. Writers' = {} /\ Readers' = Readers \cup {p} /\ p \notin Readers
      BY <3>1, <3>2, <3>3, <1>a DEF Writers, Readers, TypeOK
    <3>5. Cardinality(Readers') = lock + 1
      BY <3>3, <3>4, ReadersFinite, FS_AddElement, ZenonT(30)
    <3>6. lock' = lock + 1
      BY <3>1, <3>5, ReadersFinitePrime, <1>a DEF TypeOK, Word
    <3>7. TypeOK'
      BY <3>1, <3>5, <3>6, ReadersFinitePrime, <1>a DEF TypeOK, Word, Label, Held!Mode
    <3>8. WordCounts'
      BY <3>4, <3>5, <3>6 DEF WordCounts
    <3>9. Exclusion'
      BY <3>4, <1>a DEF Exclusion, Writers
    <3>10. UnlockInfersMode' /\ PcMatchesGrant'
      BY <3>1, <1>a DEF UnlockInfersMode, PcMatchesGrant, TypeOK
    <3>. QED
      BY <3>7, <3>8, <3>9, <3>10 DEF IInv
  <2>. QED
    BY <2>1, <2>2
<1>6. ASSUME NEW p \in Proc, UStore(p)
      PROVE  IInv'
  <2>1. /\ pc[p] = "u_store" /\ pc' = [pc EXCEPT ![p] = "idle"]
        /\ lock' = 0 /\ held' = [held EXCEPT ![p] = "none"]
        /\ readers' = readers
    BY <1>6 DEF UStore
  <2>2. held[p] = "w"
    BY <2>1, <1>a DEF UnlockInfersMode
  <2>3. \A q \in Proc : held'[q] = "none"
    BY <2>1, <2>2, <1>a DEF Exclusion, TypeOK
  <2>4. Writers' = {} /\ Readers' = {}
    BY <2>3 DEF Writers, Readers
  <2>5. TypeOK'
    BY <2>1, <1>a DEF TypeOK, Word, Label, Held!Mode
  <2>6. WordCounts'
    BY <2>1, <2>4, FS_EmptySet DEF WordCounts
  <2>7. Exclusion'
    BY <2>3 DEF Exclusion
  <2>8. UnlockInfersMode' /\ PcMatchesGrant'
    BY <2>1, <1>a DEF UnlockInfersMode, PcMatchesGrant, TypeOK
  <2>. QED
    BY <2>5, <2>6, <2>7, <2>8 DEF IInv
<1>7. ASSUME NEW p \in Proc, UCas(p)
      PROVE  IInv'
  <2>1. CASE lock # readers[p]
    <3>1. TypeOK' /\ UnlockInfersMode' /\ PcMatchesGrant'
      BY <1>7, <2>1, <1>a DEF UCas, TypeOK, Label, UnlockInfersMode, PcMatchesGrant
    <3>. QED
      BY <1>7, <2>1, <3>1, SilentStep DEF UCas
  <2>2. CASE lock = readers[p]
    <3>1. /\ pc[p] = "u_cas" /\ pc' = [pc EXCEPT ![p] = "idle"]
          /\ lock' = (lock + WLOCK) % (WLOCK + 1)
          /\ held' = [held EXCEPT ![p] = "none"]
          /\ readers' = readers
      BY <1>7, <2>2 DEF UCas
    <3>2. held[p] = "r"
      BY <3>1, <1>a DEF UnlockInfersMode
    <3>3. Writers = {} /\ lock = Cardinality(Readers) /\ p \in Readers
      BY <3>2, <1>a DEF WordCounts, Exclusion, Writers, Readers
    <3>4. Writers' = {} /\ Readers' = Readers \ {p}
      BY <3>1, <3>3, <1>a DEF Writers, Readers, TypeOK
    <3>5. Cardinality(Readers') = lock - 1
      BY <3>3, <3>4, ReadersFinite, FS_RemoveElement, ZenonT(30)
    <3>6. lock \in 1 .. WLOCK
      BY <3>5, ReadersFinitePrime, <1>a DEF TypeOK, Word
    <3>7. lock' = lock - 1
      BY <3>1, <3>6
    <3>8. TypeOK'
      BY <3>1, <3>6, <3>7, <1>a DEF TypeOK, Word, Label, Held!Mode
    <3>9. WordCounts'
      BY <3>4, <3>5, <3>7 DEF WordCounts
    <3>10. Exclusion'
      BY <3>4 DEF Exclusion, Writers
    <3>11. UnlockInfersMode' /\ PcMatchesGrant'
      BY <3>1, <1>a DEF UnlockInfersMode, PcMatchesGrant, TypeOK
    <3>. QED
      BY <3>8, <3>9, <3>10, <3>11 DEF IInv
  <2>. QED
    BY <2>1, <2>2
<1>8. CASE UNCHANGED vars
  BY <1>8 DEF vars, IInv, TypeOK, Exclusion, WordCounts, Writers, Readers,
              UnlockInfersMode, PcMatchesGrant
<1>. QED
  BY <1>1, <1>2, <1>3, <1>4, <1>5, <1>6, <1>7, <1>8 DEF Next, Call, Run

(* The invariant holds of the lock for any number of processes. *)
THEOREM RwlockInvariant == Spec => []IInv
  BY InitIInv, NextIInv, PTL DEF Spec

(* Mutual exclusion of ngx_rwlock.c: a writer is alone, whoever was killed *)
(* and in whatever order the attempts of the processes interleave.         *)
THEOREM RwlockExclusion == Spec => []Exclusion
<1>1. IInv => Exclusion
  BY DEF IInv
<1>. QED
  BY <1>1, RwlockInvariant, PTL

(* unlock infers the mode of its caller correctly from the word. *)
THEOREM RwlockUnlockInfersMode == Spec => []UnlockInfersMode
<1>1. IInv => UnlockInfersMode
  BY DEF IInv
<1>. QED
  BY <1>1, RwlockInvariant, PTL

(* The word of ngx_rwlock.c is the number of readers inside, or all ones   *)
(* exactly while a writer is.                                              *)
THEOREM RwlockWordCounts == Spec => []WordCounts
<1>1. IInv => WordCounts
  BY DEF IInv
<1>. QED
  BY <1>1, RwlockInvariant, PTL

(* The word and the local copies of it stay within the type of the word.   *)
THEOREM RwlockTypeOK == Spec => []TypeOK
<1>1. IInv => TypeOK
  BY DEF IInv
<1>. QED
  BY <1>1, RwlockInvariant, PTL

(* One step of one process takes the abstract lock, gives it back, or      *)
(* leaves it alone.                                                        *)
LEMMA StepSimulation == IInv /\ [Next]_vars => [Held!Next]_held
<1> SUFFICES ASSUME IInv, [Next]_vars PROVE [Held!Next]_held
  OBVIOUS
<1> USE DEF Goto
<1>a. TypeOK /\ Exclusion /\ WordCounts /\ UnlockInfersMode /\ PcMatchesGrant
  BY DEF IInv
<1>b. lock = WLOCK <=> Writers # {}
  BY <1>a, ReadersFinite DEF WordCounts
<1>1. ASSUME NEW p \in Proc, WCall(p) \/ RCall(p) \/ WTest(p) \/ UCall(p)
                             \/ RRead(p) \/ URead(p) \/ UReread(p) \/ Crash(p)
      PROVE  UNCHANGED held
  BY <1>1 DEF WCall, RCall, WTest, UCall, RRead, URead, UReread, Crash
<1>2. ASSUME NEW p \in Proc, WCas(p), held' # held
      PROVE  Held!AcquireW(p)
  <2>1. lock = 0 /\ held' = [held EXCEPT ![p] = "w"]
    BY <1>2 DEF WCas
  <2>2. Writers = {} /\ Readers = {}
    BY <2>1, <1>a, <1>b, ReadersFinite, RwlockAssumption, FS_EmptySet
    DEF WordCounts
  <2>3. Held!WFree(held)
    BY <2>2, <1>a DEF Held!WFree, TypeOK, Held!Mode, Writers, Readers
  <2>. QED
    BY <2>1, <2>3 DEF Held!AcquireW
<1>3. ASSUME NEW p \in Proc, RCas(p), held' # held
      PROVE  Held!AcquireR(p)
  <2>1. /\ pc[p] = "r_cas" /\ lock = readers[p]
        /\ held' = [held EXCEPT ![p] = "r"]
    BY <1>3 DEF RCas
  <2>2. lock # WLOCK /\ held[p] = "none"
    BY <2>1, <1>a DEF PcMatchesGrant
  <2>3. Held!RFree(held)
    BY <2>2, <1>b DEF Held!RFree, Writers
  <2>. QED
    BY <2>1, <2>2, <2>3 DEF Held!AcquireR
<1>4. ASSUME NEW p \in Proc, UStore(p) \/ UCas(p), held' # held
      PROVE  Held!Release(p)
  BY <1>4, <1>a DEF UStore, UCas, UnlockInfersMode, Held!Release
<1>5. CASE UNCHANGED vars
  BY <1>5 DEF vars
<1>. QED
  BY <1>1, <1>2, <1>3, <1>4, <1>5 DEF Next, Call, Run, Held!Next

(* ngx_rwlock.c implements the abstract reader-writer lock that its        *)
(* callers rely on: between them the processes never do anything to the    *)
(* grants that a lock taken and released in one step would not do.         *)
THEOREM RwlockRefines == Spec => ImplementsRWLock
<1>1. Init => Held!Init
  BY DEF Init, Held!Init
<1>. QED
  BY <1>1, StepSimulation, RwlockInvariant, PTL
  DEF Spec, ImplementsRWLock, Held!Spec
=============================================================================
