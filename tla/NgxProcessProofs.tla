-------------------------- MODULE NgxProcessProofs --------------------------
(***************************************************************************)
(* The worker processes: how the master keeps them                         *)
(* (os/unix/ngx_process_cycle.c), and how they share the listening sockets *)
(* with the accept mutex (event/ngx_event_accept.c).                       *)
(*                                                                         *)
(* The master, for any configurations and any number of slots, signals and *)
(* faults: it exits only after its children, and they are as many as were  *)
(* configured.  The accept mutex, for any number of workers, listening     *)
(* sockets and connections: it is owned only within a round, its owner     *)
(* listens, and nobody else does who tried.                                *)
(***************************************************************************)
EXTENDS NgxProcessCycle, NgxAccept, FiniteSetTheorems, TLAPS
-----------------------------------------------------------------------------
(* The accept mutex *)

(* The first round starts with nothing held and nothing shared enabled. *)
LEMMA InitIInv == Init => IInv
<1> SUFFICES ASSUME Init PROVE IInv
  OBVIOUS
<1> USE AcceptAssumption
<1>1. TypeOK
  BY DEF Init, TypeOK, FirstActive, Sockets
<1>2. OwnedInRound
  BY DEF Init, OwnedInRound
<1>3. HeldListens
  BY DEF Init, HeldListens, FirstActive, Sockets
<1>. QED
  BY <1>1, <1>2, <1>3 DEF IInv

(* The steps at the top of a round. *)
LEMMA RoundStep ==
    ASSUME IInv, NEW w \in Worker, Round(w)
    PROVE  IInv'
<1> USE AcceptAssumption DEF IInv, Goto
<1>1. CASE Skip(w)
  <2>1. TypeOK'
    BY <1>1 DEF Skip, TypeOK
  <2>2. OwnedInRound' /\ HeldListens'
    BY <1>1 DEF Skip, TypeOK, OwnedInRound, HeldListens
  <2>. QED
    BY <2>1, <2>2
<1>2. CASE Locked(w)
  <2>1. TypeOK'
    BY <1>2 DEF Locked, TypeOK, Sockets
  <2>2. OwnedInRound' /\ HeldListens'
    BY <1>2 DEF Locked, TypeOK, OwnedInRound, HeldListens, Sockets
  <2>. QED
    BY <2>1, <2>2
<1>3. CASE Lost(w)
  <2>1. TypeOK'
    BY <1>3 DEF Lost, TypeOK
  <2>2. OwnedInRound' /\ HeldListens'
    BY <1>3 DEF Lost, TypeOK, OwnedInRound, HeldListens
  <2>. QED
    BY <2>1, <2>2
<1>4. CASE Wait(w)
  <2>1. TypeOK'
    BY <1>4 DEF Wait, TypeOK
  <2>2. OwnedInRound' /\ HeldListens'
    BY <1>4 DEF Wait, TypeOK, OwnedInRound, HeldListens
  <2>. QED
    BY <2>1, <2>2
<1>. QED
  BY <1>1, <1>2, <1>3, <1>4 DEF Round

(* The handling of accept events; only EMFILE touches the mutex. *)
LEMMA HandleStep ==
    ASSUME IInv, NEW w \in Worker, NEW l \in Sockets(w),
           AcceptAgain(w, l) \/ Accept(w, l) \/ TooManyFiles(w, l)
           \/ Timeout(w, l)
    PROVE  IInv'
<1> USE AcceptAssumption DEF IInv
<1>0. l \in Shared \cup Worker /\ l \in Shared \cup {w}
  BY DEF Sockets
<1>1. CASE AcceptAgain(w, l)
  BY <1>1 DEF AcceptAgain, TypeOK, OwnedInRound, HeldListens
<1>2. CASE Accept(w, l)
  <2>a. Cardinality(Sockets(w)) \in Nat
    <3>1. IsFiniteSet(Sockets(w))
      BY FS_AddElement DEF Sockets
    <3>. QED
      BY <3>1, FS_CardinalityType
  <2>b. open[w] \in Nat /\ CONN \div 8 \in Int
    BY DEF TypeOK
  <2>0. FreeConnections(w) \in Int /\ CONN \div 8 - FreeConnections(w) \in Int
    BY <2>a, <2>b DEF FreeConnections
  <2>1. TypeOK'
    <3>1. /\ pending[l] > 0 /\ open[w] < FILES
          /\ pending' = [pending EXCEPT ![l] = @ - 1]
          /\ disabled' = [disabled EXCEPT ![w] = CONN \div 8 - FreeConnections(w)]
          /\ UNCHANGED <<mutex, owner, pc, held, active, timer, skipped, kills>>
      BY <1>2, ZenonT(30) DEF Accept
    <3>2. ready' \in {ready, [ready EXCEPT ![w] = @ \ {l}]}
      BY <1>2, ZenonT(30) DEF Accept
    <3>3. open' \in {open, [open EXCEPT ![w] = @ + 1]}
      BY <1>2, ZenonT(30) DEF Accept
    <3>4. /\ pending' \in [Shared \cup Worker -> 0 .. MAX_PENDING]
          /\ disabled' \in [Worker -> Int]
      BY <1>0, <2>0, <3>1 DEF TypeOK
    <3>5. /\ ready' \in [Worker -> SUBSET (Shared \cup Worker)]
          /\ \A v \in Worker : active'[v] \cup ready'[v] \subseteq Shared \cup {v}
      BY <3>1, <3>2 DEF TypeOK
    <3>6. open' \in [Worker -> 0 .. FILES]
      BY <3>1, <3>3 DEF TypeOK
    <3>. QED
      BY <3>1, <3>4, <3>5, <3>6, ZenonT(30) DEF TypeOK
  <2>2. OwnedInRound' /\ HeldListens'
    BY <1>2, ZenonT(30) DEF Accept, OwnedInRound, HeldListens
  <2>. QED
    BY <2>1, <2>2
<1>3. CASE TooManyFiles(w, l)
  <2>a. active' = [active EXCEPT ![w] = {}] /\ ready' = [ready EXCEPT ![w] = @ \ {l}]
    BY <1>3 DEF TooManyFiles
  <2>b. owner' \in {owner, Nobody}
    BY <1>3 DEF TooManyFiles
  <2>e. held' = [held EXCEPT ![w] = FALSE] \/ held' = held
    BY <1>3 DEF TooManyFiles
  <2>f. disabled' = [disabled EXCEPT ![w] = 1] \/ disabled' = disabled
    BY <1>3, ZenonT(30) DEF TooManyFiles
  <2>c. timer' \in [Worker -> SUBSET (Shared \cup Worker)]
    BY <1>3, <1>0 DEF TooManyFiles, TypeOK
  <2>d. UNCHANGED <<mutex, pending, pc, open, skipped, kills>>
    BY <1>3, ZenonT(30) DEF TooManyFiles
  <2>i. held' \in [Worker -> BOOLEAN]
    BY <2>e, Zenon DEF TypeOK
  <2>g. /\ disabled' \in [Worker -> Int]
        /\ active' \in [Worker -> SUBSET (Shared \cup Worker)]
        /\ ready' \in [Worker -> SUBSET (Shared \cup Worker)]
    BY <2>a, <2>f DEF TypeOK
  <2>h. \A v \in Worker : active'[v] \cup ready'[v] \subseteq Shared \cup {v}
    BY <2>a DEF TypeOK
  <2>1. TypeOK'
    BY <2>b, <2>c, <2>d, <2>g, <2>h, <2>i DEF TypeOK
  <2>2. OwnedInRound' /\ HeldListens'
    BY <1>3 DEF TooManyFiles, TypeOK, OwnedInRound, HeldListens
  <2>. QED
    BY <2>1, <2>2
<1>4. CASE Timeout(w, l)
  <2>1. TypeOK'
    BY <1>4, <1>0 DEF Timeout, TypeOK, Sockets
  <2>2. OwnedInRound' /\ HeldListens'
    BY <1>4, ZenonT(30) DEF Timeout, TypeOK, OwnedInRound, HeldListens
  <2>. QED
    BY <2>1, <2>2
<1>. QED
  BY <1>1, <1>2, <1>3, <1>4

(* A client that leaves does not touch the mutex, and the end of a round   *)
(* gives it back; a killed worker keeps it until the master has seen to it. *)
LEMMA EndStep ==
    ASSUME IInv, NEW w \in Worker,
           Leave(w) \/ End(w) \/ Kill(w) \/ Respawn(w)
    PROVE  IInv'
<1> USE AcceptAssumption DEF IInv, Goto
<1>0. CASE Leave(w)
  <2>1. TypeOK'
    BY <1>0 DEF Leave, TypeOK
  <2>2. OwnedInRound' /\ HeldListens'
    BY <1>0, ZenonT(30) DEF Leave, OwnedInRound, HeldListens
  <2>. QED
    BY <2>1, <2>2
<1>1. CASE End(w)
  <2>1. TypeOK'
    BY <1>1 DEF End, TypeOK
  <2>2. OwnedInRound' /\ HeldListens'
    BY <1>1 DEF End, TypeOK, OwnedInRound, HeldListens
  <2>. QED
    BY <2>1, <2>2
<1>2. CASE Kill(w)
  <2>1. TypeOK'
    BY <1>2 DEF Kill, TypeOK
  <2>2. OwnedInRound' /\ HeldListens'
    BY <1>2 DEF Kill, TypeOK, OwnedInRound, HeldListens
  <2>. QED
    BY <2>1, <2>2
<1>3. CASE Respawn(w)
  <2>1. TypeOK'
    BY <1>3 DEF Respawn, TypeOK, FirstActive, Sockets
  <2>2. OwnedInRound' /\ HeldListens'
    BY <1>3 DEF Respawn, TypeOK, OwnedInRound, HeldListens, FirstActive, Sockets
  <2>. QED
    BY <2>1, <2>2
<1>. QED
  BY <1>0, <1>1, <1>2, <1>3

(* The invariant behind the three properties holds in every round. *)
THEOREM AcceptInvariant == Spec => []IInv
<1>1. IInv /\ [Next]_vars => IInv'
  <2> SUFFICES ASSUME IInv, [Next]_vars PROVE IInv'
    OBVIOUS
  <2>1. ASSUME NEW l \in Shared \cup Worker, Arrive(l)
        PROVE  IInv'
    BY <2>1, AcceptAssumption
    DEF Arrive, IInv, TypeOK, OwnedInRound, HeldListens
  <2>2. CASE UNCHANGED vars
    BY <2>2, ZenonT(30) DEF vars, IInv, TypeOK, OwnedInRound, HeldListens
  <2>. QED
    BY <2>1, <2>2, RoundStep, HandleStep, EndStep DEF Next, Handle
<1>. QED
  BY <1>1, InitIInv, PTL DEF Spec

(* No path through ngx_event_accept and ngx_trylock_accept_mutex leaves    *)
(* the mutex locked at the end of a round.                                 *)
THEOREM AcceptOwnedInRound == Spec => []OwnedInRound
<1>1. IInv => OwnedInRound
  BY DEF IInv
<1>. QED
  BY <1>1, AcceptInvariant, PTL

(* The owner of the accept mutex listens on every shared socket.           *)
THEOREM AcceptHolderListens == Spec => []HolderListens
<1>1. IInv => HolderListens
  BY DEF IInv, OwnedInRound, HeldListens, HolderListens
<1>. QED
  BY <1>1, AcceptInvariant, PTL

(* Of the workers that tried for the accept mutex, only its owner listens. *)
THEOREM AcceptOneListener == Spec => []OneListener
<1>1. IInv => OneListener
  BY DEF IInv, TypeOK, HeldListens, OneListener
<1>. QED
  BY <1>1, AcceptInvariant, PTL
-----------------------------------------------------------------------------
(* The invariant of the master *)

ProcessType ==
    [kind : {"none", "worker", "manager", "loader", "binary"},
     state : {"run", "shutting", "hung", "zombie", "fatal", "gone"},
     told : {"none", "quit", "terminate", "kill"},
     old : BOOLEAN, exiting : BOOLEAN, exited : BOOLEAN, detached : BOOLEAN,
     respawn : BOOLEAN, just_spawn : BOOLEAN]

ConfType == [workers : Nat, manager : BOOLEAN, loader : BOOLEAN]

MasterType ==
    [processes : [Slot -> ProcessType], ccf : ConfType, fail : Nat,
     short : BOOLEAN, terminate : BOOLEAN, quit : BOOLEAN, reap : BOOLEAN,
     sigalrm : BOOLEAN,
     todo : SUBSET {"reconfigure", "noaccept", "reopen", "change_binary", "restart"},
     new_binary : Int, noaccepting : BOOLEAN, live : BOOLEAN, delay : Nat,
     sigio : Nat]

AliveStates == {"run", "shutting", "hung"}

\* Nobody is in a free slot, and nobody who was waited for is alive.
Sane(p) ==
    /\ ~Used(p) => p.state = "gone" /\ ~p.respawn
    /\ p.exited => p.state = "gone"
    /\ p.told = "kill" => p.state \in AliveStates

Typed(s) == s \in MasterType /\ \A i \in Slot : Sane(s.processes[i])

\* A master that believes it has no children has none.
Watched(s) ==
    ~s.live => \A i \in Slot : \/ s.processes[i].state \notin AliveStates
                               \/ s.processes[i].detached

StaffOf(s) == {i \in Slot : s.processes[i].respawn /\ ~s.processes[i].exiting}

\* Staffed, of any state of the master.
Manned(s) ==
    ~(s.terminate \/ s.quit \/ s.noaccepting \/ s.short \/ "restart" \in s.todo)
        => Cardinality(StaffOf(s)) >= CrewOf(s.ccf)

\* What most steps of the cycle leave alone.
Kept(s, t) ==
    /\ t.terminate = s.terminate /\ t.quit = s.quit /\ t.ccf = s.ccf
    /\ t.noaccepting = s.noaccepting /\ t.todo = s.todo /\ t.new_binary = s.new_binary

\* What a case of the loop does, from s to t.
Carries(s, t) ==
    /\ Typed(t) /\ Manned(t)
    /\ Watched(s) => Watched(t)
    /\ t.terminate = s.terminate /\ t.quit = s.quit
    /\ t.todo \subseteq s.todo

\* A request to reload is left over only when the master goes.  Without
\* reloads during an upgrade the case of the loop that starts processes and
\* leaves live as it was is never reached.
MasterInv ==
    /\ Typed(ngx) /\ Manned(ngx)
    /\ "reconfigure" \in ngx.todo => ngx.terminate \/ ngx.quit
    /\ ~RELOAD_IN_UPGRADE => /\ Watched(ngx)
                             /\ exited => ~ngx.live
                             /\ "HUP" \in raised => ngx.new_binary = 0
-----------------------------------------------------------------------------
(* ngx_signal_worker_processes *)

\* A signal leaves the state of a process as it is; one that was just spawned,
\* or that is told to reopen its logs, is not told to go.
LEMMA SignalledProcess ==
  ASSUME NEW p \in ProcessType, Sane(p), NEW sig \in {"quit", "terminate", "kill", "reopen"}
  PROVE  /\ Signalled(p, sig) \in ProcessType
         /\ Sane(Signalled(p, sig))
         /\ Signalled(p, sig).state = p.state
         /\ Signalled(p, sig).detached = p.detached
         /\ Signalled(p, sig).respawn = p.respawn
         /\ (sig = "reopen" \/ p.just_spawn) /\ ~p.exiting => ~Signalled(p, sig).exiting
<1>1. Signalled(p, sig) \in ProcessType
  <2>1. ASSUME NEW x \in {"none", "quit", "terminate", "kill"}
        PROVE  [p EXCEPT !.exiting = TRUE, !.told = x] \in ProcessType
    BY ZenonT(30) DEF ProcessType
  <2>2. [p EXCEPT !.exited = TRUE, !.exiting = FALSE] \in ProcessType
    BY ZenonT(30) DEF ProcessType
  <2>3. [p EXCEPT !.just_spawn = FALSE] \in ProcessType
    BY ZenonT(30) DEF ProcessType
  <2>4. p.told \in {"none", "quit", "terminate", "kill"}
    BY ZenonT(30) DEF ProcessType
  <2>5. sig # "reopen" => Heard(p, sig) \in {"none", "quit", "terminate", "kill"}
    BY <2>4, ZenonT(30) DEF Heard
  <2>6. Told(p, sig) \in ProcessType
    BY <2>1, <2>2, <2>5, ZenonT(30) DEF Told
  <2> QED BY <2>3, <2>6, ZenonT(30) DEF Signalled
<1>2. /\ Signalled(p, sig).state = p.state
      /\ Signalled(p, sig).detached = p.detached
      /\ Signalled(p, sig).respawn = p.respawn
      /\ Signalled(p, sig).kind = p.kind
  BY ZenonT(30) DEF Signalled, Told, ProcessType
<1>3. (sig = "reopen" \/ p.just_spawn) /\ ~p.exiting => ~Signalled(p, sig).exiting
  BY ZenonT(30) DEF Signalled, Told, Addressed, ProcessType
<1>4. Signalled(p, sig).exited => p.exited \/ p.state = "gone"
  BY ZenonT(30) DEF Signalled, Told, ProcessType
<1>5. Signalled(p, sig).told = "kill" => p.told = "kill" \/ (~Dead(p) /\ p.state # "gone")
  <2>1. \/ Signalled(p, sig).told = p.told
        \/ p.state # "gone" /\ Signalled(p, sig).told = Heard(p, sig)
    BY ZenonT(30) DEF Signalled, Told, ProcessType
  <2>2. CASE sig = "kill"
    <3>1. Heard(p, sig) = IF Dead(p) THEN "none" ELSE "kill"
      BY <2>2 DEF Heard
    <3> QED BY <2>1, <3>1, ZenonT(30)
  <2>3. CASE sig # "kill"
    <3>1. Heard(p, sig) \in {p.told, sig}
      BY <2>3 DEF Heard
    <3> QED BY <2>1, <2>3, <3>1, ZenonT(30)
  <2> QED BY <2>2, <2>3
<1>6. ~Dead(p) /\ p.state # "gone" => p.state \in AliveStates
  BY ZenonT(30) DEF ProcessType, Dead, AliveStates
<1> QED BY <1>1, <1>2, <1>3, <1>4, <1>5, <1>6, ZenonT(30) DEF Sane, Used

\* ngx_signal_worker_processes changes the processes only, each as Signalled says.
LEMMA SignalKeeps ==
  ASSUME NEW s, Typed(s), NEW sig \in {"quit", "terminate", "kill", "reopen"}
  PROVE  /\ Typed(Signal(s, sig))
         /\ Kept(s, Signal(s, sig))
         /\ Signal(s, sig).live = s.live
         /\ Signal(s, sig).short = s.short
         /\ \A i \in Slot : Signal(s, sig).processes[i] = Signalled(s.processes[i], sig)
<1> DEFINE f == [i \in Slot |-> Signalled(s.processes[i], sig)]
           r == s.reap \/ \E i \in Slot : /\ Addressed(s.processes[i], sig)
                                         /\ s.processes[i].state = "gone"
<1>0. Signal(s, sig) = [s EXCEPT !.processes = f, !.reap = r]
  BY ZenonT(30) DEF Signal
<1>1. s \in MasterType
  BY DEF Typed
<1>2. \A i \in Slot : s.processes[i] \in ProcessType /\ Sane(s.processes[i])
  BY ZenonT(30) DEF Typed, MasterType
<1>3. f \in [Slot -> ProcessType] /\ \A i \in Slot : Sane(f[i])
  BY <1>2, SignalledProcess, ZenonT(30)
<1>4. r \in BOOLEAN
  BY <1>1, ZenonT(30) DEF MasterType
<1>5. \A i \in Slot : f[i] = Signalled(s.processes[i], sig)
  BY ZenonT(30)
<1> HIDE DEF f, r
<1> DEFINE t == [s EXCEPT !.processes = f, !.reap = r]
<1>6. t \in MasterType
  BY <1>1, <1>3, <1>4, ZenonT(30) DEF MasterType
<1>7. t.processes = f /\ Kept(s, t) /\ t.live = s.live /\ t.short = s.short
  BY <1>1, ZenonT(30) DEF MasterType, Kept
<1> HIDE DEF t
<1>8. Typed(t)
  BY <1>3, <1>6, <1>7, ZenonT(30) DEF Typed
<1>9. Signal(s, sig) = t
  BY <1>0 DEF t
<1> QED BY <1>5, <1>7, <1>8, <1>9, ZenonT(30)
-----------------------------------------------------------------------------
(* Spawning *)

\* The slots are numbered by Rank, without gaps.
LEMMA RankCounts ==
  ASSUME NEW S \in SUBSET Slot, NEW n \in Nat, n <= Cardinality(S)
  PROVE  /\ \A i \in S : Rank(i, S) \in Nat \ {0}
         /\ Cardinality({i \in S : Rank(i, S) <= n}) >= n
<1> DEFINE U(i) == {j \in S : j <= i}
           m == Cardinality(S)
<1>1. NGX_MAX_PROCESSES \in Nat
  BY CycleAssumption
<1>2. IsFiniteSet(S) /\ m \in Nat
  <2>1. IsFiniteSet(Slot)
    BY <1>1, FS_Interval DEF Slot
  <2> QED BY <2>1, FS_Subset, FS_CardinalityType
<1>3. S \subseteq Int
  BY <1>1 DEF Slot
<1>4. \A i : IsFiniteSet(U(i)) /\ Cardinality(U(i)) \in Nat /\ Cardinality(U(i)) <= m
  BY <1>2, FS_Subset, FS_CardinalityType
<1>5. \A i \in S : i \in U(i)
  BY <1>3
<1>6. \A i \in S : Cardinality(U(i)) # 0
  BY <1>4, <1>5, FS_EmptySet
<1>7. \A i \in S : Rank(i, S) = Cardinality(U(i))
  BY DEF Rank
<1> DEFINE R == [i \in S |-> Cardinality(U(i))]
<1>8. R \in [S -> 1 .. m]
  BY <1>2, <1>4, <1>6
<1>9. ASSUME NEW i \in S, NEW j \in S, i < j
      PROVE  Cardinality(U(i)) # Cardinality(U(j))
  <2>1. U(i) \subseteq U(j) /\ j \in U(j) /\ j \notin U(i)
    <3>1. i \in Int /\ j \in Int /\ \A k \in S : k \in Int
      BY <1>3, ZenonT(30)
    <3>2. j <= j /\ ~(j <= i) /\ \A k \in S : k <= i => k <= j
      BY <1>9, <3>1
    <3> QED BY <3>2, ZenonT(30)
  <2>2. U(i) # U(j)
    BY <2>1
  <2> QED BY <1>4, <2>1, <2>2, FS_Subset
<1>10. \A i, j \in S : i # j => R[i] # R[j]
  BY <1>3, <1>9
<1>11. R \in Injection(S, 1 .. m)
  BY <1>8, <1>10, ZenonT(30) DEF Injection, IsInjective
<1>12. IsFiniteSet(1 .. m) /\ Cardinality(1 .. m) = m
  BY <1>2, FS_Interval
<1>13. R \in Surjection(S, 1 .. m)
  BY <1>11, <1>12, FS_Injection
<1> DEFINE A == {i \in S : Rank(i, S) <= n}
           Q == [i \in A |-> R[i]]
<1>14. Q \in Surjection(A, 1 .. n)
  <2>1. Q \in [A -> 1 .. n]
    BY <1>2, <1>7, <1>8
  <2>2. ASSUME NEW k \in 1 .. n PROVE \E i \in A : Q[i] = k
    <3>1. k \in 1 .. m
      BY <1>2
    <3>2. PICK i \in S : R[i] = k
      BY <1>13, <3>1, ZenonT(30) DEF Surjection
    <3> QED BY <1>7, <3>2
  <2> QED BY <2>1, <2>2, ZenonT(30) DEF Surjection
<1>15. IsFiniteSet(A)
  BY <1>2, FS_Subset
<1>16. Cardinality(1 .. n) = n
  BY FS_Interval
<1>17. Cardinality(A) >= n
  BY <1>14, <1>15, <1>16, FS_Surjection, FS_CardinalityType
<1> QED BY <1>4, <1>6, <1>7, <1>17, ZenonT(30)

\* The slot that ngx_spawn_process finds is free.
LEMMA SlotMin == ASSUME NEW S \in SUBSET Slot, S # {} PROVE Min(S) \in S
<1> DEFINE U(i) == {j \in S : j <= i}
           A == {i \in S : Rank(i, S) <= 1}
<1>1. IsFiniteSet(S) /\ Cardinality(S) \in Nat /\ S \subseteq Int
  <2>1. IsFiniteSet(Slot) /\ Slot \subseteq Int
    BY CycleAssumption, FS_Interval DEF Slot
  <2> QED BY <2>1, FS_Subset, FS_CardinalityType, ZenonT(30)
<1>2. 1 <= Cardinality(S)
  BY <1>1, FS_EmptySet
<1>3. Cardinality(A) >= 1
  BY <1>2, RankCounts
<1>4. A # {}
  BY <1>3, FS_EmptySet
<1>5. PICK i \in S : Rank(i, S) <= 1
  BY <1>4
<1>6. U(i) = {i}
  <2>1. IsFiniteSet(U(i)) /\ Cardinality(U(i)) \in Nat
    BY <1>1, FS_Subset, FS_CardinalityType
  <2>2. {i} \in SUBSET U(i)
    BY <1>1
  <2>3. IsFiniteSet({i}) /\ Cardinality({i}) = 1
    BY FS_Singleton
  <2>4. 1 <= Cardinality(U(i))
    BY <2>1, <2>2, <2>3, FS_Subset
  <2>5. Cardinality(U(i)) = 1
    BY <1>5, <2>1, <2>4 DEF Rank
  <2> HIDE DEF U
  <2> QED BY <2>1, <2>2, <2>3, <2>5, FS_Subset
<1>7. \A j \in S : i <= j
  BY <1>1, <1>6
<1> QED BY <1>7, ZenonT(30) DEF Min

\* What is started runs, is no process of an upgrade, and is respawned if it
\* belongs to the crew.
LEMMA NthProcess ==
  ASSUME NEW ccf \in ConfType, NEW n \in Nat, NEW just \in BOOLEAN
  PROVE  /\ Nth(ccf, n, just) \in ProcessType
         /\ Sane(Nth(ccf, n, just))
         /\ Nth(ccf, n, just).respawn = (n <= CrewOf(ccf))
         /\ Nth(ccf, n, just).just_spawn = just
         /\ ~Nth(ccf, n, just).exiting
<1> DEFINE k == CASE n <= ccf.workers -> "worker"
                  [] n = ccf.workers + 1 -> "manager"
                  [] OTHER -> "loader"
           r == n <= CrewOf(ccf)
<1>1. k \in {"worker", "manager", "loader"}
  BY DEF ConfType
<1>2. r \in BOOLEAN
  OBVIOUS
<1>3. Nth(ccf, n, just) = Process(k, FALSE, r, just)
  BY DEF Nth
<1> HIDE DEF k, r
<1> DEFINE p == Process(k, FALSE, r, just)
<1>4. /\ p \in ProcessType /\ p.kind = k /\ p.state = "run" /\ p.told = "none"
      /\ p.respawn = r /\ p.just_spawn = just /\ p.exiting = FALSE /\ p.exited = FALSE
  BY <1>1, <1>2, ZenonT(30) DEF Process, NoProcess, ProcessType
<1>5. Sane(p)
  <2>1. k # "none"
    BY <1>1
  <2> QED BY <1>4, <2>1, ZenonT(30) DEF Sane, Used
<1> QED BY <1>3, <1>4, <1>5, ZenonT(30) DEF r

\* The processes that ngx_start_worker_processes and
\* ngx_start_cache_manager_processes start take free slots; the others stay as
\* they are.  Unless s.short says otherwise, the new ones are a whole crew.
LEMMA StartKeeps ==
  ASSUME NEW s, Typed(s), NEW just \in BOOLEAN
  PROVE  /\ Typed(Start(s, just))
         /\ Kept(s, Start(s, just))
         /\ Start(s, just).live = s.live
         /\ s.short => Start(s, just).short
         /\ \A i \in Slot : Used(s.processes[i]) =>
               Start(s, just).processes[i] = s.processes[i]
         /\ ~Start(s, just).short =>
               Cardinality({i \in FreeSlots(s) :
                               /\ Start(s, just).processes[i].respawn
                               /\ ~Start(s, just).processes[i].exiting
                               /\ Start(s, just).processes[i].just_spawn = just})
                   >= CrewOf(s.ccf)
<1> DEFINE n == Number(s.ccf)
           f == [i \in Slot |->
                   IF i \in FreeSlots(s) /\ Attempt(s, i) <= n
                   THEN Nth(s.ccf, Attempt(s, i), just) ELSE s.processes[i]]
           a == After(n, s.fail)
           b == \/ s.short \/ s.fail \in 1 .. CrewOf(s.ccf)
                \/ Cardinality(FreeSlots(s)) < CrewOf(s.ccf)
<1>0. Start(s, just) = [s EXCEPT !.processes = f, !.fail = a, !.short = b]
  BY ZenonT(30) DEF Start
<1>1. s \in MasterType
  BY DEF Typed
<1>2. \A i \in Slot : s.processes[i] \in ProcessType /\ Sane(s.processes[i])
  BY ZenonT(30) DEF Typed, MasterType
<1>3. s.ccf \in ConfType /\ s.fail \in Nat
  BY <1>1, ZenonT(30) DEF MasterType
<1>4. n \in Nat /\ CrewOf(s.ccf) \in Nat /\ CrewOf(s.ccf) <= n
  BY <1>3 DEF Number, CrewOf, ConfType
<1>5. FreeSlots(s) \subseteq Slot
  BY DEF FreeSlots
<1>6. /\ IsFiniteSet(FreeSlots(s))
      /\ Cardinality(FreeSlots(s)) \in Nat
  <2>1. IsFiniteSet(Slot)
    BY CycleAssumption, FS_Interval DEF Slot
  <2> QED BY <1>5, <2>1, FS_Subset, FS_CardinalityType
<1>7. \A i \in FreeSlots(s) : Rank(i, FreeSlots(s)) \in Nat \ {0}
  <2>1. 0 \in Nat /\ 0 <= Cardinality(FreeSlots(s))
    BY <1>6
  <2> QED BY <1>5, <2>1, RankCounts, ZenonT(30)
<1>8. \A i \in FreeSlots(s) : Attempt(s, i) \in Nat
  BY <1>7 DEF Attempt
<1>9. ASSUME NEW i \in Slot PROVE f[i] \in ProcessType /\ Sane(f[i])
  BY <1>2, <1>3, <1>8, NthProcess, ZenonT(30)
<1>10. f \in [Slot -> ProcessType]
  BY <1>9, ZenonT(30)
<1>11. a \in Nat /\ b \in BOOLEAN
  BY <1>1, <1>3, <1>4 DEF After, MasterType
<1>12. \A i \in Slot : Used(s.processes[i]) => f[i] = s.processes[i]
  <2> SUFFICES ASSUME NEW i \in Slot, Used(s.processes[i])
               PROVE  f[i] = s.processes[i]
    OBVIOUS
  <2>1. i \notin FreeSlots(s)
    BY DEF FreeSlots
  <2> QED BY <2>1
<1>13. ASSUME ~b
       PROVE  Cardinality({i \in FreeSlots(s) : /\ f[i].respawn /\ ~f[i].exiting
                                                /\ f[i].just_spawn = just})
                  >= CrewOf(s.ccf)
  <2> DEFINE A == {i \in FreeSlots(s) : Rank(i, FreeSlots(s)) <= CrewOf(s.ccf)}
             Z == {i \in FreeSlots(s) : /\ f[i].respawn /\ ~f[i].exiting
                                        /\ f[i].just_spawn = just}
  <2>1. /\ s.fail \notin 1 .. CrewOf(s.ccf)
        /\ CrewOf(s.ccf) <= Cardinality(FreeSlots(s))
    BY <1>4, <1>6, <1>13
  <2>2. Cardinality(A) >= CrewOf(s.ccf)
    BY <1>4, <1>5, <2>1, RankCounts, ZenonT(30)
  <2>3. ASSUME NEW i \in A PROVE i \in Z
    <3>1. i \in FreeSlots(s) /\ i \in Slot
      BY <1>5, <2>3
    <3>2. Attempt(s, i) = Rank(i, FreeSlots(s)) /\ Attempt(s, i) <= CrewOf(s.ccf)
      BY <1>3, <1>4, <1>7, <2>1, <2>3, <3>1 DEF Attempt
    <3>3. Attempt(s, i) <= n /\ Attempt(s, i) \in Nat
      BY <1>4, <1>8, <3>1, <3>2
    <3>4. f[i] = Nth(s.ccf, Attempt(s, i), just)
      BY <3>1, <3>3, ZenonT(30)
    <3> QED BY <1>3, <3>1, <3>2, <3>3, <3>4, NthProcess, ZenonT(30)
  <2>4. IsFiniteSet(Z) /\ A \in SUBSET Z
    BY <1>6, <2>3, FS_Subset, ZenonT(30)
  <2> HIDE DEF A, Z
  <2>5. Cardinality(A) <= Cardinality(Z) /\ IsFiniteSet(A)
    BY <2>4, FS_Subset, ZenonT(30)
  <2>6. Cardinality(Z) \in Nat /\ Cardinality(A) \in Nat
    BY <2>4, <2>5, FS_CardinalityType, ZenonT(30)
  <2>7. Cardinality(Z) >= CrewOf(s.ccf)
    BY <1>4, <2>2, <2>5, <2>6
  <2> QED BY <2>7, ZenonT(30) DEF Z
<1> HIDE DEF f, a, n
<1> DEFINE t == [s EXCEPT !.processes = f, !.fail = a, !.short = b]
<1>14. s.short => b
  BY ZenonT(30)
<1> HIDE DEF b
<1>15. t \in MasterType
  BY <1>1, <1>10, <1>11, ZenonT(30) DEF MasterType
<1>16. t.processes = f /\ Kept(s, t) /\ t.live = s.live /\ t.short = b
  BY <1>1, ZenonT(30) DEF MasterType, Kept
<1> HIDE DEF t
<1>17. Typed(t)
  BY <1>9, <1>15, <1>16, ZenonT(30) DEF Typed
<1>18. Start(s, just) = t
  BY <1>0, ZenonT(30) DEF t
<1> QED BY <1>12, <1>13, <1>14, <1>16, <1>17, <1>18, ZenonT(30)
-----------------------------------------------------------------------------
(* The cases of ngx_master_process_cycle *)

\* u is s but for a flag that is reset.
Cleared(s, flag, u) ==
  /\ Typed(u) /\ u.todo = s.todo \ {flag}
  /\ u.processes = s.processes
  /\ u.live = s.live /\ u.short = s.short
  /\ u.terminate = s.terminate /\ u.quit = s.quit
  /\ u.noaccepting = s.noaccepting /\ u.ccf = s.ccf
  /\ u.new_binary = s.new_binary /\ u.fail = s.fail

\* The loop resets a flag that a handler has set, and nothing else.
LEMMA DoneKeeps ==
  ASSUME NEW s, Typed(s), NEW flag
  PROVE  Cleared(s, flag, Done(s, flag))
<1>1. s \in MasterType
  BY DEF Typed
<1>2. s.todo \ {flag} \in SUBSET {"reconfigure", "noaccept", "reopen", "change_binary", "restart"}
  BY <1>1, ZenonT(30) DEF MasterType
<1> DEFINE d == s.todo \ {flag}
           t == [s EXCEPT !.todo = d]
<1>3. Done(s, flag) = t
  BY ZenonT(30) DEF Done
<1>4. d \in SUBSET {"reconfigure", "noaccept", "reopen", "change_binary", "restart"}
  BY <1>2
<1> HIDE DEF d
<1>5. t \in MasterType
  BY <1>1, <1>4, ZenonT(30) DEF MasterType
<1>6. /\ t.todo = d /\ t.processes = s.processes
      /\ t.live = s.live /\ t.short = s.short
      /\ t.terminate = s.terminate /\ t.quit = s.quit
      /\ t.noaccepting = s.noaccepting /\ t.ccf = s.ccf
      /\ t.new_binary = s.new_binary /\ t.fail = s.fail
  BY <1>1, ZenonT(30) DEF MasterType
<1> HIDE DEF t
<1>7. Typed(t)
  BY <1>5, <1>6, ZenonT(30) DEF Typed
<1>8. Cleared(s, flag, t)
  BY <1>6, <1>7, ZenonT(30) DEF Cleared, d
<1> QED BY <1>3, <1>8

\* The crew stays complete if nobody leaves it.
LEMMA StaffGrows ==
  ASSUME NEW s, NEW t, Manned(s), t.ccf = s.ccf,
         StaffOf(s) \subseteq StaffOf(t), CrewOf(s.ccf) \in Nat,
         (s.terminate \/ s.quit \/ s.noaccepting \/ s.short \/ "restart" \in s.todo)
             => (t.terminate \/ t.quit \/ t.noaccepting \/ t.short \/ "restart" \in t.todo)
  PROVE  Manned(t)
<1>1. IsFiniteSet(Slot)
  BY CycleAssumption, FS_Interval DEF Slot
<1>2. IsFiniteSet(StaffOf(t)) /\ IsFiniteSet(StaffOf(s))
  BY <1>1, FS_Subset, ZenonT(30) DEF StaffOf
<1>3. /\ Cardinality(StaffOf(s)) <= Cardinality(StaffOf(t))
      /\ Cardinality(StaffOf(s)) \in Nat /\ Cardinality(StaffOf(t)) \in Nat
  BY <1>2, FS_Subset, FS_CardinalityType, ZenonT(30)
<1>4. Cardinality(StaffOf(s)) >= CrewOf(s.ccf) => Cardinality(StaffOf(t)) >= CrewOf(s.ccf)
  BY <1>3
<1> QED BY <1>4, ZenonT(30) DEF Manned

\* How many processes a configuration asks for is a number.
LEMMA CrewNat == ASSUME NEW s, Typed(s) PROVE s.ccf \in ConfType /\ CrewOf(s.ccf) \in Nat
<1>1. s.ccf \in ConfType
  BY ZenonT(30) DEF Typed, MasterType
<1> QED BY <1>1 DEF CrewOf, ConfType

\* A crew among the staff is enough.
LEMMA EnoughStaff ==
  ASSUME NEW t, Typed(t), NEW Z \in SUBSET StaffOf(t), Cardinality(Z) >= CrewOf(t.ccf)
  PROVE  Cardinality(StaffOf(t)) >= CrewOf(t.ccf)
<1>1. IsFiniteSet(Slot)
  BY CycleAssumption, FS_Interval DEF Slot
<1>2. IsFiniteSet(StaffOf(t))
  BY <1>1, FS_Subset, ZenonT(30) DEF StaffOf
<1>3. Cardinality(Z) <= Cardinality(StaffOf(t)) /\ IsFiniteSet(Z)
  BY <1>2, FS_Subset, ZenonT(30)
<1>4. Cardinality(Z) \in Nat /\ Cardinality(StaffOf(t)) \in Nat /\ CrewOf(t.ccf) \in Nat
  BY <1>2, <1>3, FS_CardinalityType, CrewNat, ZenonT(30)
<1> QED BY <1>3, <1>4

\* The processes that are started are a crew, if none is missing.
LEMMA StartMans ==
  ASSUME NEW s, Typed(s), NEW just \in BOOLEAN
  PROVE  ~Start(s, just).short =>
             Cardinality(StaffOf(Start(s, just))) >= CrewOf(s.ccf)
<1> DEFINE t == Start(s, just)
           Z == {i \in FreeSlots(s) : /\ t.processes[i].respawn
                                      /\ ~t.processes[i].exiting
                                      /\ t.processes[i].just_spawn = just}
<1>1. Typed(t) /\ t.ccf = s.ccf /\ (~t.short => Cardinality(Z) >= CrewOf(t.ccf))
  BY StartKeeps, ZenonT(30) DEF Kept
<1>2. Z \in SUBSET StaffOf(t)
  BY ZenonT(30) DEF StaffOf, FreeSlots
<1> HIDE DEF t, Z
<1>3. ~t.short => Cardinality(StaffOf(t)) >= CrewOf(t.ccf)
  BY <1>1, <1>2, EnoughStaff, ZenonT(30)
<1> QED BY <1>1, <1>3, ZenonT(30) DEF t

\* The loop sets live, and nothing else.
LEMMA LiveKeeps ==
  ASSUME NEW s, Typed(s)
  PROVE  LET t == [s EXCEPT !.live = TRUE]
         IN  /\ Typed(t) /\ Kept(s, t) /\ t.live = TRUE
             /\ t.processes = s.processes /\ t.short = s.short
<1> DEFINE t == [s EXCEPT !.live = TRUE]
<1>1. t \in MasterType
  BY ZenonT(30) DEF Typed, MasterType
<1>2. Kept(s, t) /\ t.live = TRUE /\ t.processes = s.processes /\ t.short = s.short
  BY ZenonT(30) DEF Typed, MasterType, Kept
<1> HIDE DEF t
<1>3. Typed(t)
  BY <1>1, <1>2, ZenonT(30) DEF Typed
<1> QED BY <1>2, <1>3, ZenonT(30) DEF t

\* ngx_restart: a new crew is started.
LEMMA RestartCarries ==
  ASSUME NEW s, Typed(s), Manned(s)
  PROVE  Carries(s, Restart(s))
<1>1. CASE "restart" \notin s.todo
  <2>1. Restart(s) = s
    BY <1>1, ZenonT(30) DEF Restart
  <2> QED BY <2>1, ZenonT(30) DEF Carries
<1>2. CASE "restart" \in s.todo
  <2> DEFINE u == Done(s, "restart")
             v == Start(u, FALSE)
             t == [v EXCEPT !.live = TRUE]
  <2>1. Restart(s) = t
    BY <1>2, ZenonT(30) DEF Restart
  <2>2. Typed(u) /\ u.todo \subseteq s.todo /\ u.terminate = s.terminate /\ u.quit = s.quit
    <3>1. Cleared(s, "restart", u)
      BY DoneKeeps
    <3> HIDE DEF u
    <3> QED BY <3>1, ZenonT(30) DEF Cleared
  <2> HIDE DEF u
  <2>3. FALSE \in BOOLEAN
    OBVIOUS
  <2>4. Typed(v) /\ Kept(u, v)
    BY <2>2, <2>3, StartKeeps, ZenonT(30)
  <2>5. ~v.short => Cardinality(StaffOf(v)) >= CrewOf(v.ccf)
    BY <2>2, <2>3, <2>4, StartMans, ZenonT(30) DEF Kept
  <2> HIDE DEF v
  <2>6. /\ Typed(t) /\ Kept(v, t) /\ t.live = TRUE
        /\ t.processes = v.processes /\ t.short = v.short
    BY <2>4, LiveKeeps, ZenonT(30)
  <2> HIDE DEF t
  <2>7. Manned(t)
    BY <2>5, <2>6, ZenonT(30) DEF Manned, Kept, StaffOf
  <2> QED BY <2>1, <2>2, <2>4, <2>6, <2>7, ZenonT(30) DEF Carries, Kept, Watched
<1> QED BY <1>1, <1>2

\* A signal changes no process's state; one to reopen the logs tells nobody to go.
LEMMA SignalWatched ==
  ASSUME NEW s, Typed(s), NEW sig \in {"quit", "terminate", "kill", "reopen"}
  PROVE  /\ Watched(s) => Watched(Signal(s, sig))
         /\ sig = "reopen" => StaffOf(s) \subseteq StaffOf(Signal(s, sig))
<1> DEFINE t == Signal(s, sig)
<1>1. t.live = s.live /\ \A i \in Slot : t.processes[i] = Signalled(s.processes[i], sig)
  BY SignalKeeps, ZenonT(30)
<1>2. \A i \in Slot : s.processes[i] \in ProcessType /\ Sane(s.processes[i])
  BY ZenonT(30) DEF Typed, MasterType
<1> HIDE DEF t
<1>3. ASSUME NEW i \in Slot
      PROVE  /\ t.processes[i].state = s.processes[i].state
             /\ t.processes[i].detached = s.processes[i].detached
             /\ t.processes[i].respawn = s.processes[i].respawn
             /\ sig = "reopen" /\ ~s.processes[i].exiting => ~t.processes[i].exiting
  <2>1. PICK p \in ProcessType : p = s.processes[i]
    BY <1>2, ZenonT(30)
  <2>2. Sane(p) /\ t.processes[i] = Signalled(p, sig)
    BY <1>1, <1>2, <2>1, ZenonT(30)
  <2>3. /\ Signalled(p, sig).state = p.state
        /\ Signalled(p, sig).detached = p.detached
        /\ Signalled(p, sig).respawn = p.respawn
        /\ sig = "reopen" /\ ~p.exiting => ~Signalled(p, sig).exiting
    BY <2>2, SignalledProcess, ZenonT(30)
  <2> QED BY <2>1, <2>2, <2>3, ZenonT(30)
<1>4. Watched(s) => Watched(t)
  BY <1>1, <1>3, ZenonT(30) DEF Watched
<1>5. sig = "reopen" => StaffOf(s) \subseteq StaffOf(t)
  BY <1>3, ZenonT(30) DEF StaffOf
<1> QED BY <1>4, <1>5 DEF t

\* ngx_reopen: nobody goes.
LEMMA ReopenCarries ==
  ASSUME NEW s, Typed(s), Manned(s)
  PROVE  Carries(s, Reopen(s))
<1>1. CASE "reopen" \notin s.todo
  <2>1. Reopen(s) = s
    BY <1>1, ZenonT(30) DEF Reopen
  <2> QED BY <2>1, ZenonT(30) DEF Carries
<1>2. CASE "reopen" \in s.todo
  <2> DEFINE u == Done(s, "reopen")
             t == Signal(u, "reopen")
  <2>1. Reopen(s) = t
    BY <1>2, ZenonT(30) DEF Reopen
  <2>2. /\ Typed(u) /\ u.todo = s.todo \ {"reopen"}
        /\ u.terminate = s.terminate /\ u.quit = s.quit
        /\ u.processes = s.processes /\ u.live = s.live /\ u.short = s.short
        /\ u.noaccepting = s.noaccepting /\ u.ccf = s.ccf
    <3>1. Cleared(s, "reopen", u)
      BY DoneKeeps
    <3> HIDE DEF u
    <3> QED BY <3>1, ZenonT(30) DEF Cleared
  <2> HIDE DEF u
  <2>3. "reopen" \in {"quit", "terminate", "kill", "reopen"}
    OBVIOUS
  <2>4. Typed(t) /\ Kept(u, t) /\ t.live = u.live /\ t.short = u.short
    BY <2>2, <2>3, SignalKeeps, ZenonT(30)
  <2>5. (Watched(u) => Watched(t)) /\ StaffOf(u) \subseteq StaffOf(t)
    BY <2>2, <2>3, SignalWatched, ZenonT(30)
  <2> HIDE DEF t
  <2>6. Manned(t)
    <3>1. "restart" \in s.todo => "restart" \in t.todo
      BY <2>2, <2>4 DEF Kept
    <3>2. StaffOf(s) \subseteq StaffOf(t)
      BY <2>2, <2>5, ZenonT(30) DEF StaffOf
    <3>3. CrewOf(s.ccf) \in Nat
      BY CrewNat
    <3> QED BY <2>2, <2>4, <3>1, <3>2, <3>3, StaffGrows, ZenonT(30) DEF Kept
  <2> QED BY <2>1, <2>2, <2>4, <2>5, <2>6, ZenonT(30) DEF Carries, Kept, Watched
<1> QED BY <1>1, <1>2

\* ngx_noaccept: the crew is told to go, and noaccepting says so.
LEMMA NoAcceptCarries ==
  ASSUME NEW s, Typed(s), Manned(s)
  PROVE  Carries(s, NoAccept(s))
<1>1. CASE "noaccept" \notin s.todo
  <2>1. NoAccept(s) = s
    BY <1>1, ZenonT(30) DEF NoAccept
  <2> QED BY <2>1, ZenonT(30) DEF Carries
<1>2. CASE "noaccept" \in s.todo
  <2> DEFINE u == Done(s, "noaccept")
             v == [u EXCEPT !.noaccepting = TRUE]
             t == Signal(v, "quit")
  <2>1. NoAccept(s) = t
    BY <1>2, ZenonT(30) DEF NoAccept
  <2>2. /\ Typed(u) /\ u.todo \subseteq s.todo
        /\ u.terminate = s.terminate /\ u.quit = s.quit
        /\ u.processes = s.processes /\ u.live = s.live
    <3>1. Cleared(s, "noaccept", u)
      BY DoneKeeps
    <3> HIDE DEF u
    <3> QED BY <3>1, ZenonT(30) DEF Cleared
  <2> HIDE DEF u
  <2>3. v \in MasterType
    BY <2>2, ZenonT(30) DEF Typed, MasterType
  <2>4. /\ v.todo = u.todo /\ v.terminate = u.terminate /\ v.quit = u.quit
        /\ v.processes = u.processes /\ v.live = u.live /\ v.noaccepting = TRUE
    BY <2>2, ZenonT(30) DEF Typed, MasterType
  <2> HIDE DEF v
  <2>5. Typed(v)
    BY <2>2, <2>3, <2>4, ZenonT(30) DEF Typed
  <2>6. "quit" \in {"quit", "terminate", "kill", "reopen"}
    OBVIOUS
  <2>7. Typed(t) /\ Kept(v, t) /\ (Watched(v) => Watched(t))
    BY <2>5, <2>6, SignalKeeps, SignalWatched, ZenonT(30)
  <2> HIDE DEF t
  <2>8. Manned(t)
    BY <2>4, <2>7, ZenonT(30) DEF Manned, Kept
  <2>9. Watched(s) => Watched(v)
    BY <2>2, <2>4, ZenonT(30) DEF Watched
  <2> QED BY <2>1, <2>2, <2>4, <2>7, <2>8, <2>9, ZenonT(30) DEF Carries, Kept
<1> QED BY <1>1, <1>2

\* The new binary is detached, and takes a slot that nobody has.
LEMMA ChangeBinaryCarries ==
  ASSUME NEW s, Typed(s), Manned(s)
  PROVE  Carries(s, ChangeBinary(s))
<1> DEFINE u == Done(s, "change_binary")
           a == After(1, u.fail)
           v == [u EXCEPT !.fail = a]
           m == Min(FreeSlots(s))
           b == Process("binary", TRUE, FALSE, FALSE)
<1>1. /\ Typed(u) /\ u.todo = s.todo \ {"change_binary"}
      /\ u.terminate = s.terminate /\ u.quit = s.quit
      /\ u.processes = s.processes /\ u.live = s.live /\ u.short = s.short
      /\ u.noaccepting = s.noaccepting /\ u.ccf = s.ccf
  <2>1. Cleared(s, "change_binary", u)
    BY DoneKeeps
  <2> HIDE DEF u
  <2> QED BY <2>1, ZenonT(30) DEF Cleared
<1>2. \/ ChangeBinary(s) = s
      \/ ChangeBinary(s) = [v EXCEPT !.new_binary = INVALID_PID]
      \/ /\ FreeSlots(s) # {}
         /\ ChangeBinary(s) = [v EXCEPT !.new_binary = m, !.processes[m] = b]
  BY ZenonT(30) DEF ChangeBinary
<1> HIDE DEF u
<1>3. a \in Nat
  <2>1. u.fail \in Nat
    BY <1>1, ZenonT(30) DEF Typed, MasterType
  <2> QED BY <2>1 DEF After
<1> HIDE DEF a
<1>4. /\ v \in MasterType /\ v.todo = u.todo /\ v.terminate = u.terminate
      /\ v.quit = u.quit /\ v.processes = u.processes /\ v.live = u.live
      /\ v.short = u.short /\ v.noaccepting = u.noaccepting /\ v.ccf = u.ccf
  BY <1>1, <1>3, ZenonT(30) DEF Typed, MasterType
<1> HIDE DEF v
<1>5. INVALID_PID \in Int
  BY DEF INVALID_PID
<1>6. ASSUME NEW t, NEW k \in Int, NEW f \in [Slot -> ProcessType],
             t = [v EXCEPT !.new_binary = k, !.processes = f],
             \A i \in Slot : Sane(f[i]),
             \A i \in Slot : f[i] = s.processes[i] \/ (f[i].detached /\ ~Used(s.processes[i]))
      PROVE  Carries(s, t)
  <2>1. /\ t \in MasterType /\ t.todo = v.todo /\ t.terminate = v.terminate
        /\ t.quit = v.quit /\ t.processes = f /\ t.live = v.live
        /\ t.short = v.short /\ t.noaccepting = v.noaccepting /\ t.ccf = v.ccf
    BY <1>4, <1>6, ZenonT(30) DEF MasterType
  <2>2. Typed(t)
    BY <1>6, <2>1, ZenonT(30) DEF Typed
  <2>3. Watched(s) => Watched(t)
    BY <1>1, <1>4, <1>6, <2>1, ZenonT(30) DEF Watched
  <2>4. StaffOf(s) \subseteq StaffOf(t)
    <3>1. \A i \in Slot : s.processes[i].respawn => Used(s.processes[i])
      BY ZenonT(30) DEF Typed, Sane
    <3> QED BY <1>6, <2>1, <3>1, ZenonT(30) DEF StaffOf
  <2>5. Manned(t)
    <3>1. "restart" \in s.todo => "restart" \in t.todo
      BY <1>1, <1>4, <2>1
    <3>2. CrewOf(s.ccf) \in Nat
      BY CrewNat
    <3>3. /\ t.ccf = s.ccf /\ t.terminate = s.terminate /\ t.quit = s.quit
          /\ t.short = s.short /\ t.noaccepting = s.noaccepting
      BY <1>1, <1>4, <2>1, ZenonT(30)
    <3> QED BY <2>4, <3>1, <3>2, <3>3, StaffGrows, ZenonT(30)
  <2>6. t.terminate = s.terminate /\ t.quit = s.quit /\ t.todo \subseteq s.todo
    BY <1>1, <1>4, <2>1, ZenonT(30)
  <2> QED BY <2>2, <2>3, <2>5, <2>6 DEF Carries
<1>7. CASE ChangeBinary(s) = s
  BY <1>7, ZenonT(30) DEF Carries
<1>8. CASE ChangeBinary(s) = [v EXCEPT !.new_binary = INVALID_PID]
  <2>1. /\ s.processes \in [Slot -> ProcessType] /\ \A i \in Slot : Sane(s.processes[i])
    BY ZenonT(30) DEF Typed, MasterType
  <2>2. [v EXCEPT !.new_binary = INVALID_PID]
            = [v EXCEPT !.new_binary = INVALID_PID, !.processes = s.processes]
    BY <1>1, <1>4, ZenonT(30) DEF MasterType
  <2>3. PICK f : f = s.processes
    BY ZenonT(30)
  <2>4. ChangeBinary(s) = [v EXCEPT !.new_binary = INVALID_PID, !.processes = f]
    BY <1>8, <2>2, <2>3
  <2>5. /\ f \in [Slot -> ProcessType] /\ \A i \in Slot : Sane(f[i])
    BY <2>1, <2>3, ZenonT(30)
  <2>6. ASSUME NEW i \in Slot
        PROVE  f[i] = s.processes[i] \/ (f[i].detached /\ ~Used(s.processes[i]))
    BY <2>3
  <2> QED BY <1>5, <1>6, <2>4, <2>5, <2>6, ZenonT(30)
<1>9. CASE /\ FreeSlots(s) # {}
           /\ ChangeBinary(s) = [v EXCEPT !.new_binary = m, !.processes[m] = b]
  <2>1. m \in FreeSlots(s) /\ m \in Slot
    BY <1>9, SlotMin, ZenonT(30) DEF FreeSlots
  <2>2. m \in Int
    BY <2>1, CycleAssumption DEF Slot
  <2>3. b \in ProcessType /\ b.detached /\ Sane(b)
    <3>1. /\ b \in ProcessType /\ b.detached /\ b.kind = "binary" /\ b.exited = FALSE
          /\ b.told = "none" /\ b.state = "run"
      BY ZenonT(30) DEF Process, NoProcess, ProcessType
    <3> HIDE DEF b
    <3> QED BY <3>1 DEF Sane, Used
  <2> HIDE DEF b, m
  <2>4. /\ s.processes \in [Slot -> ProcessType] /\ \A i \in Slot : Sane(s.processes[i])
    BY ZenonT(30) DEF Typed, MasterType
  <2>5. PICK f : f = [s.processes EXCEPT ![m] = b]
    BY ZenonT(30)
  <2>6. /\ f \in [Slot -> ProcessType] /\ \A i \in Slot : Sane(f[i])
        /\ \A i \in Slot : f[i] = s.processes[i] \/ (f[i].detached /\ ~Used(s.processes[i]))
    <3>1. f \in [Slot -> ProcessType]
      BY <2>1, <2>3, <2>4, <2>5, ZenonT(30)
    <3>2. ASSUME NEW i \in Slot PROVE (i = m /\ f[i] = b) \/ f[i] = s.processes[i]
      BY <2>1, <2>4, <2>5, ZenonT(30)
    <3>3. ~Used(s.processes[m])
      BY <2>1, ZenonT(30) DEF FreeSlots
    <3>4. ASSUME NEW i \in Slot
          PROVE  Sane(f[i]) /\ (f[i] = s.processes[i] \/ (f[i].detached /\ ~Used(s.processes[i])))
      <4>1. CASE i = m /\ f[i] = b
        BY <2>3, <3>3, <4>1, ZenonT(30)
      <4>2. CASE f[i] = s.processes[i]
        BY <2>4, <4>2, ZenonT(30)
      <4> QED BY <3>2, <4>1, <4>2
    <3> QED BY <3>1, <3>4, ZenonT(30)
  <2>7. ChangeBinary(s) = [v EXCEPT !.new_binary = m, !.processes = f]
    <3>1. [v EXCEPT !.new_binary = m, !.processes[m] = b]
              = [v EXCEPT !.new_binary = m, !.processes = [v.processes EXCEPT ![m] = b]]
      BY <1>4, ZenonT(30) DEF MasterType
    <3> QED BY <1>1, <1>4, <1>9, <2>5, <3>1, ZenonT(30)
  <2> QED BY <1>6, <2>2, <2>6, <2>7, ZenonT(30)
<1> QED BY <1>2, <1>7, <1>8, <1>9

\* The cases of the loop after that of the reload: ngx_restart, ngx_reopen,
\* ngx_change_binary, ngx_noaccept.
LEMMA RestCarries ==
  ASSUME NEW s, Typed(s), Manned(s)
  PROVE  Carries(s, NoAccept(ChangeBinary(Reopen(Restart(s)))))
<1>1. PICK a : a = Restart(s)
  BY ZenonT(30)
<1>2. PICK b : b = Reopen(a)
  BY ZenonT(30)
<1>3. PICK c : c = ChangeBinary(b)
  BY ZenonT(30)
<1>4. PICK d : d = NoAccept(c)
  BY ZenonT(30)
<1>5. Carries(s, a)
  BY <1>1, RestartCarries, ZenonT(30)
<1>6. Carries(a, b)
  BY <1>2, <1>5, ReopenCarries, ZenonT(30) DEF Carries
<1>7. Carries(b, c)
  BY <1>3, <1>6, ChangeBinaryCarries, ZenonT(30) DEF Carries
<1>8. Carries(c, d)
  BY <1>4, <1>7, NoAcceptCarries, ZenonT(30) DEF Carries
<1>9. Carries(s, d)
  BY <1>5, <1>6, <1>7, <1>8, ZenonT(30) DEF Carries
<1> QED BY <1>1, <1>2, <1>3, <1>4, <1>9

\* At a reload the processes of the old configuration are those there are; the
\* new configuration takes the place of the old one.
LEMMA OutdateKeeps ==
  ASSUME NEW s, Typed(s), NEW c \in ConfType
  PROVE  LET t == [Outdate(s) EXCEPT !.ccf = c]
         IN  /\ Typed(t) /\ t.ccf = c /\ t.terminate = s.terminate
             /\ t.quit = s.quit /\ t.todo = s.todo
<1> DEFINE f == [i \in Slot |-> [s.processes[i] EXCEPT !.old = Used(s.processes[i])]]
           u == [s EXCEPT !.processes = f]
           t == [u EXCEPT !.ccf = c]
<1>1. Outdate(s) = u
  BY ZenonT(30) DEF Outdate
<1>2. ASSUME NEW i \in Slot PROVE f[i] \in ProcessType /\ Sane(f[i])
  <2>1. PICK p \in ProcessType : p = s.processes[i]
    BY ZenonT(30) DEF Typed, MasterType
  <2>2. Sane(p)
    BY <2>1, ZenonT(30) DEF Typed
  <2>3. PICK x \in BOOLEAN : x = Used(p)
    BY ZenonT(30) DEF Used
  <2>4. f[i] = [p EXCEPT !.old = x]
    BY <2>1, <2>3, ZenonT(30)
  <2> HIDE DEF f
  <2>5. [p EXCEPT !.old = x] \in ProcessType
    BY ZenonT(30) DEF ProcessType
  <2>6. PICK q : q = [p EXCEPT !.old = x]
    BY ZenonT(30)
  <2>7. /\ q.kind = p.kind /\ q.state = p.state /\ q.respawn = p.respawn
        /\ q.exited = p.exited /\ q.told = p.told
    BY <2>6, ZenonT(30) DEF ProcessType
  <2>8. Sane(q)
    BY <2>2, <2>7, ZenonT(30) DEF Sane, Used
  <2> QED BY <2>4, <2>5, <2>6, <2>8, ZenonT(30)
<1>3. f \in [Slot -> ProcessType]
  BY <1>2, ZenonT(30)
<1> HIDE DEF f
<1>4. /\ u \in MasterType /\ u.processes = f /\ u.terminate = s.terminate
      /\ u.quit = s.quit /\ u.todo = s.todo
  BY <1>3, ZenonT(30) DEF Typed, MasterType
<1> HIDE DEF u
<1>5. /\ t \in MasterType /\ t.processes = u.processes /\ t.terminate = u.terminate
      /\ t.quit = u.quit /\ t.todo = u.todo /\ t.ccf = c
  BY <1>4, ZenonT(30) DEF MasterType
<1> HIDE DEF t
<1>6. Typed(t)
  BY <1>2, <1>4, <1>5, ZenonT(30) DEF Typed
<1> QED BY <1>1, <1>4, <1>5, <1>6, ZenonT(30) DEF t

\* ngx_reconfigure: the signal to the old processes spares the new ones, which
\* are JUST_RESPAWN.
LEMMA ReloadCarries ==
  ASSUME NEW s, Typed(s), NEW c \in ConfType
  PROVE  Carries(s, Reload(s, c))
<1> DEFINE u == [Outdate(s) EXCEPT !.ccf = c]
           v == Start(u, TRUE)
           w == [v EXCEPT !.live = TRUE]
           t == Signal(w, "quit")
<1>1. Reload(s, c) = t
  BY ZenonT(30) DEF Reload
<1>2. Typed(u) /\ u.terminate = s.terminate /\ u.quit = s.quit /\ u.todo = s.todo
  BY OutdateKeeps, ZenonT(30)
<1> HIDE DEF u
<1>3. TRUE \in BOOLEAN /\ "quit" \in {"quit", "terminate", "kill", "reopen"}
  OBVIOUS
<1> DEFINE Z == {i \in FreeSlots(u) : /\ v.processes[i].respawn
                                      /\ ~v.processes[i].exiting
                                      /\ v.processes[i].just_spawn = TRUE}
<1>4. Typed(v) /\ Kept(u, v) /\ (~v.short => Cardinality(Z) >= CrewOf(u.ccf))
  BY <1>2, <1>3, StartKeeps, ZenonT(30)
<1>5. Z \subseteq Slot
  BY ZenonT(30) DEF FreeSlots
<1>6. \A i \in Z : v.processes[i].respawn /\ ~v.processes[i].exiting /\ v.processes[i].just_spawn
  BY ZenonT(30)
<1> HIDE DEF v, Z
<1>7. /\ Typed(w) /\ Kept(v, w) /\ w.live = TRUE
      /\ w.processes = v.processes /\ w.short = v.short
  BY <1>4, LiveKeeps, ZenonT(30)
<1> HIDE DEF w
<1>8. /\ Typed(t) /\ Kept(w, t) /\ t.live = w.live /\ t.short = w.short
      /\ \A i \in Slot : t.processes[i] = Signalled(w.processes[i], "quit")
  BY <1>3, <1>7, SignalKeeps, ZenonT(30)
<1> HIDE DEF t
<1>9. ASSUME NEW i \in Z PROVE i \in StaffOf(t)
  <2>1. PICK p \in ProcessType : p = w.processes[i]
    BY <1>5, <1>7, ZenonT(30) DEF Typed, MasterType
  <2>2. Sane(p) /\ t.processes[i] = Signalled(p, "quit") /\ i \in Slot
    BY <1>5, <1>7, <1>8, <2>1, ZenonT(30) DEF Typed
  <2>3. p.respawn /\ ~p.exiting /\ p.just_spawn
    BY <1>6, <1>7, <2>1, ZenonT(30)
  <2>4. Signalled(p, "quit").respawn = p.respawn /\ ~Signalled(p, "quit").exiting
    BY <1>3, <2>2, <2>3, SignalledProcess, ZenonT(30)
  <2> QED BY <2>2, <2>3, <2>4, ZenonT(30) DEF StaffOf
<1>10. ~t.short => Cardinality(StaffOf(t)) >= CrewOf(t.ccf)
  <2>1. Z \in SUBSET StaffOf(t)
    BY <1>9, ZenonT(30)
  <2>2. t.ccf = u.ccf /\ t.short = v.short
    BY <1>4, <1>7, <1>8, ZenonT(30) DEF Kept
  <2> QED BY <1>4, <1>8, <2>1, <2>2, EnoughStaff, ZenonT(30)
<1>11. Manned(t)
  BY <1>10, ZenonT(30) DEF Manned
<1>12. Watched(t)
  BY <1>7, <1>8, ZenonT(30) DEF Watched
<1>13. t.terminate = s.terminate /\ t.quit = s.quit /\ t.todo = s.todo
  BY <1>2, <1>4, <1>7, <1>8, ZenonT(30) DEF Kept
<1> QED BY <1>1, <1>8, <1>11, <1>12, <1>13, ZenonT(30) DEF Carries

\* A master that terminates only sends signals: ngx_terminate.
LEMMA TerminateCarries ==
  ASSUME NEW s, Typed(s), s.terminate
  PROVE  Carries(s, Terminate(s))
<1> DEFINE delay == IF s.delay = 0 THEN 50 ELSE s.delay
           u == [s EXCEPT !.delay = delay]
           v == [u EXCEPT !.sigio = u.sigio - 1]
           w == [u EXCEPT !.sigio = s.ccf.workers + 2]
           sig == IF delay > KILL_AFTER THEN "kill" ELSE "terminate"
<1>1. Terminate(s) = IF s.sigio > 0 THEN v ELSE Signal(w, sig)
  BY DEF Terminate
<1>2. delay \in Nat
  BY DEF Typed, MasterType
<1>3. sig \in {"quit", "terminate", "kill", "reopen"}
  BY ZenonT(30)
<1> HIDE DEF delay, sig
<1>4. u \in MasterType
  BY <1>2, ZenonT(30) DEF Typed, MasterType
<1>5. /\ u.processes = s.processes /\ u.terminate = s.terminate /\ u.quit = s.quit
      /\ u.todo = s.todo /\ u.live = s.live /\ u.sigio = s.sigio
  BY ZenonT(30) DEF Typed, MasterType
<1> HIDE DEF u
<1>6. ASSUME NEW n \in Nat
      PROVE  LET x == [u EXCEPT !.sigio = n]
             IN  /\ x \in MasterType /\ x.processes = s.processes
                 /\ x.terminate = s.terminate /\ x.quit = s.quit
                 /\ x.todo = s.todo /\ x.live = s.live
  BY <1>4, <1>5, ZenonT(30) DEF MasterType
<1>7. ASSUME NEW n \in Nat
      PROVE  LET x == [u EXCEPT !.sigio = n]
             IN  /\ Typed(x) /\ x.terminate = s.terminate /\ x.quit = s.quit
                 /\ x.todo = s.todo /\ (Watched(s) => Watched(x))
  BY <1>6, ZenonT(30) DEF Typed, Watched
<1>8. CASE s.sigio > 0
  <2>1. s.sigio \in Nat
    BY ZenonT(30) DEF Typed, MasterType
  <2>2. u.sigio - 1 \in Nat
    BY <1>5, <1>8, <2>1
  <2>3. /\ Typed(v) /\ v.terminate = s.terminate /\ v.quit = s.quit
        /\ v.todo = s.todo /\ (Watched(s) => Watched(v))
    BY <1>7, <2>2, ZenonT(30)
  <2> HIDE DEF v
  <2>4. Terminate(s) = v
    BY <1>1, <1>8, ZenonT(30)
  <2>5. Manned(v)
    BY <2>3, ZenonT(30) DEF Manned
  <2> QED BY <2>3, <2>4, <2>5, ZenonT(30) DEF Carries
<1>9. CASE ~(s.sigio > 0)
  <2>1. s.ccf.workers \in Nat
    BY ZenonT(30) DEF Typed, MasterType, ConfType
  <2>2. s.ccf.workers + 2 \in Nat
    BY <2>1
  <2>3. /\ Typed(w) /\ w.terminate = s.terminate /\ w.quit = s.quit
        /\ w.todo = s.todo /\ (Watched(s) => Watched(w))
    BY <1>7, <2>2, ZenonT(30)
  <2> HIDE DEF w
  <2>4. Terminate(s) = Signal(w, sig)
    BY <1>1, <1>9, ZenonT(30)
  <2>5. PICK t : t = Signal(w, sig)
    BY ZenonT(30)
  <2>6. Typed(t) /\ Kept(w, t)
    BY <1>3, <2>3, <2>5, SignalKeeps, ZenonT(30)
  <2>7. Watched(w) => Watched(t)
    BY <1>3, <2>3, <2>5, SignalWatched, ZenonT(30)
  <2>8. t.terminate = s.terminate /\ t.quit = s.quit /\ t.todo = s.todo
    BY <2>3, <2>6, ZenonT(30) DEF Kept
  <2>9. Manned(t)
    BY <2>8, ZenonT(30) DEF Manned
  <2> QED BY <2>3, <2>4, <2>5, <2>6, <2>7, <2>8, <2>9, ZenonT(30) DEF Carries
<1> QED BY <1>8, <1>9

\* What one round of the loop does, whichever of its cases it takes.  The case
\* of a reload during an upgrade starts processes and leaves live as it was.
LEMMA ObeyKeeps ==
  ASSUME NEW s, Typed(s), Manned(s), NEW c \in ConfType
  PROVE  LET t == Obey(s, c)
         IN  /\ Typed(t) /\ Manned(t)
             /\ "reconfigure" \in t.todo => t.terminate \/ t.quit
             /\ \/ ~Watched(s) \/ Watched(t)
                \/ ~s.terminate /\ ~s.quit /\ "reconfigure" \in s.todo /\ s.new_binary # 0
<1>1. CASE s.terminate
  <2>1. Obey(s, c) = Terminate(s)
    BY <1>1, ZenonT(30) DEF Obey
  <2>2. Carries(s, Terminate(s))
    BY <1>1, TerminateCarries
  <2> QED BY <1>1, <2>1, <2>2, ZenonT(30) DEF Carries
<1>2. CASE ~s.terminate /\ s.quit
  <2>1. Obey(s, c) = Signal(s, "quit")
    BY <1>2, ZenonT(30) DEF Obey
  <2>2. PICK t : t = Signal(s, "quit")
    BY ZenonT(30)
  <2>3. "quit" \in {"quit", "terminate", "kill", "reopen"}
    OBVIOUS
  <2>4. Typed(t) /\ Kept(s, t) /\ (Watched(s) => Watched(t))
    BY <2>2, <2>3, SignalKeeps, SignalWatched, ZenonT(30)
  <2>5. t.quit
    BY <1>2, <2>4, ZenonT(30) DEF Kept
  <2>6. Manned(t)
    BY <2>5, ZenonT(30) DEF Manned
  <2> QED BY <2>1, <2>2, <2>4, <2>5, <2>6, ZenonT(30)
<1>3. CASE ~s.terminate /\ ~s.quit /\ "reconfigure" \notin s.todo
  <2>1. Obey(s, c) = NoAccept(ChangeBinary(Reopen(Restart(s))))
    BY <1>3, ZenonT(30) DEF Obey
  <2>2. PICK t : t = NoAccept(ChangeBinary(Reopen(Restart(s))))
    BY ZenonT(30)
  <2>3. Carries(s, t)
    BY <2>2, RestCarries, ZenonT(30)
  <2>4. "reconfigure" \notin t.todo
    BY <1>3, <2>3, ZenonT(30) DEF Carries
  <2> QED BY <2>1, <2>2, <2>3, <2>4, ZenonT(30) DEF Carries
<1>4. CASE ~s.terminate /\ ~s.quit /\ "reconfigure" \in s.todo
  <2>1. PICK d : d = Done(s, "reconfigure")
    BY ZenonT(30)
  <2>2. /\ Typed(d) /\ d.todo = s.todo \ {"reconfigure"}
        /\ d.processes = s.processes
        /\ d.live = s.live /\ d.short = s.short
        /\ d.terminate = s.terminate /\ d.quit = s.quit
        /\ d.noaccepting = s.noaccepting /\ d.ccf = s.ccf
        /\ d.new_binary = s.new_binary
    <3>1. Cleared(s, "reconfigure", d)
      BY <2>1, DoneKeeps
    <3> QED BY <3>1, ZenonT(30) DEF Cleared
  <2>3. "reconfigure" \notin d.todo /\ ("restart" \in s.todo => "restart" \in d.todo)
    BY <2>2, ZenonT(30)
  <2>4. Watched(s) => Watched(d)
    BY <2>2, ZenonT(30) DEF Watched
  <2>5. CASE s.new_binary # 0
    <3>1. PICK u : u = Start(d, FALSE)
      BY ZenonT(30)
    <3>2. Obey(s, c) = [u EXCEPT !.noaccepting = FALSE]
      BY <1>4, <2>1, <2>5, <3>1, ZenonT(30) DEF Obey
    <3>3. FALSE \in BOOLEAN
      OBVIOUS
    <3>4. Typed(u) /\ Kept(d, u)
      BY <2>2, <3>1, <3>3, StartKeeps, ZenonT(30)
    <3>5. ~u.short => Cardinality(StaffOf(u)) >= CrewOf(d.ccf)
      BY <2>2, <3>1, <3>3, StartMans, ZenonT(30)
    <3>6. PICK t : t = [u EXCEPT !.noaccepting = FALSE]
      BY ZenonT(30)
    <3>7. /\ t \in MasterType /\ t.processes = u.processes /\ t.short = u.short
          /\ t.ccf = u.ccf /\ t.todo = u.todo
      BY <3>4, <3>6, ZenonT(30) DEF Typed, MasterType
    <3>8. Typed(t)
      BY <3>4, <3>7, ZenonT(30) DEF Typed
    <3>9. StaffOf(t) = StaffOf(u)
      BY <3>7, ZenonT(30) DEF StaffOf
    <3>10. u.ccf = d.ccf /\ u.todo = d.todo
      BY <3>4, ZenonT(30) DEF Kept
    <3>11. ~t.short => Cardinality(StaffOf(t)) >= CrewOf(t.ccf)
      BY <3>5, <3>7, <3>9, <3>10, ZenonT(30)
    <3>12. Manned(t)
      BY <3>11, ZenonT(30) DEF Manned
    <3> QED BY <1>4, <2>3, <2>5, <3>2, <3>6, <3>7, <3>8, <3>10, <3>12, ZenonT(30)
  <2>6. CASE s.new_binary = 0 /\ c = Broken
    <3>1. Obey(s, c) = d
      BY <1>4, <2>1, <2>6, ZenonT(30) DEF Obey
    <3>2. StaffOf(s) = StaffOf(d)
      BY <2>2, ZenonT(30) DEF StaffOf
    <3>3. Manned(d)
      BY <2>2, <2>3, <3>2, ZenonT(30) DEF Manned
    <3> QED BY <2>2, <2>3, <2>4, <3>1, <3>3, ZenonT(30)
  <2>7. CASE s.new_binary = 0 /\ c # Broken
    <3>1. PICK r : r = Reload(d, c)
      BY ZenonT(30)
    <3>2. PICK t : t = NoAccept(ChangeBinary(Reopen(Restart(r))))
      BY ZenonT(30)
    <3>3. Obey(s, c) = t
      BY <1>4, <2>1, <2>7, <3>1, <3>2, ZenonT(30) DEF Obey
    <3>4. Carries(d, r)
      BY <2>2, <3>1, ReloadCarries, ZenonT(30)
    <3>5. Carries(r, t)
      BY <3>2, <3>4, RestCarries, ZenonT(30) DEF Carries
    <3>6. "reconfigure" \notin t.todo
      BY <2>3, <3>4, <3>5, ZenonT(30) DEF Carries
    <3>7. Watched(s) => Watched(t)
      BY <2>4, <3>4, <3>5, ZenonT(30) DEF Carries
    <3> QED BY <3>3, <3>5, <3>6, <3>7, ZenonT(30) DEF Carries
  <2> QED BY <2>5, <2>6, <2>7
<1> QED BY <1>1, <1>2, <1>3, <1>4, ZenonT(30)
-----------------------------------------------------------------------------
(* The handlers, and ngx_reap_children *)

\* What sigsuspend() returns with: the handlers add to what is asked for, and
\* a child that is waited for is not alive.  A child of the crew stays in it
\* unless it exited with code 2.
LEMMA GetStatusKeeps ==
  ASSUME NEW s, Typed(s)
  PROVE  LET t == GetStatus(s)
         IN  /\ Typed(t) /\ Kept(s, t)
             /\ Watched(s) => Watched(t)
             /\ s.short => t.short
             /\ ~t.short => StaffOf(s) \subseteq StaffOf(t)
<1> DEFINE f == [i \in Slot |-> Waited(s.processes[i])]
           b == s.short \/ \E i \in Slot : s.processes[i].state = "fatal"
           t == [s EXCEPT !.processes = f, !.short = b]
<1>1. GetStatus(s) = t
  BY ZenonT(30) DEF GetStatus
<1>2. ASSUME NEW i \in Slot
      PROVE  /\ f[i] \in ProcessType /\ Sane(f[i])
             /\ f[i].detached = s.processes[i].detached
             /\ f[i].exiting = s.processes[i].exiting
             /\ f[i].state \in AliveStates => s.processes[i].state \in AliveStates
             /\ \/ s.processes[i].state = "fatal"
                \/ s.processes[i].respawn => f[i].respawn
  <2>1. PICK p \in ProcessType : p = s.processes[i]
    BY ZenonT(30) DEF Typed, MasterType
  <2>2. Sane(p) /\ f[i] = Waited(p)
    BY <2>1, ZenonT(30) DEF Typed
  <2> HIDE DEF f
  <2>3. CASE ~Dead(p)
    <3>1. f[i] = p
      BY <2>2, <2>3, ZenonT(30) DEF Waited
    <3> QED BY <2>1, <2>2, <3>1, ZenonT(30)
  <2>4. CASE Dead(p)
    <3>1. PICK x \in BOOLEAN : x = (p.respawn /\ p.state # "fatal")
      BY ZenonT(30)
    <3>2. PICK q : q = [p EXCEPT !.state = "gone", !.exited = TRUE, !.respawn = x]
      BY ZenonT(30)
    <3>3. f[i] = q
      BY <2>2, <2>4, <3>1, <3>2, ZenonT(30) DEF Waited
    <3>4. q \in ProcessType
      BY <3>2, ZenonT(30) DEF ProcessType
    <3>5. /\ q.kind = p.kind /\ q.state = "gone" /\ q.exited = TRUE /\ q.respawn = x
          /\ q.told = p.told /\ q.detached = p.detached /\ q.exiting = p.exiting
      BY <3>2, ZenonT(30) DEF ProcessType
    <3>6. p.state \notin AliveStates /\ p.state # "gone"
      BY <2>4, ZenonT(30) DEF Dead, AliveStates
    <3>7. Sane(q)
      BY <2>2, <3>1, <3>5, <3>6, ZenonT(30) DEF Sane, Used
    <3>8. q.state \notin AliveStates
      BY <3>5, ZenonT(30) DEF AliveStates
    <3> QED BY <2>1, <3>1, <3>3, <3>4, <3>5, <3>7, <3>8, ZenonT(30)
  <2> QED BY <2>3, <2>4, ZenonT(30)
<1>3. f \in [Slot -> ProcessType] /\ b \in BOOLEAN
  <2>1. f \in [Slot -> ProcessType]
    BY <1>2, ZenonT(30)
  <2>2. b \in BOOLEAN
    BY ZenonT(30) DEF Typed, MasterType
  <2> QED BY <2>1, <2>2, ZenonT(30)
<1>4. s.short => b
  BY ZenonT(30)
<1>5. ~b => \A i \in Slot : s.processes[i].state # "fatal"
  BY ZenonT(30)
<1> HIDE DEF f, b
<1>6. /\ t \in MasterType /\ t.processes = f /\ t.short = b /\ t.live = s.live
  BY <1>3, ZenonT(30) DEF Typed, MasterType
<1>7. Kept(s, t)
  BY ZenonT(30) DEF Typed, MasterType, Kept
<1> HIDE DEF t
<1>8. Typed(t)
  BY <1>2, <1>6, ZenonT(30) DEF Typed
<1>9. Watched(s) => Watched(t)
  BY <1>2, <1>6, ZenonT(30) DEF Watched
<1>10. ~t.short => StaffOf(s) \subseteq StaffOf(t)
  BY <1>2, <1>5, <1>6, ZenonT(30) DEF StaffOf
<1> QED BY <1>1, <1>4, <1>6, <1>7, <1>8, <1>9, <1>10, ZenonT(30)

\* ngx_signal_handler for all pending signals: a reload is asked for only by
\* SIGHUP.
LEMMA HandledKeeps ==
  ASSUME NEW s, Typed(s), Manned(s)
  PROVE  LET t == Handled(s)
         IN  /\ Typed(t) /\ Manned(t)
             /\ Watched(s) => Watched(t)
             /\ t.new_binary = s.new_binary
             /\ s.terminate => t.terminate
             /\ s.quit => t.quit
             /\ "reconfigure" \in t.todo => "reconfigure" \in s.todo \/ "HUP" \in raised
<1> DEFINE a == s.terminate \/ "TERM" \in raised
           b == s.quit \/ "QUIT" \in raised
           c == s.sigalrm \/ "ALRM" \in raised
           d == s.reap \/ "CHLD" \in raised
           e == s.todo \cup Asked(s)
           u == [s EXCEPT !.terminate = a, !.quit = b, !.sigalrm = c, !.reap = d,
                          !.todo = e]
<1>1. Handled(s) = IF "CHLD" \in raised THEN GetStatus(u) ELSE u
  BY ZenonT(30) DEF Handled
<1>2. a \in BOOLEAN /\ b \in BOOLEAN /\ c \in BOOLEAN /\ d \in BOOLEAN
  BY ZenonT(30) DEF Typed, MasterType
<1>3. e \in SUBSET {"reconfigure", "noaccept", "reopen", "change_binary", "restart"}
  <2>1. s.todo \in SUBSET {"reconfigure", "noaccept", "reopen", "change_binary", "restart"}
    BY ZenonT(30) DEF Typed, MasterType
  <2>2. Asked(s) \subseteq {"reconfigure", "noaccept", "reopen", "change_binary"}
    BY ZenonT(30) DEF Asked
  <2> QED BY <2>1, <2>2, ZenonT(30)
<1>4. "reconfigure" \in e => "reconfigure" \in s.todo \/ "HUP" \in raised
  BY ZenonT(30) DEF Asked
<1>5. (s.terminate => a) /\ (s.quit => b) /\ s.todo \subseteq e
  BY ZenonT(30)
<1> HIDE DEF a, b, c, d, e
<1>6. u \in MasterType
  BY <1>2, <1>3, ZenonT(30) DEF Typed, MasterType
<1>7. /\ u.processes = s.processes /\ u.short = s.short /\ u.ccf = s.ccf
      /\ u.terminate = a /\ u.quit = b /\ u.todo = e /\ u.live = s.live
      /\ u.new_binary = s.new_binary /\ u.noaccepting = s.noaccepting
  BY ZenonT(30) DEF Typed, MasterType
<1> HIDE DEF u
<1>8. Typed(u)
  BY <1>6, <1>7, ZenonT(30) DEF Typed
<1>9. Watched(s) => Watched(u)
  BY <1>7, ZenonT(30) DEF Watched
<1>10. StaffOf(s) = StaffOf(u)
  BY <1>7, ZenonT(30) DEF StaffOf
<1>11. Manned(u)
  BY <1>5, <1>7, <1>10, ZenonT(30) DEF Manned
<1>12. CASE "CHLD" \notin raised
  <2>1. Handled(s) = u
    BY <1>1, <1>12, ZenonT(30)
  <2> QED BY <1>4, <1>5, <1>7, <1>8, <1>9, <1>11, <2>1, ZenonT(30)
<1>13. CASE "CHLD" \in raised
  <2>1. PICK t : t = GetStatus(u)
    BY ZenonT(30)
  <2>2. Handled(s) = t
    BY <1>1, <1>13, <2>1, ZenonT(30)
  <2>3. /\ Typed(t) /\ Kept(u, t) /\ (Watched(u) => Watched(t))
        /\ (u.short => t.short) /\ (~t.short => StaffOf(u) \subseteq StaffOf(t))
    BY <1>8, <2>1, GetStatusKeeps, ZenonT(30)
  <2>4. /\ t.terminate = u.terminate /\ t.quit = u.quit /\ t.ccf = u.ccf
        /\ t.noaccepting = u.noaccepting /\ t.todo = u.todo /\ t.new_binary = u.new_binary
    BY <2>3, ZenonT(30) DEF Kept
  <2>5. Manned(t)
    <3>1. CASE t.short
      BY <3>1, ZenonT(30) DEF Manned
    <3>2. CASE ~t.short
      <4>1. CrewOf(u.ccf) \in Nat
        BY <1>8, CrewNat, ZenonT(30)
      <4>2. (u.terminate \/ u.quit \/ u.noaccepting \/ u.short \/ "restart" \in u.todo)
             => (t.terminate \/ t.quit \/ t.noaccepting \/ t.short \/ "restart" \in t.todo)
        BY <2>3, <2>4, ZenonT(30)
      <4>3. StaffOf(u) \subseteq StaffOf(t)
        BY <2>3, <3>2, ZenonT(30)
      <4> QED BY <1>11, <2>4, <4>1, <4>2, <4>3, StaffGrows, ZenonT(30)
    <3> QED BY <3>1, <3>2, ZenonT(30)
  <2> QED BY <1>4, <1>5, <1>7, <1>9, <2>2, <2>3, <2>4, <2>5, ZenonT(30)
<1> QED BY <1>12, <1>13, ZenonT(30)

\* When the new binary has exited, the shutdown of the old workers that it
\* asked for is called off by a restart.
LEMMA BinaryExitedKeeps ==
  ASSUME NEW s, Typed(s)
  PROVE  LET t == BinaryExited(s)
         IN  /\ t \in MasterType /\ t.ccf = s.ccf
             /\ t.terminate = s.terminate /\ t.quit = s.quit
             /\ t.new_binary = 0 /\ t.short = s.short /\ t.fail = s.fail
             /\ s.noaccepting => "restart" \in t.todo
             /\ "restart" \in s.todo => "restart" \in t.todo
             /\ "reconfigure" \in t.todo => "reconfigure" \in s.todo
<1> DEFINE e == IF s.noaccepting THEN s.todo \cup {"restart"} ELSE s.todo
           t == [s EXCEPT !.new_binary = 0, !.todo = e, !.noaccepting = FALSE]
<1>1. BinaryExited(s) = t
  BY ZenonT(30) DEF BinaryExited
<1>2. e \in SUBSET {"reconfigure", "noaccept", "reopen", "change_binary", "restart"}
  <2>1. s.todo \in SUBSET {"reconfigure", "noaccept", "reopen", "change_binary", "restart"}
    BY ZenonT(30) DEF Typed, MasterType
  <2> QED BY <2>1, ZenonT(30)
<1>3. /\ s.noaccepting => "restart" \in e
      /\ "restart" \in s.todo => "restart" \in e
      /\ "reconfigure" \in e => "reconfigure" \in s.todo
  BY ZenonT(30)
<1> HIDE DEF e
<1>4. 0 \in Int
  OBVIOUS
<1>5. t \in MasterType
  BY <1>2, <1>4, ZenonT(30) DEF Typed, MasterType
<1>6. /\ t.ccf = s.ccf /\ t.terminate = s.terminate /\ t.quit = s.quit
      /\ t.new_binary = 0 /\ t.short = s.short /\ t.fail = s.fail /\ t.todo = e
  BY ZenonT(30) DEF Typed, MasterType
<1> QED BY <1>1, <1>3, <1>5, <1>6, ZenonT(30)

\* What ngx_reap_children makes of a slot.
LEMMA ReapedProcess ==
  ASSUME NEW s, Typed(s), NEW i \in Slot
  PROVE  LET q == IF i \in Over(s) THEN NoProcess
                  ELSE IF i \in Respawned(s)
                  THEN [s.processes[i] EXCEPT !.state = "run", !.told = "none",
                                              !.old = FALSE, !.exited = FALSE]
                  ELSE s.processes[i]
         IN  /\ q \in ProcessType /\ Sane(q)
             /\ q.state \in AliveStates =>
                   i \in Respawned(s) \/ (q = s.processes[i] /\ Used(q) /\ ~q.exited)
             /\ ~s.terminate /\ ~s.quit /\ i \in StaffOf(s) => q.respawn /\ ~q.exiting
<1>1. PICK p \in ProcessType : p = s.processes[i]
  BY ZenonT(30) DEF Typed, MasterType
<1>2. Sane(p)
  BY <1>1, ZenonT(30) DEF Typed
<1>3. CASE i \in Over(s)
  <2>1. NoProcess \in ProcessType
    BY ZenonT(30) DEF NoProcess, ProcessType
  <2>2. /\ NoProcess.kind = "none" /\ NoProcess.state = "gone" /\ NoProcess.told = "none"
        /\ NoProcess.respawn = FALSE /\ NoProcess.exited = FALSE
    BY ZenonT(30) DEF NoProcess
  <2>3. Sane(NoProcess) /\ NoProcess.state \notin AliveStates
    BY <2>2, ZenonT(30) DEF Sane, AliveStates, Used
  <2>4. ~s.terminate /\ ~s.quit => i \notin StaffOf(s)
    <3>1. Used(p) /\ p.exited /\ i \notin ToRespawn(s)
      BY <1>1, <1>3, ZenonT(30) DEF Over
    <3> QED BY <1>1, <3>1, ZenonT(30) DEF ToRespawn, StaffOf
  <2> QED BY <1>3, <2>1, <2>3, <2>4, ZenonT(30)
<1>4. CASE i \notin Over(s) /\ i \in Respawned(s)
  <2>1. PICK q : q = [p EXCEPT !.state = "run", !.told = "none",
                               !.old = FALSE, !.exited = FALSE]
    BY ZenonT(30)
  <2>2. q \in ProcessType
    BY <2>1, ZenonT(30) DEF ProcessType
  <2>3. /\ q.kind = p.kind /\ q.state = "run" /\ q.told = "none" /\ q.exited = FALSE
        /\ q.respawn = p.respawn /\ q.exiting = p.exiting
    BY <2>1, ZenonT(30) DEF ProcessType
  <2>4. Used(p) /\ p.respawn /\ ~p.exiting
    BY <1>1, <1>4, ZenonT(30) DEF Respawned, ToRespawn
  <2>5. Sane(q)
    BY <2>3, <2>4, ZenonT(30) DEF Sane, AliveStates, Used
  <2> QED BY <1>1, <1>4, <2>1, <2>2, <2>3, <2>4, <2>5, ZenonT(30)
<1>5. CASE i \notin Over(s) /\ i \notin Respawned(s)
  <2>1. p.state \in AliveStates => Used(p) /\ ~p.exited
    <3>1. "gone" \notin AliveStates
      BY ZenonT(30) DEF AliveStates
    <3> QED BY <1>2, <3>1, ZenonT(30) DEF Sane
  <2>2. i \in StaffOf(s) => p.respawn /\ ~p.exiting
    BY <1>1, ZenonT(30) DEF StaffOf
  <2> QED BY <1>1, <1>2, <1>5, <2>1, <2>2, ZenonT(30)
<1> QED BY <1>3, <1>4, <1>5, ZenonT(30)

\* After ngx_reap_children, live is what it says: it is computed from the
\* processes that are left.
LEMMA ReapChildrenKeeps ==
  ASSUME NEW s, Typed(s), Manned(s)
  PROVE  LET t == ReapChildren(s)
         IN  /\ Typed(t) /\ Manned(t) /\ Watched(t)
             /\ s.new_binary = 0 => t.new_binary = 0
             /\ t.terminate = s.terminate /\ t.quit = s.quit
             /\ "reconfigure" \in t.todo => "reconfigure" \in s.todo
<1> DEFINE u == IF s.new_binary \in Over(s) THEN BinaryExited(s) ELSE s
           f == [i \in Slot |->
                   IF i \in Over(s) THEN NoProcess
                   ELSE IF i \in Respawned(s)
                   THEN [s.processes[i] EXCEPT !.state = "run", !.told = "none",
                                               !.old = FALSE, !.exited = FALSE]
                   ELSE s.processes[i]]
           l == \/ Respawned(s) # {}
                \/ \E i \in Slot :
                      /\ Used(s.processes[i]) /\ ~s.processes[i].exited
                      /\ s.processes[i].exiting \/ ~s.processes[i].detached
           x == After(Cardinality(ToRespawn(s)), u.fail)
           y == u.short \/ Respawned(s) # ToRespawn(s)
           t == [u EXCEPT !.processes = f, !.live = l, !.fail = x, !.short = y]
<1>1. ReapChildren(s) = t
  BY ZenonT(30) DEF ReapChildren
<1>2. /\ u \in MasterType /\ u.ccf = s.ccf
      /\ u.terminate = s.terminate /\ u.quit = s.quit /\ u.short = s.short
      /\ s.new_binary = 0 => u.new_binary = 0
      /\ s.noaccepting => u.noaccepting \/ "restart" \in u.todo
      /\ "restart" \in s.todo => "restart" \in u.todo
      /\ "reconfigure" \in u.todo => "reconfigure" \in s.todo
  <2>1. CASE s.new_binary \in Over(s)
    <3>1. PICK v : v = BinaryExited(s)
      BY ZenonT(30)
    <3>2. u = v
      BY <2>1, <3>1, ZenonT(30)
    <3> QED BY <3>1, <3>2, BinaryExitedKeeps, ZenonT(30)
  <2>2. CASE s.new_binary \notin Over(s)
    <3>1. u = s
      BY <2>2, ZenonT(30)
    <3> QED BY <3>1, ZenonT(30) DEF Typed
  <2> QED BY <2>1, <2>2, ZenonT(30)
<1>3. ASSUME NEW i \in Slot
      PROVE  /\ f[i] \in ProcessType /\ Sane(f[i])
             /\ f[i].state \in AliveStates =>
                   \/ i \in Respawned(s)
                   \/ f[i] = s.processes[i] /\ Used(f[i]) /\ ~f[i].exited
             /\ ~s.terminate /\ ~s.quit /\ i \in StaffOf(s) => f[i].respawn /\ ~f[i].exiting
  BY ReapedProcess, ZenonT(30)
<1>4. f \in [Slot -> ProcessType]
  BY <1>3, ZenonT(30)
<1>5. l \in BOOLEAN
  BY ZenonT(30)
<1>6. ~l => /\ Respawned(s) = {}
            /\ \A i \in Slot : Used(s.processes[i]) /\ ~s.processes[i].exited
                                 => s.processes[i].detached
  BY ZenonT(30)
<1> HIDE DEF u, f, l
<1>7. y \in BOOLEAN /\ (s.short => y)
  BY <1>2, ZenonT(30) DEF MasterType
<1>8. x \in Nat
  <2>1. u.fail \in Nat
    BY <1>2, ZenonT(30) DEF MasterType
  <2>2. IsFiniteSet(ToRespawn(s))
    <3>1. IsFiniteSet(Slot)
      BY CycleAssumption, FS_Interval DEF Slot
    <3>2. ToRespawn(s) \in SUBSET Slot
      BY ZenonT(30) DEF ToRespawn
    <3> QED BY <3>1, <3>2, FS_Subset
  <2>3. PICK n \in Nat : n = Cardinality(ToRespawn(s))
    BY <2>2, FS_CardinalityType
  <2>4. x = After(n, u.fail)
    BY <2>3, ZenonT(30)
  <2> QED BY <2>1, <2>4 DEF After
<1> HIDE DEF x, y
<1>9. t \in MasterType
  BY <1>2, <1>4, <1>5, <1>7, <1>8, ZenonT(30) DEF MasterType
<1>10. /\ t.processes = f /\ t.live = l /\ t.short = y /\ t.ccf = u.ccf
       /\ t.terminate = u.terminate /\ t.quit = u.quit /\ t.new_binary = u.new_binary
       /\ t.noaccepting = u.noaccepting /\ t.todo = u.todo
  BY <1>2, ZenonT(30) DEF MasterType
<1> HIDE DEF t
<1>11. Typed(t)
  BY <1>3, <1>9, <1>10, ZenonT(30) DEF Typed
<1>12. Watched(t)
  <2> SUFFICES ASSUME ~t.live, NEW i \in Slot, t.processes[i].state \in AliveStates
               PROVE  t.processes[i].detached
    BY ZenonT(30) DEF Watched
  <2>1. ~l /\ f[i].state \in AliveStates /\ t.processes[i] = f[i]
    BY <1>10, ZenonT(30)
  <2>2. i \notin Respawned(s)
    BY <1>6, <2>1, ZenonT(30)
  <2>3. f[i] = s.processes[i] /\ Used(f[i]) /\ ~f[i].exited
    BY <1>3, <2>1, <2>2, ZenonT(30)
  <2>4. s.processes[i].detached
    BY <1>6, <2>1, <2>3, ZenonT(30)
  <2> QED BY <2>1, <2>3, <2>4, ZenonT(30)
<1>13. Manned(t)
  <2>1. CASE s.terminate \/ s.quit
    BY <1>2, <1>10, <2>1, ZenonT(30) DEF Manned
  <2>2. CASE ~s.terminate /\ ~s.quit
    <3>1. StaffOf(s) \subseteq StaffOf(t)
      <4> SUFFICES ASSUME NEW i \in StaffOf(s) PROVE i \in StaffOf(t)
        BY ZenonT(30)
      <4>1. i \in Slot
        BY ZenonT(30) DEF StaffOf
      <4>2. f[i].respawn /\ ~f[i].exiting
        BY <1>3, <2>2, <4>1, ZenonT(30)
      <4> QED BY <1>10, <4>1, <4>2, ZenonT(30) DEF StaffOf
    <3>2. CrewOf(s.ccf) \in Nat /\ t.ccf = s.ccf
      BY <1>2, <1>10, CrewNat, ZenonT(30)
    <3>3. (s.terminate \/ s.quit \/ s.noaccepting \/ s.short \/ "restart" \in s.todo)
             => (t.terminate \/ t.quit \/ t.noaccepting \/ t.short \/ "restart" \in t.todo)
      BY <1>2, <1>7, <1>10, <2>2, ZenonT(30)
    <3> QED BY <3>1, <3>2, <3>3, StaffGrows, ZenonT(30)
  <2> QED BY <2>1, <2>2, ZenonT(30)
<1> QED BY <1>1, <1>2, <1>10, <1>11, <1>12, <1>13, ZenonT(30)
-----------------------------------------------------------------------------
(* The steps *)

\* Which attempt to spawn fails says nothing about the processes.
LEMMA FailKeeps ==
  ASSUME NEW s, Typed(s), NEW n \in Nat
  PROVE  LET t == [s EXCEPT !.fail = n]
         IN  /\ Typed(t) /\ Kept(s, t) /\ t.live = s.live /\ t.processes = s.processes
             /\ (Manned(s) => Manned(t)) /\ (Watched(s) => Watched(t))
<1> DEFINE t == [s EXCEPT !.fail = n]
<1>1. /\ t \in MasterType /\ t.live = s.live /\ t.processes = s.processes
      /\ t.short = s.short
  BY ZenonT(30) DEF Typed, MasterType
<1>2. Kept(s, t)
  BY ZenonT(30) DEF Typed, MasterType, Kept
<1> HIDE DEF t
<1>3. Typed(t) /\ (Watched(s) => Watched(t)) /\ StaffOf(t) = StaffOf(s)
  BY <1>1, ZenonT(30) DEF Typed, Watched, StaffOf
<1>4. Manned(s) => Manned(t)
  BY <1>1, <1>2, <1>3, ZenonT(30) DEF Manned, Kept
<1> QED BY <1>1, <1>2, <1>3, <1>4, ZenonT(30) DEF t

\* The reaping that the loop does when SIGCHLD, or a signal that found nobody,
\* asked for it.
LEMMA ReapKeeps ==
  ASSUME NEW s, Typed(s), Manned(s)
  PROVE  LET t == Reap(s)
         IN  /\ Typed(t) /\ Manned(t) /\ (Watched(s) => Watched(t))
             /\ s.new_binary = 0 => t.new_binary = 0
             /\ t.terminate = s.terminate /\ t.quit = s.quit
             /\ "reconfigure" \in t.todo => "reconfigure" \in s.todo
<1>1. CASE ~s.reap
  <2>1. Reap(s) = s
    BY <1>1, ZenonT(30) DEF Reap
  <2> QED BY <2>1, ZenonT(30)
<1>2. CASE s.reap
  <2>1. PICK u : u = [s EXCEPT !.reap = FALSE]
    BY ZenonT(30)
  <2>2. Reap(s) = ReapChildren(u)
    BY <1>2, <2>1, ZenonT(30) DEF Reap
  <2>3. u \in MasterType /\ u.processes = s.processes /\ u.short = s.short
    BY <2>1, ZenonT(30) DEF Typed, MasterType
  <2>4. Kept(s, u)
    BY <2>1, ZenonT(30) DEF Typed, MasterType, Kept
  <2>5. Typed(u) /\ StaffOf(u) = StaffOf(s)
    BY <2>3, ZenonT(30) DEF Typed, StaffOf
  <2>6. Manned(u)
    BY <2>3, <2>4, <2>5, ZenonT(30) DEF Manned, Kept
  <2>7. PICK t : t = ReapChildren(u)
    BY ZenonT(30)
  <2>8. /\ Typed(t) /\ Manned(t) /\ Watched(t)
        /\ u.new_binary = 0 => t.new_binary = 0
        /\ t.terminate = u.terminate /\ t.quit = u.quit
        /\ "reconfigure" \in t.todo => "reconfigure" \in u.todo
    BY <2>5, <2>6, <2>7, ReapChildrenKeeps, ZenonT(30)
  <2> QED BY <2>2, <2>4, <2>7, <2>8, ZenonT(30) DEF Kept
<1> QED BY <1>1, <1>2, ZenonT(30)

\* The timer of the termination concerns the signals only.
LEMMA TimedKeeps ==
  ASSUME NEW s, Typed(s)
  PROVE  LET t == Timed(s)
         IN  /\ Typed(t) /\ Kept(s, t) /\ t.live = s.live
             /\ (Manned(s) => Manned(t)) /\ (Watched(s) => Watched(t))
<1>1. CASE ~(s.delay > 0 /\ s.sigalrm)
  <2>1. Timed(s) = s
    BY <1>1, ZenonT(30) DEF Timed
  <2> QED BY <2>1, ZenonT(30) DEF Kept
<1>2. CASE s.delay > 0 /\ s.sigalrm
  <2>1. PICK d : d = IF 2 * s.delay > Longest THEN Longest ELSE 2 * s.delay
    BY ZenonT(30)
  <2>2. PICK t : t = [s EXCEPT !.sigio = 0, !.sigalrm = FALSE, !.delay = d]
    BY ZenonT(30)
  <2>3. Timed(s) = t
    BY <1>2, <2>1, <2>2, ZenonT(30) DEF Timed
  <2>4. s.delay \in Nat
    BY ZenonT(30) DEF Typed, MasterType
  <2>5. d \in Nat /\ 0 \in Nat
    BY <2>1, <2>4, CycleAssumption DEF Longest
  <2>6. /\ t \in MasterType /\ t.live = s.live /\ t.processes = s.processes
        /\ t.short = s.short
    BY <2>2, <2>5, ZenonT(30) DEF Typed, MasterType
  <2>7. Kept(s, t)
    BY <2>2, ZenonT(30) DEF Typed, MasterType, Kept
  <2>8. Typed(t) /\ (Watched(s) => Watched(t)) /\ StaffOf(t) = StaffOf(s)
    BY <2>6, ZenonT(30) DEF Typed, Watched, StaffOf
  <2>9. Manned(s) => Manned(t)
    BY <2>6, <2>7, <2>8, ZenonT(30) DEF Manned, Kept
  <2> QED BY <2>3, <2>6, <2>7, <2>8, <2>9, ZenonT(30)
<1> QED BY <1>1, <1>2, ZenonT(30)

\* A wakeup of the master, from sigsuspend() to sigsuspend() or to its exit.
LEMMA WakeStep == MasterInv /\ Wake => MasterInv'
<1> SUFFICES ASSUME MasterInv, Wake PROVE MasterInv'
  BY ZenonT(30)
<1>1. /\ Typed(ngx) /\ Manned(ngx)
      /\ "reconfigure" \in ngx.todo => ngx.terminate \/ ngx.quit
  BY ZenonT(30) DEF MasterInv
<1>2. ~RELOAD_IN_UPGRADE => Watched(ngx) /\ ("HUP" \in raised => ngx.new_binary = 0)
  BY ZenonT(30) DEF MasterInv
<1>3. PICK fail \in Failing(faults),
           c \in IF "HUP" \in raised THEN Conf \cup {Broken} ELSE {ngx.ccf} :
          \E s \in {Reap(Handled([ngx EXCEPT !.fail = fail]))} :
              \/ /\ ~s.live /\ (s.terminate \/ s.quit)
                 /\ exited' = TRUE
                 /\ ngx' = [s EXCEPT !.fail = 0]
                 /\ UNCHANGED faults
              \/ /\ s.live \/ ~(s.terminate \/ s.quit)
                 /\ \E t \in {Timed(Obey(s, c))} :
                       /\ ngx' = [t EXCEPT !.fail = 0]
                       /\ faults' = faults + Failed(fail, t)
                 /\ UNCHANGED exited
  BY ZenonT(30) DEF Wake
<1>4. ~exited /\ raised' = {}
  BY ZenonT(30) DEF Wake
<1>5. fail \in Nat /\ 0 \in Nat
  BY <1>3, CycleAssumption DEF Failing
<1>6. c \in ConfType
  <2>1. ngx.ccf \in ConfType
    BY <1>1, ZenonT(30) DEF Typed, MasterType
  <2>2. Conf \subseteq ConfType
    BY CycleAssumption DEF ConfType
  <2>3. Broken \in ConfType
    BY DEF Broken, ConfType
  <2> QED BY <1>3, <2>1, <2>2, <2>3, ZenonT(30)
<1>7. PICK a : a = [ngx EXCEPT !.fail = fail]
  BY ZenonT(30)
<1>8. /\ Typed(a) /\ Kept(ngx, a) /\ Manned(a) /\ (Watched(ngx) => Watched(a))
  BY <1>1, <1>5, <1>7, FailKeeps, ZenonT(30)
<1>9. PICK b : b = Handled(a)
  BY ZenonT(30)
<1>10. /\ Typed(b) /\ Manned(b) /\ (Watched(a) => Watched(b))
       /\ b.new_binary = a.new_binary
       /\ (a.terminate => b.terminate) /\ (a.quit => b.quit)
       /\ ("reconfigure" \in b.todo => "reconfigure" \in a.todo \/ "HUP" \in raised)
  BY <1>8, <1>9, HandledKeeps, ZenonT(30)
<1>11. PICK s : s = Reap(b)
  BY ZenonT(30)
<1>12. /\ Typed(s) /\ Manned(s) /\ (Watched(b) => Watched(s))
       /\ (b.new_binary = 0 => s.new_binary = 0)
       /\ s.terminate = b.terminate /\ s.quit = b.quit
       /\ ("reconfigure" \in s.todo => "reconfigure" \in b.todo)
  BY <1>10, <1>11, ReapKeeps, ZenonT(30)
<1>13. ~RELOAD_IN_UPGRADE => Watched(s)
  BY <1>2, <1>8, <1>10, <1>12, ZenonT(30)
<1>14. /\ a.terminate = ngx.terminate /\ a.quit = ngx.quit /\ a.todo = ngx.todo
       /\ a.new_binary = ngx.new_binary
  BY <1>8, ZenonT(30) DEF Kept
<1>15. "reconfigure" \in s.todo => s.terminate \/ s.quit \/ "HUP" \in raised
  BY <1>1, <1>10, <1>12, <1>14, ZenonT(30)
<1>16. ~RELOAD_IN_UPGRADE /\ "HUP" \in raised => s.new_binary = 0
  BY <1>2, <1>10, <1>12, <1>14, ZenonT(30)
<1>17. CASE ~s.live /\ (s.terminate \/ s.quit) /\ exited' = TRUE
            /\ ngx' = [s EXCEPT !.fail = 0]
  <2>1. PICK t : t = [s EXCEPT !.fail = 0]
    BY ZenonT(30)
  <2>2. /\ Typed(t) /\ Manned(t) /\ (Watched(s) => Watched(t)) /\ Kept(s, t)
        /\ t.live = s.live
    BY <1>5, <1>12, <2>1, FailKeeps, ZenonT(30)
  <2>3. t.terminate \/ t.quit
    BY <1>17, <2>2, ZenonT(30) DEF Kept
  <2>4. ngx' = t
    BY <1>17, <2>1, ZenonT(30)
  <2>5. Typed(ngx)' /\ Manned(ngx)'
    BY <2>2, <2>4, ZenonT(30) DEF Typed, Manned, StaffOf
  <2>6. ~RELOAD_IN_UPGRADE => Watched(ngx)'
    BY <1>13, <2>2, <2>4, ZenonT(30) DEF Watched
  <2> QED BY <1>4, <1>17, <2>2, <2>3, <2>4, <2>5, <2>6, ZenonT(30) DEF MasterInv
<1>18. ASSUME NEW t, t = Timed(Obey(s, c)), ngx' = [t EXCEPT !.fail = 0], UNCHANGED exited
       PROVE  MasterInv'
  <2>1. PICK o : o = Obey(s, c)
    BY ZenonT(30)
  <2>2. /\ Typed(o) /\ Manned(o)
        /\ ("reconfigure" \in o.todo => o.terminate \/ o.quit)
        /\ \/ ~Watched(s) \/ Watched(o)
           \/ ~s.terminate /\ ~s.quit /\ "reconfigure" \in s.todo /\ s.new_binary # 0
    BY <1>6, <1>12, <2>1, ObeyKeeps, ZenonT(30)
  <2>3. ~RELOAD_IN_UPGRADE => Watched(o)
    BY <1>13, <1>15, <1>16, <2>2, ZenonT(30)
  <2>4. Typed(t) /\ Kept(o, t) /\ Manned(t) /\ (Watched(o) => Watched(t))
    BY <1>18, <2>1, <2>2, TimedKeeps, ZenonT(30)
  <2>5. PICK v : v = [t EXCEPT !.fail = 0]
    BY ZenonT(30)
  <2>6. Typed(v) /\ Kept(t, v) /\ Manned(v) /\ (Watched(t) => Watched(v))
    BY <1>5, <2>4, <2>5, FailKeeps, ZenonT(30)
  <2>7. ngx' = v
    BY <1>18, <2>5, ZenonT(30)
  <2>8. "reconfigure" \in v.todo => v.terminate \/ v.quit
    BY <2>2, <2>4, <2>6, ZenonT(30) DEF Kept
  <2>9. Typed(ngx)' /\ Manned(ngx)'
    BY <2>6, <2>7, ZenonT(30) DEF Typed, Manned, StaffOf
  <2>10. ~RELOAD_IN_UPGRADE => Watched(ngx)'
    BY <2>3, <2>4, <2>6, <2>7, ZenonT(30) DEF Watched
  <2>11. ~exited'
    BY <1>4, <1>18, ZenonT(30)
  <2> QED BY <1>4, <2>7, <2>8, <2>9, <2>10, <2>11, ZenonT(30) DEF MasterInv
<1>19. s = Reap(Handled([ngx EXCEPT !.fail = fail]))
  BY <1>7, <1>9, <1>11, ZenonT(30)
<1> QED BY <1>3, <1>17, <1>18, <1>19, ZenonT(30)

\* A child that was alive changes its state: it shuts down, hangs or exits.
LEMMA ChildStep ==
  ASSUME MasterInv, NEW i \in Slot, ngx.processes[i].state \in AliveStates,
         NEW st \in {"shutting", "hung", "zombie", "fatal"}, Becomes(i, st),
         raised' \subseteq raised \cup {"CHLD"}, UNCHANGED exited
  PROVE  MasterInv'
<1>1. /\ Typed(ngx) /\ Manned(ngx)
      /\ "reconfigure" \in ngx.todo => ngx.terminate \/ ngx.quit
  BY ZenonT(30) DEF MasterInv
<1>2. ~RELOAD_IN_UPGRADE => /\ Watched(ngx) /\ (exited => ~ngx.live)
                            /\ ("HUP" \in raised => ngx.new_binary = 0)
  BY ZenonT(30) DEF MasterInv
<1>3. PICK p \in ProcessType : p = ngx.processes[i]
  BY <1>1, ZenonT(30) DEF Typed, MasterType
<1>4. Sane(p) /\ p.state \in AliveStates
  BY <1>1, <1>3, ZenonT(30) DEF Typed
<1>5. PICK q : q = [p EXCEPT !.state = st, !.told = "none"]
  BY ZenonT(30)
<1>6. st \in {"run", "shutting", "hung", "zombie", "fatal", "gone"}
  BY ZenonT(30)
<1>7. q \in ProcessType
  BY <1>5, <1>6, ZenonT(30) DEF ProcessType
<1>8. /\ q.kind = p.kind /\ q.state = st /\ q.told = "none" /\ q.exited = p.exited
      /\ q.respawn = p.respawn /\ q.exiting = p.exiting /\ q.detached = p.detached
  BY <1>5, ZenonT(30) DEF ProcessType
<1>9. Sane(q)
  <2>1. "gone" \notin AliveStates
    BY ZenonT(30) DEF AliveStates
  <2>2. Used(p) /\ ~p.exited
    BY <1>4, <2>1, ZenonT(30) DEF Sane
  <2> QED BY <1>8, <2>2, ZenonT(30) DEF Sane, Used
<1>10. PICK f : f = [ngx.processes EXCEPT ![i] = q]
  BY ZenonT(30)
<1>11. ngx.processes \in [Slot -> ProcessType] /\ ngx \in MasterType
  BY <1>1, ZenonT(30) DEF Typed, MasterType
<1>12. f[i] = q /\ f \in [Slot -> ProcessType]
  BY <1>7, <1>10, <1>11, ZenonT(30)
<1>13. \A j \in Slot : j # i => f[j] = ngx.processes[j]
  BY <1>10, <1>11, ZenonT(30)
<1>14. PICK t : t = [ngx EXCEPT !.processes = f]
  BY ZenonT(30)
<1>15. ngx' = t
  BY <1>3, <1>5, <1>10, <1>14, ZenonT(30) DEF Becomes
<1>16. /\ t \in MasterType /\ t.processes = f /\ t.live = ngx.live /\ t.short = ngx.short
  BY <1>11, <1>12, <1>14, ZenonT(30) DEF MasterType
<1>17. Kept(ngx, t)
  BY <1>11, <1>14, ZenonT(30) DEF MasterType, Kept
<1>18. Typed(t)
  BY <1>1, <1>9, <1>12, <1>13, <1>16, ZenonT(30) DEF Typed
<1>19. Watched(ngx) => Watched(t)
  BY <1>3, <1>4, <1>8, <1>12, <1>13, <1>16, ZenonT(30) DEF Watched
<1>20. StaffOf(t) = StaffOf(ngx)
  <2>1. \A j \in Slot : /\ t.processes[j].respawn = ngx.processes[j].respawn
                        /\ t.processes[j].exiting = ngx.processes[j].exiting
    BY <1>3, <1>8, <1>12, <1>13, <1>16, ZenonT(30)
  <2> QED BY <2>1, ZenonT(30) DEF StaffOf
<1>21. Manned(t)
  BY <1>1, <1>16, <1>17, <1>20, ZenonT(30) DEF Manned, Kept
<1>22. Typed(ngx)' /\ Manned(ngx)'
  BY <1>15, <1>18, <1>21, ZenonT(30) DEF Typed, Manned, StaffOf
<1>23. ~RELOAD_IN_UPGRADE => Watched(ngx)'
  BY <1>2, <1>15, <1>19, ZenonT(30) DEF Watched
<1>24. ("reconfigure" \in ngx.todo => ngx.terminate \/ ngx.quit)'
  BY <1>1, <1>15, <1>17, ZenonT(30) DEF Kept
<1>25. ~RELOAD_IN_UPGRADE => (exited => ~ngx.live)'
  BY <1>2, <1>15, <1>16, ZenonT(30)
<1>26. "HUP" \in raised' => "HUP" \in raised
  BY ZenonT(30)
<1>27. ~RELOAD_IN_UPGRADE => ("HUP" \in raised => ngx.new_binary = 0)'
  BY <1>2, <1>15, <1>17, <1>26, ZenonT(30) DEF Kept
<1> QED BY <1>22, <1>23, <1>24, <1>25, <1>27, ZenonT(30) DEF MasterInv

\* The signals of the operator and of the timer: SIGHUP is not sent during an
\* upgrade unless RELOAD_IN_UPGRADE says so.
LEMMA RaisedStep ==
  ASSUME MasterInv, Alarm \/ \E sig \in Operator : Send(sig)
  PROVE  MasterInv'
<1>1. ngx' = ngx /\ exited' = exited
  BY ZenonT(30) DEF Alarm, Send
<1>2. "HUP" \in raised' => \/ "HUP" \in raised \/ RELOAD_IN_UPGRADE
                           \/ ngx.new_binary = 0
  <2>1. CASE Alarm
    BY <2>1 DEF Alarm
  <2>2. ASSUME NEW sig \in Operator, Send(sig)
        PROVE  /\ raised' = raised \cup {sig}
               /\ sig = "HUP" /\ ngx.new_binary # 0 => RELOAD_IN_UPGRADE
    BY <2>2, ZenonT(30) DEF Send
  <2>3. CASE \E sig \in Operator : Send(sig)
    BY <2>2, <2>3, ZenonT(30)
  <2> QED BY <2>1, <2>3
<1>3. Typed(ngx)' /\ Manned(ngx)' /\ (Watched(ngx) => Watched(ngx)')
  BY <1>1, ZenonT(30) DEF MasterInv, Typed, Manned, Watched, StaffOf
<1> QED BY <1>1, <1>2, <1>3, ZenonT(30) DEF MasterInv

\* ngx_master_process_cycle, up to its loop: the first crew, and live = 1.
LEMMA MasterStarts == MasterInit => MasterInv
<1> SUFFICES ASSUME MasterInit PROVE MasterInv
  BY ZenonT(30)
<1>1. PICK c \in Conf, fail \in Failing(0) :
          \E s \in {Start([processes |-> [i \in Slot |-> NoProcess], ccf |-> c,
                           fail |-> fail, short |-> FALSE,
                           terminate |-> FALSE, quit |-> FALSE, reap |-> FALSE,
                           sigalrm |-> FALSE, todo |-> {}, new_binary |-> 0,
                           noaccepting |-> FALSE, live |-> TRUE, delay |-> 0,
                           sigio |-> 0], FALSE)} :
              /\ ngx = [s EXCEPT !.fail = 0]
              /\ faults = Failed(fail, s)
  BY ZenonT(30) DEF MasterInit
<1>2. raised = {} /\ exited = FALSE
  BY ZenonT(30) DEF MasterInit
<1>3. PICK r : r = [processes |-> [i \in Slot |-> NoProcess], ccf |-> c,
                    fail |-> fail, short |-> FALSE,
                    terminate |-> FALSE, quit |-> FALSE, reap |-> FALSE,
                    sigalrm |-> FALSE, todo |-> {}, new_binary |-> 0,
                    noaccepting |-> FALSE, live |-> TRUE, delay |-> 0,
                    sigio |-> 0]
  BY ZenonT(30)
<1>4. /\ fail \in Nat /\ 0 \in Nat /\ 0 \in Int /\ FALSE \in BOOLEAN
  BY <1>1, CycleAssumption DEF Failing
<1>5. c \in ConfType
  BY <1>1, CycleAssumption DEF ConfType
<1>6. NoProcess \in ProcessType /\ Sane(NoProcess)
  <2>1. NoProcess \in ProcessType
    BY ZenonT(30) DEF NoProcess, ProcessType
  <2>2. /\ NoProcess.kind = "none" /\ NoProcess.state = "gone" /\ NoProcess.told = "none"
        /\ NoProcess.respawn = FALSE /\ NoProcess.exited = FALSE
    BY ZenonT(30) DEF NoProcess
  <2> QED BY <2>1, <2>2, ZenonT(30) DEF Sane, Used
<1>7. PICK f : f = [i \in Slot |-> NoProcess]
  BY ZenonT(30)
<1>8. f \in [Slot -> ProcessType] /\ \A i \in Slot : Sane(f[i])
  BY <1>6, <1>7, ZenonT(30)
<1>9. /\ r.processes = f /\ r.live = TRUE /\ r.todo = {}
  BY <1>3, <1>7, ZenonT(30)
<1>10. r \in MasterType
  BY <1>3, <1>4, <1>5, <1>7, <1>8, ZenonT(30) DEF MasterType
<1>11. Typed(r)
  BY <1>8, <1>9, <1>10, ZenonT(30) DEF Typed
<1>12. PICK s : s = Start(r, FALSE)
  BY ZenonT(30)
<1>13. Typed(s) /\ Kept(r, s) /\ s.live = r.live
  BY <1>4, <1>11, <1>12, StartKeeps, ZenonT(30)
<1>14. ~s.short => Cardinality(StaffOf(s)) >= CrewOf(r.ccf)
  BY <1>4, <1>11, <1>12, StartMans, ZenonT(30)
<1>15. Manned(s) /\ Watched(s) /\ s.todo = {}
  BY <1>9, <1>13, <1>14, ZenonT(30) DEF Manned, Watched, Kept
<1>16. ngx = [s EXCEPT !.fail = 0]
  BY <1>1, <1>3, <1>12, ZenonT(30)
<1>17. PICK t : t = [s EXCEPT !.fail = 0]
  BY ZenonT(30)
<1>18. Typed(t) /\ Kept(s, t) /\ Manned(t) /\ Watched(t)
  BY <1>4, <1>13, <1>15, <1>17, FailKeeps, ZenonT(30)
<1>19. ngx = t /\ t.todo = {}
  BY <1>15, <1>16, <1>17, <1>18, ZenonT(30) DEF Kept
<1> QED BY <1>2, <1>18, <1>19, ZenonT(30) DEF MasterInv

\* The invariant behind the two properties holds at every sigsuspend().
THEOREM MasterInvariant == MasterSpec => []MasterInv
<1>1. ASSUME MasterInv, NEW i \in Slot, Run(i) \/ Crash(i) \/ Hang(i) PROVE MasterInv'
  <2>1. ASSUME NEW j \in Slot, Loops(ngx.processes[j])
        PROVE  ngx.processes[j].state \in AliveStates
    BY <2>1, ZenonT(30) DEF Loops, AliveStates
  <2>2. ASSUME ngx.processes[i].told = "kill" PROVE ngx.processes[i].state \in AliveStates
    BY <1>1, <2>2, ZenonT(30) DEF MasterInv, Typed, Sane
  <2>3. ASSUME NEW st \in {"zombie", "fatal"}, Dies(i, st),
               ngx.processes[i].state \in AliveStates
        PROVE  MasterInv'
    BY <1>1, <2>3, ChildStep, ZenonT(30) DEF Dies
  <2>4. ASSUME NEW st \in {"shutting", "hung"}, Becomes(i, st),
               ngx.processes[i].state \in AliveStates, UNCHANGED <<raised, signals, exited>>
        PROVE  MasterInv'
    BY <1>1, <2>4, ChildStep, ZenonT(30)
  <2>5. CASE WorkerCycle(i)
    BY <2>1, <2>3, <2>4, <2>5, ZenonT(30) DEF WorkerCycle
  <2>6. CASE CacheCycle(i)
    BY <2>1, <2>3, <2>6, ZenonT(30) DEF CacheCycle
  <2>7. CASE Killed(i)
    BY <2>2, <2>3, <2>7, ZenonT(30) DEF Killed
  <2>8. CASE Crash(i)
    BY <2>1, <2>3, <2>8, ZenonT(30) DEF Crash
  <2>9. CASE Hang(i)
    BY <2>1, <2>4, <2>9, ZenonT(30) DEF Hang
  <2> QED BY <1>1, <2>5, <2>6, <2>7, <2>8, <2>9, ZenonT(30) DEF Run
<1>2. ASSUME MasterInv, UNCHANGED masterVars PROVE MasterInv'
  <2>1. ngx' = ngx /\ exited' = exited /\ raised' = raised
    BY <1>2, ZenonT(30) DEF masterVars
  <2>2. Typed(ngx)' /\ Manned(ngx)' /\ (Watched(ngx) => Watched(ngx)')
    BY <1>2, <2>1, ZenonT(30) DEF MasterInv, Typed, Manned, Watched, StaffOf
  <2> QED BY <1>2, <2>1, <2>2, ZenonT(30) DEF MasterInv
<1>3. MasterInv /\ [MasterNext]_masterVars => MasterInv'
  BY <1>1, <1>2, WakeStep, RaisedStep, ZenonT(30) DEF MasterNext
<1> QED BY <1>3, MasterStarts, PTL DEF MasterSpec

\* The master exits only after its children, if no reload is asked for during an
\* upgrade: live, which ngx_reap_children computes and later rounds of the loop
\* use, is never 0 while a child is alive.
THEOREM MasterNoOrphans ==
  ASSUME ~RELOAD_IN_UPGRADE
  PROVE  MasterSpec => []NoOrphans
<1>1. MasterInv => NoOrphans
  BY ZenonT(30) DEF MasterInv, Watched, NoOrphans, Childless, Alive, AliveStates
<1> QED BY <1>1, MasterInvariant, PTL

\* Through reloads, crashes and upgrades that are called off, the configured
\* processes are there or about to be spawned again, unless the operator wanted
\* them gone or a spawn failed; also if a reload comes during an upgrade.
THEOREM MasterStaffed == MasterSpec => []Staffed
<1>1. MasterInv => Staffed
  BY ZenonT(30) DEF MasterInv, Manned, StaffOf, Staffed, Staff
<1> QED BY <1>1, MasterInvariant, PTL
=============================================================================
