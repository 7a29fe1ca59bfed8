------------------------ MODULE NgxUpstreamRRProofs -------------------------
(***************************************************************************)
(* The balancer for any number of workers and peers, both methods, all     *)
(* parameters, and workers killed at any point: the connection counters    *)
(* are exact and max_conns is kept; a request is never sent to the same    *)
(* peer twice, nor to a primary peer after a backup peer, nor more often   *)
(* than it has tries; the fields have their types, and the current weights *)
(* of each list add up to nothing.                                         *)
(***************************************************************************)
EXTENDS NgxUpstreamProbe, SumProofs

\* The requests served by a peer are finitely many: there is one per worker.
LEMMA UsingFinite ==
    ASSUME NEW p
    PROVE  IsFiniteSet(Using(p)) /\ Cardinality(Using(p)) \in Nat
<1>1. Using(p) \subseteq Worker
  BY DEF Using
<1>. QED
  BY <1>1, UpstreamAssumption, FS_Subset, FS_CardinalityType

\* A peer belongs to one list.
LEMMA ListsDisjoint ==
    ASSUME NEW g \in Group, NEW h \in Group, NEW p \in PeersOf(g), p \in PeersOf(h)
    PROVE  g = h
BY DEF Group, PeersOf

\* Initially nobody is served and no lock is held.
LEMMA InitIInv == Init => IInv
<1> SUFFICES ASSUME Init PROVE IInv
  OBVIOUS
<1>1. Typed /\ Holds /\ Exclusive /\ Loaded
  <2>1. Typed
    BY DEF Init, Typed, Label, Group, Lock!Mode
  <2>2. Holds /\ Loaded
    BY DEF Init, Holds, Loaded, Serving
  <2>3. Exclusive
    BY DEF Init, Exclusive
  <2>. QED
    BY <2>1, <2>2, <2>3
<1>2. \A p \in Peer : Using(p) = {}
  BY DEF Init, Using, Serving
<1>3. ConnsCount
  BY <1>2, FS_EmptySet, ZenonT(30) DEF Init, ConnsCount
<1>4. MaxConnsRespected
  <2>1. \A p \in Peer : Cardinality(Using(p)) = 0
    BY <1>2, FS_EmptySet
  <2>2. \A p \in Peer : MaxConns[p] \in Nat
    BY UpstreamAssumption
  <2>. QED
    BY <2>1, <2>2 DEF MaxConnsRespected
<1>. QED
  BY <1>1, <1>3, <1>4 DEF IInv

\* A step that changes neither conns nor who is served keeps the counts.
LEMMA CountsKept ==
    ASSUME ConnsCount, MaxConnsRespected, conns' = conns,
           \A p \in Peer : Using(p)' = Using(p)
    PROVE  ConnsCount' /\ MaxConnsRespected'
BY DEF ConnsCount, MaxConnsRespected

\* The start of a request, an answer, a worker's new time and its death touch
\* no lock and no counter.
LEMMA OutsideStep ==
    ASSUME IInv, NEW w \in Worker,
           Start(w) \/ (\E s \in {"ok", "next", "failed"} : Answer(w, s))
           \/ UpdateTime(w) \/ Crash(w)
    PROVE  IInv'
<1> USE DEF peerVars, lockVars, timeVars, reqVars, vars, At, Goto
<1>1. /\ UNCHANGED <<conns, rwlock, plock, group, current, load>>
      /\ \/ pc' = pc
         \/ pc[w] = "idle" /\ pc' = [pc EXCEPT ![w] = "g_lock"]
         \/ pc[w] = "asking" /\ pc' = [pc EXCEPT ![w] = "f_rlock"]
  BY ZenonT(30) DEF Start, Answer, UpdateTime, Crash
<1>2. Typed' /\ Holds' /\ Exclusive' /\ Loaded'
  BY <1>1 DEF IInv, Typed, Holds, Exclusive, Loaded, Serving, Label, Full
<1>3. \A p \in Peer : Using(p)' = Using(p)
  BY <1>1 DEF IInv, Typed, Using, Serving
<1>. QED
  BY <1>1, <1>2, <1>3, CountsKept DEF IInv

\* Taking the lock of a list excludes the others from it.
LEMMA ListLockStep ==
    ASSUME IInv, NEW w \in Worker, GetLock(w) \/ GetRelock(w) \/ FreeRlock(w)
    PROVE  IInv'
<1> USE DEF peerVars, lockVars, timeVars, reqVars, At, Goto
<1>1. UNCHANGED <<conns, plock, group, current, load>>
  BY DEF GetLock, GetRelock, FreeRlock
<1>2. PICK g \in Group, m \in {"r", "w"} :
         /\ rwlock' = [rwlock EXCEPT ![g][w] = m]
         /\ \A v \in Worker : rwlock[g][v] # "w"
         /\ m = "w" => \A v \in Worker : rwlock[g][v] = "none"
         /\ \/ /\ pc[w] = "g_lock" /\ pc' = [pc EXCEPT ![w] = "g_pick"]
               /\ g = group[w] /\ m = "w"
            \/ pc[w] = "g_relock" /\ pc' = [pc EXCEPT ![w] = "g_unlock"]
            \/ /\ pc[w] = "f_rlock" /\ pc' = [pc EXCEPT ![w] = "f_lock"]
               /\ g = group[w] /\ m = "r"
  <2>a. group[w] \in Group /\ "primary" \in Group
    BY DEF IInv, Typed, Group
  <2>1. CASE GetLock(w)
    BY <2>1, <2>a, ZenonT(30) DEF GetLock, LockList, Lock!WFree
  <2>2. CASE GetRelock(w)
    BY <2>2, <2>a, ZenonT(30) DEF GetRelock, LockList, Lock!WFree
  <2>3. CASE FreeRlock(w)
    BY <2>3, <2>a, ZenonT(30) DEF FreeRlock, LockList, Lock!RFree
  <2>. QED
    BY <2>1, <2>2, <2>3, ZenonT(30)
<1>3. Typed'
  BY <1>1, <1>2, ZenonT(30) DEF IInv, Typed, Label, Lock!Mode
<1>a. \A h \in Group, v \in Worker :
         rwlock'[h][v] = IF h = g /\ v = w THEN m ELSE rwlock[h][v]
  BY <1>2 DEF IInv, Typed
<1>b. \A v \in Worker : v # w => pc'[v] = pc[v]
  BY <1>2 DEF IInv, Typed
<1>4. Holds'
  <2> SUFFICES ASSUME NEW v \in Worker
               PROVE  Holds!(v)'
    BY DEF Holds
  <2>1. group[v] \in Group
    BY DEF IInv, Typed
  <2>2. CASE v # w
    <3>1. rwlock'[group[v]][v] = rwlock[group[v]][v]
      BY <1>a, <2>1, <2>2
    <3>2. /\ pc'[v] = pc[v] /\ group'[v] = group[v] /\ current'[v] = current[v]
          /\ plock' = plock
      BY <1>1, <1>b, <2>2
    <3>3. Holds!(v)
      BY ZenonT(30) DEF IInv, Holds
    <3>. QED
      BY <3>1, <3>2, <3>3, ZenonT(30) DEF Serving
  <2>3. CASE v = w
    BY <2>1, <2>3, <1>1, <1>2, <1>a DEF IInv, Typed, Holds, Serving
  <2>. QED
    BY <2>2, <2>3, ZenonT(30)
<1>5. Exclusive'
  BY <1>1, <1>2, <1>a DEF IInv, Exclusive
<1>6. Loaded'
  BY <1>1, <1>2 DEF IInv, Typed, Loaded, Full
<1>7. \A p \in Peer : Using(p)' = Using(p)
  BY <1>1, <1>2 DEF IInv, Typed, Using, Serving
<1>. QED
  BY <1>1, <1>3, <1>4, <1>5, <1>6, <1>7, CountsKept DEF IInv

\* Taking the lock of a peer excludes the others from it.
LEMMA PeerLockStep ==
    ASSUME IInv, NEW w \in Worker, FreeLock(w)
    PROVE  IInv'
<1> USE DEF peerVars, lockVars, timeVars, reqVars, At, Goto
<1>1. /\ UNCHANGED <<conns, rwlock, group, current, load>>
      /\ pc[w] = "f_lock" /\ pc' = [pc EXCEPT ![w] = "f_load"]
      /\ plock' = [plock EXCEPT ![current[w]][w] = "w"]
      /\ \A v \in Worker : plock[current[w]][v] = "none"
  BY DEF FreeLock, Lock!WFree
<1>2. current[w] \in Peer
  BY <1>1 DEF IInv, Holds, Serving, PeersOf
<1>3. Typed'
  BY <1>1, <1>2 DEF IInv, Typed, Label, Lock!Mode
<1>a. \A p \in Peer, v \in Worker :
         plock'[p][v] = IF p = current[w] /\ v = w THEN "w" ELSE plock[p][v]
  BY <1>1, <1>2 DEF IInv, Typed
<1>4. Holds'
  <2> SUFFICES ASSUME NEW v \in Worker
               PROVE  Holds!(v)'
    BY DEF Holds
  <2>1. pc[v] \in Serving => current[v] \in Peer
    BY DEF IInv, Holds, PeersOf
  <2>. QED
    BY <2>1, <1>1, <1>2, <1>a DEF IInv, Typed, Holds, Serving
<1>5. Exclusive'
  BY <1>1, <1>2, <1>a DEF IInv, Exclusive
<1>6. Loaded'
  BY <1>1 DEF IInv, Typed, Loaded, Full
<1>7. \A p \in Peer : Using(p)' = Using(p)
  BY <1>1 DEF IInv, Typed, Using, Serving
<1>. QED
  BY <1>1, <1>3, <1>4, <1>5, <1>6, <1>7, CountsKept DEF IInv

\* The choice returns a peer of the list that has room.
LEMMA PickStep ==
    ASSUME IInv, NEW w \in Worker, GetPick(w)
    PROVE  IInv'
<1> USE DEF peerVars, lockVars, timeVars, reqVars, At, Goto
<1>1. PICK b \in Peer : /\ IsBest(w, b)
                        /\ current' = [current EXCEPT ![w] = b]
                        /\ load' = [load EXCEPT ![w] = conns[b]]
  BY ZenonT(30) DEF GetPick
<1>2. /\ UNCHANGED <<conns, rwlock, plock, group>>
      /\ pc[w] = "g_pick" /\ pc' = [pc EXCEPT ![w] = "g_store"]
  BY DEF GetPick
<1>3. b \in Eligible(w)
  BY <1>1 DEF IsBest, Candidates, Least
<1>4. b \in PeersOf(group[w]) /\ ~Full(b)
  BY <1>3 DEF Eligible, Listed
<1>5. Typed'
  BY <1>1, <1>2 DEF IInv, Typed, Label
<1>6. Holds'
  BY <1>1, <1>2, <1>4 DEF IInv, Typed, Holds, Serving
<1>7. Exclusive'
  BY <1>2 DEF IInv, Exclusive
<1>8. Loaded'
  BY <1>1, <1>2, <1>4 DEF IInv, Typed, Loaded, Full
<1>9. \A p \in Peer : Using(p)' = Using(p)
  BY <1>1, <1>2 DEF IInv, Typed, Using, Serving
<1>. QED
  BY <1>2, <1>5, <1>6, <1>7, <1>8, <1>9, CountsKept DEF IInv

\* A get that finds no peer gives the lock of the list back.
LEMMA GiveUpStep ==
    ASSUME IInv, NEW w \in Worker, GetFailed(w) \/ GetBusy(w)
    PROVE  IInv'
<1> USE DEF peerVars, lockVars, timeVars, reqVars, At, Goto
<1>1. /\ UNCHANGED <<conns, plock>>
      /\ pc[w] \in {"g_pick", "g_unlock"}
  BY DEF GetFailed, GetBusy
<1>2. PICK to \in {"g_lock", "g_relock", "idle"} : pc' = [pc EXCEPT ![w] = to]
  BY DEF GetFailed, GetBusy, Finish
<1>3. PICK g \in Group : rwlock' = [rwlock EXCEPT ![g][w] = "none"]
  BY DEF GetFailed, GetBusy, UnlockList, IInv, Typed, Group
<1>4. /\ \E h \in Group : group' = [group EXCEPT ![w] = h]
      /\ \E c \in Peer \cup {0} : current' = [current EXCEPT ![w] = c]
      /\ \E l \in Int : load' = [load EXCEPT ![w] = l]
  <2>a. /\ group = [group EXCEPT ![w] = group[w]] /\ group[w] \in Group
        /\ current = [current EXCEPT ![w] = current[w]]
        /\ current[w] \in Peer \cup {0}
        /\ load = [load EXCEPT ![w] = load[w]] /\ load[w] \in Int
    BY DEF IInv, Typed
  <2>b. /\ group' = group \/ \E h \in Group : group' = [group EXCEPT ![w] = h]
        /\ current' = current \/ current' = [current EXCEPT ![w] = 0]
        /\ load' = load \/ load' = [load EXCEPT ![w] = 0]
    <3>1. CASE GetBusy(w)
      BY <3>1 DEF GetBusy, Finish, Group
    <3>2. CASE GetFailed(w)
      BY <3>2, ZenonT(30) DEF GetFailed, Finish, Group
    <3>. QED
      BY <3>1, <3>2
  <2>1. \E h \in Group : group' = [group EXCEPT ![w] = h]
    BY <2>a, <2>b
  <2>2. \E c \in Peer \cup {0} : current' = [current EXCEPT ![w] = c]
    BY <2>a, <2>b
  <2>3. \E l \in Int : load' = [load EXCEPT ![w] = l]
    BY <2>a, <2>b
  <2>. QED
    BY <2>1, <2>2, <2>3, ZenonT(30)
<1>5. Typed'
  BY <1>1, <1>2, <1>3, <1>4 DEF IInv, Typed, Label, Lock!Mode
<1>a. \A h \in Group, v \in Worker :
         rwlock'[h][v] = IF h = g /\ v = w THEN "none" ELSE rwlock[h][v]
  BY <1>3 DEF IInv, Typed
<1>b. \A v \in Worker : v # w =>
         pc'[v] = pc[v] /\ group'[v] = group[v] /\ current'[v] = current[v]
         /\ load'[v] = load[v]
  BY <1>2, <1>4 DEF IInv, Typed
<1>c. pc'[w] \in {"g_lock", "g_relock", "idle"}
  BY <1>2 DEF IInv, Typed
<1>6. Holds'
  <2> SUFFICES ASSUME NEW v \in Worker
               PROVE  Holds!(v)'
    BY ZenonT(30) DEF Holds
  <2>1. CASE v # w
    BY <2>1, <1>1, <1>a, <1>b DEF IInv, Typed, Holds
  <2>2. CASE v = w
    BY <2>2, <1>c, ZenonT(30) DEF Serving
  <2>. QED
    BY <2>1, <2>2
<1>7. Exclusive'
  BY <1>1, <1>a DEF IInv, Exclusive
<1>8. Loaded'
  BY <1>1, <1>b, <1>c, ZenonT(30) DEF IInv, Loaded, Full
<1>9. \A p \in Peer : Using(p)' = Using(p)
  BY <1>1, <1>b, <1>c, ZenonT(30) DEF Using, Serving
<1>. QED
  BY <1>1, <1>5, <1>6, <1>7, <1>8, <1>9, CountsKept DEF IInv

\* conns is loaded for the decrement.
LEMMA LoadStep ==
    ASSUME IInv, NEW w \in Worker, FreeLoad(w)
    PROVE  IInv'
<1> USE DEF peerVars, lockVars, timeVars, reqVars, At, Goto
<1>1. /\ UNCHANGED <<conns, rwlock, plock, group, current>>
      /\ pc[w] = "f_load" /\ pc' = [pc EXCEPT ![w] = "f_store"]
      /\ load' = [load EXCEPT ![w] = conns[current[w]]]
  BY ZenonT(30) DEF FreeLoad
<1>2. current[w] \in Peer
  BY <1>1, ZenonT(30) DEF IInv, Holds, Serving, PeersOf
<1>3. Typed'
  BY <1>1, <1>2 DEF IInv, Typed, Label
<1>4. Holds' /\ Exclusive'
  BY <1>1 DEF IInv, Typed, Holds, Exclusive, Serving
<1>5. Loaded'
  BY <1>1 DEF IInv, Typed, Loaded, Full
<1>6. \A p \in Peer : Using(p)' = Using(p)
  BY <1>1 DEF IInv, Typed, Using, Serving
<1>. QED
  BY <1>1, <1>3, <1>4, <1>5, <1>6, CountsKept, ZenonT(30) DEF IInv

\* A worker about to store conns of a peer is alone: nobody else has loaded it.
LEMMA StoreAlone ==
    ASSUME IInv, NEW w \in Worker, NEW v \in Worker, v # w,
           pc[w] \in {"g_store", "f_store"}, pc[v] \in {"g_store", "f_store"}
    PROVE  current[v] # current[w]
<1> SUFFICES ASSUME current[v] = current[w] PROVE FALSE
  OBVIOUS
<1>1. current[w] \in PeersOf(group[w]) /\ current[v] \in PeersOf(group[v])
  BY DEF IInv, Holds, Serving
<1>2. group[w] \in Group /\ group[v] \in Group /\ current[w] \in Peer
  BY <1>1 DEF IInv, Typed, PeersOf
<1>3. group[v] = group[w]
  BY <1>1, <1>2, ListsDisjoint
<1>4. CASE pc[w] = "g_store" \/ pc[v] = "g_store"
  <2>1. /\ pc[w] = "g_store" => rwlock[group[w]][w] = "w"
        /\ pc[v] = "g_store" => rwlock[group[v]][v] = "w"
        /\ pc[w] = "f_store" => rwlock[group[w]][w] = "r"
        /\ pc[v] = "f_store" => rwlock[group[v]][v] = "r"
    BY ZenonT(30) DEF IInv, Holds
  <2>2. /\ rwlock[group[w]][w] = "w" => rwlock[group[w]][v] = "none"
        /\ rwlock[group[w]][v] = "w" => rwlock[group[w]][w] = "none"
    BY <1>2, ZenonT(30) DEF IInv, Exclusive
  <2>. QED
    BY <1>3, <1>4, <2>1, <2>2
<1>5. CASE pc[w] = "f_store" /\ pc[v] = "f_store"
  BY <1>2, <1>5, ZenonT(30) DEF IInv, Holds, Exclusive
<1>. QED
  BY <1>4, <1>5

\* conns++ : the peer had room, and serves one request more.
LEMMA GetStoreStep ==
    ASSUME IInv, NEW w \in Worker, GetStore(w)
    PROVE  IInv'
<1> USE DEF peerVars, lockVars, timeVars, reqVars, At, Goto
<1>0. PICK b \in Peer : b = current[w]
  BY ZenonT(30) DEF GetStore, IInv, Holds, Serving, PeersOf
<1>1. /\ UNCHANGED <<plock, group, current>>
      /\ pc[w] = "g_store" /\ pc' = [pc EXCEPT ![w] = "asking"]
      /\ conns' = [conns EXCEPT ![b] = load[w] + 1]
      /\ load' = [load EXCEPT ![w] = 0]
      /\ rwlock' = [rwlock EXCEPT ![group[w]][w] = "none"]
  BY <1>0 DEF GetStore, UnlockList
<1>2. b \in Peer /\ b \in PeersOf(group[w]) /\ group[w] \in Group
  BY <1>0, <1>1 DEF IInv, Typed, Holds, Serving
<1>3. load[w] = conns[b] /\ ~Full(b) /\ conns[b] \in Int
  BY <1>0, <1>1 DEF IInv, Typed, Loaded
<1>4. Typed'
  BY <1>1, <1>2, <1>3 DEF IInv, Typed, Label, Lock!Mode
<1>a. \A h \in Group, v \in Worker :
         rwlock'[h][v] = IF h = group[w] /\ v = w THEN "none" ELSE rwlock[h][v]
  BY <1>1, <1>2 DEF IInv, Typed
<1>b. \A v \in Worker : v # w => pc'[v] = pc[v] /\ load'[v] = load[v]
  BY <1>1 DEF IInv, Typed
<1>c. pc'[w] = "asking"
  BY <1>1 DEF IInv, Typed
<1>d. \A p \in Peer : p # b => conns'[p] = conns[p]
  BY <1>1, <1>2 DEF IInv, Typed
<1>5. Holds'
  <2> SUFFICES ASSUME NEW v \in Worker
               PROVE  Holds!(v)'
    BY DEF Holds
  <2>1. CASE v # w
    <3>1. group[v] \in Group
      BY DEF IInv, Typed
    <3>2. rwlock'[group[v]][v] = rwlock[group[v]][v]
      BY <1>a, <2>1, <3>1
    <3>3. /\ pc'[v] = pc[v] /\ group'[v] = group[v] /\ current'[v] = current[v]
          /\ plock' = plock
      BY <1>1, <1>b, <2>1
    <3>4. Holds!(v)
      BY ZenonT(30) DEF IInv, Holds
    <3>. QED
      BY <3>2, <3>3, <3>4, ZenonT(30) DEF Serving
  <2>2. CASE v = w
    BY <2>2, <1>0, <1>1, <1>2, <1>c, ZenonT(30) DEF Serving
  <2>. QED
    BY <2>1, <2>2, ZenonT(30)
<1>6. Exclusive'
  BY <1>1, <1>a DEF IInv, Exclusive
<1>7. Loaded'
  <2> SUFFICES ASSUME NEW v \in Worker, pc'[v] \in {"g_store", "f_store"}
               PROVE  /\ load'[v] = conns'[current'[v]]
                      /\ pc'[v] = "g_store" => ~Full(current[v])'
    BY <1>1 DEF Loaded
  <2>1. v # w /\ pc[v] \in {"g_store", "f_store"}
    BY <1>b, <1>c
  <2>2. current[v] # b
    BY <1>0, <1>1, <2>1, StoreAlone
  <2>3. current[v] \in Peer
    BY <2>1, ZenonT(30) DEF IInv, Holds, Serving, PeersOf
  <2>4. conns'[current[v]] = conns[current[v]]
    BY <1>d, <2>2, <2>3
  <2>5. /\ pc'[v] = pc[v] /\ load'[v] = load[v] /\ current'[v] = current[v]
    BY <1>1, <1>b, <2>1
  <2>6. /\ load[v] = conns[current[v]]
        /\ pc[v] = "g_store" => ~Full(current[v])
    BY <2>1 DEF IInv, Loaded
  <2>. QED
    BY <2>4, <2>5, <2>6, ZenonT(30) DEF Full
<1>8. \A p \in Peer : p # b => Using(p)' = Using(p)
  BY <1>0, <1>1, <1>b, <1>c DEF Using, Serving
<1>9. w \notin Using(b) /\ Using(b)' = Using(b) \cup {w}
  BY <1>0, <1>1, <1>b, <1>c DEF Using, Serving
<1>10. Cardinality(Using(b))' = Cardinality(Using(b)) + 1
  BY <1>9, UsingFinite, FS_AddElement
<1>11. conns'[b] = conns[b] + 1
  BY <1>1, <1>2, <1>3 DEF IInv, Typed
<1>12. ConnsCount'
  <2> SUFFICES ASSUME NEW p \in Peer
               PROVE  conns'[p] = Cardinality(Using(p))'
    BY DEF ConnsCount
  <2>1. conns[p] = Cardinality(Using(p))
    BY DEF IInv, ConnsCount
  <2>2. CASE p = b
    BY <2>1, <2>2, <1>10, <1>11
  <2>3. CASE p # b
    BY <2>1, <2>3, <1>8, <1>d
  <2>. QED
    BY <2>2, <2>3
<1>13. MaxConnsRespected'
  <2>1. MaxConns[b] > 0 => conns[b] < MaxConns[b]
    BY <1>2, <1>3, UpstreamAssumption DEF Full
  <2>2. conns[b] = Cardinality(Using(b))
    BY <1>2 DEF IInv, ConnsCount
  <2>3. MaxConns[b] > 0 => Cardinality(Using(b))' <= MaxConns[b]
    BY <1>2, <1>3, <1>10, <2>1, <2>2, UpstreamAssumption
  <2>4. ASSUME NEW p \in Peer, p # b
        PROVE  MaxConns[p] > 0 => Cardinality(Using(p))' <= MaxConns[p]
    <3>1. MaxConns[p] > 0 => Cardinality(Using(p)) <= MaxConns[p]
      BY DEF IInv, MaxConnsRespected
    <3>. QED
      BY <3>1, <2>4, <1>8
  <2>. QED
    BY <2>3, <2>4 DEF MaxConnsRespected
<1>. QED
  BY <1>4, <1>5, <1>6, <1>7, <1>12, <1>13 DEF IInv

\* conns-- : the peer serves one request less.
LEMMA FreeStoreStep ==
    ASSUME IInv, NEW w \in Worker, FreeStore(w)
    PROVE  IInv'
<1> USE DEF peerVars, lockVars, timeVars, reqVars, At, Goto
<1>0. PICK b \in Peer : b = current[w]
  BY ZenonT(30) DEF FreeStore, IInv, Holds, Serving, PeersOf
<1>1. /\ pc[w] = "f_store"
      /\ conns' = [conns EXCEPT ![b] = load[w] - 1]
      /\ plock' = [plock EXCEPT ![b][w] = "none"]
      /\ rwlock' = [rwlock EXCEPT ![group[w]][w] = "none"]
      /\ load' = [load EXCEPT ![w] = 0]
  BY <1>0, ZenonT(30) DEF FreeStore, Retry, UnlockList, Finish
<1>2. /\ \/ pc' = [pc EXCEPT ![w] = "idle"]
         \/ pc' = [pc EXCEPT ![w] = "g_lock"]
      /\ group' = group \/ group' = [group EXCEPT ![w] = "primary"]
      /\ current' = current \/ current' = [current EXCEPT ![w] = 0]
  BY ZenonT(30) DEF FreeStore, Retry, Finish
<1>3. b \in Peer /\ b \in PeersOf(group[w]) /\ group[w] \in Group
  BY <1>0, <1>1 DEF IInv, Typed, Holds, Serving
<1>4. load[w] = conns[b] /\ conns[b] \in Int
  BY <1>0, <1>1 DEF IInv, Typed, Loaded
<1>5. Typed'
  <2>1. conns' \in [Peer -> Int] /\ load' \in [Worker -> Int]
    BY <1>1, <1>4 DEF IInv, Typed
  <2>2. /\ rwlock' \in [Group -> [Worker -> Lock!Mode]]
        /\ plock' \in [Peer -> [Worker -> Lock!Mode]]
    BY <1>1, <1>3 DEF IInv, Typed, Lock!Mode
  <2>3. pc' \in [Worker -> Label]
    BY <1>2 DEF IInv, Typed, Label
  <2>4. group' \in [Worker -> Group]
    BY <1>2 DEF IInv, Typed, Group
  <2>5. current' \in [Worker -> Peer \cup {0}]
    BY <1>2, ZenonT(30) DEF IInv, Typed
  <2>. QED
    BY <2>1, <2>2, <2>3, <2>4, <2>5 DEF Typed
<1>a. /\ \A h \in Group, v \in Worker :
            rwlock'[h][v] = IF h = group[w] /\ v = w THEN "none" ELSE rwlock[h][v]
      /\ \A p \in Peer, v \in Worker :
            plock'[p][v] = IF p = b /\ v = w THEN "none" ELSE plock[p][v]
  BY <1>1, <1>3 DEF IInv, Typed
<1>b. \A v \in Worker : v # w =>
         pc'[v] = pc[v] /\ group'[v] = group[v] /\ current'[v] = current[v]
         /\ load'[v] = load[v]
  BY <1>1, <1>2, ZenonT(30) DEF IInv, Typed
<1>c. pc'[w] \in {"idle", "g_lock"}
  BY <1>2 DEF IInv, Typed
<1>d. \A p \in Peer : p # b => conns'[p] = conns[p]
  BY <1>1, <1>3 DEF IInv, Typed
<1>6. Holds'
  <2> SUFFICES ASSUME NEW v \in Worker
               PROVE  Holds!(v)'
    BY DEF Holds
  <2>1. CASE v # w
    <3>1. pc[v] \in Serving => current[v] \in Peer
      BY ZenonT(30) DEF IInv, Holds, PeersOf
    <3>2. group[v] \in Group
      BY DEF IInv, Typed
    <3>3. rwlock'[group[v]][v] = rwlock[group[v]][v]
      BY <2>1, <3>2, <1>a
    <3>4. pc[v] \in Serving => plock'[current[v]][v] = plock[current[v]][v]
      BY <2>1, <3>1, <1>a
    <3>5. pc'[v] = pc[v] /\ group'[v] = group[v] /\ current'[v] = current[v]
      BY <2>1, <1>b
    <3>6. Holds!(v)
      BY ZenonT(30) DEF IInv, Holds
    <3>. QED
      BY <3>3, <3>4, <3>5, <3>6, ZenonT(30) DEF Serving
  <2>2. CASE v = w
    BY <2>2, <1>c DEF Serving
  <2>. QED
    BY <2>1, <2>2
<1>7. Exclusive'
  BY <1>a DEF IInv, Exclusive
<1>8. Loaded'
  <2> SUFFICES ASSUME NEW v \in Worker, pc'[v] \in {"g_store", "f_store"}
               PROVE  /\ load'[v] = conns'[current'[v]]
                      /\ pc'[v] = "g_store" => ~Full(current[v])'
    BY ZenonT(30) DEF Loaded
  <2>1. v # w /\ pc[v] \in {"g_store", "f_store"}
    BY <1>b, <1>c
  <2>2. current[v] # b
    BY <1>0, <1>1, <2>1, StoreAlone
  <2>3. current[v] \in Peer
    BY <2>1 DEF IInv, Holds, Serving, PeersOf
  <2>4. conns'[current[v]] = conns[current[v]]
    BY <1>d, <2>2, <2>3
  <2>5. /\ pc'[v] = pc[v] /\ load'[v] = load[v] /\ current'[v] = current[v]
    BY <1>b, <2>1
  <2>6. /\ load[v] = conns[current[v]]
        /\ pc[v] = "g_store" => ~Full(current[v])
    BY <2>1 DEF IInv, Loaded
  <2>. QED
    BY <2>4, <2>5, <2>6, ZenonT(30) DEF Full
<1>9. \A p \in Peer : p # b => Using(p)' = Using(p)
  BY <1>0, <1>1, <1>b, <1>c DEF Using, Serving
<1>10. w \in Using(b) /\ Using(b)' = Using(b) \ {w}
  BY <1>0, <1>1, <1>b, <1>c DEF Using, Serving
<1>11. Cardinality(Using(b))' = Cardinality(Using(b)) - 1
  BY <1>10, UsingFinite, FS_RemoveElement, ZenonT(30)
<1>12. conns'[b] = conns[b] - 1
  BY <1>1, <1>3, <1>4 DEF IInv, Typed
<1>13. \A p \in Peer : Cardinality(Using(p))' = IF p = b THEN Cardinality(Using(p)) - 1
                                                ELSE Cardinality(Using(p))
  BY <1>9, <1>11
<1>14. \A p \in Peer : conns[p] = Cardinality(Using(p)) /\ Cardinality(Using(p)) \in Nat
  BY UsingFinite DEF IInv, ConnsCount
<1>15. ConnsCount'
  BY <1>12, <1>13, <1>14, <1>d DEF ConnsCount
<1>16. MaxConnsRespected'
  BY <1>13, <1>14, UpstreamAssumption DEF IInv, MaxConnsRespected
<1>. QED
  BY <1>5, <1>6, <1>7, <1>8, <1>15, <1>16 DEF IInv

\* Every step of the system keeps the invariant.
LEMMA NextIInv == IInv /\ [Next]_vars => IInv'
<1> SUFFICES ASSUME IInv, [Next]_vars PROVE IInv'
  OBVIOUS
<1>1. ASSUME NEW w \in Worker, Step(w) \/ Crash(w)
      PROVE  IInv'
  BY <1>1, OutsideStep, ListLockStep, PeerLockStep, PickStep, GiveUpStep,
     LoadStep, GetStoreStep, FreeStoreStep
  DEF Step, Get, Free, Reply
<1>2. CASE Tick \/ UNCHANGED vars
  <2>1. UNCHANGED <<conns, rwlock, plock, pc, group, current, load>>
    BY <1>2 DEF Tick, vars, peerVars, lockVars, reqVars
  <2>2. Typed' /\ Holds' /\ Exclusive' /\ Loaded'
    BY <2>1 DEF IInv, Typed, Holds, Exclusive, Loaded, Full
  <2>3. \A p \in Peer : Using(p)' = Using(p)
    BY <2>1 DEF Using
  <2>. QED
    BY <2>1, <2>2, <2>3, CountsKept DEF IInv
<1>. QED
  BY <1>1, <1>2 DEF Next

\* The inductive invariant: the locks are exclusive, and a loaded counter is
\* not stale when it is stored.
THEOREM UpstreamInvariant == Spec => []IInv
BY InitIInv, NextIInv, PTL DEF Spec

\* conns of every peer is the number of requests the peer serves: neither the
\* increment in get nor the decrement in free is ever lost.
THEOREM UpstreamConnsCount == Spec => []ConnsCount
<1>1. IInv => ConnsCount
  BY DEF IInv
<1>. QED
  BY <1>1, UpstreamInvariant, PTL

\* No peer ever serves more requests than max_conns allows.
THEOREM UpstreamMaxConns == Spec => []MaxConnsRespected
<1>1. IInv => MaxConnsRespected
  BY DEF IInv
<1>. QED
  BY <1>1, UpstreamInvariant, PTL
-----------------------------------------------------------------------------
(* The peers a request is sent to.  The invariant is about one request:    *)
(* what was asked in the present list is in tried, which is cleared when   *)
(* the list changes, and tries counts what is left.                        *)

Getting == {"g_lock", "g_pick", "g_store", "g_relock", "g_unlock"}

AskTyped ==
    /\ conf \in Conf
    /\ pc \in [Worker -> Label]
    /\ group \in [Worker -> Group]
    /\ tried \in [Worker -> SUBSET Peer]
    /\ tries \in [Worker -> Nat]
    /\ current \in [Worker -> Peer \cup {0}]
    /\ asked \in [Worker -> Seq(Peer)]

\* How many peers the request of w was sent to, and how many tries are left.
Counted(w) ==
    LET n == Len(asked[w])
    IN  /\ pc[w] = "idle" => n = 0
        /\ pc[w] \in Getting => tries[w] > 0 /\ n + tries[w] <= Tries
        /\ pc[w] \in Serving => tries[w] > 0 /\ n + tries[w] <= Tries + 1
        /\ Single /\ pc[w] \in Getting => n = 0

\* Which peers they were: what tried says of the present list, and the order.
Ordered(w) ==
    LET n == Len(asked[w])
    IN  /\ group[w] = "primary" => \A i \in 1 .. n : asked[w][i] <= NP
        /\ ~Single => \A i \in 1 .. n :
              asked[w][i] \in PeersOf(group[w]) => asked[w][i] \in tried[w]
        /\ pc[w] = "g_store" =>
              /\ current[w] \in PeersOf(group[w])
              /\ \A i \in 1 .. n : asked[w][i] # current[w]
              /\ ~Single => current[w] \in tried[w]
        /\ \A i, j \in 1 .. n : i < j =>
              /\ asked[w][i] # asked[w][j]
              /\ asked[w][i] > NP => asked[w][j] > NP

\* The request of w, as its lists and counters say.
Request(w) == Counted(w) /\ Ordered(w)

AskInv == AskTyped /\ \A w \in Worker : Request(w)

\* ngx_http_upstream_tries: there is a peer, and so a try.
LEMMA TriesPositive ==
    ASSUME conf \in Conf
    PROVE  Tries \in Nat \ {0}
<1>1. conf.peers \subseteq Peer /\ conf.peers # {}
  BY UpstreamAssumption
<1>2. IsFiniteSet(Peer)
  BY UpstreamAssumption, FS_Interval DEF Peer
<1>3. Cardinality(conf.peers) \in Nat /\ Cardinality(conf.peers) # 0
  BY <1>1, <1>2, FS_Subset, FS_CardinalityType, FS_EmptySet
<1> QED BY <1>3, UpstreamAssumption DEF Tries

\* What is to be shown of the peers asked after a step.
LEMMA OrderHolds ==
    ASSUME NEW w \in Worker, NEW a, asked'[w] = a,
           group'[w] = "primary" => \A i \in 1 .. Len(a) : a[i] <= NP,
           ~Single' => \A i \in 1 .. Len(a) :
              a[i] \in PeersOf(group'[w]) => a[i] \in tried'[w],
           pc'[w] = "g_store" =>
              /\ current'[w] \in PeersOf(group'[w])
              /\ \A i \in 1 .. Len(a) : a[i] # current'[w]
              /\ ~Single' => current'[w] \in tried'[w],
           \A i, j \in 1 .. Len(a) : i < j =>
              a[i] # a[j] /\ (a[i] > NP => a[j] > NP)
    PROVE  Ordered(w)'
BY ZenonT(30) DEF Ordered

\* A request that stays in its list, and at the peers asked, keeps their order.
LEMMA OrderKept ==
    ASSUME NEW w \in Worker, Ordered(w), Single' <=> Single,
           asked'[w] = asked[w], group'[w] = group[w], tried'[w] = tried[w],
           \/ pc'[w] # "g_store"
           \/ pc'[w] = pc[w] /\ current'[w] = current[w]
    PROVE  Ordered(w)'
<1> DEFINE a == asked'[w]
<1>1. /\ group'[w] = "primary" => \A i \in 1 .. Len(a) : a[i] <= NP
      /\ ~Single' => \A i \in 1 .. Len(a) :
            a[i] \in PeersOf(group'[w]) => a[i] \in tried'[w]
  BY ZenonT(30) DEF Ordered
<1>2. pc'[w] = "g_store" =>
         /\ current'[w] \in PeersOf(group'[w])
         /\ \A i \in 1 .. Len(a) : a[i] # current'[w]
         /\ ~Single' => current'[w] \in tried'[w]
  BY ZenonT(30) DEF Ordered
<1>3. \A i, j \in 1 .. Len(a) : i < j => a[i] # a[j] /\ (a[i] > NP => a[j] > NP)
  BY ZenonT(30) DEF Ordered
<1> QED BY <1>1, <1>2, <1>3, ZenonT(30) DEF Ordered

\* A step of one worker leaves the requests of the others alone.
LEMMA OthersKept ==
    ASSUME AskInv, NEW w \in Worker, AskTyped', conf' = conf, Request(w)',
           \A v \in Worker : v # w =>
              /\ pc'[v] = pc[v] /\ group'[v] = group[v] /\ tried'[v] = tried[v]
              /\ tries'[v] = tries[v] /\ current'[v] = current[v]
              /\ asked'[v] = asked[v]
    PROVE  AskInv'
<1>1. Tries' = Tries /\ (Single' <=> Single)
  BY DEF Tries, Single
<1>2. ASSUME NEW v \in Worker, v # w PROVE Request(v)'
  <2>1. Request(v)
    BY DEF AskInv
  <2>2. Counted(v)'
    BY <1>1, <1>2, <2>1, ZenonT(30) DEF Request, Counted
  <2>3. Ordered(v)'
    BY <1>1, <1>2, <2>1, OrderKept, ZenonT(30) DEF Request
  <2> QED BY <2>2, <2>3 DEF Request
<1> QED BY <1>2, ZenonT(30) DEF AskInv

\* No request is there at the start.
LEMMA AskInit == Init => AskInv
<1> SUFFICES ASSUME Init PROVE AskInv
  OBVIOUS
<1>1. AskTyped
  BY DEF Init, AskTyped, Label, Group
<1>2. ASSUME NEW w \in Worker PROVE Request(w)
  <2>1. asked[w] = <<>> /\ Len(asked[w]) = 0 /\ pc[w] = "idle"
    BY DEF Init
  <2> QED BY <2>1 DEF Request, Counted, Ordered, Getting, Serving
<1> QED BY <1>1, <1>2 DEF AskInv

\* The end of a request, wherever it ends.
LEMMA FinishKeeps ==
    ASSUME AskInv, NEW w \in Worker, Finish(w), conf' = conf
    PROVE  AskInv'
<1>1. AskTyped'
  <2>1. AskTyped
    BY DEF AskInv
  <2>2. /\ pc' = [pc EXCEPT ![w] = "idle"] /\ group' = [group EXCEPT ![w] = "primary"]
        /\ tried' = [tried EXCEPT ![w] = {}] /\ tries' = [tries EXCEPT ![w] = 0]
        /\ current' = [current EXCEPT ![w] = 0] /\ asked' = [asked EXCEPT ![w] = <<>>]
    BY ZenonT(30) DEF Finish, Goto
  <2>3. pc' \in [Worker -> Label] /\ group' \in [Worker -> Group]
    BY <2>1, <2>2 DEF AskTyped, Label, Group
  <2>4. tried' \in [Worker -> SUBSET Peer] /\ tries' \in [Worker -> Nat]
    BY <2>1, <2>2 DEF AskTyped
  <2>5. current' \in [Worker -> Peer \cup {0}]
    BY <2>1, <2>2 DEF AskTyped
  <2>6. asked' \in [Worker -> Seq(Peer)]
    BY <2>1, <2>2 DEF AskTyped
  <2> QED BY <2>1, <2>3, <2>4, <2>5, <2>6, ZenonT(30) DEF AskTyped
<1>2. pc'[w] = "idle" /\ asked'[w] = <<>> /\ Len(asked'[w]) = 0
  <2>1. pc \in [Worker -> Label] /\ asked \in [Worker -> Seq(Peer)]
    BY ZenonT(30) DEF AskInv, AskTyped
  <2>2. pc' = [pc EXCEPT ![w] = "idle"] /\ asked' = [asked EXCEPT ![w] = <<>>]
    BY ZenonT(30) DEF Finish, Goto
  <2> QED BY <2>1, <2>2
<1>3. Request(w)'
  BY <1>2 DEF Request, Counted, Ordered, Getting, Serving
<1>4. \A v \in Worker : v # w =>
         /\ pc'[v] = pc[v] /\ group'[v] = group[v] /\ tried'[v] = tried[v]
         /\ tries'[v] = tries[v] /\ current'[v] = current[v]
         /\ asked'[v] = asked[v]
  BY DEF AskInv, AskTyped, Finish, Goto
<1> QED BY <1>1, <1>3, <1>4, OthersKept, ZenonT(30)

\* A step that only moves the worker on within get, or within free.
LEMMA MoveKeeps ==
    ASSUME AskInv, NEW w \in Worker, NEW to \in Label,
           pc' = [pc EXCEPT ![w] = to],
           UNCHANGED <<conf, group, tried, tries, current, asked>>,
           \/ pc[w] \in Getting /\ to \in Getting \ {"g_store"}
           \/ pc[w] \in Serving /\ to \in Serving
    PROVE  AskInv'
<1>1. AskTyped'
  BY DEF AskInv, AskTyped
<1>2. pc'[w] = to /\ \A v \in Worker : v # w => pc'[v] = pc[v]
  BY DEF AskInv, AskTyped
<1>3. Tries' = Tries /\ (Single' <=> Single)
  BY ZenonT(30) DEF Tries, Single
<1>4. Request(w)'
  <2>1. Request(w)
    BY ZenonT(30) DEF AskInv
  <2>2. Counted(w)'
    BY <1>2, <1>3, <2>1, ZenonT(30) DEF Request, Counted, Getting, Serving
  <2>3. Ordered(w)'
    <3>1. pc'[w] # "g_store"
      BY <1>2 DEF Getting, Serving
    <3> QED BY <1>3, <2>1, <3>1, OrderKept, ZenonT(30) DEF Request
  <2> QED BY <2>2, <2>3, ZenonT(30) DEF Request
<1> QED BY <1>1, <1>2, <1>4, OthersKept, ZenonT(30)

\* A request starts with all its tries.
LEMMA StartKeeps ==
    ASSUME AskInv, NEW w \in Worker, Start(w)
    PROVE  AskInv'
<1>1. /\ pc[w] = "idle" /\ pc' = [pc EXCEPT ![w] = "g_lock"]
      /\ tries' = [tries EXCEPT ![w] = Tries]
      /\ UNCHANGED <<conf, group, tried, current, asked>>
  BY DEF Start, At, Goto
<1>2. Tries \in Nat \ {0}
  BY TriesPositive DEF AskInv, AskTyped
<1>3. AskTyped'
  BY <1>1, <1>2, ZenonT(30) DEF AskInv, AskTyped, Label
<1>4. /\ pc'[w] = "g_lock" /\ tries'[w] = Tries
      /\ \A v \in Worker : v # w => pc'[v] = pc[v] /\ tries'[v] = tries[v]
  BY <1>1 DEF AskInv, AskTyped
<1>5. Tries' = Tries /\ (Single' <=> Single)
  BY <1>1 DEF Tries, Single
<1>6. Request(w)'
  <2>1. Request(w) /\ Len(asked[w]) = 0
    BY <1>1 DEF AskInv, Request, Counted
  <2>2. Counted(w)'
    BY <1>1, <1>2, <1>4, <1>5, <2>1 DEF Counted, Getting, Serving
  <2>3. Ordered(w)'
    BY <1>1, <1>4, <1>5, <2>1, OrderKept, ZenonT(30) DEF Request
  <2> QED BY <2>2, <2>3 DEF Request
<1> QED BY <1>1, <1>3, <1>4, <1>6, OthersKept, ZenonT(30)

\* The peer chosen is of the present list and was not asked before: it was not
\* in tried, and the peers asked earlier in another list are not of this one.
LEMMA PickKeeps ==
    ASSUME AskInv, NEW w \in Worker, GetPick(w)
    PROVE  AskInv'
<1>1. PICK b \in Peer :
         /\ IsBest(w, b)
         /\ tried' = IF Single THEN tried ELSE [tried EXCEPT ![w] = @ \cup {b}]
         /\ current' = [current EXCEPT ![w] = b]
  BY ZenonT(30) DEF GetPick
<1>2. /\ pc[w] = "g_pick" /\ pc' = [pc EXCEPT ![w] = "g_store"]
      /\ UNCHANGED <<conf, group, tries, asked>>
  BY ZenonT(30) DEF GetPick, At, Goto
<1>3. b \in PeersOf(group[w]) /\ (~Single => b \notin tried[w])
  BY <1>1, ZenonT(30) DEF IsBest, Candidates, Least, Eligible, Listed
<1>4. AskTyped'
  BY <1>1, <1>2 DEF AskInv, AskTyped, Label
<1>5. /\ pc'[w] = "g_store" /\ current'[w] = b
      /\ tried[w] \subseteq tried'[w] /\ (~Single => b \in tried'[w])
      /\ \A v \in Worker : v # w =>
            pc'[v] = pc[v] /\ current'[v] = current[v] /\ tried'[v] = tried[v]
  BY <1>1, <1>2 DEF AskInv, AskTyped
<1>6. Tries' = Tries /\ (Single' <=> Single)
  BY <1>2 DEF Tries, Single
<1>7. Request(w)'
  <2>1. Request(w) /\ pc[w] \in Getting
    BY <1>2 DEF AskInv, Getting
  <2>2. Len(asked[w]) \in Nat
    BY DEF AskInv, AskTyped
  <2>3. \A i \in 1 .. Len(asked[w]) : asked[w][i] # b
    <3> SUFFICES ASSUME NEW i \in 1 .. Len(asked[w]), asked[w][i] = b PROVE FALSE
      OBVIOUS
    <3>1. CASE Single
      BY <2>1, <2>2, <3>1 DEF Request, Counted
    <3>2. CASE ~Single
      BY <1>3, <2>1, <3>2, ZenonT(30) DEF Request, Ordered
    <3> QED BY <3>1, <3>2
  <2>4. Counted(w)'
    BY <1>2, <1>5, <1>6, <2>1, ZenonT(30) DEF Request, Counted, Getting, Serving
  <2>5. /\ current'[w] \in PeersOf(group[w])
        /\ \A i \in 1 .. Len(asked[w]) : asked[w][i] # current'[w]
        /\ ~Single => current'[w] \in tried'[w]
    BY <1>3, <1>5, <2>3, ZenonT(30)
  <2>6. Ordered(w)'
    <3> DEFINE a == asked[w]
    <3>1. group[w] = "primary" => \A i \in 1 .. Len(a) : a[i] <= NP
      BY <2>1, ZenonT(30) DEF Request, Ordered
    <3>2. ~Single => \A i \in 1 .. Len(a) :
             a[i] \in PeersOf(group[w]) => a[i] \in tried[w]
      BY <2>1, ZenonT(30) DEF Request, Ordered
    <3>3. \A i, j \in 1 .. Len(a) : i < j =>
             a[i] # a[j] /\ (a[i] > NP => a[j] > NP)
      BY <2>1, ZenonT(30) DEF Request, Ordered
    <3>4. asked'[w] = a /\ group' = group
      BY <1>2
    <3> HIDE DEF a
    <3>5. ~Single' => \A i \in 1 .. Len(a) :
             a[i] \in PeersOf(group'[w]) => a[i] \in tried'[w]
      BY <1>5, <1>6, <3>2, <3>4, ZenonT(30)
    <3>6. /\ current'[w] \in PeersOf(group'[w])
          /\ \A i \in 1 .. Len(a) : a[i] # current'[w]
          /\ ~Single' => current'[w] \in tried'[w]
      BY <1>6, <2>5, <3>4, ZenonT(30) DEF a
    <3> QED BY <3>1, <3>3, <3>4, <3>5, <3>6, OrderHolds, ZenonT(30)
  <2> QED BY <2>4, <2>6 DEF Request
<1> QED BY <1>2, <1>4, <1>5, <1>7, OthersKept, ZenonT(30)

\* The peer is asked: it becomes the last of asked.
LEMMA StoreKeeps ==
    ASSUME AskInv, NEW w \in Worker, GetStore(w)
    PROVE  AskInv'
<1> DEFINE a == asked[w]
           c == current[w]
           n == Len(a)
<1>1. /\ pc[w] = "g_store" /\ pc' = [pc EXCEPT ![w] = "asking"]
      /\ asked' = [asked EXCEPT ![w] = Append(a, c)]
      /\ UNCHANGED <<conf, group, tried, tries, current>>
  BY ZenonT(30) DEF GetStore, At, Goto
<1>2. Request(w) /\ c \in PeersOf(group[w]) /\ c \in Peer /\ group[w] \in Group
  BY <1>1, ZenonT(30) DEF AskInv, AskTyped, Request, Ordered, PeersOf
<1>3. a \in Seq(Peer) /\ n \in Nat
  BY DEF AskInv, AskTyped
<1>4. /\ Append(a, c) \in Seq(Peer) /\ Len(Append(a, c)) = n + 1
      /\ \A i \in 1 .. n : Append(a, c)[i] = a[i]
      /\ Append(a, c)[n + 1] = c
  BY <1>2, <1>3
<1>5. AskTyped'
  BY <1>1, <1>4, ZenonT(30) DEF AskInv, AskTyped, Label
<1>6. /\ pc'[w] = "asking" /\ asked'[w] = Append(a, c)
      /\ \A v \in Worker : v # w => pc'[v] = pc[v] /\ asked'[v] = asked[v]
  BY <1>1 DEF AskInv, AskTyped
<1>7. Tries' = Tries /\ (Single' <=> Single)
  BY <1>1 DEF Tries, Single
<1>8. /\ tries[w] \in Nat /\ Tries \in Nat
      /\ tries[w] > 0 /\ n + 1 + tries[w] <= Tries + 1
  BY <1>1, <1>2, <1>3, TriesPositive DEF AskInv, AskTyped, Request, Counted, Getting
<1>9. /\ group[w] = "primary" =>
            \A i \in 1 .. n + 1 : Append(a, c)[i] <= NP
      /\ ~Single => \A i \in 1 .. n + 1 :
            Append(a, c)[i] \in PeersOf(group[w]) => Append(a, c)[i] \in tried[w]
  <2>1. \A i \in 1 .. n + 1 : i \in 1 .. n \/ i = n + 1
    BY <1>3
  <2> QED BY <1>1, <1>2, <1>3, <1>4, <2>1, ZenonT(30) DEF Request, Ordered, PeersOf
<1>10. ASSUME NEW i \in 1 .. n + 1, NEW j \in 1 .. n + 1, i < j
       PROVE  /\ Append(a, c)[i] # Append(a, c)[j]
              /\ Append(a, c)[i] > NP => Append(a, c)[j] > NP
  <2>1. i \in 1 .. n
    BY <1>3, <1>10
  <2>2. CASE j \in 1 .. n
    BY <1>2, <1>4, <1>10, <2>1, <2>2 DEF Request, Ordered
  <2>3. CASE j = n + 1
    <3>1. a[i] # c
      BY <1>1, <1>2, <2>1, ZenonT(30) DEF Request, Ordered
    <3>2. a[i] > NP => c > NP
      <4>1. a[i] \in Int /\ c \in Int /\ NP \in Int
        <5>1. a[i] \in Peer
          BY <1>3, <2>1
        <5>2. NP \in Int /\ Peer \subseteq Int
          BY UpstreamAssumption DEF Peer
        <5> QED BY <1>2, <5>1, <5>2, ZenonT(30)
      <4>2. group[w] = "primary" => a[i] <= NP
        BY <1>2, <2>1, ZenonT(30) DEF Request, Ordered
      <4>3. group[w] # "primary" => ~(c <= NP)
        BY <1>2 DEF PeersOf
      <4> QED BY <4>1, <4>2, <4>3
    <3> QED BY <1>4, <2>1, <2>3, <3>1, <3>2, ZenonT(30)
  <2> QED BY <1>3, <2>2, <2>3
<1>11. Request(w)'
  <2> DEFINE s == Append(a, c)
  <2>1. asked'[w] = s /\ Len(s) = n + 1
    BY <1>4, <1>6
  <2>2. \A i, j \in 1 .. n + 1 : i < j => s[i] # s[j] /\ (s[i] > NP => s[j] > NP)
    BY <1>10, ZenonT(30)
  <2>3. /\ group[w] = "primary" => \A i \in 1 .. n + 1 : s[i] <= NP
        /\ ~Single => \A i \in 1 .. n + 1 :
              s[i] \in PeersOf(group[w]) => s[i] \in tried[w]
    BY <1>9, ZenonT(30)
  <2>4. group' = group /\ tried' = tried /\ tries' = tries
    BY <1>1
  <2> HIDE DEF s, n
  <2>5. Counted(w)'
    BY <1>6, <1>7, <1>8, <2>1, <2>4, ZenonT(30) DEF Counted, Getting, Serving
  <2>6. Ordered(w)'
    BY <1>6, <1>7, <2>1, <2>2, <2>3, <2>4, OrderHolds, ZenonT(30)
  <2> QED BY <2>5, <2>6 DEF Request
<1> QED BY <1>1, <1>5, <1>6, <1>11, OthersKept, ZenonT(30)

\* The backup list follows: nothing of it was asked yet, so that tried may be
\* cleared.
LEMMA FailedKeeps ==
    ASSUME AskInv, NEW w \in Worker, GetFailed(w)
    PROVE  AskInv'
<1>1. pc[w] = "g_pick" /\ conf' = conf
  BY ZenonT(30) DEF GetFailed, At
<1>2. CASE Finish(w)
  BY <1>1, <1>2, FinishKeeps
<1>3. CASE Goto(w, "g_relock") /\ UNCHANGED reqVars
  BY <1>1, <1>3, MoveKeeps, ZenonT(30) DEF Goto, reqVars, Label, Getting
<1>4. CASE /\ HasNext(group[w])
           /\ group' = [group EXCEPT ![w] = "backup"]
           /\ tried' = [tried EXCEPT ![w] = {}]
           /\ Goto(w, "g_lock")
           /\ UNCHANGED <<tries, current, load, state, asked>>
  <2>1. AskTyped'
    BY <1>1, <1>4, ZenonT(30) DEF AskInv, AskTyped, Goto, Label, Group
  <2>2. /\ pc'[w] = "g_lock" /\ group'[w] = "backup" /\ group[w] = "primary"
        /\ \A v \in Worker : v # w =>
              pc'[v] = pc[v] /\ group'[v] = group[v] /\ tried'[v] = tried[v]
    BY <1>4, ZenonT(30) DEF AskInv, AskTyped, Goto, HasNext
  <2>3. Tries' = Tries /\ (Single' <=> Single)
    BY <1>1 DEF Tries, Single
  <2>4. Request(w) /\ pc[w] \in Getting
    BY <1>1 DEF AskInv, Getting
  <2>5. \A i \in 1 .. Len(asked[w]) : asked[w][i] \notin PeersOf("backup")
    BY <2>2, <2>4, ZenonT(30) DEF Request, Ordered, PeersOf
  <2>6. Request(w)'
    <3>1. Counted(w)'
      BY <1>4, <2>2, <2>3, <2>4, ZenonT(30) DEF Request, Counted, Getting, Serving
    <3>2. \A i, j \in 1 .. Len(asked[w]) : i < j =>
             asked[w][i] # asked[w][j] /\ (asked[w][i] > NP => asked[w][j] > NP)
      BY <2>4, ZenonT(30) DEF Request, Ordered
    <3>3. asked' = asked
      BY <1>4
    <3>4. Ordered(w)'
      BY <2>2, <2>5, <3>2, <3>3, OrderHolds, ZenonT(30)
    <3> QED BY <3>1, <3>4 DEF Request
  <2> QED BY <1>1, <1>4, <2>1, <2>2, <2>6, OthersKept, ZenonT(30)
<1> QED BY <1>2, <1>3, <1>4, ZenonT(30) DEF GetFailed

\* A try is used up; the request goes on only while one is left.
LEMMA FreeKeeps ==
    ASSUME AskInv, NEW w \in Worker, FreeStore(w)
    PROVE  AskInv'
<1>1. pc[w] = "f_store" /\ conf' = conf
  BY ZenonT(30) DEF FreeStore, At
<1>2. CASE Finish(w)
  BY <1>1, <1>2, FinishKeeps
<1>3. CASE /\ ~Single /\ tries[w] - 1 > 0
           /\ tries' = [tries EXCEPT ![w] = tries[w] - 1]
           /\ Goto(w, "g_lock")
           /\ UNCHANGED <<group, tried, current, asked>>
  <2>1. tries[w] \in Nat /\ Tries \in Nat /\ Len(asked[w]) \in Nat
    BY TriesPositive DEF AskInv, AskTyped
  <2>2. AskTyped'
    BY <1>1, <1>3, <2>1 DEF AskInv, AskTyped, Goto, Label
  <2>3. /\ pc'[w] = "g_lock" /\ tries'[w] = tries[w] - 1
        /\ \A v \in Worker : v # w => pc'[v] = pc[v] /\ tries'[v] = tries[v]
    BY <1>3, ZenonT(30) DEF AskInv, AskTyped, Goto
  <2>4. Tries' = Tries /\ (Single' <=> Single)
    BY <1>1 DEF Tries, Single
  <2>5. Request(w) /\ pc[w] \in Serving
    BY <1>1 DEF AskInv, Serving
  <2>6. Request(w)'
    <3>1. Counted(w)'
      <4>1. Len(asked[w]) + tries[w] <= Tries + 1
        BY <2>5, ZenonT(30) DEF Request, Counted
      <4>2. tries'[w] > 0 /\ Len(asked[w]) + tries'[w] <= Tries
        BY <1>3, <2>1, <2>3, <4>1
      <4>3. pc'[w] \notin Serving /\ pc'[w] # "idle"
        BY <2>3, ZenonT(30) DEF Serving
      <4>4. ~Single' /\ asked' = asked
        BY <1>3, <2>4
      <4> QED BY <2>4, <4>2, <4>3, <4>4, ZenonT(30) DEF Counted
    <3>2. Ordered(w)'
      BY <1>3, <2>3, <2>4, <2>5, OrderKept, ZenonT(30) DEF Request
    <3> QED BY <3>1, <3>2 DEF Request
  <2> QED BY <1>1, <1>3, <2>2, <2>3, <2>6, OthersKept, ZenonT(30)
<1>4. tries[w] \in Nat
  BY DEF AskInv, AskTyped
<1> QED BY <1>2, <1>3, <1>4 DEF FreeStore, Retry

\* What every request of NgxUpstreamRR keeps.
THEOREM AskInvariant == Spec => []AskInv
<1>1. AskInv /\ [Next]_vars => AskInv'
  <2> SUFFICES ASSUME AskInv, [Next]_vars PROVE AskInv'
    OBVIOUS
  <2>1. CASE UNCHANGED <<conf, pc, group, tried, tries, current, asked>>
    <3>1. AskTyped'
      BY <2>1 DEF AskInv, AskTyped
    <3>2. Tries' = Tries /\ (Single' <=> Single)
      BY <2>1 DEF Tries, Single
    <3>3. ASSUME NEW w \in Worker PROVE Request(w)'
      <4>1. Request(w)
        BY DEF AskInv
      <4>2. Counted(w)'
        BY <2>1, <3>2, <4>1, ZenonT(30) DEF Request, Counted
      <4>3. Ordered(w)'
        BY <2>1, <3>2, <4>1, OrderKept, ZenonT(30) DEF Request
      <4> QED BY <4>2, <4>3 DEF Request
    <3> QED BY <3>1, <3>3 DEF AskInv
  <2>2. ASSUME NEW w \in Worker, Step(w) PROVE AskInv'
    <3>1. CASE Start(w)
      BY <3>1, StartKeeps
    <3>2. CASE GetLock(w)
      BY <3>2, MoveKeeps, ZenonT(30) DEF GetLock, At, Goto, reqVars, Label, Getting
    <3>3. CASE GetPick(w)
      BY <3>3, PickKeeps
    <3>4. CASE GetStore(w)
      BY <3>4, StoreKeeps
    <3>5. CASE GetFailed(w)
      BY <3>5, FailedKeeps
    <3>6. CASE GetRelock(w)
      BY <3>6, MoveKeeps, ZenonT(30) DEF GetRelock, At, Goto, reqVars, Label, Getting
    <3>7. CASE GetBusy(w)
      BY <3>7, FinishKeeps DEF GetBusy
    <3>8. CASE Reply(w)
      BY <3>8, MoveKeeps, ZenonT(30) DEF Reply, Answer, At, Goto, Label, Serving
    <3>9. CASE FreeRlock(w)
      BY <3>9, MoveKeeps, ZenonT(30) DEF FreeRlock, At, Goto, reqVars, Label, Serving
    <3>10. CASE FreeLock(w)
      BY <3>10, MoveKeeps, ZenonT(30) DEF FreeLock, At, Goto, reqVars, Label, Serving
    <3>11. CASE FreeLoad(w)
      <4>1. /\ pc[w] = "f_load" /\ pc' = [pc EXCEPT ![w] = "f_store"]
            /\ UNCHANGED <<conf, group, tried, tries, current, asked>>
        BY <3>11, ZenonT(30) DEF FreeLoad, At, Goto
      <4> QED BY <4>1, MoveKeeps, ZenonT(30) DEF Label, Serving
    <3>12. CASE FreeStore(w)
      BY <3>12, FreeKeeps
    <3>13. CASE UpdateTime(w)
      BY <2>1, <3>13 DEF UpdateTime, reqVars
    <3> QED BY <2>2, <3>1, <3>2, <3>3, <3>4, <3>5, <3>6, <3>7, <3>8, <3>9, ZenonT(30),
               <3>10, <3>11, <3>12, <3>13 DEF Step, Get, Free
  <2>3. CASE Tick
    BY <2>1, <2>3 DEF Tick, reqVars
  <2>4. ASSUME NEW w \in Worker, Crash(w) PROVE AskInv'
    BY <2>1, <2>4 DEF Crash, reqVars
  <2>5. CASE UNCHANGED vars
    BY <2>1, <2>5, ZenonT(30) DEF vars, reqVars
  <2> QED BY <2>2, <2>3, <2>4, <2>5 DEF Next
<1> QED BY <1>1, AskInit, PTL DEF Spec

\* ngx_http_upstream_next with the get and free of the balancer: a request is
\* never sent to the same peer twice, never returns to a primary peer after a
\* backup peer, and is sent at most next_upstream_tries times.
THEOREM UpstreamAskedOnce == Spec => []AskedOnce
<1>1. AskInv => AskedOnce
  <2> SUFFICES ASSUME AskInv, NEW w \in Worker
               PROVE  /\ Len(asked[w]) <= Tries
                      /\ \A i, j \in 1 .. Len(asked[w]) : i < j =>
                            /\ asked[w][i] # asked[w][j]
                            /\ asked[w][i] > NP => asked[w][j] > NP
    BY ZenonT(30) DEF AskedOnce
  <2>1. Request(w) /\ pc[w] \in Label
    BY DEF AskInv, AskTyped
  <2>2. tries[w] \in Nat /\ Tries \in Nat /\ Len(asked[w]) \in Nat
    BY TriesPositive DEF AskInv, AskTyped
  <2>3. Len(asked[w]) <= Tries
    BY <2>1, <2>2 DEF Request, Counted, Label, Getting, Serving
  <2> QED BY <2>1, <2>3, ZenonT(30) DEF Request, Ordered
<1> QED BY <1>1, AskInvariant, PTL
-----------------------------------------------------------------------------
(* The weights *)

\* The part of TypeOK that is neither Typed nor AskTyped.
WeightsTyped ==
    /\ current_weight \in [Peer -> Int]
    /\ effective_weight \in [Peer -> Nat]
    /\ \A p \in Peer : effective_weight[p] <= Weight[p]
    /\ fails \in [Peer -> Nat]
    /\ accessed \in [Peer -> Nat] /\ checked \in [Peer -> Nat]
    /\ clock \in Nat /\ now \in [Worker -> Nat]
    /\ alive \in SUBSET Worker
    /\ nested \in [Worker -> BOOLEAN]
    /\ state \in [Worker -> {"ok", "next", "failed"}]

WeightsInv == WeightsTyped /\ WeightsBalance

\* The lists are finite.
LEMMA PeersFinite ==
    /\ IsFiniteSet(Peer) /\ Peer \subseteq Nat
    /\ \A g : IsFiniteSet(PeersOf(g)) /\ PeersOf(g) \subseteq Peer
<1>1. IsFiniteSet(Peer) /\ Peer \subseteq Nat
  BY UpstreamAssumption, FS_Interval DEF Peer
<1>2. ASSUME NEW g PROVE IsFiniteSet(PeersOf(g)) /\ PeersOf(g) \subseteq Peer
  <2>1. PeersOf(g) \subseteq Peer
    BY DEF PeersOf
  <2> QED BY <1>1, <2>1, FS_Subset
<1> QED BY <1>1, <1>2

\* The peers whose weights a choice updates are peers of the request's list,
\* and so is the one chosen.
LEMMA WeighedListed ==
    ASSUME NEW w \in Worker
    PROVE  /\ Weighed(w) \subseteq PeersOf(group[w])
           /\ \A b : IsBest(w, b) => b \in PeersOf(group[w])
<1>1. Eligible(w) \subseteq PeersOf(group[w])
  BY ZenonT(30) DEF Eligible, Listed
<1>2. Candidates(w) \subseteq Eligible(w)
  BY DEF Candidates, Least
<1> QED BY <1>1, <1>2, ZenonT(30) DEF Weighed, IsBest

\* No weights differ at the start.
LEMMA WeightsInit == Init => WeightsInv
<1> SUFFICES ASSUME Init PROVE WeightsInv
  OBVIOUS
<1>1. WeightsTyped
  BY UpstreamAssumption DEF Init, WeightsTyped
<1>2. ASSUME NEW g \in Group PROVE SumOver(current_weight, PeersOf(g)) = 0
  <2> DEFINE S == PeersOf(g)
  <2>1. IsFiniteSet(S) /\ \A p \in S : current_weight[p] = 0
    BY PeersFinite, ZenonT(30) DEF Init
  <2> HIDE DEF S
  <2>2. SumOver(current_weight, S) = SumOver(current_weight, {})
    BY <2>1, SumSubset
  <2> QED BY <2>2, SumEmpty DEF S
<1> QED BY <1>1, <1>2 DEF WeightsInv, WeightsBalance

\* What the choice adds to the weights of a list, and takes from the best.
LEMMA PickBalances ==
    ASSUME WeightsInv, NEW w \in Worker, group[w] \in Group, NEW b \in Peer,
           IsBest(w, b),
           current_weight' = [Raised(w) EXCEPT ![b] = @ - Total(w)]
    PROVE  WeightsBalance' /\ current_weight' \in [Peer -> Int]
<1> DEFINE g == group[w]
           S == PeersOf(g)
           W == Weighed(w)
           r == Raised(w)
           t == Total(w)
           e == [p \in Peer |-> IF p \in W THEN effective_weight[p] ELSE 0]
<1>1. /\ current_weight \in [Peer -> Int]
      /\ \A p \in Peer : effective_weight[p] \in Int
  BY DEF WeightsInv, WeightsTyped
<1>2. W \subseteq S /\ b \in S /\ S \subseteq Peer /\ IsFiniteSet(S) /\ IsFiniteSet(W)
  BY WeighedListed, PeersFinite, FS_Subset, ZenonT(30)
<1>3. t = SumOver(effective_weight, W)
  BY DEF Total
<1>4. /\ \A p \in W : e[p] = effective_weight[p] /\ effective_weight[p] \in Int
      /\ \A p \in S \ W : e[p] = 0
      /\ \A p \in Peer : e[p] \in Int /\ r[p] = current_weight[p] + e[p]
  BY <1>1, <1>2 DEF Raised
<1> HIDE DEF e, W, S, t, g
<1>5. t \in Int
  BY <1>2, <1>3, <1>4, SumPick, ZenonT(30)
<1>6. r \in [Peer -> Int]
  BY <1>1 DEF Raised, WeightsInv, WeightsTyped
<1> HIDE DEF r
<1>7. current_weight' = [r EXCEPT ![b] = @ - t]
  BY DEF r, t
<1>8. current_weight' \in [Peer -> Int]
  <2>1. r[b] - t \in Int
    BY <1>5, <1>6
  <2> QED BY <1>6, <1>7, <2>1, ZenonT(30)
<1>9. SumOver(current_weight', S) = 0
  <2>1. \A p \in S : e[p] \in Int
    BY <1>2, <1>4, ZenonT(30)
  <2>2. SumOver(e, S) = SumOver(e, W)
    BY <1>2, <1>4, <2>1, SumSubset, ZenonT(30)
  <2>3. SumOver(e, W) = t
    <3>1. IsFiniteSet(W) /\ \A p \in W : effective_weight[p] \in Int /\ e[p] = effective_weight[p]
      BY <1>2, <1>4, ZenonT(30)
    <3>2. SumOver(e, W) = SumOver(effective_weight, W)
      BY ONLY <3>1, SumEq
    <3> QED BY <1>3, <3>2
  <2>4. \A p \in S : current_weight[p] \in Int /\ e[p] \in Int
                     /\ r[p] = current_weight[p] + e[p]
    BY <1>1, <1>2, <1>4, ZenonT(30)
  <2>5. SumOver(r, S) = SumOver(current_weight, S) + SumOver(e, S)
    BY <1>2, <2>4, SumAdd
  <2>6. SumOver(current_weight, S) = 0
    BY DEF WeightsInv, WeightsBalance, S, g
  <2>7. SumOver(r, S) = t
    BY <1>5, <2>2, <2>3, <2>5, <2>6
  <2>8. /\ \A p \in S : r[p] \in Int
        /\ \A p \in S \ {b} : current_weight'[p] = r[p]
        /\ current_weight'[b] = r[b] + (-t)
    BY <1>2, <1>5, <1>6, <1>7, ZenonT(30)
  <2>9. -t \in Int /\ t + (-t) = 0
    BY <1>5
  <2>10. SumOver(current_weight', S) = SumOver(r, S) + (-t)
    <3> DEFINE d == -t
               c == current_weight'
    <3>1. /\ IsFiniteSet(S) /\ b \in S /\ d \in Int
          /\ \A p \in S : r[p] \in Int
          /\ \A p \in S \ {b} : c[p] = r[p]
          /\ c[b] = r[b] + d
      BY <1>2, <2>8, <2>9, ZenonT(30)
    <3> HIDE DEF d, c
    <3>2. SumOver(c, S) = SumOver(r, S) + d
      BY ONLY <3>1, SumChange
    <3> QED BY <3>2 DEF c, d
  <2> QED BY <2>7, <2>9, <2>10
<1>10. ASSUME NEW h \in Group, h # g PROVE SumOver(current_weight', PeersOf(h)) = 0
  <2> DEFINE T == PeersOf(h)
  <2>1. T \cap S = {} /\ T \subseteq Peer /\ IsFiniteSet(T)
    BY <1>10, PeersFinite, ListsDisjoint, ZenonT(30) DEF S, g
  <2>2. \A p \in T : current_weight[p] \in Int /\ current_weight'[p] = current_weight[p]
    <3> SUFFICES ASSUME NEW p \in T
                 PROVE  current_weight[p] \in Int /\ current_weight'[p] = current_weight[p]
      OBVIOUS
    <3>1. p \in Peer /\ p # b /\ p \notin W
      BY <1>2, <2>1, ZenonT(30)
    <3>2. r[p] = current_weight[p]
      BY <1>1, <3>1 DEF r, Raised, W
    <3> QED BY <1>1, <1>6, <1>7, <3>1, <3>2, ZenonT(30)
  <2>3. SumOver(current_weight, T) = 0
    BY DEF WeightsInv, WeightsBalance
  <2> HIDE DEF T
  <2>4. SumOver(current_weight', T) = SumOver(current_weight, T)
    <3> DEFINE c == current_weight'
    <3>1. IsFiniteSet(T) /\ \A p \in T : current_weight[p] \in Int /\ c[p] = current_weight[p]
      BY <2>1, <2>2
    <3> HIDE DEF c
    <3>2. SumOver(c, T) = SumOver(current_weight, T)
      BY ONLY <3>1, SumEq
    <3> QED BY <3>2 DEF c
  <2> QED BY <2>3, <2>4, ZenonT(30) DEF T
<1>11. WeightsBalance'
  BY <1>9, <1>10, ZenonT(30) DEF WeightsBalance, S
<1> QED BY <1>8, <1>11, ZenonT(30)

\* A choice: the weights stay balanced, none is raised above its peer's.
LEMMA PickWeights ==
    ASSUME WeightsInv, NEW w \in Worker, group[w] \in Group, GetPick(w)
    PROVE  WeightsInv'
<1>1. PICK b \in Peer :
         /\ IsBest(w, b)
         /\ current_weight' = [Raised(w) EXCEPT ![b] = @ - Total(w)]
         /\ effective_weight' = Recovered(w)
         /\ checked' = Checked(w, b)
  BY ZenonT(30) DEF GetPick
<1>2. UNCHANGED <<fails, accessed, clock, now, alive, nested, state>>
  BY ZenonT(30) DEF GetPick, timeVars
<1>3. WeightsBalance' /\ current_weight' \in [Peer -> Int]
  BY <1>1, PickBalances, ZenonT(30)
<1>4. /\ effective_weight' \in [Peer -> Nat]
      /\ \A p \in Peer : effective_weight'[p] <= Weight[p]
  BY <1>1, UpstreamAssumption DEF Recovered, WeightsInv, WeightsTyped
<1>5. checked' \in [Peer -> Nat]
  BY <1>1, ZenonT(30) DEF Checked, WeightsInv, WeightsTyped
<1> QED BY <1>2, <1>3, <1>4, <1>5, ZenonT(30) DEF WeightsInv, WeightsTyped

\* The outcome of a request: a weight lowered by a failure stays a weight.
LEMMA OutcomeWeights ==
    ASSUME WeightsInv, NEW w \in Worker, current[w] \in Peer, FreeLoad(w)
    PROVE  WeightsInv'
<1> DEFINE p == current[w]
<1>1. UNCHANGED <<current_weight, clock, now, alive, nested, state>>
  BY ZenonT(30) DEF FreeLoad, timeVars
<1>2. WeightsBalance'
  BY <1>1 DEF WeightsInv, WeightsBalance
<1>3. /\ fails' \in [Peer -> Nat] /\ accessed' \in [Peer -> Nat]
      /\ checked' \in [Peer -> Nat] /\ effective_weight' \in [Peer -> Nat]
      /\ \A q \in Peer : effective_weight'[q] <= Weight[q]
  <2>1. CASE UNCHANGED <<fails, accessed, checked, effective_weight>>
    BY <2>1, ZenonT(30) DEF WeightsInv, WeightsTyped
  <2>2. CASE Success(p)
    BY <2>2, ZenonT(30) DEF Success, WeightsInv, WeightsTyped
  <2>3. CASE Failure(w, p)
    <3>1. /\ fails' \in [Peer -> Nat] /\ accessed' \in [Peer -> Nat]
          /\ checked' \in [Peer -> Nat]
      <4>1. /\ fails \in [Peer -> Nat] /\ accessed \in [Peer -> Nat]
            /\ checked \in [Peer -> Nat] /\ now[w] \in Nat /\ p \in Peer
        BY ZenonT(30) DEF WeightsInv, WeightsTyped
      <4>2. /\ fails' = [fails EXCEPT ![p] = @ + 1]
            /\ accessed' = [accessed EXCEPT ![p] = now[w]]
            /\ checked' = [checked EXCEPT ![p] = now[w]]
        BY <2>3, ZenonT(30) DEF Failure
      <4> HIDE DEF p
      <4>3. fails' \in [Peer -> Nat]
        BY <4>1, <4>2
      <4>4. accessed' \in [Peer -> Nat] /\ checked' \in [Peer -> Nat]
        BY <4>1, <4>2, ZenonT(30)
      <4> QED BY <4>3, <4>4
    <3>2. CASE MaxFails[p] = 0
      BY <2>3, <3>1, <3>2, ZenonT(30) DEF Failure, WeightsInv, WeightsTyped
    <3>3. CASE MaxFails[p] # 0
      <4> DEFINE d == Weight[p] \div MaxFails[p]
                 x == IF effective_weight[p] - d < 0 THEN 0
                      ELSE effective_weight[p] - d
      <4>1. d \in Nat
        <5>1. Weight[p] \in Nat /\ MaxFails[p] \in Nat
          BY UpstreamAssumption, ZenonT(30)
        <5> QED BY <3>3, <5>1
      <4>2. effective_weight' = [effective_weight EXCEPT ![p] = x]
        BY <2>3, <3>3, ZenonT(30) DEF Failure
      <4>3. /\ effective_weight \in [Peer -> Nat] /\ effective_weight[p] <= Weight[p]
            /\ Weight[p] \in Nat
        BY UpstreamAssumption, ZenonT(30) DEF WeightsInv, WeightsTyped
      <4> HIDE DEF d
      <4>4. x \in Nat /\ x <= Weight[p]
        BY <4>1, <4>3
      <4> HIDE DEF x
      <4> QED BY <3>1, <4>2, <4>3, <4>4, ZenonT(30) DEF WeightsInv, WeightsTyped
    <3> QED BY <3>2, <3>3, ZenonT(30)
  <2> QED BY <2>1, <2>2, <2>3, ZenonT(30) DEF FreeLoad
<1> QED BY <1>1, <1>2, <1>3, ZenonT(30) DEF WeightsInv, WeightsTyped

\* The other steps change none of the fields of the peers but conns.
LEMMA OtherWeights ==
    ASSUME WeightsInv, NEW w \in Worker,
           \/ Start(w) \/ GetLock(w) \/ GetStore(w) \/ GetFailed(w)
           \/ GetRelock(w) \/ GetBusy(w) \/ Reply(w) \/ FreeRlock(w)
           \/ FreeLock(w) \/ FreeStore(w) \/ UpdateTime(w) \/ Crash(w)
    PROVE  WeightsInv'
<1> USE DEF peerVars, lockVars, timeVars, reqVars
<1>1. /\ UNCHANGED <<current_weight, effective_weight, fails, accessed, checked>>
      /\ UNCHANGED clock
  BY ZenonT(30) DEF Start, GetLock, GetStore, GetFailed, GetRelock, GetBusy, Reply, Answer,
         FreeRlock, FreeLock, FreeStore, Retry, UpdateTime, Crash
<1>2. now' \in [Worker -> Nat] /\ alive' \in SUBSET Worker
  BY ZenonT(30) DEF Start, GetLock, GetStore, GetFailed, GetRelock, GetBusy, Reply, Answer,
         FreeRlock, FreeLock, FreeStore, Retry, UpdateTime, Crash, WeightsInv,
         WeightsTyped
<1>3. nested' = nested \/ \E x \in BOOLEAN : nested' = [nested EXCEPT ![w] = x]
  BY ZenonT(30) DEF Start, GetLock, GetStore, GetFailed, GetRelock, GetBusy, Reply, Answer,
         FreeRlock, FreeLock, FreeStore, Retry, UpdateTime, Crash, Finish
<1>4. \/ state' = state
      \/ \E x \in {"ok", "next", "failed"} : state' = [state EXCEPT ![w] = x]
  BY ZenonT(30) DEF Start, GetLock, GetStore, GetFailed, GetRelock, GetBusy, Reply, Answer,
         FreeRlock, FreeLock, FreeStore, Retry, UpdateTime, Crash, Finish
<1>5. nested' \in [Worker -> BOOLEAN]
  BY <1>3, ZenonT(30) DEF WeightsInv, WeightsTyped
<1>6. state' \in [Worker -> {"ok", "next", "failed"}]
  BY <1>4, ZenonT(30) DEF WeightsInv, WeightsTyped
<1>7. WeightsBalance'
  BY <1>1, ZenonT(30) DEF WeightsInv, WeightsBalance
<1> QED BY <1>1, <1>2, <1>5, <1>6, <1>7, ZenonT(30) DEF WeightsInv, WeightsTyped

\* The weights stay balanced and typed.
THEOREM WeightsInvariant == Spec => []WeightsInv
<1>1. IInv /\ WeightsInv /\ [Next]_vars => WeightsInv'
  <2> SUFFICES ASSUME IInv, WeightsInv, [Next]_vars PROVE WeightsInv'
    OBVIOUS
  <2>1. ASSUME NEW w \in Worker, Step(w) \/ Crash(w) PROVE WeightsInv'
    <3>1. group[w] \in Group
      BY DEF IInv, Typed
    <3>2. CASE GetPick(w)
      BY <3>1, <3>2, PickWeights
    <3>3. CASE FreeLoad(w)
      <4>1. current[w] \in Peer
        BY <3>3, ZenonT(30) DEF FreeLoad, At, IInv, Holds, Serving, PeersOf
      <4> QED BY <3>3, <4>1, OutcomeWeights
    <3> QED BY <2>1, <3>2, <3>3, OtherWeights, ZenonT(30) DEF Step, Get, Free
  <2>2. CASE Tick
    <3>1. /\ UNCHANGED <<current_weight, effective_weight, fails, accessed, checked,
                         now, alive, nested, state>>
          /\ clock' = clock + 1
      BY <2>2, ZenonT(30) DEF Tick, peerVars, reqVars
    <3> QED BY <3>1 DEF WeightsInv, WeightsTyped, WeightsBalance
  <2>3. CASE UNCHANGED vars
    BY <2>3, ZenonT(30) DEF vars, peerVars, timeVars, reqVars, WeightsInv, WeightsTyped,
                WeightsBalance
  <2> QED BY <2>1, <2>2, <2>3 DEF Next
<1> QED BY <1>1, WeightsInit, UpstreamInvariant, PTL DEF Spec

\* get_peer: what the chosen peer loses, the total, is what the others gained,
\* whichever peers took part in each choice.
THEOREM UpstreamWeightsBalance == Spec => []WeightsBalance
<1>1. WeightsInv => WeightsBalance
  BY DEF WeightsInv
<1> QED BY <1>1, WeightsInvariant, PTL

\* The fields of the peers and of the requests keep their types: no counter
\* and no effective weight goes below zero or above the configured weight.
THEOREM UpstreamTypeOK == Spec => []TypeOK
<1>1. IInv /\ AskInv /\ WeightsInv => TypeOK
  BY ZenonT(30) DEF IInv, Typed, AskInv, AskTyped, WeightsInv, WeightsTyped, TypeOK
<1> QED BY <1>1, UpstreamInvariant, AskInvariant, WeightsInvariant, PTL

-----------------------------------------------------------------------------
(* The checks of failing peers *)

\* "checked" of a peer that was sent a request while failing is not older than
\* that request but for SKEW; the peers of a list of one never fail.
ProbeInv ==
    /\ alive = Worker
    /\ \A w \in Worker : now[w] <= clock /\ clock <= now[w] + SKEW
    /\ Single => \A p \in Peer : fails[p] = 0
    /\ probed \in [Peer -> Nat \cup {Never}]
    /\ \A p \in Peer : probed[p] # Never =>
          Failing(p) /\ probed[p] <= clock /\ probed[p] <= checked[p] + SKEW

\* Only the worker that takes the step chooses a peer in it, by GetPick.
LEMMA PickerSteps ==
    ASSUME pc \in [Worker -> Label], NEW w \in Worker, Step(w),
           NEW v \in Worker, NEW p, Picks(v, p)
    PROVE  v = w /\ GetPick(w)
<1>1. pc[v] = "g_pick" /\ pc'[v] = "g_store"
  BY DEF Picks
<1>2. v = w
  <2> SUFFICES ASSUME v # w PROVE pc'[v] = pc[v]
    BY <1>1
  <2>1. pc' = pc \/ \E l : pc' = [pc EXCEPT ![w] = l]
    BY ZenonT(30) DEF Step, Start, Get, GetLock, GetPick, GetStore, GetFailed, GetRelock,
          GetBusy, Reply, Answer, Free, FreeRlock, FreeLock, FreeLoad, FreeStore, Retry,
          UpdateTime, Finish, Goto
  <2> QED BY <2>1, ZenonT(30)
<1>3. GetPick(w) \/ GetFailed(w)
  BY <1>1, <1>2, ZenonT(30) DEF Step, Start, Get, GetLock, GetStore, GetRelock, GetBusy,
        Reply, Answer, Free, FreeRlock, FreeLock, FreeLoad, FreeStore, Retry, UpdateTime, At
<1>4. GetFailed(w) => pc'[w] \in {"g_lock", "g_relock", "idle"}
  <2>1. GetFailed(w) => \E l \in {"g_lock", "g_relock", "idle"} : pc' = [pc EXCEPT ![w] = l]
    BY ZenonT(30) DEF GetFailed, Finish, Goto
  <2> QED BY <2>1
<1>5. "g_store" \notin {"g_lock", "g_relock", "idle"}
  OBVIOUS
<1> QED BY <1>1, <1>2, <1>3, <1>4, <1>5, ZenonT(30)

\* A failing peer is chosen only when fail_timeout has passed since "checked",
\* which becomes the time of the choice.
LEMMA FailingPicked ==
    ASSUME TypeOK, ProbeInv, NEW w \in Worker, GetPick(w)
    PROVE  /\ current'[w] \in Peer
           /\ \A q \in Peer : q # current'[w] => checked'[q] = checked[q]
           /\ checked'[current'[w]] \in {checked[current'[w]], now[w]}
           /\ Failing(current'[w]) =>
                 /\ now[w] - checked[current'[w]] > FailTimeout[current'[w]]
                 /\ checked'[current'[w]] = now[w]
<1>1. PICK b \in Peer : /\ IsBest(w, b) /\ checked' = Checked(w, b)
                        /\ current' = [current EXCEPT ![w] = b]
  BY ZenonT(30) DEF GetPick
<1>2. current'[w] = b
  BY <1>1 DEF TypeOK
<1>3. checked \in [Peer -> Nat] /\ fails \in [Peer -> Nat] /\ now[w] \in Nat
  BY ZenonT(30) DEF TypeOK
<1>4. \A q \in Peer : q # b => checked'[q] = checked[q]
  BY <1>1, <1>3 DEF Checked
<1>5. checked'[b] \in {checked[b], now[w]}
  BY <1>1, <1>3 DEF Checked
<1>6. ASSUME Failing(b)
      PROVE  now[w] - checked[b] > FailTimeout[b] /\ checked'[b] = now[w]
  <2>1. ~Single
    <3>1. fails[b] # 0
      BY <1>3, <1>6, UpstreamAssumption DEF Failing
    <3> QED BY <3>1, ZenonT(30) DEF ProbeInv
  <2>2. b \in Eligible(w)
    BY <1>1, ZenonT(30) DEF IsBest, Candidates, Least
  <2>3. ~(now[w] - checked[b] <= FailTimeout[b])
    BY <1>6, <2>1, <2>2, ZenonT(30) DEF Eligible
  <2>4. now[w] - checked[b] > FailTimeout[b]
    <3>1. FailTimeout[b] \in Nat
      BY UpstreamAssumption, ZenonT(30)
    <3> QED BY <1>3, <2>3, <3>1
  <2> QED BY <1>1, <1>3, <2>1, <2>4 DEF Checked
<1> QED BY <1>2, <1>4, <1>5, <1>6, ZenonT(30)

\* What is remembered of a peer: the time of the worker that chose it while it
\* was failing.
LEMMA Remembered ==
    ASSUME pc \in [Worker -> Label], NEW w \in Worker, Step(w), Remember,
           NEW p \in Peer
    PROVE  probed'[p] = IF GetPick(w) /\ p = current'[w] /\ Failing(p) THEN now[w]
                        ELSE IF fails'[p] = 0 THEN Never ELSE probed[p]
<1>1. probed'[p] = IF \E v \in Worker : Picks(v, p) /\ Failing(p)
                   THEN now[CHOOSE v \in Worker : Picks(v, p)]
                   ELSE IF fails'[p] = 0 THEN Never ELSE probed[p]
  BY ZenonT(30) DEF Remember
<1>2. \A v \in Worker : Picks(v, p) => v = w /\ GetPick(w) /\ p = current'[w]
  BY PickerSteps, ZenonT(30) DEF Picks
<1>3. GetPick(w) => pc[w] = "g_pick" /\ pc'[w] = "g_store"
  BY DEF GetPick, At, Goto
<1>4. GetPick(w) /\ p = current'[w] => Picks(w, p)
  BY <1>3, ZenonT(30) DEF Picks
<1>5. CASE GetPick(w) /\ p = current'[w] /\ Failing(p)
  <2>1. Picks(w, p)
    BY <1>4, <1>5
  <2>2. (CHOOSE v \in Worker : Picks(v, p)) = w
    BY <1>2, <2>1, ZenonT(30)
  <2> QED BY <1>1, <1>5, <2>1, <2>2, ZenonT(30)
<1>6. CASE ~(GetPick(w) /\ p = current'[w] /\ Failing(p))
  BY <1>1, <1>2, <1>6, ZenonT(30)
<1> QED BY <1>5, <1>6, ZenonT(30)

\* Before the first request no peer fails and none was checked.
LEMMA ProbeInit == PInit => ProbeInv
<1> SUFFICES ASSUME PInit PROVE ProbeInv
  OBVIOUS
<1>1. /\ alive = Worker /\ clock = 0 /\ now = [w \in Worker |-> 0]
      /\ fails = [p \in Peer |-> 0] /\ probed = [p \in Peer |-> Never]
  BY ZenonT(30) DEF PInit, Init
<1>2. SKEW \in Nat
  BY UpstreamAssumption
<1> QED BY <1>1, <1>2 DEF ProbeInv, Never

\* The failures and the time are numbers, before and after a step.
LEMMA NumbersTyped ==
    /\ TypeOK => fails \in [Peer -> Nat] /\ clock \in Nat
    /\ TypeOK' => fails' \in [Peer -> Nat] /\ clock' \in Nat
<1>1. TypeOK => fails \in [Peer -> Nat] /\ clock \in Nat
  BY ZenonT(30) DEF TypeOK
<1>2. TypeOK' => fails' \in [Peer -> Nat] /\ clock' \in Nat
  BY ZenonT(30) DEF TypeOK
<1> QED BY <1>1, <1>2, ZenonT(30)

\* A peer whose history goes on: its failures are not forgotten, its "checked"
\* does not fall behind.
LEMMA ProbeKept ==
    ASSUME TypeOK, TypeOK', ProbeInv,
           alive' = alive, Single' <=> Single,
           \A w \in Worker : now'[w] <= clock' /\ clock' <= now'[w] + SKEW,
           clock <= clock',
           Single => fails' = fails,
           probed' \in [Peer -> Nat \cup {Never}],
           \A p \in Peer : probed'[p] # Never =>
              \/ /\ probed'[p] = probed[p] /\ fails[p] <= fails'[p]
                 /\ probed[p] <= checked'[p] + SKEW
              \/ Failing(p) /\ fails'[p] = fails[p]
                 /\ probed'[p] <= clock' /\ probed'[p] <= checked'[p] + SKEW
    PROVE  ProbeInv'
<1>1. Single' => \A p \in Peer : fails'[p] = 0
  BY ZenonT(30) DEF ProbeInv
<1>2. ASSUME NEW p \in Peer, probed'[p] # Never
      PROVE  Failing(p)' /\ probed'[p] <= clock' /\ probed'[p] <= checked'[p] + SKEW
  <2>a. /\ fails \in [Peer -> Nat] /\ clock \in Nat
        /\ fails' \in [Peer -> Nat] /\ clock' \in Nat
    BY NumbersTyped, ZenonT(30)
  <2>b. fails[p] \in Nat /\ fails'[p] \in Nat
    BY <2>a, ZenonT(30)
  <2>c. MaxFails[p] \in Nat
    BY UpstreamAssumption, ZenonT(30)
  <2>d. probed \in [Peer -> Nat \cup {Never}]
    BY ZenonT(30) DEF ProbeInv
  <2>e. probed[p] # Never => probed[p] \in Nat
    BY <2>d, ZenonT(30)
  <2>1. /\ fails[p] \in Nat /\ fails'[p] \in Nat /\ MaxFails[p] \in Nat
        /\ clock \in Nat /\ clock' \in Nat
        /\ probed[p] # Never => probed[p] \in Nat
    BY <2>a, <2>b, <2>c, <2>e, ZenonT(30)
  <2>2. CASE /\ probed'[p] = probed[p] /\ fails[p] <= fails'[p]
             /\ probed[p] <= checked'[p] + SKEW
    <3>1. Failing(p) /\ probed[p] <= clock
      BY <1>2, <2>2, ZenonT(30) DEF ProbeInv
    <3> QED BY <1>2, <2>1, <2>2, <3>1 DEF Failing
  <2>3. CASE /\ Failing(p) /\ fails'[p] = fails[p]
             /\ probed'[p] <= clock' /\ probed'[p] <= checked'[p] + SKEW
    BY <2>3, ZenonT(30) DEF Failing
  <2> QED BY <1>2, <2>2, <2>3, ZenonT(30)
<1> QED BY <1>1, <1>2, ZenonT(30) DEF ProbeInv

\* A step sets "checked" to the time of its worker or leaves it; failures are
\* added one by one and forgotten all at once.
LEMMA OutcomeOfStep ==
    ASSUME TypeOK, ProbeInv, NEW w \in Worker, Step(w), NEW p \in Peer
    PROVE  /\ fails'[p] \in {fails[p], 0, fails[p] + 1}
           /\ checked'[p] \in {checked[p], now[w]}
<1>1. fails \in [Peer -> Nat] /\ checked \in [Peer -> Nat]
  BY ZenonT(30) DEF TypeOK
<1>2. CASE GetPick(w)
  <2>1. fails' = fails
    BY <1>2, ZenonT(30) DEF GetPick
  <2>2. checked'[p] \in {checked[p], now[w]}
    BY <1>2, FailingPicked, ZenonT(30)
  <2> QED BY <2>1, <2>2, ZenonT(30)
<1>3. CASE FreeLoad(w)
  <2>1. \/ fails' = fails /\ checked' = checked
        \/ Failure(w, current[w])
        \/ Success(current[w])
    BY <1>3, ZenonT(30) DEF FreeLoad
  <2>2. CASE Failure(w, current[w])
    <3>1. /\ fails' = [fails EXCEPT ![current[w]] = @ + 1]
          /\ checked' = [checked EXCEPT ![current[w]] = now[w]]
      BY <2>2, ZenonT(30) DEF Failure
    <3> QED BY <1>1, <3>1, ZenonT(30)
  <2>3. CASE Success(current[w])
    <3>1. /\ fails' = fails \/ fails' = [fails EXCEPT ![current[w]] = 0]
          /\ checked' = checked
      BY <2>3, ZenonT(30) DEF Success
    <3> QED BY <1>1, <3>1, ZenonT(30)
  <2> QED BY <2>1, <2>2, <2>3, ZenonT(30)
<1>4. CASE ~GetPick(w) /\ ~FreeLoad(w)
  <2>1. fails' = fails /\ checked' = checked
    BY <1>4, ZenonT(30) DEF Step, Start, Get, GetLock, GetStore, GetFailed, GetRelock,
          GetBusy, Reply, Answer, Free, FreeRlock, FreeLock, FreeStore, Retry, UpdateTime,
          peerVars
  <2> QED BY <2>1, ZenonT(30)
<1> QED BY <1>2, <1>3, <1>4, ZenonT(30)

\* A step of a worker: the choice of a failing peer, and the record of an outcome.
LEMMA ProbeStep ==
    ASSUME TypeOK, TypeOK', ProbeInv, NEW w \in Worker, Step(w), Remember
    PROVE  ProbeInv'
<1>1. conf' = conf /\ alive' = alive /\ clock' = clock
  BY ZenonT(30) DEF Step, Start, Get, GetLock, GetPick, GetStore, GetFailed, GetRelock,
        GetBusy, Reply, Answer, Free, FreeRlock, FreeLock, FreeLoad, FreeStore, Retry,
        UpdateTime, timeVars
<1>2. now' = now \/ now' = [now EXCEPT ![w] = clock]
  BY ZenonT(30) DEF Step, Start, Get, GetLock, GetPick, GetStore, GetFailed, GetRelock,
        GetBusy, Reply, Answer, Free, FreeRlock, FreeLock, FreeLoad, FreeStore, Retry,
        UpdateTime, timeVars
<1>3. Single' <=> Single
  BY <1>1, ZenonT(30) DEF Single
<1>4. Single => fails' = fails
  BY ZenonT(30) DEF Step, Start, Get, GetLock, GetPick, GetStore, GetFailed, GetRelock,
        GetBusy, Reply, Answer, Free, FreeRlock, FreeLock, FreeLoad, FreeStore, Retry,
        UpdateTime, peerVars
<1>5. /\ pc \in [Worker -> Label] /\ clock \in Nat /\ now \in [Worker -> Nat]
      /\ SKEW \in Nat /\ fails \in [Peer -> Nat] /\ checked \in [Peer -> Nat]
      /\ fails' \in [Peer -> Nat]
  BY UpstreamAssumption, ZenonT(30) DEF TypeOK
<1>6. \A v \in Worker : now[v] <= clock /\ clock <= now[v] + SKEW
  BY ZenonT(30) DEF ProbeInv
<1>7. \A v \in Worker : now'[v] <= clock' /\ clock' <= now'[v] + SKEW
  BY <1>1, <1>2, <1>5, <1>6
<1>8. clock <= clock'
  BY <1>1, <1>5
<1>9. probed \in [Peer -> Nat \cup {Never}]
  BY ZenonT(30) DEF ProbeInv
<1>10. ASSUME NEW p \in Peer
       PROVE  probed'[p] \in Nat \cup {Never}
  BY <1>5, <1>9, Remembered, ZenonT(30)
<1>11. probed' \in [Peer -> Nat \cup {Never}]
  BY <1>10, ZenonT(30) DEF Remember
<1>12. ASSUME NEW p \in Peer, probed'[p] # Never
       PROVE  \/ /\ probed'[p] = probed[p] /\ fails[p] <= fails'[p]
                 /\ probed[p] <= checked'[p] + SKEW
              \/ Failing(p) /\ fails'[p] = fails[p]
                 /\ probed'[p] <= clock' /\ probed'[p] <= checked'[p] + SKEW
  <2>1. CASE GetPick(w) /\ p = current'[w] /\ Failing(p)
    <3>1. probed'[p] = now[w]
      BY <1>5, <2>1, Remembered, ZenonT(30)
    <3>2. checked'[p] = now[w]
      BY <2>1, FailingPicked, ZenonT(30)
    <3>3. fails' = fails
      BY <2>1, ZenonT(30) DEF GetPick
    <3>4. now[w] \in Nat
      BY <1>5
    <3>5. now[w] <= clock' /\ now[w] <= now[w] + SKEW
      BY <1>1, <1>5, <1>6, <3>4
    <3> QED BY <2>1, <3>1, <3>2, <3>3, <3>5, ZenonT(30)
  <2>2. CASE ~(GetPick(w) /\ p = current'[w] /\ Failing(p))
    <3>1. probed'[p] = probed[p] /\ fails'[p] # 0
      BY <1>5, <1>12, <2>2, Remembered, ZenonT(30)
    <3>2. fails'[p] \in {fails[p], 0, fails[p] + 1} /\ checked'[p] \in {checked[p], now[w]}
      BY OutcomeOfStep, ZenonT(30)
    <3>3. fails[p] <= fails'[p]
      BY <1>5, <3>1, <3>2
    <3>4. probed[p] <= clock /\ probed[p] <= checked[p] + SKEW /\ probed[p] \in Nat
      BY <1>9, <1>12, <3>1, ZenonT(30) DEF ProbeInv
    <3>5. probed[p] <= now[w] + SKEW
      BY <1>5, <1>6, <3>4
    <3>6. probed[p] <= checked'[p] + SKEW
      BY <3>2, <3>4, <3>5, ZenonT(30)
    <3> QED BY <3>1, <3>3, <3>6, ZenonT(30)
  <2> QED BY <2>1, <2>2, ZenonT(30)
<1> QED BY <1>1, <1>3, <1>4, <1>7, <1>8, <1>11, <1>12, ProbeKept, ZenonT(30)

\* The clock ticks within SKEW of every worker's cached time.
LEMMA ProbeTick ==
    ASSUME TypeOK, TypeOK', ProbeInv, Tick, Remember
    PROVE  ProbeInv'
<1>1. /\ conf' = conf /\ alive' = alive /\ clock' = clock + 1 /\ now' = now
      /\ fails' = fails /\ checked' = checked /\ pc' = pc
  BY ZenonT(30) DEF Tick, peerVars
<1>2. /\ clock \in Nat /\ now \in [Worker -> Nat] /\ SKEW \in Nat
      /\ fails \in [Peer -> Nat]
  BY UpstreamAssumption, ZenonT(30) DEF TypeOK
<1>3. \A v \in Worker : now[v] <= clock /\ now[v] + SKEW > clock
  BY ZenonT(30) DEF ProbeInv, Tick
<1>4. \A v \in Worker : now'[v] <= clock' /\ clock' <= now'[v] + SKEW
  BY <1>1, <1>2, <1>3
<1>5. clock <= clock'
  BY <1>1, <1>2
<1>6. Single' <=> Single
  BY <1>1, ZenonT(30) DEF Single
<1>7. \A v \in Worker, p \in Peer : ~Picks(v, p)
  BY <1>1 DEF Picks
<1>8. ASSUME NEW p \in Peer
      PROVE  probed'[p] = IF fails'[p] = 0 THEN Never ELSE probed[p]
  BY <1>7, ZenonT(30) DEF Remember
<1>9. probed' \in [Peer -> Nat \cup {Never}]
  <2>1. \A p \in Peer : probed'[p] \in Nat \cup {Never}
    BY <1>8, ZenonT(30) DEF ProbeInv
  <2> QED BY <2>1, ZenonT(30) DEF Remember
<1>10. ASSUME NEW p \in Peer, probed'[p] # Never
       PROVE  /\ probed'[p] = probed[p] /\ fails[p] <= fails'[p]
              /\ probed[p] <= checked'[p] + SKEW
  <2>1. probed'[p] = probed[p]
    BY <1>8, <1>10, ZenonT(30)
  <2>2. probed[p] <= checked'[p] + SKEW
    BY <1>1, <1>10, <2>1, ZenonT(30) DEF ProbeInv
  <2>3. fails[p] <= fails'[p]
    BY <1>1, <1>2
  <2> QED BY <2>1, <2>2, <2>3, ZenonT(30)
<1> QED BY <1>1, <1>4, <1>5, <1>6, <1>9, <1>10, ProbeKept, ZenonT(30)

\* The invariant of the checks, for any number of workers and peers.
THEOREM ProbeInvariant == PSpec => []ProbeInv
<1>1. PInit => ProbeInv
  BY ProbeInit
<1>2. PSpec => Spec
  <2>1. PInit => Init
    BY DEF PInit
  <2>2. [PNext]_pvars => [Next]_vars
    BY ZenonT(30) DEF PNext, Next, pvars
  <2> QED BY <2>1, <2>2, PTL DEF PSpec, Spec
<1>3. TypeOK /\ TypeOK' /\ ProbeInv /\ [PNext]_pvars => ProbeInv'
  <2> SUFFICES ASSUME TypeOK, TypeOK', ProbeInv, [PNext]_pvars PROVE ProbeInv'
    OBVIOUS
  <2>1. CASE UNCHANGED pvars
    <3>1. /\ conf' = conf /\ alive' = alive /\ clock' = clock /\ now' = now
          /\ fails' = fails /\ checked' = checked /\ probed' = probed
      BY <2>1, ZenonT(30) DEF pvars, vars, peerVars, timeVars
    <3> QED BY <3>1, ZenonT(30) DEF ProbeInv, Single, Failing
  <2>2. CASE PNext
    <3>1. CASE Tick
      BY <2>2, <3>1, ProbeTick DEF PNext
    <3>2. CASE \E w \in Worker : Step(w)
      BY <2>2, <3>2, ProbeStep, ZenonT(30) DEF PNext
    <3> QED BY <2>2, <3>1, <3>2 DEF PNext
  <2> QED BY <2>1, <2>2, ZenonT(30)
<1> QED BY <1>1, <1>2, <1>3, UpstreamTypeOK, PTL DEF PSpec

\* A failing peer is chosen once per fail_timeout but for SKEW, whatever the
\* number of workers ("now - peer->checked <= peer->fail_timeout", get_peer).
THEOREM UpstreamProbeSpacing == PSpec => ProbeSpacing
<1> DEFINE Spaced ==
        \A w \in Worker, p \in Peer :
            Picks(w, p) /\ Failing(p) /\ probed[p] # Never
                => now[w] - probed[p] > FailTimeout[p] - SKEW
<1>1. PSpec => Spec
  <2>1. PInit => Init
    BY DEF PInit
  <2>2. [PNext]_pvars => [Next]_vars
    BY ZenonT(30) DEF PNext, Next, pvars
  <2> QED BY <2>1, <2>2, PTL DEF PSpec, Spec
<1>2. TypeOK /\ ProbeInv /\ [PNext]_pvars => [Spaced]_pvars
  <2> SUFFICES ASSUME TypeOK, ProbeInv, PNext,
                      NEW v \in Worker, NEW p \in Peer,
                      Picks(v, p), Failing(p), probed[p] # Never
               PROVE  now[v] - probed[p] > FailTimeout[p] - SKEW
    BY ZenonT(30)
  <2>1. /\ pc \in [Worker -> Label] /\ now[v] \in Nat /\ checked[p] \in Nat
        /\ SKEW \in Nat /\ FailTimeout[p] \in Nat
    BY UpstreamAssumption, ZenonT(30) DEF TypeOK
  <2>2. ~Tick
    BY DEF Tick, Picks
  <2>3. PICK w \in Worker : Step(w)
    BY <2>2, ZenonT(30) DEF PNext
  <2>4. v = w /\ GetPick(w)
    BY <2>1, <2>3, PickerSteps, ZenonT(30)
  <2>5. p = current'[v]
    BY DEF Picks
  <2>6. now[v] - checked[p] > FailTimeout[p]
    BY <2>4, <2>5, FailingPicked, ZenonT(30)
  <2>7. probed[p] \in Nat /\ probed[p] <= checked[p] + SKEW
    BY ZenonT(30) DEF ProbeInv
  <2> QED BY <2>1, <2>6, <2>7
<1> QED BY <1>1, <1>2, ProbeInvariant, UpstreamTypeOK, PTL DEF PSpec, ProbeSpacing

=============================================================================
