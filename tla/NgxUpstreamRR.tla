--------------------------- MODULE NgxUpstreamRR ----------------------------
(***************************************************************************)
(* The round-robin and least-connections balancers of nginx with a shared  *)
(* memory zone: several workers choose peers, count connections and record *)
(* failures in one set of structures                                       *)
(* (http/ngx_http_upstream_round_robin.c,                                  *)
(* http/modules/ngx_http_upstream_least_conn_module.c), driven by the      *)
(* retry logic of http/ngx_http_upstream.c.                                *)
(*                                                                         *)
(* Each list of peers (primary and backup) has a reader-writer lock and    *)
(* each peer a lock of its own, used through the contract of RWLock.  A    *)
(* worker handles one request here: several requests of one worker never   *)
(* run at the same time and are covered by more workers.  The counter      *)
(* conns is read and written in separate steps, so that two updates at the *)
(* same time would lose one.                                               *)
(***************************************************************************)
EXTENDS Integers, FiniteSets, Sequences, Sums

CONSTANTS
    Worker,         \* the worker processes
    NP, NB,         \* the numbers of primary and of backup peers, at most
    Conf,           \* the upstream blocks considered: which peers they list,
                    \* and whether they say least_conn
    Weight,         \* Weight[p], MaxConns[p] ...: the "server" parameters
    MaxConns,       \* 0: no limit
    MaxFails,       \* 0: failures are not counted against the peer
    FailTimeout,
    Down,           \* the peers marked "down"
    NEXT_TRIES,     \* proxy_next_upstream_tries; 0: no limit
    SKEW,           \* how far a worker's cached time lags behind the clock
    MaxTime,        \* bound on the clock, for each of Conf
    MAX_FAILED      \* bound on the failures counted for a peer

Peer == 1 .. NP + NB            \* in the order of the configuration
Group == {"primary", "backup"}
PeersOf(g) == {p \in Peer : (p <= NP) = (g = "primary")}

ASSUME UpstreamAssumption ==
    /\ IsFiniteSet(Worker)
    /\ NP \in Nat \ {0} /\ NB \in Nat
    /\ Weight \in [Peer -> Nat \ {0}]
    /\ MaxConns \in [Peer -> Nat]
    /\ MaxFails \in [Peer -> Nat]
    /\ FailTimeout \in [Peer -> Nat]
    /\ Down \in SUBSET Peer
    /\ Conf \subseteq [peers : SUBSET Peer, least_conn : BOOLEAN]
    /\ \A c \in Conf : c.peers \cap PeersOf("primary") # {}
    /\ NEXT_TRIES \in Nat /\ SKEW \in Nat
    /\ MaxTime \in [Conf -> Nat] /\ MAX_FAILED \in Nat

VARIABLES
    conf,           \* the upstream block
    current_weight, effective_weight, conns, fails, accessed, checked,
                    \* the fields of the peers, in shared memory
    rwlock,         \* rwlock[g]: who holds the lock of the list, and how
    plock,          \* plock[p]: who holds the lock of the peer
    clock,          \* the time
    now,            \* now[w]: ngx_time(), the time w cached last
    pc,             \* where w is; a killed worker stays where it died
    alive,          \* the workers that were not killed
    group,          \* rrp->peers of w's request
    tried,          \* rrp->tried
    tries,          \* pc->tries
    nested,         \* get was called again for the backup peers
    current,        \* rrp->current; 0: none
    load,           \* the value of conns w has loaded, 0 outside get and free
    state,          \* the state w passes to free, "ok" outside
    asked           \* the peers w's request was sent to, in order

peerVars == <<current_weight, effective_weight, conns, fails, accessed, checked>>
lockVars == <<rwlock, plock>>
timeVars == <<clock, now>>
reqVars == <<group, tried, tries, nested, current, load, state, asked>>
vars == <<conf, peerVars, lockVars, timeVars, pc, alive, reqVars>>

\* The contract of the locks: WFree and RFree say who may enter.
Lock == INSTANCE RWLock WITH Proc <- Worker, held <- rwlock["primary"]

\* The peers of the list g.
Listed(g) == PeersOf(g) \cap conf.peers

\* peers->single
Single == Cardinality(conf.peers) = 1

\* ngx_http_upstream_tries, capped by next_upstream_tries
Tries ==
    LET number == Cardinality(conf.peers)
    IN  IF NEXT_TRIES > 0 /\ number > NEXT_TRIES THEN NEXT_TRIES ELSE number

Label == {"idle", "g_lock", "g_pick", "g_store", "g_relock", "g_unlock",
          "asking", "f_rlock", "f_lock", "f_load", "f_store"}

TypeOK ==
    /\ conf \in Conf
    /\ current_weight \in [Peer -> Int]
    /\ effective_weight \in [Peer -> Nat]
    /\ \A p \in Peer : effective_weight[p] <= Weight[p]
    /\ conns \in [Peer -> Int]
    /\ fails \in [Peer -> Nat]
    /\ accessed \in [Peer -> Nat] /\ checked \in [Peer -> Nat]
    /\ rwlock \in [Group -> [Worker -> Lock!Mode]]
    /\ plock \in [Peer -> [Worker -> Lock!Mode]]
    /\ clock \in Nat /\ now \in [Worker -> Nat]
    /\ pc \in [Worker -> Label]
    /\ alive \in SUBSET Worker
    /\ group \in [Worker -> Group]
    /\ tried \in [Worker -> SUBSET Peer]
    /\ tries \in [Worker -> Nat]
    /\ nested \in [Worker -> BOOLEAN]
    /\ current \in [Worker -> Peer \cup {0}]
    /\ load \in [Worker -> Int]
    /\ state \in [Worker -> {"ok", "next", "failed"}]
    /\ asked \in [Worker -> Seq(Peer)]

\* ngx_http_upstream_init_round_robin, copied into the zone
Init ==
    /\ conf \in Conf
    /\ current_weight = [p \in Peer |-> 0]
    /\ effective_weight = Weight
    /\ conns = [p \in Peer |-> 0]
    /\ fails = [p \in Peer |-> 0]
    /\ accessed = [p \in Peer |-> 0]
    /\ checked = [p \in Peer |-> 0]
    /\ rwlock = [g \in Group |-> [w \in Worker |-> "none"]]
    /\ plock = [p \in Peer |-> [w \in Worker |-> "none"]]
    /\ clock = 0
    /\ now = [w \in Worker |-> 0]
    /\ pc = [w \in Worker |-> "idle"]
    /\ alive = Worker
    /\ group = [w \in Worker |-> "primary"]
    /\ tried = [w \in Worker |-> {}]
    /\ tries = [w \in Worker |-> 0]
    /\ nested = [w \in Worker |-> FALSE]
    /\ current = [w \in Worker |-> 0]
    /\ load = [w \in Worker |-> 0]
    /\ state = [w \in Worker |-> "ok"]
    /\ asked = [w \in Worker |-> <<>>]

At(w, from) == w \in alive /\ pc[w] = from

Goto(w, to) == pc' = [pc EXCEPT ![w] = to]

\* ngx_rwlock_rlock or ngx_rwlock_wlock on the list g, and unlock
LockList(w, g, mode) ==
    /\ IF mode = "w" THEN Lock!WFree(rwlock[g]) ELSE Lock!RFree(rwlock[g])
    /\ rwlock' = [rwlock EXCEPT ![g][w] = mode]

UnlockList(w, g) == rwlock' = [rwlock EXCEPT ![g][w] = "none"]
-----------------------------------------------------------------------------
(* The request: ngx_http_upstream_init_request, ngx_http_upstream_connect, *)
(* ngx_http_upstream_next, ngx_http_upstream_finalize_request.             *)

\* A request arrives: peer.init, then the first connect.
Start(w) ==
    /\ At(w, "idle")
    /\ Goto(w, "g_lock")
    /\ tries' = [tries EXCEPT ![w] = Tries]
    /\ UNCHANGED <<conf, peerVars, lockVars, timeVars, alive, group, tried,
                   nested, current, load, state, asked>>

\* The request is over, and its memory with it.
Finish(w) ==
    /\ Goto(w, "idle")
    /\ group' = [group EXCEPT ![w] = "primary"]
    /\ tried' = [tried EXCEPT ![w] = {}]
    /\ nested' = [nested EXCEPT ![w] = FALSE]
    /\ tries' = [tries EXCEPT ![w] = 0]
    /\ current' = [current EXCEPT ![w] = 0]
    /\ load' = [load EXCEPT ![w] = 0]
    /\ state' = [state EXCEPT ![w] = "ok"]
    /\ asked' = [asked EXCEPT ![w] = <<>>]

\* The peer answered, or asked to go on elsewhere (403, 404), or failed.
Answer(w, s) ==
    /\ At(w, "asking")
    /\ s = "failed" => fails[current[w]] < MAX_FAILED
    /\ Goto(w, "f_rlock")
    /\ state' = [state EXCEPT ![w] = s]
    /\ UNCHANGED <<conf, peerVars, lockVars, timeVars, alive, group, tried,
                   tries, nested, current, load, asked>>
-----------------------------------------------------------------------------
(* ngx_http_upstream_get_round_robin_peer, _get_peer, _get_least_conn_peer *)

\* Mutant of GetLock: the read lock is taken.
GetLockShared(w) ==
    /\ At(w, "g_lock")
    /\ LockList(w, group[w], "r")
    /\ Goto(w, "g_pick")
    /\ UNCHANGED <<conf, peerVars, plock, timeVars, alive, reqVars>>

GetLock(w) ==
    /\ At(w, "g_lock")
    /\ LockList(w, group[w], "w")
    /\ Goto(w, "g_pick")
    /\ UNCHANGED <<conf, peerVars, plock, timeVars, alive, reqVars>>

Failing(p) == MaxFails[p] > 0 /\ fails[p] >= MaxFails[p]

Full(p) == MaxConns[p] > 0 /\ conns[p] >= MaxConns[p]

\* Mutant of Eligible: the peers tried before are not passed over.
EligibleRetried(w) ==
    {p \in Listed(group[w]) :
        /\ p \notin Down
        /\ ~(Failing(p) /\ now[w] - checked[p] <= FailTimeout[p])
        /\ ~Full(p)}

\* The peers of the list the request may still be sent to.  A list of one
\* peer is tested for "down" and max_conns only.
Eligible(w) ==
    IF Single
    THEN {p \in Listed(group[w]) : p \notin Down /\ ~Full(p)}
    ELSE {p \in Listed(group[w]) :
             /\ p \notin tried[w]
             /\ p \notin Down
             /\ ~(Failing(p) /\ now[w] - checked[p] <= FailTimeout[p])
             /\ ~Full(p)}

\* least_conn: the peers with the fewest connections for their weight
Least(E) ==
    {p \in E : \A q \in E : conns[p] * Weight[q] <= conns[q] * Weight[p]}

\* The peers that round robin chooses from.
Candidates(w) ==
    IF conf.least_conn /\ ~Single THEN Least(Eligible(w)) ELSE Eligible(w)

\* The peers whose weights the choice updates: least_conn leaves them alone
\* where there is nothing to choose.
Weighed(w) ==
    IF Single \/ (conf.least_conn /\ Cardinality(Candidates(w)) = 1)
    THEN {} ELSE Candidates(w)

Raised(w) ==
    [p \in Peer |-> current_weight[p]
                    + IF p \in Weighed(w) THEN effective_weight[p] ELSE 0]

\* A weight lowered by failures comes back by one in each choice.
Recovered(w) ==
    [p \in Peer |->
        IF p \in Weighed(w) /\ effective_weight[p] < Weight[p]
        THEN effective_weight[p] + 1 ELSE effective_weight[p]]

\* Mutant of Total: the weights are added after they were raised.
TotalLate(w) == SumOver(Recovered(w), Weighed(w))

\* total: what the chosen peer gives back
Total(w) == SumOver(effective_weight, Weighed(w))

\* The first peer of the list with the greatest current weight.
IsBest(w, b) ==
    /\ b \in Candidates(w)
    /\ \A p \in Candidates(w) : \/ Raised(w)[b] > Raised(w)[p]
                                \/ Raised(w)[b] = Raised(w)[p] /\ b <= p

\* Mutant of Checked: the time of the choice is not recorded.
CheckedNever(w, b) == checked

\* A peer chosen later than fail_timeout after its last check is being checked.
Checked(w, b) ==
    IF ~Single /\ now[w] - checked[b] > FailTimeout[b]
    THEN [checked EXCEPT ![b] = now[w]] ELSE checked

\* One peer is chosen; conns is loaded for the increment.
GetPick(w) ==
    /\ At(w, "g_pick")
    /\ \E b \in Peer :
          /\ IsBest(w, b)
          /\ current_weight' = [Raised(w) EXCEPT ![b] = @ - Total(w)]
          /\ effective_weight' = Recovered(w)
          /\ checked' = Checked(w, b)
          /\ tried' = IF Single THEN tried ELSE [tried EXCEPT ![w] = @ \cup {b}]
          /\ current' = [current EXCEPT ![w] = b]
          /\ load' = [load EXCEPT ![w] = conns[b]]
    /\ Goto(w, "g_store")
    /\ UNCHANGED <<conf, conns, fails, accessed, lockVars, timeVars, alive,
                   group, tries, nested, state, asked>>

\* peer->conns++, unlock, NGX_OK; the connection is opened.
GetStore(w) ==
    /\ At(w, "g_store")
    /\ conns' = [conns EXCEPT ![current[w]] = load[w] + 1]
    /\ UnlockList(w, group[w])
    /\ Goto(w, "asking")
    /\ load' = [load EXCEPT ![w] = 0]
    /\ nested' = [nested EXCEPT ![w] = FALSE]
    /\ asked' = [asked EXCEPT ![w] = Append(@, current[w])]
    /\ UNCHANGED <<conf, current_weight, effective_weight, fails, accessed,
                   checked, plock, timeVars, alive, group, tried, tries,
                   current, state>>

\* Mutant of HasNext: the backup list follows itself.
HasNextAlways(g) == Listed("backup") # {}

\* peers->next
HasNext(g) == g = "primary" /\ Listed("backup") # {}

\* failed: no peer of the list can be chosen.  The primary list gives way to
\* the backup list; after that NGX_BUSY ends the request, once the caller's
\* frame has taken and released the lock of the primary list again.
GetFailed(w) ==
    /\ At(w, "g_pick")
    /\ Eligible(w) = {}
    /\ UnlockList(w, group[w])
    /\ \/ /\ HasNext(group[w])
          /\ group' = [group EXCEPT ![w] = "backup"]
          /\ tried' = [tried EXCEPT ![w] = {}]
          /\ nested' = [nested EXCEPT ![w] = TRUE]
          /\ Goto(w, "g_lock")
          /\ UNCHANGED <<tries, current, load, state, asked>>
       \/ /\ ~HasNext(group[w])
          /\ nested[w]
          /\ Goto(w, "g_relock")
          /\ UNCHANGED reqVars
       \/ /\ ~HasNext(group[w])
          /\ ~nested[w]
          /\ Finish(w)
    /\ UNCHANGED <<conf, peerVars, plock, timeVars, alive>>

GetRelock(w) ==
    /\ At(w, "g_relock")
    /\ LockList(w, "primary", "w")
    /\ Goto(w, "g_unlock")
    /\ UNCHANGED <<conf, peerVars, plock, timeVars, alive, reqVars>>

GetBusy(w) ==
    /\ At(w, "g_unlock")
    /\ UnlockList(w, "primary")
    /\ Finish(w)
    /\ UNCHANGED <<conf, peerVars, plock, timeVars, alive>>
-----------------------------------------------------------------------------
(* ngx_http_upstream_free_round_robin_peer *)

FreeRlock(w) ==
    /\ At(w, "f_rlock")
    /\ LockList(w, group[w], "r")
    /\ Goto(w, "f_lock")
    /\ UNCHANGED <<conf, peerVars, plock, timeVars, alive, reqVars>>

\* Mutant of FreeLock: the lock of the peer is not waited for.
FreeLockBlind(w) ==
    /\ At(w, "f_lock")
    /\ plock' = [plock EXCEPT ![current[w]][w] = "w"]
    /\ Goto(w, "f_load")
    /\ UNCHANGED <<conf, peerVars, rwlock, timeVars, alive, reqVars>>

FreeLock(w) ==
    /\ At(w, "f_lock")
    /\ Lock!WFree(plock[current[w]])
    /\ plock' = [plock EXCEPT ![current[w]][w] = "w"]
    /\ Goto(w, "f_load")
    /\ UNCHANGED <<conf, peerVars, rwlock, timeVars, alive, reqVars>>

\* Mutant of Failure: the effective weight is not kept above zero.
FailureUnclamped(w, p) ==
    /\ fails' = [fails EXCEPT ![p] = @ + 1]
    /\ accessed' = [accessed EXCEPT ![p] = now[w]]
    /\ checked' = [checked EXCEPT ![p] = now[w]]
    /\ effective_weight' =
          IF MaxFails[p] = 0 THEN effective_weight
          ELSE [effective_weight EXCEPT ![p] = @ - Weight[p] \div MaxFails[p]]

\* fails, accessed, checked and effective_weight of peer p after a failure
Failure(w, p) ==
    /\ fails' = [fails EXCEPT ![p] = @ + 1]
    /\ accessed' = [accessed EXCEPT ![p] = now[w]]
    /\ checked' = [checked EXCEPT ![p] = now[w]]
    /\ effective_weight' =
          IF MaxFails[p] = 0 THEN effective_weight
          ELSE LET e == effective_weight[p] - Weight[p] \div MaxFails[p]
               IN  [effective_weight EXCEPT ![p] = IF e < 0 THEN 0 ELSE e]

\* "mark peer live if check passed"
Success(p) ==
    /\ fails' = IF accessed[p] < checked[p] THEN [fails EXCEPT ![p] = 0] ELSE fails
    /\ UNCHANGED <<accessed, checked, effective_weight>>

\* The record of the outcome; conns is loaded for the decrement.
FreeLoad(w) ==
    /\ At(w, "f_load")
    /\ LET p == current[w] IN
          /\ load' = [load EXCEPT ![w] = conns[p]]
          /\ \/ Single /\ UNCHANGED <<fails, accessed, checked, effective_weight>>
             \/ ~Single /\ state[w] = "failed" /\ Failure(w, p)
             \/ ~Single /\ state[w] # "failed" /\ Success(p)
    /\ Goto(w, "f_store")
    /\ UNCHANGED <<conf, current_weight, conns, lockVars, timeVars, alive,
                   group, tried, tries, nested, current, state, asked>>

\* ngx_http_upstream_next: after a failure or a 403/404 the request is sent
\* again unless the tries are used up or the configuration, the method or the
\* time does not allow it.
Retry(w, left) ==
    /\ state[w] # "ok"
    /\ left > 0
    /\ tries' = [tries EXCEPT ![w] = left]
    /\ load' = [load EXCEPT ![w] = 0]
    /\ state' = [state EXCEPT ![w] = "ok"]
    /\ Goto(w, "g_lock")
    /\ UNCHANGED <<group, tried, nested, current, asked>>

\* peer->conns--, both unlocks, tries; then the request ends or is retried.
FreeStore(w) ==
    /\ At(w, "f_store")
    /\ conns' = [conns EXCEPT ![current[w]] = load[w] - 1]
    /\ plock' = [plock EXCEPT ![current[w]][w] = "none"]
    /\ UnlockList(w, group[w])
    /\ \/ Finish(w)
       \/ Retry(w, IF Single \/ tries[w] = 0 THEN 0 ELSE tries[w] - 1)
    /\ UNCHANGED <<conf, current_weight, effective_weight, fails, accessed,
                   checked, timeVars, alive>>
-----------------------------------------------------------------------------
(* Time and crashes *)

\* The clock does not run further ahead of a worker than SKEW: an event loop
\* that is kept longer is not modelled.
Tick ==
    /\ clock < MaxTime[conf]
    /\ \A w \in alive : now[w] + SKEW > clock
    /\ clock' = clock + 1
    /\ UNCHANGED <<conf, peerVars, lockVars, now, pc, alive, reqVars>>

\* ngx_time_update in the event loop
UpdateTime(w) ==
    /\ At(w, "idle") \/ At(w, "asking")
    /\ now[w] < clock
    /\ now' = [now EXCEPT ![w] = clock]
    /\ UNCHANGED <<conf, peerVars, lockVars, clock, pc, alive, reqVars>>

\* The worker is killed: its locks and its connection counts stay.
Crash(w) ==
    /\ w \in alive
    /\ alive' = alive \ {w}
    /\ UNCHANGED <<conf, peerVars, lockVars, timeVars, pc, reqVars>>

Get(w) == GetLock(w) \/ GetPick(w) \/ GetStore(w) \/ GetFailed(w)
          \/ GetRelock(w) \/ GetBusy(w)

Free(w) == FreeRlock(w) \/ FreeLock(w) \/ FreeLoad(w) \/ FreeStore(w)

Reply(w) == \E s \in {"ok", "next", "failed"} : Answer(w, s)

Step(w) == Start(w) \/ Get(w) \/ Reply(w) \/ Free(w) \/ UpdateTime(w)

Next == Tick \/ \E w \in Worker : Step(w) \/ Crash(w)

Spec == Init /\ [][Next]_vars

Serving == {"asking", "f_rlock", "f_lock", "f_load", "f_store"}

\* The workers counted in conns: killed ones stay counted.
Using(p) ==
    {w \in Worker : current[w] = p /\ pc[w] \in Serving}

\* conns is exactly the number of requests being served by the peer: no
\* increment or decrement of two workers is lost, and each successful get is
\* paired with one free on every path of the retry logic.
ConnsCount == \A p \in Peer : conns[p] = Cardinality(Using(p))

\* No peer serves more requests than its max_conns, although the workers
\* decide concurrently, on a counter they share (get_peer, "conns >=
\* max_conns").  Stated of the requests, not of the counter: a lost increment
\* would hide the excess.
MaxConnsRespected ==
    \A p \in Peer : MaxConns[p] > 0 => Cardinality(Using(p)) <= MaxConns[p]

\* What the chosen peer loses is what the others gained: in each list the
\* current weights sum to zero, whichever peers took part in each choice.
WeightsBalance ==
    \A g \in Group : SumOver(current_weight, PeersOf(g)) = 0

\* A request is never sent to the same peer twice, never returns to a primary
\* peer after a backup peer, and is sent at most next_upstream_tries times.
AskedOnce ==
    \A w \in Worker :
        /\ Len(asked[w]) <= Tries
        /\ \A i, j \in 1 .. Len(asked[w]) : i < j =>
              /\ asked[w][i] # asked[w][j]
              /\ asked[w][i] > NP => asked[w][j] > NP

-----------------------------------------------------------------------------
(* What the proofs of ConnsCount and MaxConnsRespected rest on *)

\* The part of TypeOK that they use.
Typed ==
    /\ conns \in [Peer -> Int]
    /\ rwlock \in [Group -> [Worker -> Lock!Mode]]
    /\ plock \in [Peer -> [Worker -> Lock!Mode]]
    /\ pc \in [Worker -> Label]
    /\ group \in [Worker -> Group]
    /\ current \in [Worker -> Peer \cup {0}]
    /\ load \in [Worker -> Int]

\* Where a worker is, and what it holds there.
Holds ==
    \A w \in Worker :
        /\ pc[w] \in Serving \cup {"g_store"} => current[w] \in PeersOf(group[w])
        /\ pc[w] \in {"g_pick", "g_store"} => rwlock[group[w]][w] = "w"
        /\ pc[w] \in {"f_lock", "f_load", "f_store"} => rwlock[group[w]][w] = "r"
        /\ pc[w] \in {"f_load", "f_store"} => plock[current[w]][w] = "w"

Exclusive ==
    \A v, w \in Worker : v # w =>
        /\ \A g \in Group : rwlock[g][w] = "w" => rwlock[g][v] = "none"
        /\ \A p \in Peer : plock[p][w] = "w" => plock[p][v] = "none"

\* A loaded conns is not stale, and a chosen peer still has room.
Loaded ==
    \A w \in Worker :
        /\ pc[w] \in {"g_store", "f_store"} => load[w] = conns[current[w]]
        /\ pc[w] = "g_store" => ~Full(current[w])

IInv ==
    Typed /\ Holds /\ Exclusive /\ Loaded /\ ConnsCount /\ MaxConnsRespected
-----------------------------------------------------------------------------
\* The workers that are not killed keep running, and peers answer.
FairSpec ==
    Spec /\ \A w \in Worker : WF_vars(Get(w) \/ Reply(w) \/ Free(w))

\* A worker was killed with a lock in its hands.
KilledInside ==
    \E w \in Worker \ alive :
        pc[w] \notin {"idle", "g_lock", "g_relock", "asking", "f_rlock"}

\* While live workers have requests, requests keep finishing: the locks of the
\* lists and of the peers never block the workers for good, and peers whose
\* conns a dead worker still fills are given up, not waited for.  Only a
\* worker killed inside a lock stops the others.
Progress ==
    \/ <>KilledInside
    \/ []<>(\A w \in alive : pc[w] = "idle")
    \/ []<><<\E w \in alive : pc[w] # "idle" /\ pc'[w] = "idle">>_vars
=============================================================================
