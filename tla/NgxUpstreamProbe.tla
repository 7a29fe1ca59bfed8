-------------------------- MODULE NgxUpstreamProbe --------------------------
(***************************************************************************)
(* How a peer that reached max_fails is checked again: NgxUpstreamRR with  *)
(* a history of the requests sent to such peers.  The two history          *)
(* variables are written in every step and read by the properties only.    *)
(***************************************************************************)
EXTENDS NgxUpstreamRR

VARIABLES
    probed,     \* probed[p]: when p was last chosen while failing, or Never
    prober      \* prober[w]: w's request was sent to a peer that was failing

Never == -1

pvars == <<vars, probed, prober>>

\* w chooses p in this step.
Picks(w, p) ==
    /\ pc[w] = "g_pick" /\ pc'[w] = "g_store"
    /\ p = current'[w]

\* The history is not kept past the end of the failure or of the request.
Remember ==
    /\ probed' =
          [p \in Peer |->
              IF \E w \in Worker : Picks(w, p) /\ Failing(p)
              THEN now[CHOOSE w \in Worker : Picks(w, p)]
              ELSE IF fails'[p] = 0 THEN Never ELSE probed[p]]
    /\ prober' =
          [w \in Worker |->
              \/ \E p \in Peer : Picks(w, p) /\ Failing(p)
              \/ prober[w] /\ pc'[w] \notin {"idle", "g_lock"}]

PInit ==
    /\ Init
    /\ probed = [p \in Peer |-> Never]
    /\ prober = [w \in Worker |-> FALSE]

\* Nobody is killed: a dead worker checks no peer.
PNext ==
    /\ Tick \/ \E w \in Worker : Step(w)
    /\ Remember

PSpec == PInit /\ [][PNext]_pvars

\* A failing peer is checked by one request per fail_timeout, whatever the
\* number of workers that choose at the same time.  The workers' cached
\* times cost up to SKEW: a failure recorded by a worker whose time lags
\* moves "checked" back.
ProbeSpacing ==
    [][\A w \in Worker, p \in Peer :
          Picks(w, p) /\ Failing(p) /\ probed[p] # Never
              => now[w] - probed[p] > FailTimeout[p] - SKEW]_pvars

\* "mark peer live if check passed": the failures of a failing peer are
\* forgotten when a request that was sent to check the peer did not fail.
LiveIfCheckPassed ==
    [][\A w \in Worker :
          (/\ pc[w] = "f_load" /\ pc'[w] = "f_store"
           /\ Failing(current[w]) /\ fails'[current[w]] = 0)
              => prober[w]]_pvars
=============================================================================
