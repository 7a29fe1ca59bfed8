---------------------------- MODULE NgxSmoothWRR ----------------------------
(***************************************************************************)
(* The choice of ngx_http_upstream_get_peer as an algorithm: the sequence  *)
(* of peers it returns while all of them can be chosen and none fails, for *)
(* any weights.  (NgxUpstreamRR has the same choice among failures, limits *)
(* and concurrent workers, for fixed weights.)                             *)
(***************************************************************************)
EXTENDS Integers, Sums

CONSTANTS
    N,          \* the number of peers
    MAX_WEIGHT  \* bound on a weight

ASSUME WRRAssumption == N \in Nat \ {0} /\ MAX_WEIGHT \in Nat \ {0}

Peer == 1 .. N

VARIABLES
    weight,         \* peer->weight, and peer->effective_weight: no failures
    current_weight, \* peer->current_weight
    round,          \* how often a peer was chosen
    picks           \* picks[p]: how often p was chosen

vars == <<weight, current_weight, round, picks>>

\* Mutant of Total: the last peer is left out.
TotalShort == SumOver(weight, Peer \ {N})

\* total: the sum of the weights of the peers that can be chosen
Total == SumOver(weight, Peer)

Init ==
    /\ weight \in [Peer -> 1 .. MAX_WEIGHT]
    /\ current_weight = [p \in Peer |-> 0]
    /\ round = 0
    /\ picks = [p \in Peer |-> 0]

Raised == [p \in Peer |-> current_weight[p] + weight[p]]

\* Mutant of IsBest: the comparison is the wrong way round.
IsBestLeast(b) ==
    \A p \in Peer : \/ Raised[b] < Raised[p]
                    \/ Raised[b] = Raised[p] /\ b <= p

\* The first peer with the greatest weight, once all are raised.
IsBest(b) ==
    \A p \in Peer : \/ Raised[b] > Raised[p]
                    \/ Raised[b] = Raised[p] /\ b <= p

GetPeer ==
    \E b \in Peer :
        /\ IsBest(b)
        /\ current_weight' = [Raised EXCEPT ![b] = @ - Total]
        /\ picks' = [picks EXCEPT ![b] = @ + 1]
        /\ round' = round + 1
        /\ UNCHANGED weight

\* Two cycles: the second shows that the first left nothing behind.
Next == round < 2 * Total /\ GetPeer

Spec == Init /\ [][Next]_vars

\* The length of a cycle, for the properties: the sum of all weights.
Cycle == SumOver(weight, Peer)

\* After any number of choices no peer was chosen a whole request more often
\* than its share, round * weight / Cycle (get_peer, "current_weight +=
\* effective_weight" and "-= total").  The converse does not hold: a peer can
\* fall a whole request behind, as with weights 1, 1, 1, 6, 6.
NeverAhead ==
    \A p \in Peer : Cycle * picks[p] - round * weight[p] < Cycle

\* In a cycle of that many choices each peer is chosen exactly weight times,
\* and what it was owed does not carry over to the next cycle.
CycleExact ==
    round % Cycle = 0 =>
        \A p \in Peer : /\ picks[p] = (round \div Cycle) * weight[p]
                        /\ current_weight[p] = 0
=============================================================================
