------------------------- MODULE MCNgxUpstreamProbe -------------------------
(* NgxUpstreamProbe with two workers. *)
EXTENDS NgxUpstreamProbe, TLC

WorkerSymmetry == Permutations(Worker)

MCConf == {[peers |-> Peer, least_conn |-> FALSE]}

MCMaxTime == [c \in MCConf |-> 4]

Upto(params) == SubSeq(params, 1, NP + NB)

MCWeight == Upto(<<1, 1, 1>>)
MCMaxFails == Upto(<<1, 0, 1>>)
MCFailTimeout == Upto(<<1, 1, 1>>)
MCUnlimited == Upto(<<0, 0, 0>>)
=============================================================================
