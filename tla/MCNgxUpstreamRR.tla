-------------------------- MODULE MCNgxUpstreamRR ---------------------------
(* NgxUpstreamRR with a few workers and peers. *)
EXTENDS NgxUpstreamRR

LeastConn == [peers |-> {1, 2}, least_conn |-> TRUE]
Backup == [peers |-> {1, 3}, least_conn |-> FALSE]
One == [peers |-> {1}, least_conn |-> FALSE]

\* All peers, two peers with least_conn, a peer and its backup, one peer.
MCConf == {[peers |-> Peer, least_conn |-> FALSE], LeastConn, Backup, One}

\* The time passes where there is less to choose from.
MCMaxTime == [c \in MCConf |-> IF c \in {Backup, One} THEN 1 ELSE 0]

\* Parameters for up to three peers.
Upto(params) == SubSeq(params, 1, NP + NB)

MCWeight == Upto(<<2, 1, 1>>)
MCMaxConns == Upto(<<1, 0, 1>>)
MCMaxFails == Upto(<<2, 1, 1>>)
MCFailTimeout == Upto(<<0, 1, 1>>)
=============================================================================
