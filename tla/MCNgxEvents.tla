---------------------------- MODULE MCNgxEvents ----------------------------
(* NgxEvents with a few connections and sockets. *)
EXTENDS NgxEvents, TLC

\* The sockets of clients are interchangeable.
SockSymmetry == Permutations(Sock \ {LISTEN})
=============================================================================
