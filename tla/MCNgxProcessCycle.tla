------------------------- MODULE MCNgxProcessCycle -------------------------
(* NgxProcessCycle with a few processes. *)
EXTENDS NgxProcessCycle

\* One worker, the cache manager and the cache loader.
MCCache == {[workers |-> 1, manager |-> TRUE, loader |-> TRUE]}

MCWorkers == {[workers |-> 2, manager |-> FALSE, loader |-> FALSE]}
=============================================================================
