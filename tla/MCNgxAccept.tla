---------------------------- MODULE MCNgxAccept -----------------------------
(* NgxAccept with a few workers. *)
EXTENDS NgxAccept, TLC

\* Not used where liveness is checked.
WorkerSymmetry == Permutations(Worker)
=============================================================================
