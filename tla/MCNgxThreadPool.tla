-------------------------- MODULE MCNgxThreadPool --------------------------
(* NgxThreadPool with a few threads and tasks. *)
EXTENDS NgxThreadPool
=============================================================================
