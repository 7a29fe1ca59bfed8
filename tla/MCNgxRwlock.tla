---------------------------- MODULE MCNgxRwlock -----------------------------
(* NgxRwlock with a few processes and the smallest word that counts them. *)
EXTENDS NgxRwlock
=============================================================================
