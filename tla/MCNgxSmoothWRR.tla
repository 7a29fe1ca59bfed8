--------------------------- MODULE MCNgxSmoothWRR ---------------------------
(* NgxSmoothWRR for all weights up to MAX_WEIGHT. *)
EXTENDS NgxSmoothWRR
=============================================================================
