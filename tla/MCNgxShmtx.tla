----------------------------- MODULE MCNgxShmtx -----------------------------
(* NgxShmtx with a few processes. *)
EXTENDS NgxShmtx
=============================================================================
