--------------------------- MODULE MCParallelOpen ---------------------------
(* Small instances of ParallelOpen for TLC; the bounds are in the .cfg files. *)
EXTENDS ParallelOpen
=============================================================================
