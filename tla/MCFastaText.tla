---------------------------- MODULE MCFastaText ----------------------------
(* Small instances of FastaText for TLC; the bounds are in the .cfg. *)
EXTENDS FastaText
=============================================================================
