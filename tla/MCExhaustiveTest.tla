-------------------------- MODULE MCExhaustiveTest --------------------------
(* Small instances of ExhaustiveTest for TLC; the bounds are in the .cfg file. *)
EXTENDS ExhaustiveTest
=============================================================================
