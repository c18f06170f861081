-------------------------- MODULE MCWorkerProgram --------------------------
(* Small instances of WorkerProgram for TLC; the bounds are in the .cfg. *)
EXTENDS WorkerProgram
=============================================================================
