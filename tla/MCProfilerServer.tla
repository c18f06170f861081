-------------------------- MODULE MCProfilerServer --------------------------
(* Small instances of ProfilerServer for TLC; the bounds are in the .cfg files. *)
EXTENDS ProfilerServer
=============================================================================
