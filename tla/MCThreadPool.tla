---------------------------- MODULE MCThreadPool ----------------------------
(* Small instances of ThreadPool for TLC; the bounds are in the .cfg files. *)
EXTENDS ThreadPool
=============================================================================
