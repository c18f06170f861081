----------------------------- MODULE MCPingPong -----------------------------
(* Small instances of PingPong for TLC; the bounds are in the .cfg files. *)
EXTENDS PingPong
=============================================================================
