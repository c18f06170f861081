--------------------------- MODULE MCPriorityQueue ---------------------------
(* Small instances of PriorityQueue for TLC; the bounds are in the .cfg. *)
EXTENDS PriorityQueue
=============================================================================
