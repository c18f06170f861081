--------------------------- MODULE MCFastaPipeline ---------------------------
(* Small instances of FastaPipeline for TLC; blocks hold two numbers. *)
EXTENDS FastaPipeline

\* Three calls: nine full blocks, which go twice round four buffers, then one, then
\* one without a remainder, which traps.
ThreeCalls == <<19, 3, 4>>
=============================================================================
