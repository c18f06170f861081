----------------------------- MODULE WorkService -----------------------------
(***************************************************************************)
(* What a worker of 2020/06/10/worker.cpp promises to the thread that      *)
(* calls work() and finish() in turn: finish() returns after the work that *)
(* was issued was executed once, and nothing is executed after the worker  *)
(* is gone.  The workers that spin may execute one time more when they are *)
(* stopped (ExtraAtStop), the one with a condition variable may not.       *)
(***************************************************************************)
EXTENDS Naturals

CONSTANT ExtraAtStop

VARIABLES issued, executed, returned, phase

vars == <<issued, executed, returned, phase>>

Init ==
  /\ issued = 0
  /\ executed = 0
  /\ returned = 0
  /\ phase = "up"

Issue ==
  /\ phase = "up"
  /\ issued = returned
  /\ issued' = issued + 1
  /\ UNCHANGED <<executed, returned, phase>>

Execute ==
  /\ executed < issued
  /\ executed' = executed + 1
  /\ UNCHANGED <<issued, returned, phase>>

Return ==
  /\ returned < issued
  /\ executed = issued
  /\ returned' = returned + 1
  /\ UNCHANGED <<issued, executed, phase>>

Stop ==
  /\ phase = "up"
  /\ returned = issued
  /\ phase' = "stopping"
  /\ UNCHANGED <<issued, executed, returned>>

ExecuteExtra ==
  /\ ExtraAtStop
  /\ phase = "stopping"
  /\ executed = issued
  /\ executed' = executed + 1
  /\ UNCHANGED <<issued, returned, phase>>

Vanish ==
  /\ phase = "stopping"
  /\ phase' = "down"
  /\ UNCHANGED <<issued, executed, returned>>

Next == Issue \/ Execute \/ Return \/ Stop \/ ExecuteExtra \/ Vanish

Spec == Init /\ [][Next]_vars
=============================================================================
