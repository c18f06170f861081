------------------------------ MODULE ForkJoin ------------------------------
(***************************************************************************)
(* What measure_time of 2025/03/01/open.cpp and run_ipv4_serialize_tests   *)
(* of 2026/07/15/tests/unit.cpp have in common: the main thread starts     *)
(* NumThreads threads, each with its part of a loop, and joins them in the *)
(* same order.                                                             *)
(***************************************************************************)
EXTENDS Integers

CONSTANT NumThreads    \* num_threads, thread_count

ASSUME ForkJoinAssumption == NumThreads \in Nat \ {0}

VARIABLES
  tpc, i,        \* where each thread is, and its loop counter
  mpc, t         \* where the main thread is, and its loop counter

main == <<mpc, t>>

Threads == 0..(NumThreads - 1)

\* Mutant: join() does not wait.
JoinedAtOnce(u) == TRUE

Joined(u) == tpc[u] = "exited"

NotStarted ==
  /\ tpc = [u \in Threads |-> "unborn"]
  /\ mpc = "launch" /\ t = 0

\* A thread starts at the given place, or all were started.
LaunchAt(place) ==
  /\ mpc = "launch"
  /\ IF t \in Threads
     THEN tpc' = [tpc EXCEPT ![t] = place] /\ t' = t + 1 /\ UNCHANGED mpc
     ELSE mpc' = "join" /\ t' = 0 /\ UNCHANGED tpc
  /\ UNCHANGED i

JoinThread ==
  /\ mpc = "join"
  /\ t \in Threads /\ Joined(t)
  /\ t' = t + 1
  /\ UNCHANGED <<tpc, i, mpc>>

AfterJoin ==
  /\ mpc = "join"
  /\ t \notin Threads
  /\ mpc' = "done"
  /\ UNCHANGED <<tpc, i, t>>

\* The part of the inductive invariants of both programs that is about the joins.
JoinInv ==
  /\ mpc \in {"launch", "join", "done"}
  /\ t \in 0..NumThreads
  /\ mpc = "launch" => \A u \in t..(NumThreads - 1) : tpc[u] = "unborn"
  /\ mpc = "join" => \A u \in 0..(t - 1) : tpc[u] = "exited"
  /\ mpc = "done" => \A u \in Threads : tpc[u] = "exited"
=============================================================================
