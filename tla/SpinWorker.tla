----------------------------- MODULE SpinWorker -----------------------------
(***************************************************************************)
(* struct eager_worker of 2020/06/10/worker.cpp, and struct yield_worker,  *)
(* which differs by a yield in the polling loop only: a thread that polls  *)
(* the atomic has_work, and the main thread, which calls work() and        *)
(* finish() NumCalls times and destroys the worker at the end; when it     *)
(* does which is up to WorkerProgram.  Every access to an atomic is a      *)
(* step; thread_started, which is written and never read, is left out.     *)
(***************************************************************************)
EXTENDS Integers

CONSTANT NumCalls    \* how many times main calls start*worker, 1001 in the source

VARIABLES
  has_work, exiting, counter,
  wpc,      \* where the thread is
  mpc,      \* where main is
  calls     \* how many calls of finish() returned

vars == <<has_work, exiting, counter, wpc, mpc, calls>>

Init ==
  /\ has_work = FALSE
  /\ exiting = FALSE
  /\ counter = 0
  /\ wpc = "poll"
  /\ mpc = "idle"
  /\ calls = 0

-----------------------------------------------------------------------------
(* The thread. *)

Poll ==
  /\ wpc = "poll"
  /\ wpc' = IF has_work THEN "execute" ELSE "check"
  /\ UNCHANGED <<has_work, exiting, counter, mpc, calls>>

CheckExiting ==
  /\ wpc = "check"
  /\ wpc' = IF exiting THEN "exited" ELSE "poll"
  /\ UNCHANGED <<has_work, exiting, counter, mpc, calls>>

Execute ==
  /\ wpc = "execute"
  /\ counter' = counter + 1
  /\ wpc' = "clear"
  /\ UNCHANGED <<has_work, exiting, mpc, calls>>

Clear ==
  /\ wpc = "clear"
  /\ has_work' = FALSE
  /\ wpc' = "poll"
  /\ UNCHANGED <<exiting, counter, mpc, calls>>

-----------------------------------------------------------------------------
(* Main: work(), finish() and stop_thread(). *)

Work ==
  /\ mpc = "idle"
  /\ calls < NumCalls
  /\ has_work' = TRUE
  /\ mpc' = "finish"
  /\ UNCHANGED <<exiting, counter, wpc, calls>>

\* Mutant: finish() does not wait.
FinishAtOnce ==
  /\ mpc = "finish"
  /\ mpc' = "idle"
  /\ calls' = calls + 1
  /\ UNCHANGED <<has_work, exiting, counter, wpc>>

\* The read of has_work that ends the loop of finish().
Finish ==
  /\ mpc = "finish"
  /\ ~has_work
  /\ mpc' = "idle"
  /\ calls' = calls + 1
  /\ UNCHANGED <<has_work, exiting, counter, wpc>>

\* Mutant: exiting is not set.
StopExitingForgotten ==
  /\ mpc = "idle"
  /\ calls = NumCalls
  /\ mpc' = "stop"
  /\ UNCHANGED <<has_work, exiting, counter, wpc, calls>>

StopExiting ==
  /\ mpc = "idle"
  /\ calls = NumCalls
  /\ exiting' = TRUE
  /\ mpc' = "stop"
  /\ UNCHANGED <<has_work, counter, wpc, calls>>

StopWork ==
  /\ mpc = "stop"
  /\ has_work' = TRUE
  /\ mpc' = "join"
  /\ UNCHANGED <<exiting, counter, wpc, calls>>

Join ==
  /\ mpc = "join"
  /\ wpc = "exited"
  /\ mpc' = "done"
  /\ UNCHANGED <<has_work, exiting, counter, wpc, calls>>

ThreadStep == Poll \/ CheckExiting \/ Execute \/ Clear
MainStep   == Work \/ Finish \/ StopExiting \/ StopWork \/ Join

-----------------------------------------------------------------------------
(* Properties. *)

\* The works issued so far.
Issued == calls + (IF mpc = "finish" THEN 1 ELSE 0)

Service == INSTANCE WorkService WITH
  ExtraAtStop <- TRUE,
  issued      <- Issued,
  executed    <- counter,
  returned    <- calls,
  phase       <- CASE mpc = "done" -> "down"
                   [] mpc \in {"stop", "join"} -> "stopping"
                   [] OTHER -> "up"

\* The worker executes each issued work once, before finish() returns, and at
\* most once more when it is stopped.
ImplementsService == Service!Spec

-----------------------------------------------------------------------------
\* The inductive invariant behind ImplementsService and the properties of
\* WorkerProgram: the thread executes only a request it has seen, counter counts
\* the works issued until main stops the worker, and then at most one more.
SpinInv ==
  /\ has_work \in BOOLEAN /\ exiting \in BOOLEAN
  /\ counter \in Nat /\ calls \in 0..NumCalls
  /\ wpc \in {"poll", "check", "execute", "clear", "exited"}
  /\ mpc \in {"idle", "finish", "stop", "join", "done"}
  /\ exiting <=> mpc \in {"stop", "join", "done"}
  /\ mpc \in {"stop", "join", "done"} => calls = NumCalls
  /\ mpc = "finish" => calls < NumCalls
  /\ mpc \in {"idle", "stop"} => ~has_work /\ counter = calls
  /\ mpc = "finish" /\ ~has_work => counter = calls + 1
  /\ counter \in {calls, calls + 1}
  /\ wpc \in {"execute", "clear"} => has_work
  /\ has_work /\ wpc # "clear" => counter = calls
  /\ wpc = "clear" => counter = calls + 1
  /\ wpc = "exited" => exiting
  /\ mpc = "done" => wpc = "exited"
=============================================================================
