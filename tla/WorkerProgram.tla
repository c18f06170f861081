--------------------------- MODULE WorkerProgram ---------------------------
(***************************************************************************)
(* 2020/06/10/worker.cpp: its three workers are globals with a thread      *)
(* each, main calls each of them in turn, then std::async and std::thread, *)
(* and the workers are destroyed after main returns, the last one first.   *)
(*                                                                         *)
(* w is a CvWorker, whose variables are those of this module; ew and yw    *)
(* are SpinWorkers.  All of them and the plain threads increment one       *)
(* counter without a lock; the model gives each its own share, and NoRace  *)
(* says why the shares add up.                                             *)
(***************************************************************************)
EXTENDS CvWorker, Sequences, FiniteSets

VARIABLES
  y_has_work, y_exiting, y_counter, y_wpc, y_mpc, y_calls,
  e_has_work, e_exiting, e_counter, e_wpc, e_mpc, e_calls,
  stage,            \* the part of the program main is in
  tpc,              \* the thread of startasync, startemptythread, startthread
  started,          \* how many threads the stage started
  t_counter         \* the increments of plain threads

yw == <<y_has_work, y_exiting, y_counter, y_wpc, y_mpc, y_calls>>
ew == <<e_has_work, e_exiting, e_counter, e_wpc, e_mpc, e_calls>>
plain    == <<tpc, started, t_counter>>
allVars  == <<vars, yw, ew, stage, plain>>

Y == INSTANCE SpinWorker WITH
  has_work <- y_has_work, exiting <- y_exiting, counter <- y_counter,
  wpc <- y_wpc, mpc <- y_mpc, calls <- y_calls
E == INSTANCE SpinWorker WITH
  has_work <- e_has_work, exiting <- e_exiting, counter <- e_counter,
  wpc <- e_wpc, mpc <- e_mpc, calls <- e_calls

\* The statements of main, then the destructors.
Stages == <<"yieldworker", "eagerworker", "worker", "async", "emptythread", "thread",
            "~yw", "~ew", "~w", "exited">>

Plain    == {"async", "emptythread", "thread"}
Counting == {"async", "thread"}

ProgramInit ==
  /\ Init /\ Y!Init /\ E!Init
  /\ stage = 1
  /\ tpc = "off" /\ started = 0 /\ t_counter = 0

At(s) == Stages[stage] = s

-----------------------------------------------------------------------------
(* Main *)

\* printtime calls start*worker of the stage, or the destructor of the stage runs;
\* a worker without a call left goes no further until then.
CallY ==
  /\ (At("yieldworker") /\ (y_mpc = "finish" \/ y_calls < NumCalls)) \/ At("~yw")
  /\ Y!MainStep
  /\ UNCHANGED <<vars, ew, stage, plain>>

CallE ==
  /\ (At("eagerworker") /\ (e_mpc = "finish" \/ e_calls < NumCalls)) \/ At("~ew")
  /\ E!MainStep
  /\ UNCHANGED <<vars, yw, stage, plain>>

CallW ==
  /\ (At("worker") /\ (mpc # "idle" \/ More)) \/ At("~w")
  /\ MainStep
  /\ UNCHANGED <<yw, ew, stage, plain>>

\* Construct a thread, or an asynchronous call.
StartThread ==
  /\ Stages[stage] \in Plain /\ started < NumCalls
  /\ tpc = "off" /\ tpc' = "run"
  /\ started' = started + 1
  /\ UNCHANGED <<vars, yw, ew, stage, t_counter>>

\* join() or get()
JoinThread ==
  /\ tpc = "ran" /\ tpc' = "off"
  /\ UNCHANGED <<vars, yw, ew, stage, started, t_counter>>

\* What the stage started has come back.
StageIsOver ==
  \/ At("yieldworker") /\ y_mpc = "idle" /\ y_calls = NumCalls
  \/ At("eagerworker") /\ e_mpc = "idle" /\ e_calls = NumCalls
  \/ At("worker") /\ mpc = "idle" /\ calls = NumCalls
  \/ Stages[stage] \in Plain /\ tpc = "off" /\ started = NumCalls
  \/ At("~yw") /\ y_mpc = "done"
  \/ At("~ew") /\ e_mpc = "done"
  \/ At("~w") /\ mpc = "done"

NextStage ==
  /\ StageIsOver
  /\ stage' = stage + 1
  /\ started' = 0
  /\ UNCHANGED <<vars, yw, ew, tpc, t_counter>>

-----------------------------------------------------------------------------
(* The threads. *)

RunY == Y!ThreadStep /\ UNCHANGED <<vars, ew, stage, plain>>
RunE == E!ThreadStep /\ UNCHANGED <<vars, yw, stage, plain>>
RunW == ThreadStep /\ UNCHANGED <<yw, ew, stage, plain>>

RunThread ==
  /\ tpc = "run" /\ tpc' = "ran"
  /\ t_counter' = t_counter + (IF Stages[stage] \in Counting THEN 1 ELSE 0)
  /\ UNCHANGED <<vars, yw, ew, stage, started>>

WakeW == (\E t \in Threads : WakeUp(t)) /\ UNCHANGED <<yw, ew, stage, plain>>

ProgramMain == CallY \/ CallE \/ CallW \/ StartThread \/ JoinThread \/ NextStage

Next ==
  \/ ProgramMain
  \/ RunY \/ RunE \/ RunW \/ RunThread \/ WakeW
  \/ At("exited") /\ UNCHANGED allVars

\* The operating system runs every thread; no wakeup comes without a notification.
Fairness ==
  /\ WF_allVars(ProgramMain)
  /\ WF_allVars(RunY) /\ WF_allVars(RunE) /\ WF_allVars(RunW) /\ WF_allVars(RunThread)

Spec == ProgramInit /\ [][Next]_allVars /\ Fairness

-----------------------------------------------------------------------------
(* Properties. *)

\* Who is about to increment counter.
Incrementing ==
  {t \in {"yw", "ew", "w", "plain"} :
     \/ t = "yw" /\ y_wpc = "execute"
     \/ t = "ew" /\ e_wpc = "execute"
     \/ t = "w" /\ wpc = "evaluate" /\ Woken /\ ~exiting
     \/ t = "plain" /\ tpc = "run" /\ Stages[stage] \in Counting}

\* The increments of the shared counter never race, though the spinning workers
\* increment it once more at a time of their choice when they are stopped: no
\* other thread is then at work, and they are joined one after the other.
NoRace == Cardinality(Incrementing) <= 1

\* When the program has exited, every call and every thread has been counted, and
\* at most one more for each of the two workers that spin.
CounterIsRight ==
  At("exited") =>
    counter + y_counter + e_counter + t_counter \in (5 * NumCalls)..(5 * NumCalls + 2)

\* Every call returns, every destructor joins its thread: the program ends.
Termination == <>At("exited")

\* Each worker is what its callers take it for.
WorkersServe == ImplementsService /\ Y!ImplementsService /\ E!ImplementsService

-----------------------------------------------------------------------------
\* The inductive invariant behind NoRace and CounterIsRight: each worker is in a
\* call or a destructor in its own stages only, and the plain threads have counted
\* what the stages that are over started.
StageInv ==
  /\ stage \in 1..10
  /\ y_mpc = "finish" => stage = 1
  /\ y_mpc \in {"stop", "join"} => stage = 7
  /\ y_mpc = "done" => stage >= 7
  /\ stage > 1 => y_calls = NumCalls
  /\ stage > 7 => y_mpc = "done"
  /\ e_mpc = "finish" => stage = 2
  /\ e_mpc \in {"stop", "join"} => stage = 8
  /\ e_mpc = "done" => stage >= 8
  /\ stage > 2 => e_calls = NumCalls
  /\ stage > 8 => e_mpc = "done"
  /\ mpc \in {"work", "notify_one", "finish", "evaluate", "sleep"} => stage = 3
  /\ mpc \in {"stop", "notify_all", "join"} => stage = 9
  /\ mpc = "done" => stage >= 9
  /\ stage > 3 => calls = NumCalls
  /\ stage > 9 => mpc = "done"

PlainInv ==
  /\ tpc \in {"off", "run", "ran"} /\ started \in 0..NumCalls
  /\ tpc # "off" => stage \in 4..6
  /\ LET ended == started - (IF tpc = "run" THEN 1 ELSE 0)
     IN  t_counter = CASE stage < 4 -> 0
                       [] stage = 4 -> ended
                       [] stage = 5 -> NumCalls
                       [] stage = 6 -> NumCalls + ended
                       [] stage > 6 -> 2 * NumCalls

ProgramInv == Y!SpinInv /\ E!SpinInv /\ CvInv /\ StageInv /\ PlainInv
=============================================================================
