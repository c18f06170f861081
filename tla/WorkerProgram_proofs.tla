------------------------ MODULE WorkerProgram_proofs ------------------------
(***************************************************************************)
(* Theorems about WorkerProgram for every number of calls and of spurious  *)
(* wakeups.  Each worker has an inductive invariant of its own, which its  *)
(* thread and its callers preserve whatever the other threads do; StageInv *)
(* and PlainInv say which of them can be at work in a stage of main.  The  *)
(* two workers that spin are instances of one module, and so are their     *)
(* lemmas.                                                                 *)
(***************************************************************************)
EXTENDS WorkerProgram, FiniteSetTheorems, TLAPS

USE CvWorkerAssumption

-----------------------------------------------------------------------------
(* yw, a worker that spins. *)

LEMMA YInit == Y!Init => Y!SpinInv /\ Y!Service!Init
<1>1. ASSUME Y!Init PROVE Y!SpinInv
  <2>1. y_counter \in Nat /\ y_calls \in 0..NumCalls /\ y_counter \in {y_calls, y_calls + 1}
    BY <1>1 DEF Y!Init
  <2>2. /\ y_has_work \in BOOLEAN /\ y_exiting \in BOOLEAN
        /\ ~y_has_work /\ ~y_exiting /\ y_counter = y_calls
        /\ y_wpc = "poll" /\ y_mpc = "idle"
    BY <1>1 DEF Y!Init
  <2> QED
    BY <2>1, <2>2 DEF Y!SpinInv
<1>2. Y!Init => Y!Service!Init
  BY DEF Y!Init, Y!Service!Init, Y!Issued
<1> QED
  BY <1>1, <1>2

LEMMA YThread == ASSUME Y!SpinInv, Y!ThreadStep PROVE Y!SpinInv'
<1> USE DEF Y!SpinInv
<1>1. CASE Y!Poll
  BY <1>1 DEF Y!Poll
<1>2. CASE Y!CheckExiting
  BY <1>2 DEF Y!CheckExiting
<1>3. CASE Y!Execute
  BY <1>3 DEF Y!Execute
<1>4. CASE Y!Clear
  BY <1>4 DEF Y!Clear
<1> QED
  BY <1>1, <1>2, <1>3, <1>4 DEF Y!ThreadStep

LEMMA YMain == ASSUME Y!SpinInv, Y!MainStep PROVE Y!SpinInv'
<1> USE DEF Y!SpinInv
<1>1. CASE Y!Work
  BY <1>1 DEF Y!Work
<1>2. CASE Y!Finish
  BY <1>2 DEF Y!Finish
<1>3. CASE Y!StopExiting
  BY <1>3 DEF Y!StopExiting
<1>4. CASE Y!StopWork
  BY <1>4 DEF Y!StopWork
<1>5. CASE Y!Join
  BY <1>5 DEF Y!Join
<1> QED
  BY <1>1, <1>2, <1>3, <1>4, <1>5 DEF Y!MainStep

LEMMA YSame == ASSUME Y!SpinInv, UNCHANGED yw PROVE Y!SpinInv'
BY DEF Y!SpinInv, yw

\* A step of the worker or of its caller is one of the service, or none.
LEMMA YServes ==
  ASSUME Y!SpinInv, Y!MainStep \/ Y!ThreadStep \/ UNCHANGED yw
  PROVE  [Y!Service!Next]_(Y!Service!vars)
<1> USE DEF Y!SpinInv, Y!Issued
<1>1. CASE Y!Poll \/ Y!CheckExiting \/ Y!Clear \/ UNCHANGED yw
  BY <1>1 DEF Y!Poll, Y!CheckExiting, Y!Clear, yw, Y!Service!vars
<1>2. CASE Y!Execute
  <2>1. CASE y_mpc = "finish"
    <3>1. Y!Service!Execute
      BY <1>2, <2>1 DEF Y!Execute, Y!Service!Execute
    <3> QED
      BY <3>1 DEF Y!Service!Next
  <2>2. CASE y_mpc = "join"
    <3>1. Y!Service!ExecuteExtra
      BY <1>2, <2>2 DEF Y!Execute, Y!Service!ExecuteExtra
    <3> QED
      BY <3>1 DEF Y!Service!Next
  <2> QED
    BY <1>2, <2>1, <2>2 DEF Y!Execute
<1>3. CASE Y!Work
  <2>1. Y!Service!Issue
    BY <1>3 DEF Y!Work, Y!Service!Issue
  <2> QED
    BY <2>1 DEF Y!Service!Next
<1>4. CASE Y!Finish
  <2>1. Y!Service!Return
    BY <1>4 DEF Y!Finish, Y!Service!Return
  <2> QED
    BY <2>1 DEF Y!Service!Next
<1>5. CASE Y!StopExiting
  <2>1. Y!Service!Stop
    BY <1>5 DEF Y!StopExiting, Y!Service!Stop
  <2> QED
    BY <2>1 DEF Y!Service!Next
<1>6. CASE Y!StopWork
  BY <1>6 DEF Y!StopWork, Y!Service!vars
<1>7. CASE Y!Join
  <2>1. Y!Service!Vanish
    BY <1>7 DEF Y!Join, Y!Service!Vanish
  <2> QED
    BY <2>1 DEF Y!Service!Next
<1> QED
  BY <1>1, <1>2, <1>3, <1>4, <1>5, <1>6, <1>7 DEF Y!MainStep, Y!ThreadStep

-----------------------------------------------------------------------------
(* ew, a worker that spins. *)

LEMMA EInit == E!Init => E!SpinInv /\ E!Service!Init
<1>1. ASSUME E!Init PROVE E!SpinInv
  <2>1. e_counter \in Nat /\ e_calls \in 0..NumCalls /\ e_counter \in {e_calls, e_calls + 1}
    BY <1>1 DEF E!Init
  <2>2. /\ e_has_work \in BOOLEAN /\ e_exiting \in BOOLEAN
        /\ ~e_has_work /\ ~e_exiting /\ e_counter = e_calls
        /\ e_wpc = "poll" /\ e_mpc = "idle"
    BY <1>1 DEF E!Init
  <2> QED
    BY <2>1, <2>2 DEF E!SpinInv
<1>2. E!Init => E!Service!Init
  BY DEF E!Init, E!Service!Init, E!Issued
<1> QED
  BY <1>1, <1>2

LEMMA EThread == ASSUME E!SpinInv, E!ThreadStep PROVE E!SpinInv'
<1> USE DEF E!SpinInv
<1>1. CASE E!Poll
  BY <1>1 DEF E!Poll
<1>2. CASE E!CheckExiting
  BY <1>2 DEF E!CheckExiting
<1>3. CASE E!Execute
  BY <1>3 DEF E!Execute
<1>4. CASE E!Clear
  BY <1>4 DEF E!Clear
<1> QED
  BY <1>1, <1>2, <1>3, <1>4 DEF E!ThreadStep

LEMMA EMain == ASSUME E!SpinInv, E!MainStep PROVE E!SpinInv'
<1> USE DEF E!SpinInv
<1>1. CASE E!Work
  BY <1>1 DEF E!Work
<1>2. CASE E!Finish
  BY <1>2 DEF E!Finish
<1>3. CASE E!StopExiting
  BY <1>3 DEF E!StopExiting
<1>4. CASE E!StopWork
  BY <1>4 DEF E!StopWork
<1>5. CASE E!Join
  BY <1>5 DEF E!Join
<1> QED
  BY <1>1, <1>2, <1>3, <1>4, <1>5 DEF E!MainStep

LEMMA ESame == ASSUME E!SpinInv, UNCHANGED ew PROVE E!SpinInv'
BY DEF E!SpinInv, ew

\* A step of the worker or of its caller is one of the service, or none.
LEMMA EServes ==
  ASSUME E!SpinInv, E!MainStep \/ E!ThreadStep \/ UNCHANGED ew
  PROVE  [E!Service!Next]_(E!Service!vars)
<1> USE DEF E!SpinInv, E!Issued
<1>1. CASE E!Poll \/ E!CheckExiting \/ E!Clear \/ UNCHANGED ew
  BY <1>1 DEF E!Poll, E!CheckExiting, E!Clear, ew, E!Service!vars
<1>2. CASE E!Execute
  <2>1. CASE e_mpc = "finish"
    <3>1. E!Service!Execute
      BY <1>2, <2>1 DEF E!Execute, E!Service!Execute
    <3> QED
      BY <3>1 DEF E!Service!Next
  <2>2. CASE e_mpc = "join"
    <3>1. E!Service!ExecuteExtra
      BY <1>2, <2>2 DEF E!Execute, E!Service!ExecuteExtra
    <3> QED
      BY <3>1 DEF E!Service!Next
  <2> QED
    BY <1>2, <2>1, <2>2 DEF E!Execute
<1>3. CASE E!Work
  <2>1. E!Service!Issue
    BY <1>3 DEF E!Work, E!Service!Issue
  <2> QED
    BY <2>1 DEF E!Service!Next
<1>4. CASE E!Finish
  <2>1. E!Service!Return
    BY <1>4 DEF E!Finish, E!Service!Return
  <2> QED
    BY <2>1 DEF E!Service!Next
<1>5. CASE E!StopExiting
  <2>1. E!Service!Stop
    BY <1>5 DEF E!StopExiting, E!Service!Stop
  <2> QED
    BY <2>1 DEF E!Service!Next
<1>6. CASE E!StopWork
  BY <1>6 DEF E!StopWork, E!Service!vars
<1>7. CASE E!Join
  <2>1. E!Service!Vanish
    BY <1>7 DEF E!Join, E!Service!Vanish
  <2> QED
    BY <2>1 DEF E!Service!Next
<1> QED
  BY <1>1, <1>2, <1>3, <1>4, <1>5, <1>6, <1>7 DEF E!MainStep, E!ThreadStep

-----------------------------------------------------------------------------
(* w, the worker with a condition variable. *)

LEMMA WInit == Init => CvInv /\ Service!Init
<1>1. ASSUME Init PROVE CvInv
  <2>1. LockInv
    BY <1>1 DEF Init, LockInv, Main, Thread, NoOwner, Threads
  <2>2. WorkInv
    <3>1. counter \in Nat /\ calls \in 0..NumCalls /\ counter = 0 /\ calls = 0
      BY <1>1 DEF Init
    <3>2. /\ has_work \in BOOLEAN /\ exiting \in BOOLEAN
          /\ ~has_work /\ ~exiting /\ wpc = "test" /\ mpc = "idle"
      BY <1>1 DEF Init
    <3> QED
      BY <3>1, <3>2 DEF WorkInv, Issued
  <2>3. NoLostWakeup
    BY <1>1 DEF Init, NoLostWakeup
  <2> QED
    BY <2>1, <2>2, <2>3 DEF CvInv
<1>2. Init => Service!Init
  BY DEF Init, Service!Init, Issued
<1> QED
  BY <1>1, <1>2

LEMMA WThread == ASSUME CvInv, ThreadStep PROVE CvInv'
<1> USE DEF CvInv, LockInv, WorkInv, NoLostWakeup, Issued, Woken, flags, monitor,
  Main, Thread, NoOwner, Threads
<1>1. CASE Test
  BY <1>1 DEF Test
<1>2. CASE ThreadAcquire
  BY <1>2 DEF ThreadAcquire, Mutex!Acquire
<1>3. CASE FindNothing
  BY <1>3 DEF FindNothing
<1>4. CASE ThreadSleep
  BY <1>4 DEF ThreadSleep, Mutex!Wait
<1>5. CASE Break
  BY <1>5 DEF Break, Mutex!Release
<1>6. CASE Execute
  <2>1. LockInv'
    BY <1>6 DEF Execute, Mutex!Release
  <2>2. /\ has_work /\ ~exiting /\ counter' = counter + 1 /\ ~has_work' /\ wpc' = "notify"
        /\ has_work' \in BOOLEAN
        /\ UNCHANGED <<waiting, exiting, mpc, calls>> /\ wpc = "evaluate"
    BY <1>6 DEF Execute, Mutex!Release
  <2>3. WorkInv'
    BY <2>2
  <2>4. NoLostWakeup'
    BY <2>2
  <2> QED
    BY <2>1, <2>3, <2>4
<1>7. CASE NotifyFinished
  BY <1>7 DEF NotifyFinished, Mutex!NotifyAll
<1> QED
  BY <1>1, <1>2, <1>3, <1>4, <1>5, <1>6, <1>7 DEF ThreadStep

LEMMA WMain == ASSUME CvInv, MainStep PROVE CvInv'
<1> USE DEF CvInv, LockInv, WorkInv, NoLostWakeup, Issued, flags, monitor,
  Main, Thread, NoOwner, Threads
<1>1. CASE MainAcquire
  BY <1>1 DEF MainAcquire, Mutex!Acquire, More
<1>2. CASE SetWork
  BY <1>2 DEF SetWork, Mutex!Release
<1>3. CASE NotifyOne
  BY <1>3 DEF NotifyOne, Mutex!NotifyOne
<1>4. CASE FindUnfinished
  BY <1>4 DEF FindUnfinished
<1>5. CASE MainSleep
  BY <1>5 DEF MainSleep, Mutex!Wait
<1>6. CASE FinishReturns
  BY <1>6 DEF FinishReturns, Mutex!Release
<1>7. CASE SetExiting
  BY <1>7 DEF SetExiting, Mutex!Release
<1>8. CASE NotifyExiting
  BY <1>8 DEF NotifyExiting, Mutex!NotifyAll
<1>9. CASE Join
  BY <1>9 DEF Join
<1> QED
  BY <1>1, <1>2, <1>3, <1>4, <1>5, <1>6, <1>7, <1>8, <1>9 DEF MainStep

LEMMA WWake == ASSUME CvInv, NEW t \in Threads, WakeUp(t) PROVE CvInv'
BY DEF WakeUp, Mutex!WakeSpuriously, CvInv, LockInv, WorkInv, NoLostWakeup, Issued,
  flags, Main, Thread, NoOwner, Threads

LEMMA WSame == ASSUME CvInv, UNCHANGED vars PROVE CvInv'
BY DEF CvInv, LockInv, WorkInv, NoLostWakeup, Issued, vars, flags, monitor

LEMMA WServes ==
  ASSUME CvInv, MainStep \/ ThreadStep \/ (\E t \in Threads : WakeUp(t)) \/ UNCHANGED vars
  PROVE  [Service!Next]_(Service!vars)
<1> USE DEF CvInv, WorkInv, Issued, flags, monitor
<1>1. CASE UNCHANGED <<has_work, exiting, counter, mpc, calls>>
  BY <1>1 DEF Service!vars
<1>2. CASE Execute
  <2>1. Service!Execute
    BY <1>2 DEF Execute, Woken, Service!Execute
  <2> QED
    BY <2>1 DEF Service!Next
<1>3. CASE SetWork
  <2>1. Service!Issue
    BY <1>3 DEF SetWork, Service!Issue
  <2> QED
    BY <2>1 DEF Service!Next
<1>4. CASE FinishReturns
  <2>1. Service!Return
    BY <1>4 DEF FinishReturns, Service!Return
  <2> QED
    BY <2>1 DEF Service!Next
<1>5. CASE SetExiting
  <2>1. Service!Stop
    BY <1>5 DEF SetExiting, Service!Stop
  <2> QED
    BY <2>1 DEF Service!Next
<1>6. CASE Join
  <2>1. Service!Vanish
    BY <1>6 DEF Join, Service!Vanish
  <2> QED
    BY <2>1 DEF Service!Next
<1>7. CASE MainAcquire \/ NotifyOne \/ FindUnfinished \/ MainSleep \/ NotifyExiting
  BY <1>7 DEF MainAcquire, NotifyOne, FindUnfinished, MainSleep, NotifyExiting,
    Service!vars
<1>8. CASE Test \/ ThreadAcquire \/ FindNothing \/ ThreadSleep \/ Break \/ NotifyFinished
  BY <1>1, <1>8 DEF Test, ThreadAcquire, FindNothing, ThreadSleep, Break, NotifyFinished
<1>9. CASE (\E t \in Threads : WakeUp(t)) \/ UNCHANGED vars
  BY <1>1, <1>9 DEF WakeUp, vars
<1> QED
  BY <1>2, <1>3, <1>4, <1>5, <1>6, <1>7, <1>8, <1>9 DEF MainStep, ThreadStep

-----------------------------------------------------------------------------
(* The program. *)

\* The stages by their numbers.
LEMMA StageNumbers ==
  ASSUME stage \in 1..10
  PROVE  /\ At("yieldworker") <=> stage = 1
         /\ At("eagerworker") <=> stage = 2
         /\ At("worker") <=> stage = 3
         /\ Stages[stage] \in Plain <=> stage \in 4..6
         /\ Stages[stage] \in Counting <=> stage \in {4, 6}
         /\ At("~yw") <=> stage = 7
         /\ At("~ew") <=> stage = 8
         /\ At("~w") <=> stage = 9
         /\ At("exited") <=> stage = 10
<1>1. stage = 1 \/ stage = 2 \/ stage = 3 \/ stage = 4 \/ stage = 5 \/ stage = 6
      \/ stage = 7 \/ stage = 8 \/ stage = 9 \/ stage = 10
  OBVIOUS
<1> QED
  BY <1>1 DEF At, Stages, Plain, Counting

LEMMA StageStep ==
  ASSUME ProgramInv, [Next]_allVars PROVE StageInv'
<1> USE DEF ProgramInv, StageInv
<1>1. CASE CallY
  <2>1. (stage = 1 /\ (y_mpc = "finish" \/ y_calls < NumCalls)) \/ stage = 7
    BY <1>1, StageNumbers DEF CallY
  <2>2. UNCHANGED <<ew, stage, mpc, calls>> /\ Y!MainStep
    BY <1>1 DEF CallY, vars
  <2> QED
    BY <2>1, <2>2 DEF ew, Y!MainStep, Y!Work, Y!Finish, Y!StopExiting, Y!StopWork,
      Y!Join, Y!SpinInv
<1>2. CASE CallE
  <2>1. (stage = 2 /\ (e_mpc = "finish" \/ e_calls < NumCalls)) \/ stage = 8
    BY <1>2, StageNumbers DEF CallE
  <2>2. UNCHANGED <<yw, stage, mpc, calls>> /\ E!MainStep
    BY <1>2 DEF CallE, vars
  <2> QED
    BY <2>1, <2>2 DEF yw, E!MainStep, E!Work, E!Finish, E!StopExiting, E!StopWork,
      E!Join, E!SpinInv
<1>3. CASE CallW
  <2>1. (stage = 3 /\ (mpc # "idle" \/ calls < NumCalls)) \/ stage = 9
    BY <1>3, StageNumbers DEF CallW, More
  <2>2. UNCHANGED <<yw, ew, stage>> /\ MainStep
    BY <1>3 DEF CallW
  <2> QED
    BY <2>1, <2>2 DEF yw, ew, MainStep, MainAcquire, SetWork, NotifyOne,
      FindUnfinished, MainSleep, FinishReturns, SetExiting, NotifyExiting, Join,
      CvInv, WorkInv, More
<1>4. CASE NextStage
  <2>1. /\ stage' = stage + 1 /\ stage # 10
        /\ UNCHANGED <<y_mpc, y_calls, e_mpc, e_calls, mpc, calls>>
    BY <1>4, StageNumbers DEF NextStage, StageIsOver, yw, ew, vars
  <2>2. /\ stage = 1 => y_mpc = "idle" /\ y_calls = NumCalls
        /\ stage = 2 => e_mpc = "idle" /\ e_calls = NumCalls
        /\ stage = 3 => mpc = "idle" /\ calls = NumCalls
        /\ stage = 7 => y_mpc = "done"
        /\ stage = 8 => e_mpc = "done"
        /\ stage = 9 => mpc = "done"
    BY <1>4, StageNumbers DEF NextStage, StageIsOver
  <2> QED
    BY <2>1, <2>2
<1>5. CASE UNCHANGED <<stage, y_mpc, y_calls, e_mpc, e_calls, mpc, calls>>
  BY <1>5
<1>6. CASE StartThread \/ JoinThread \/ RunThread
  BY <1>5, <1>6 DEF StartThread, JoinThread, RunThread, vars, yw, ew
<1>7. CASE RunY
  BY <1>5, <1>7 DEF RunY, Y!ThreadStep, Y!Poll, Y!CheckExiting, Y!Execute, Y!Clear,
    vars, ew
<1>8. CASE RunE
  BY <1>5, <1>8 DEF RunE, E!ThreadStep, E!Poll, E!CheckExiting, E!Execute, E!Clear,
    vars, yw
<1>9. CASE RunW \/ WakeW
  BY <1>5, <1>9 DEF RunW, WakeW, WakeUp, ThreadStep, Test, ThreadAcquire, FindNothing,
    ThreadSleep, Break, Execute, NotifyFinished, yw, ew
<1>10. CASE UNCHANGED allVars
  BY <1>5, <1>10 DEF allVars, vars, yw, ew
<1> QED
  BY <1>1, <1>2, <1>3, <1>4, <1>6, <1>7, <1>8, <1>9, <1>10 DEF Next, ProgramMain

LEMMA PlainStep ==
  ASSUME ProgramInv, [Next]_allVars PROVE PlainInv'
<1> USE DEF ProgramInv, PlainInv
<1>0. stage \in 1..10
  BY DEF StageInv
<1>1. CASE UNCHANGED <<stage, plain>>
  BY <1>1 DEF plain
<1>2. CASE StartThread
  BY <1>0, <1>2, StageNumbers DEF StartThread
<1>3. CASE JoinThread
  BY <1>0, <1>3 DEF JoinThread
<1>4. CASE RunThread
  BY <1>0, <1>4, StageNumbers DEF RunThread
<1>5. CASE NextStage
  <2>1. stage' = stage + 1 /\ started' = 0 /\ UNCHANGED <<tpc, t_counter>>
    BY <1>5 DEF NextStage
  <2>2. stage \in 4..6 => tpc = "off" /\ started = NumCalls
    <3>1. CASE stage \in 4..6
      BY <1>0, <1>5, <3>1, StageNumbers DEF NextStage, StageIsOver
    <3> QED
      BY <3>1
  <2>3. tpc = "off"
    BY <2>2
  <2> QED
    BY <1>0, <2>1, <2>2, <2>3
<1> QED
  BY <1>1, <1>2, <1>3, <1>4, <1>5 DEF Next, ProgramMain, CallY, CallE, CallW, RunY,
    RunE, RunW, WakeW, allVars, vars, yw, ew

LEMMA ProgramInitInv == ProgramInit => ProgramInv
<1> SUFFICES ASSUME ProgramInit PROVE ProgramInv
  OBVIOUS
<1>1. Y!SpinInv /\ E!SpinInv /\ CvInv
  BY YInit, EInit, WInit DEF ProgramInit
<1>2. StageInv /\ PlainInv
  BY DEF ProgramInit, StageInv, PlainInv, Init, Y!Init, E!Init
<1> QED
  BY <1>1, <1>2 DEF ProgramInv

\* What a step of the program is for each worker.
LEMMA StepsOfWorkers ==
  ASSUME [Next]_allVars
  PROVE  /\ Y!MainStep \/ Y!ThreadStep \/ UNCHANGED yw
         /\ E!MainStep \/ E!ThreadStep \/ UNCHANGED ew
         /\ MainStep \/ ThreadStep \/ (\E t \in Threads : WakeUp(t)) \/ UNCHANGED vars
BY DEF Next, ProgramMain, CallY, CallE, CallW, StartThread, JoinThread, NextStage,
  RunY, RunE, RunW, RunThread, WakeW, allVars

LEMMA ProgramStep == ProgramInv /\ [Next]_allVars => ProgramInv'
<1> SUFFICES ASSUME ProgramInv, [Next]_allVars PROVE ProgramInv'
  OBVIOUS
<1>1. Y!SpinInv'
  BY StepsOfWorkers, YThread, YMain, YSame DEF ProgramInv
<1>2. E!SpinInv'
  BY StepsOfWorkers, EThread, EMain, ESame DEF ProgramInv
<1>3. CvInv'
  BY StepsOfWorkers, WThread, WMain, WWake, WSame DEF ProgramInv
<1> QED
  BY <1>1, <1>2, <1>3, StageStep, PlainStep DEF ProgramInv

-----------------------------------------------------------------------------
THEOREM ProgramInvariance == Spec => []ProgramInv
BY ProgramInitInv, ProgramStep, PTL DEF Spec

\* No two threads increment the counter at the same time, for any number of calls.
THEOREM IncrementsDoNotRace == Spec => []NoRace
<1>1. ASSUME ProgramInv PROVE NoRace
  <2> USE <1>1 DEF ProgramInv
  <2>1. stage \in 1..10
    BY DEF StageInv
  <2>2. y_wpc = "execute" => stage \in {1, 7}
    BY DEF StageInv, Y!SpinInv
  <2>3. e_wpc = "execute" => stage \in {2, 8}
    BY DEF StageInv, E!SpinInv
  <2>4. wpc = "evaluate" /\ Woken /\ ~exiting => stage = 3
    BY DEF StageInv, CvInv, WorkInv, Woken
  <2>5. tpc = "run" /\ Stages[stage] \in Counting => stage \in {4, 6}
    BY <2>1, StageNumbers
  <2>6. \A s, t \in Incrementing : s = t
    BY <2>2, <2>3, <2>4, <2>5 DEF Incrementing
  <2>7. CASE Incrementing = {}
    <3>1. Cardinality(Incrementing) = 0
      BY <2>7, FS_EmptySet
    <3> QED
      BY <3>1 DEF NoRace
  <2>8. CASE Incrementing # {}
    <3>1. PICK s : Incrementing = {s}
      BY <2>6, <2>8
    <3>2. Cardinality(Incrementing) = 1
      BY <3>1, FS_Singleton
    <3> QED
      BY <3>2 DEF NoRace
  <2> QED
    BY <2>7, <2>8
<1> QED
  BY <1>1, ProgramInvariance, PTL

\* The counter printed at the end is right up to the works that the spinning
\* workers execute while they are destroyed.
THEOREM CountIsRight == Spec => []CounterIsRight
<1>1. ASSUME ProgramInv PROVE CounterIsRight
  <2> SUFFICES ASSUME At("exited")
               PROVE  counter + y_counter + e_counter + t_counter
                        \in (5 * NumCalls)..(5 * NumCalls + 2)
    BY DEF CounterIsRight
  <2>1. stage = 10
    BY <1>1, StageNumbers DEF ProgramInv, StageInv
  <2>2. y_counter \in {NumCalls, NumCalls + 1} /\ e_counter \in {NumCalls, NumCalls + 1}
    BY <1>1, <2>1 DEF ProgramInv, StageInv, Y!SpinInv, E!SpinInv
  <2>3. counter = NumCalls
    BY <1>1, <2>1 DEF ProgramInv, StageInv, CvInv, WorkInv, Issued
  <2>4. t_counter = 2 * NumCalls
    BY <1>1, <2>1 DEF ProgramInv, PlainInv
  <2> QED
    BY <2>2, <2>3, <2>4
<1> QED
  BY <1>1, ProgramInvariance, PTL

\* No notification of the worker with the condition variable is lost.
THEOREM NoWakeupIsLost == Spec => []NoLostWakeup
<1>1. ProgramInv => NoLostWakeup
  BY DEF ProgramInv, CvInv
<1> QED
  BY <1>1, ProgramInvariance, PTL

\* Each of the three workers implements WorkService.
THEOREM WorkersImplementService == Spec => WorkersServe
<1>1. ProgramInit => Y!Service!Init /\ E!Service!Init /\ Service!Init
  BY YInit, EInit, WInit DEF ProgramInit
<1>2. ProgramInv /\ [Next]_allVars => /\ [Y!Service!Next]_(Y!Service!vars)
                                      /\ [E!Service!Next]_(E!Service!vars)
                                      /\ [Service!Next]_(Service!vars)
  BY StepsOfWorkers, YServes, EServes, WServes DEF ProgramInv
<1> QED
  BY <1>1, <1>2, ProgramInvariance, PTL DEF Spec, WorkersServe, ImplementsService,
    Y!ImplementsService, E!ImplementsService, Service!Spec, Y!Service!Spec,
    E!Service!Spec
=============================================================================
