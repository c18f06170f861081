------------------------------ MODULE CvWorker ------------------------------
(***************************************************************************)
(* struct worker of 2020/06/10/worker.cpp: a thread that sleeps on a       *)
(* condition variable until work() sets has_work, and the main thread,     *)
(* which calls work() and finish() NumCalls times (startworker, called by  *)
(* printtime) and destroys the worker at the end of the program.  When     *)
(* main does which is up to WorkerProgram.                                 *)
(***************************************************************************)
EXTENDS Integers

CONSTANTS
  NumCalls,      \* how many times main calls startworker, 1001 in the source
  MaxSpurious    \* bound on the spurious wakeups of one behaviour

ASSUME CvWorkerAssumption ==
  /\ NumCalls \in Nat \ {0}
  /\ MaxSpurious \in Nat

Main    == "main"
Thread  == "thread"
NoOwner == "nobody"
Threads == {Main, Thread}

VARIABLES
  lock, waiting,          \* locking_mutex and cond_var
  has_work, exiting, counter,
  wpc,                    \* where the thread is
  mpc,                    \* where main is
  calls,                  \* how many calls of finish() returned
  spurious                \* the number of spurious wakeups so far

monitor == <<lock, waiting>>
flags   == <<has_work, exiting>>
vars    == <<monitor, flags, counter, wpc, mpc, calls, spurious>>

Mutex == INSTANCE Monitor

Init ==
  /\ lock = NoOwner
  /\ waiting = {}
  /\ has_work = FALSE
  /\ exiting = FALSE
  /\ counter = 0
  /\ wpc = "test"
  /\ mpc = "idle"
  /\ calls = 0
  /\ spurious = 0

\* Mutant: the wait has no predicate.
WokenAlways == TRUE

\* The predicate of the thread's wait.
Woken == has_work \/ exiting
\* printtime calls startworker once more.
More  == calls < NumCalls

-----------------------------------------------------------------------------
(* The thread. *)

\* while (!exiting) reads exiting without the mutex: once main has set it, the
\* read may still return the old value.
Test ==
  /\ wpc = "test"
  /\ \/ wpc' = "acquire"
     \/ exiting /\ wpc' = "exited"
  /\ UNCHANGED <<monitor, flags, counter, mpc, calls, spurious>>

ThreadAcquire ==
  /\ wpc = "acquire"
  /\ Mutex!Acquire(Thread)
  /\ wpc' = "evaluate"
  /\ UNCHANGED <<flags, counter, mpc, calls, spurious>>

FindNothing ==
  /\ wpc = "evaluate"
  /\ ~Woken
  /\ wpc' = "sleep"
  /\ UNCHANGED <<monitor, flags, counter, mpc, calls, spurious>>

ThreadSleep ==
  /\ wpc = "sleep"
  /\ Mutex!Wait(Thread)
  /\ wpc' = "acquire"
  /\ UNCHANGED <<flags, counter, mpc, calls, spurious>>

\* Leave the loop; the destructor of the lock releases the mutex.
Break ==
  /\ wpc = "evaluate"
  /\ Woken /\ exiting
  /\ Mutex!Release(Thread)
  /\ wpc' = "exited"
  /\ UNCHANGED <<flags, counter, mpc, calls, spurious>>

Execute ==
  /\ wpc = "evaluate"
  /\ Woken /\ ~exiting
  /\ counter' = counter + 1
  /\ has_work' = FALSE
  /\ Mutex!Release(Thread)
  /\ wpc' = "notify"
  /\ UNCHANGED <<exiting, mpc, calls, spurious>>

\* Mutant: the thread does not announce the end of the work.
NotifyFinishedForgotten ==
  /\ wpc = "notify"
  /\ wpc' = "test"
  /\ UNCHANGED <<monitor, flags, counter, mpc, calls, spurious>>

NotifyFinished ==
  /\ wpc = "notify"
  /\ Mutex!NotifyAll
  /\ wpc' = "test"
  /\ UNCHANGED <<flags, counter, mpc, calls, spurious>>

-----------------------------------------------------------------------------
(* Main: work(), finish() and stop_thread(). *)

\* Main's next call, and the mutex it starts with.
MainAcquire ==
  /\ \/ mpc = "idle" /\ More /\ mpc' = "work"
     \/ mpc = "idle" /\ ~More /\ mpc' = "stop"
     \/ mpc = "finish" /\ mpc' = "evaluate"
  /\ Mutex!Acquire(Main)
  /\ UNCHANGED <<flags, counter, wpc, calls, spurious>>

SetWork ==
  /\ mpc = "work"
  /\ has_work' = TRUE
  /\ Mutex!Release(Main)
  /\ mpc' = "notify_one"
  /\ UNCHANGED <<exiting, counter, wpc, calls, spurious>>

NotifyOne ==
  /\ mpc = "notify_one"
  /\ Mutex!NotifyOne
  /\ mpc' = "finish"
  /\ UNCHANGED <<flags, counter, wpc, calls, spurious>>

FindUnfinished ==
  /\ mpc = "evaluate"
  /\ has_work
  /\ mpc' = "sleep"
  /\ UNCHANGED <<monitor, flags, counter, wpc, calls, spurious>>

MainSleep ==
  /\ mpc = "sleep"
  /\ Mutex!Wait(Main)
  /\ mpc' = "finish"
  /\ UNCHANGED <<flags, counter, wpc, calls, spurious>>

FinishReturns ==
  /\ mpc = "evaluate"
  /\ ~has_work
  /\ Mutex!Release(Main)
  /\ mpc' = "idle"
  /\ calls' = calls + 1
  /\ UNCHANGED <<flags, counter, wpc, spurious>>

SetExiting ==
  /\ mpc = "stop"
  /\ has_work' = FALSE
  /\ exiting' = TRUE
  /\ Mutex!Release(Main)
  /\ mpc' = "notify_all"
  /\ UNCHANGED <<counter, wpc, calls, spurious>>

NotifyExiting ==
  /\ mpc = "notify_all"
  /\ Mutex!NotifyAll
  /\ mpc' = "join"
  /\ UNCHANGED <<flags, counter, wpc, calls, spurious>>

Join ==
  /\ mpc = "join"
  /\ wpc = "exited"
  /\ mpc' = "done"
  /\ UNCHANGED <<monitor, flags, counter, wpc, calls, spurious>>

WakeUp(t) ==
  /\ spurious < MaxSpurious
  /\ Mutex!WakeSpuriously(t)
  /\ spurious' = spurious + 1
  /\ UNCHANGED <<flags, counter, wpc, mpc, calls>>

ThreadStep == Test \/ ThreadAcquire \/ FindNothing \/ ThreadSleep \/ Break
              \/ Execute \/ NotifyFinished
MainStep   == MainAcquire \/ SetWork \/ NotifyOne \/ FindUnfinished \/ MainSleep
              \/ FinishReturns \/ SetExiting \/ NotifyExiting \/ Join

-----------------------------------------------------------------------------
(* Properties. *)

\* The works issued so far.
Issued == calls + (IF mpc \in {"notify_one", "finish", "evaluate", "sleep"}
                   THEN 1 ELSE 0)

\* Both parties never sleep together with nobody left to wake them: the thread
\* sleeps only when there is no work, and main only while the thread is up and
\* has not yet announced the end of the work.
NoLostWakeup ==
  /\ Thread \in waiting =>
       (has_work => mpc = "notify_one") /\ (exiting => mpc = "notify_all")
  /\ Main \in waiting => has_work \/ wpc = "notify"

Service == INSTANCE WorkService WITH
  ExtraAtStop <- FALSE,
  issued      <- Issued,
  executed    <- counter,
  returned    <- calls,
  phase       <- CASE mpc = "done" -> "down"
                   [] mpc \in {"notify_all", "join"} -> "stopping"
                   [] OTHER -> "up"

\* The worker executes each issued work once, before finish() returns.
ImplementsService == Service!Spec

-----------------------------------------------------------------------------
\* The inductive invariant behind NoLostWakeup, ImplementsService and the
\* properties of WorkerProgram.  The first part is about the mutex: who owns it,
\* and that a party on its way to sleep still has it, so that what it saw is true.
LockInv ==
  /\ lock \in {NoOwner, Main, Thread} /\ waiting \subseteq Threads
  /\ lock = Thread <=> wpc \in {"evaluate", "sleep"}
  /\ lock = Main <=> mpc \in {"work", "stop", "evaluate", "sleep"}
  /\ Thread \in waiting => wpc = "acquire"
  /\ Main \in waiting => mpc = "finish"
  /\ wpc = "sleep" => ~has_work /\ ~exiting
  /\ mpc = "sleep" => has_work

\* has_work is cleared by the execution it was set for and by nothing else.
WorkInv ==
  /\ has_work \in BOOLEAN /\ exiting \in BOOLEAN
  /\ counter \in Nat /\ calls \in 0..NumCalls
  /\ wpc \in {"test", "acquire", "evaluate", "sleep", "notify", "exited"}
  /\ mpc \in {"idle", "work", "notify_one", "finish", "evaluate", "sleep", "stop",
              "notify_all", "join", "done"}
  /\ exiting <=> mpc \in {"notify_all", "join", "done"}
  /\ mpc \in {"stop", "notify_all", "join", "done"} => calls = NumCalls
  /\ mpc \in {"work", "notify_one", "finish", "evaluate", "sleep"} => calls < NumCalls
  /\ has_work => mpc \in {"notify_one", "finish", "evaluate", "sleep"}
  /\ Issued = counter + (IF has_work THEN 1 ELSE 0)
  /\ wpc = "exited" => exiting
  /\ mpc = "done" => wpc = "exited"

CvInv == LockInv /\ WorkInv /\ NoLostWakeup
=============================================================================
