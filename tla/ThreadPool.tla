----------------------------- MODULE ThreadPool -----------------------------
(***************************************************************************)
(* The class ThreadPool of 2025/03/01/open_pool.cpp and its only client,   *)
(* measure_time: the main thread builds a pool, enqueues one task per      *)
(* file, waits for the futures, compares success_count with the number of  *)
(* files and destroys the pool, whose workers drain the queue and exit.    *)
(*                                                                         *)
(* A step is one access to state that another thread can see: taking the   *)
(* mutex, what is done under it up to its release, a notification, the     *)
(* body of a task, and the publication of its future.  The pool and        *)
(* success_count are local to measure_time, so one call is one behaviour.  *)
(* Exhaustion of memory or of threads, which ends the program through an   *)
(* exception nobody catches, is left out.                                  *)
(***************************************************************************)
EXTENDS Integers, Sequences, FiniteSets

CONSTANTS
  NumThreads,     \* the parameter of the pool's constructor
  TotalFiles,     \* total_files, 10000 in the source
  MaxSpurious,    \* bound on the spurious wakeups of one behaviour
  NoTask          \* what a worker holds between two tasks

ASSUME ThreadPoolAssumption ==
  /\ NumThreads \in Nat \ {0}
  /\ TotalFiles \in Nat \ {0}
  /\ MaxSpurious \in Nat
  /\ NoTask \notin 1..TotalFiles

Main    == 0
Workers == 1..NumThreads
Files   == 1..TotalFiles
NoOwner == -1

VARIABLES
  lock,           \* queueMutex: its owner or NoOwner
  waiting,        \* the workers asleep on condition
  tasks,          \* the queue of tasks; a task is named by its file
  stop,
  wpc,            \* where each worker is
  task,           \* the task each worker has moved out of the queue
  mpc,            \* where the main thread is
  i,              \* the main thread's loop counter
  ready,          \* the futures that hold a value
  success_count,
  failed,         \* the files reported on cerr as impossible to open
  warned,         \* measure_time printed its warning
  started,        \* history: the tasks popped so far, in that order
  spurious        \* the number of spurious wakeups so far

pool == <<lock, waiting, tasks, stop>>
results == <<ready, success_count, failed, warned>>
history == <<started, spurious>>
vars == <<pool, wpc, task, mpc, i, results, history>>

Mutex == INSTANCE Monitor

\* Mutant: the queue is a stack.
EmplaceInFront(queue, t)   == <<t>> \o queue
\* Mutants: the task at the other end is taken; the task taken is not removed.
Back(queue)                == queue[Len(queue)]
NotPopped(queue)           == queue
\* Mutant: a file that does not open is counted.
CreditAlways(opened)       == 1
\* Mutant: get() does not wait.
ReadyAtOnce(f)             == TRUE
\* Mutants: only a queue that was empty is announced; one worker is stopped.
AnnounceFirst == IF Len(tasks) = 1 THEN Mutex!NotifyOne ELSE UNCHANGED <<lock, waiting>>
AnnounceStopToOne          == Mutex!NotifyOne

\* The operations of std::queue.
Emplace(queue, t) == Append(queue, t)
Front(queue)      == Head(queue)
Popped(queue)     == Tail(queue)
\* What opening a file adds to success_count.
Credit(opened)    == IF opened THEN 1 ELSE 0
\* The future of file f holds a value.
Ready(f)          == f \in ready
\* The notifications of enqueue and of the destructor.
AnnounceTask      == Mutex!NotifyOne
AnnounceStop      == Mutex!NotifyAll

Init ==
  /\ lock = NoOwner
  /\ waiting = {}
  /\ tasks = <<>>
  /\ stop = FALSE
  /\ wpc = [w \in Workers |-> "unborn"]
  /\ task = [w \in Workers |-> NoTask]
  /\ mpc = "spawn"
  /\ i = 1
  /\ ready = {}
  /\ success_count = 0
  /\ failed = {}
  /\ warned = FALSE
  /\ started = <<>>
  /\ spurious = 0

-----------------------------------------------------------------------------
(* A worker: the lambda of the constructor. *)

Goto(w, label) == wpc' = [wpc EXCEPT ![w] = label]

\* unique_lock's constructor, and the reacquisition at the end of a wait.
WorkerAcquire(w) ==
  /\ wpc[w] = "acquire"
  /\ Mutex!Acquire(w)
  /\ Goto(w, "evaluate")
  /\ UNCHANGED <<tasks, stop, task, mpc, i, results, history>>

\* The predicate of the wait is false: the worker is about to sleep.
FindNothing(w) ==
  /\ wpc[w] = "evaluate"
  /\ ~stop /\ tasks = <<>>
  /\ Goto(w, "sleep")
  /\ UNCHANGED <<pool, task, mpc, i, results, history>>

Sleep(w) ==
  /\ wpc[w] = "sleep"
  /\ Mutex!Wait(w)
  /\ Goto(w, "acquire")
  /\ UNCHANGED <<tasks, stop, task, mpc, i, results, history>>

WakeUp(w) ==
  /\ spurious < MaxSpurious
  /\ Mutex!WakeSpuriously(w)
  /\ spurious' = spurious + 1
  /\ UNCHANGED <<tasks, stop, wpc, task, mpc, i, results, started>>

Exit(w) ==
  /\ wpc[w] = "evaluate"
  /\ stop /\ tasks = <<>>
  /\ Mutex!Release(w)
  /\ Goto(w, "exited")
  /\ UNCHANGED <<tasks, stop, task, mpc, i, results, history>>

\* Move the front of the queue out, pop it and release the mutex.
Pop(w) ==
  /\ wpc[w] = "evaluate"
  /\ tasks # <<>>
  /\ task' = [task EXCEPT ![w] = Front(tasks)]
  /\ started' = Append(started, Front(tasks))
  /\ tasks' = Popped(tasks)
  /\ Mutex!Release(w)
  /\ Goto(w, "run")
  /\ UNCHANGED <<stop, mpc, i, results, spurious>>

\* The body of the task measure_time enqueues: the file opens or it does not.
Run(w) ==
  /\ wpc[w] = "run"
  /\ \E opened \in BOOLEAN :
       /\ success_count' = success_count + Credit(opened)
       /\ failed' = failed \cup (IF opened THEN {} ELSE {task[w]})
  /\ Goto(w, "publish")
  /\ UNCHANGED <<pool, task, mpc, i, ready, warned, history>>

\* packaged_task makes the future ready; the worker drops the task and loops.
Publish(w) ==
  /\ wpc[w] = "publish"
  /\ ready' = ready \cup {task[w]}
  /\ task' = [task EXCEPT ![w] = NoTask]
  /\ Goto(w, "acquire")
  /\ UNCHANGED <<pool, mpc, i, success_count, failed, warned, history>>

-----------------------------------------------------------------------------
(* The main thread: the constructor, measure_time and the destructor. *)

\* The constructor starts one more thread, or is finished.
Spawn ==
  /\ mpc = "spawn"
  /\ IF i \in Workers
     THEN /\ wpc' = [wpc EXCEPT ![i] = "acquire"]
          /\ i' = i + 1
          /\ UNCHANGED mpc
     ELSE /\ mpc' = "enqueue"
          /\ i' = 1
          /\ UNCHANGED wpc
  /\ UNCHANGED <<pool, task, results, history>>

MainAcquire ==
  /\ \/ mpc = "enqueue" /\ i \in Files /\ mpc' = "push"
     \/ mpc = "destroy" /\ mpc' = "set_stop"
  /\ Mutex!Acquire(Main)
  /\ UNCHANGED <<tasks, stop, wpc, task, i, results, history>>

\* enqueue under the mutex; it throws when the pool is stopped.
Push ==
  /\ mpc = "push"
  /\ ~stop
  /\ tasks' = Emplace(tasks, i)
  /\ Mutex!Release(Main)
  /\ mpc' = "notify_one"
  /\ UNCHANGED <<stop, wpc, task, i, results, history>>

\* The last step of enqueue, after the mutex was released.
NotifyOne ==
  /\ mpc = "notify_one"
  /\ AnnounceTask
  /\ mpc' = "enqueue"
  /\ i' = i + 1
  /\ UNCHANGED <<tasks, stop, wpc, task, results, history>>

EndEnqueue ==
  /\ mpc = "enqueue"
  /\ i \notin Files
  /\ mpc' = "get"
  /\ i' = 1
  /\ UNCHANGED <<pool, wpc, task, results, history>>

\* result.get() for each future in turn.
Get ==
  /\ mpc = "get"
  /\ IF i \in Files
     THEN /\ Ready(i)
          /\ i' = i + 1
          /\ UNCHANGED mpc
     ELSE /\ mpc' = "verify"
          /\ UNCHANGED i
  /\ UNCHANGED <<pool, wpc, task, results, history>>

\* The comparison at the end of measure_time; then the locals go away, results
\* and success_count before the pool.
Verify ==
  /\ mpc = "verify"
  /\ warned' = (success_count # TotalFiles)
  /\ mpc' = "destroy"
  /\ UNCHANGED <<pool, wpc, task, i, ready, success_count, failed, history>>

SetStop ==
  /\ mpc = "set_stop"
  /\ stop' = TRUE
  /\ Mutex!Release(Main)
  /\ mpc' = "notify_all"
  /\ UNCHANGED <<tasks, wpc, task, i, results, history>>

NotifyAll ==
  /\ mpc = "notify_all"
  /\ AnnounceStop
  /\ mpc' = "join"
  /\ i' = 1
  /\ UNCHANGED <<tasks, stop, wpc, task, results, history>>

\* Join the workers in turn; after the last one the pool's members go away.
Join ==
  /\ mpc = "join"
  /\ IF i \in Workers
     THEN /\ wpc[i] = "exited"
          /\ i' = i + 1
          /\ UNCHANGED mpc
     ELSE /\ mpc' = "done"
          /\ UNCHANGED i
  /\ UNCHANGED <<pool, wpc, task, results, history>>

\* measure_time has returned: nothing is left to do.
Done == mpc = "done" /\ UNCHANGED vars

MainStep ==
  \/ Spawn \/ MainAcquire \/ Push \/ NotifyOne \/ EndEnqueue \/ Get \/ Verify
  \/ SetStop \/ NotifyAll \/ Join

WorkerStep(w) ==
  \/ WorkerAcquire(w) \/ FindNothing(w) \/ Sleep(w) \/ Exit(w) \/ Pop(w)
  \/ Run(w) \/ Publish(w)

Next ==
  \/ MainStep
  \/ \E w \in Workers : WorkerStep(w) \/ WakeUp(w)
  \/ Done

\* The operating system runs every thread that is not blocked.  Nothing obliges
\* a sleeper to wake up without a notification.
Fairness == WF_vars(MainStep) /\ \A w \in Workers : WF_vars(WorkerStep(w))

Spec == Init /\ [][Next]_vars /\ Fairness

-----------------------------------------------------------------------------
(* Properties. *)

\* The variables keep their types: in particular the queue holds only files,
\* and at most one thread owns queueMutex.
TypeOK ==
  /\ lock \in {NoOwner, Main} \cup Workers
  /\ waiting \subseteq Workers
  /\ tasks \in Seq(Files)
  /\ stop \in BOOLEAN
  /\ wpc \in [Workers -> {"unborn", "acquire", "evaluate", "sleep", "run",
                          "publish", "exited"}]
  /\ task \in [Workers -> Files \cup {NoTask}]
  /\ mpc \in {"spawn", "enqueue", "push", "notify_one", "get", "verify",
              "destroy", "set_stop", "notify_all", "join", "done"}
  /\ i \in Nat \ {0}
  /\ ready \subseteq Files
  /\ success_count \in Nat
  /\ failed \subseteq Files
  /\ warned \in BOOLEAN
  /\ started \in Seq(Files)
  /\ spurious \in 0..MaxSpurious

Holding(w) == wpc[w] \in {"run", "publish"}
Held       == {task[w] : w \in {v \in Workers : Holding(v)}}
Elements(s) == {s[k] : k \in DOMAIN s}

\* Tasks leave the queue in the order enqueue received them, and none is popped
\* twice or skipped, whichever workers race for the mutex.
SubmissionOrder ==
  LET order == started \o tasks
  IN  \A k \in DOMAIN order : order[k] = k

\* A popped task is with exactly one worker until its future is ready, and it is
\* never back: two workers cannot have moved the same function out of the queue.
OneHolder ==
  /\ Elements(started) = Held \cup ready
  /\ Held \cap ready = {}
  /\ \A v, w \in Workers : Holding(v) /\ Holding(w) /\ task[v] = task[w] => v = w

\* The locals of measure_time that a task refers to, success_count first of all,
\* are destroyed before the pool is: no worker may still have a task, running or
\* queued, when measure_time reaches the end of its scope, and no worker may
\* still be alive when the pool's mutex and queue go away.
NothingDangles ==
  /\ mpc \in {"destroy", "set_stop", "notify_all", "join", "done"} =>
       ready = Files /\ tasks = <<>> /\ Held = {}
  /\ mpc = "done" => /\ \A w \in Workers : wpc[w] = "exited"
                     /\ lock = NoOwner

\* measure_time warns exactly when some task reported a file it could not open:
\* the relaxed increments are all visible once the futures have been collected.
WarningIsExact ==
  mpc \in {"destroy", "set_stop", "notify_all", "join", "done"} =>
    warned = (failed # {})

\* No wakeup is lost although notify_one is called after the mutex is released:
\* each queued task is matched by a worker that is awake or by the notification
\* that is about to be sent, up to the number of workers.
WorkConserving ==
  mpc # "spawn" =>
    LET awake   == Workers \ waiting
        pending == IF mpc = "notify_one" THEN 1 ELSE 0
    IN  \/ Cardinality(awake) + pending >= Len(tasks)
        \/ awake = Workers

\* measure_time returns: no task, future or join is waited for in vain.
Termination == <>(mpc = "done")

\* The pool implements the executor that its client relies on.
Executor == INSTANCE TaskExecutor WITH
  Tasks     <- Files,
  Capacity  <- NumThreads,
  queued    <- tasks,
  running   <- Held,
  completed <- ready,
  open      <- ~stop,
  alive     <- (mpc # "done")

ImplementsExecutor == Executor!Spec
-----------------------------------------------------------------------------
(* The inductive invariant behind the safety properties. *)

\* queueMutex is owned exactly by the thread that is between its lock and its
\* unlock, and only a worker that let go of it sleeps.
LockInv ==
  /\ \A w \in Workers : lock = w <=> wpc[w] \in {"evaluate", "sleep"}
  /\ lock = Main <=> mpc \in {"push", "set_stop"}
  /\ \A w \in waiting : wpc[w] = "acquire"

\* The number of tasks enqueue has put in the queue so far.
Submitted ==
  CASE mpc = "spawn"               -> 0
    [] mpc \in {"enqueue", "push"} -> i - 1
    [] mpc = "notify_one"          -> i
    [] OTHER                       -> TotalFiles

\* The popped tasks are 1..k and the queue holds the next ones, up to Submitted.
QueueInv ==
  /\ Len(started) + Len(tasks) = Submitted
  /\ \A k \in 1..Len(started) : started[k] = k
  /\ \A k \in 1..Len(tasks) : tasks[k] = Len(started) + k

\* Each popped task is with one worker or its future is ready, never both.
HoldInv ==
  /\ ready \subseteq 1..Len(started)
  /\ \A w \in Workers : Holding(w) => task[w] \in (1..Len(started)) \ ready
  /\ \A v, w \in Workers : Holding(v) /\ Holding(w) /\ task[v] = task[w] => v = w
  /\ \A t \in (1..Len(started)) \ ready :
       \E w \in Workers : Holding(w) /\ task[w] = t

\* What the main thread knows at each point of measure_time.
MainInv ==
  /\ mpc = "spawn" => /\ i \in 1..(NumThreads + 1)
                      /\ \A w \in i..NumThreads : wpc[w] = "unborn"
  /\ mpc = "enqueue" => i \in 1..(TotalFiles + 1)
  /\ mpc \in {"push", "notify_one"} => i \in Files
  /\ mpc = "get" => i \in 1..(TotalFiles + 1) /\ 1..(i - 1) \subseteq ready
  /\ mpc \in {"verify", "destroy", "set_stop", "notify_all", "join", "done"} =>
       ready = Files
  /\ mpc = "join" => /\ i \in 1..(NumThreads + 1)
                     /\ \A w \in 1..(i - 1) : wpc[w] = "exited"
  /\ mpc = "done" => \A w \in Workers : wpc[w] = "exited"
  /\ stop <=> mpc \in {"notify_all", "join", "done"}

IInv == TypeOK /\ LockInv /\ QueueInv /\ HoldInv /\ MainInv

\* What WorkConserving needs besides: a worker on its way to sleep still has the
\* mutex under which it found the queue empty.
SleepInv == \A w \in Workers : wpc[w] = "sleep" => tasks = <<>>

\* What WarningIsExact needs besides: the tasks whose body has run have been
\* counted or reported, each once.
Ran == ready \cup {task[w] : w \in {v \in Workers : wpc[v] = "publish"}}

CountInv ==
  /\ failed \subseteq Ran
  /\ success_count = Cardinality(Ran \ failed)
  /\ mpc \in {"destroy", "set_stop", "notify_all", "join", "done"} =>
       warned = (success_count # TotalFiles)
=============================================================================
