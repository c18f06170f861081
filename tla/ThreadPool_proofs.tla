-------------------------- MODULE ThreadPool_proofs --------------------------
(***************************************************************************)
(* Theorems about ThreadPool for every number of threads, of files and of  *)
(* spurious wakeups.  IInv is inductive: each step of the next-state       *)
(* relation preserves TypeOK by itself, and the other four parts given the *)
(* types before and after the step.                                        *)
(***************************************************************************)
EXTENDS ThreadPool, SequenceTheorems, FiniteSetTheorems, TLAPS

USE ThreadPoolAssumption DEF Main, Workers, Files, NoOwner, results, history,
  Emplace, Front, Popped, Credit, Ready, AnnounceTask, AnnounceStop

\* A task a worker has taken out of the queue is a file.
LEMMA HeldIsFile ==
  ASSUME TypeOK, QueueInv, HoldInv, NEW w \in Workers, Holding(w)
  PROVE  task[w] \in Files
<1>1. task[w] \in 1..Len(started) /\ started \in Seq(Files)
  BY DEF HoldInv, TypeOK
<1>2. started[task[w]] \in Files
  BY <1>1, ElementOfSeq
<1> QED
  BY <1>1, <1>2 DEF QueueInv

LEMMA InitIInv == Init => IInv
<1> SUFFICES ASSUME Init PROVE IInv
  OBVIOUS
<1>1. TypeOK
  <2>1. <<>> \in Seq(Files)
    BY EmptySeq
  <2>2. wpc \in [Workers -> {"unborn", "acquire", "evaluate", "sleep", "run",
                            "publish", "exited"}]
    BY DEF Init
  <2>3. task \in [Workers -> Files \cup {NoTask}]
    BY DEF Init
  <2>4. /\ lock \in {NoOwner, Main} \cup Workers
        /\ waiting \subseteq Workers
        /\ ready \subseteq Files
        /\ failed \subseteq Files
    BY DEF Init
  <2>5. /\ i \in Nat \ {0}
        /\ success_count \in Nat
        /\ spurious \in 0..MaxSpurious
    BY DEF Init
  <2>6. tasks \in Seq(Files) /\ started \in Seq(Files)
    BY <2>1 DEF Init
  <2>7. mpc = "spawn" /\ stop = FALSE /\ warned = FALSE
    BY DEF Init
  <2> QED
    BY <2>2, <2>3, <2>4, <2>5, <2>6, <2>7 DEF TypeOK
<1>2. LockInv /\ QueueInv /\ HoldInv /\ MainInv
  BY DEF Init, LockInv, QueueInv, HoldInv, MainInv, Submitted, Holding
<1> QED
  BY <1>1, <1>2 DEF IInv

\* What the body of a task does to the count and to the reports.
LEMMA RunResults ==
  ASSUME NEW F, NEW f \in F, NEW opened \in BOOLEAN,
         NEW count \in Nat, NEW reports \in SUBSET F
  PROVE  /\ count + Credit(opened) \in Nat
         /\ reports \cup (IF opened THEN {} ELSE {f}) \subseteq F
<1>1. Credit(opened) \in Nat
  BY DEF Credit
<1>2. (IF opened THEN {} ELSE {f}) \subseteq F
  OBVIOUS
<1> QED
  BY <1>1, <1>2

LEMMA TypeStep == IInv /\ [Next]_vars => TypeOK'
<1> SUFFICES ASSUME IInv, [Next]_vars PROVE TypeOK'
  OBVIOUS
<1> USE DEF TypeOK, IInv
<1>1. CASE Spawn
  BY <1>1 DEF Spawn, pool
<1>2. CASE MainAcquire
  BY <1>2 DEF MainAcquire, Mutex!Acquire
<1>3. CASE Push
  BY <1>3 DEF Push, Mutex!Release, MainInv
<1>4. CASE NotifyOne
  <2>1. waiting' \subseteq Workers /\ lock' = lock
    BY <1>4 DEF NotifyOne, Mutex!NotifyOne
  <2> QED
    BY <1>4, <2>1 DEF NotifyOne
<1>5. CASE EndEnqueue
  BY <1>5 DEF EndEnqueue, pool
<1>6. CASE Get
  BY <1>6 DEF Get, pool
<1>7. CASE Verify
  BY <1>7 DEF Verify, pool
<1>8. CASE SetStop
  BY <1>8 DEF SetStop, Mutex!Release
<1>9. CASE NotifyAll
  BY <1>9 DEF NotifyAll, Mutex!NotifyAll
<1>10. CASE Join
  BY <1>10 DEF Join, pool
<1>11. ASSUME NEW w \in Workers, WorkerAcquire(w) PROVE TypeOK'
  BY <1>11 DEF WorkerAcquire, Mutex!Acquire, Goto
<1>12. ASSUME NEW w \in Workers, FindNothing(w) PROVE TypeOK'
  BY <1>12 DEF FindNothing, Goto, pool
<1>13. ASSUME NEW w \in Workers, Sleep(w) PROVE TypeOK'
  BY <1>13 DEF Sleep, Mutex!Wait, Goto
<1>14. ASSUME NEW w \in Workers, Exit(w) PROVE TypeOK'
  BY <1>14 DEF Exit, Mutex!Release, Goto
<1>15. ASSUME NEW w \in Workers, Pop(w) PROVE TypeOK'
  <2>1. /\ Head(tasks) \in Files
        /\ Tail(tasks) \in Seq(Files)
    BY <1>15, HeadTailProperties DEF Pop
  <2>2. Append(started, Head(tasks)) \in Seq(Files)
    BY <2>1
  <2> QED
    BY <1>15, <2>1, <2>2 DEF Pop, Mutex!Release, Goto
<1>16. ASSUME NEW w \in Workers, Run(w) PROVE TypeOK'
  <2>1. task[w] \in Files
    BY <1>16, HeldIsFile DEF Run, Holding
  <2>2. PICK opened \in BOOLEAN :
          /\ success_count' = success_count + Credit(opened)
          /\ failed' = failed \cup (IF opened THEN {} ELSE {task[w]})
    BY <1>16 DEF Run
  <2>3. success_count' \in Nat /\ failed' \subseteq Files
    BY <2>1, <2>2, RunResults
  <2> QED
    BY <1>16, <2>3 DEF Run, Goto, pool
<1>17. ASSUME NEW w \in Workers, Publish(w) PROVE TypeOK'
  <2>1. task[w] \in Files
    BY <1>17, HeldIsFile DEF Publish, Holding
  <2> QED
    BY <1>17, <2>1 DEF Publish, Goto, pool
<1>18. ASSUME NEW w \in Workers, WakeUp(w) PROVE TypeOK'
  BY <1>18 DEF WakeUp, Mutex!WakeSpuriously
<1>19. CASE vars' = vars
  BY <1>19 DEF vars, pool
<1> QED
  BY <1>1, <1>2, <1>3, <1>4, <1>5, <1>6, <1>7, <1>8, <1>9, <1>10, <1>11,
     <1>12, <1>13, <1>14, <1>15, <1>16, <1>17, <1>18, <1>19
  DEF Next, MainStep, WorkerStep, Done
LEMMA LockStep == IInv /\ TypeOK' /\ [Next]_vars => LockInv'
<1> SUFFICES ASSUME IInv, TypeOK', [Next]_vars PROVE LockInv'
  OBVIOUS
<1> USE DEF TypeOK, IInv, LockInv, MainInv
<1>1. CASE Spawn
  BY <1>1 DEF Spawn, pool
<1>2. CASE MainAcquire
  BY <1>2 DEF MainAcquire, Mutex!Acquire
<1>3. CASE Push
  BY <1>3 DEF Push, Mutex!Release
<1>4. CASE NotifyOne
  BY <1>4 DEF NotifyOne, Mutex!NotifyOne
<1>5. CASE EndEnqueue
  BY <1>5 DEF EndEnqueue, pool
<1>6. CASE Get
  BY <1>6 DEF Get, pool
<1>7. CASE Verify
  BY <1>7 DEF Verify, pool
<1>8. CASE SetStop
  BY <1>8 DEF SetStop, Mutex!Release
<1>9. CASE NotifyAll
  BY <1>9 DEF NotifyAll, Mutex!NotifyAll
<1>10. CASE Join
  BY <1>10 DEF Join, pool
<1>11. ASSUME NEW w \in Workers, WorkerAcquire(w) PROVE LockInv'
  BY <1>11 DEF WorkerAcquire, Mutex!Acquire, Goto
<1>12. ASSUME NEW w \in Workers, FindNothing(w) PROVE LockInv'
  BY <1>12 DEF FindNothing, Goto, pool
<1>13. ASSUME NEW w \in Workers, Sleep(w) PROVE LockInv'
  BY <1>13 DEF Sleep, Mutex!Wait, Goto
<1>14. ASSUME NEW w \in Workers, Exit(w) PROVE LockInv'
  BY <1>14 DEF Exit, Mutex!Release, Goto
<1>15. ASSUME NEW w \in Workers, Pop(w) PROVE LockInv'
  BY <1>15 DEF Pop, Mutex!Release, Goto
<1>16. ASSUME NEW w \in Workers, Run(w) PROVE LockInv'
  BY <1>16 DEF Run, Goto, pool
<1>17. ASSUME NEW w \in Workers, Publish(w) PROVE LockInv'
  BY <1>17 DEF Publish, Goto, pool
<1>18. ASSUME NEW w \in Workers, WakeUp(w) PROVE LockInv'
  BY <1>18 DEF WakeUp, Mutex!WakeSpuriously
<1>19. CASE vars' = vars
  BY <1>19 DEF vars, pool
<1> QED
  BY <1>1, <1>2, <1>3, <1>4, <1>5, <1>6, <1>7, <1>8, <1>9, <1>10, <1>11,
     <1>12, <1>13, <1>14, <1>15, <1>16, <1>17, <1>18, <1>19
  DEF Next, MainStep, WorkerStep, Done

\* Moving the head of the queue to the history keeps both intervals.
LEMMA PopInterval ==
  ASSUME NEW S, NEW q \in Seq(S), NEW h \in Seq(S), q # <<>>,
         \A k \in 1..Len(h) : h[k] = k,
         \A k \in 1..Len(q) : q[k] = Len(h) + k
  PROVE  /\ Head(q) = Len(h) + 1
         /\ Len(Append(h, Head(q))) = Len(h) + 1
         /\ Len(Tail(q)) = Len(q) - 1
         /\ \A k \in 1..(Len(h) + 1) : Append(h, Head(q))[k] = k
         /\ \A k \in 1..(Len(q) - 1) : Tail(q)[k] = Len(h) + 1 + k
<1>1. Len(q) \in Nat \ {0} /\ Len(h) \in Nat
  BY EmptySeq, LenProperties
<1>2. /\ Head(q) = q[1] /\ Head(q) \in S
      /\ Len(Tail(q)) = Len(q) - 1
      /\ \A k \in 1..Len(Tail(q)) : Tail(q)[k] = q[k + 1]
  BY HeadTailProperties
<1>3. Head(q) = Len(h) + 1
  BY <1>1, <1>2
<1>4. /\ Len(Append(h, Head(q))) = Len(h) + 1
      /\ Append(h, Head(q))[Len(h) + 1] = Head(q)
      /\ \A k \in 1..Len(h) : Append(h, Head(q))[k] = h[k]
  BY <1>2, AppendProperties
<1>5. \A k \in 1..(Len(h) + 1) : Append(h, Head(q))[k] = k
  BY <1>1, <1>3, <1>4
<1>6. ASSUME NEW k \in 1..(Len(q) - 1) PROVE Tail(q)[k] = Len(h) + 1 + k
  <2>1. k \in 1..Len(Tail(q)) /\ k + 1 \in 1..Len(q)
    BY <1>1, <1>2
  <2>2. Tail(q)[k] = q[k + 1]
    BY <1>2, <2>1
  <2>3. q[k + 1] = Len(h) + (k + 1)
    BY <2>1
  <2> QED
    BY <1>1, <2>2, <2>3
<1> QED
  BY <1>2, <1>3, <1>4, <1>5, <1>6

LEMMA QueueStep == IInv /\ TypeOK' /\ [Next]_vars => QueueInv'
<1> SUFFICES ASSUME IInv, TypeOK', [Next]_vars PROVE QueueInv'
  OBVIOUS
<1> USE DEF TypeOK, IInv, QueueInv, Submitted
<1>1. CASE Spawn
  BY <1>1 DEF Spawn, pool
<1>2. CASE MainAcquire
  BY <1>2 DEF MainAcquire, Mutex!Acquire
<1>3. CASE Push
  <2>1. tasks' = Append(tasks, i) /\ tasks \in Seq(Files) /\ i \in Files
    BY <1>3 DEF Push, MainInv
  <2>2. UNCHANGED <<started, i>> /\ Submitted = i - 1 /\ Submitted' = i
    BY <1>3 DEF Push
  <2>3. Len(started) \in Nat /\ Len(tasks) \in Nat
    BY LenProperties
  <2> HIDE DEF Submitted, TypeOK
  <2>4. i = Len(started) + Len(tasks) + 1
    BY <2>1, <2>2, <2>3
  <2> DEFINE q == Append(tasks, i)
  <2>5. /\ Len(q) = Len(tasks) + 1
        /\ q[Len(tasks) + 1] = i
        /\ \A k \in 1..Len(tasks) : q[k] = tasks[k]
    BY <2>1, AppendProperties
  <2>6. \A k \in 1..Len(tasks) : tasks[k] = Len(started) + k
    OBVIOUS
  <2> HIDE DEF q
  <2>7. \A k \in 1..Len(q) : q[k] = Len(started) + k
    BY ONLY <2>3, <2>4, <2>5, <2>6
  <2>8. tasks' = q /\ started' = started
    BY <2>1, <2>2 DEF q
  <2>9. Len(started') + Len(tasks') = Submitted'
    BY ONLY <2>2, <2>3, <2>4, <2>5, <2>8
  <2> QED
    BY <2>7, <2>8, <2>9
<1>4. CASE NotifyOne
  BY <1>4 DEF NotifyOne, Mutex!NotifyOne
<1>5. CASE EndEnqueue
  BY <1>5 DEF EndEnqueue, pool, MainInv
<1>6. CASE Get
  BY <1>6 DEF Get, pool
<1>7. CASE Verify
  BY <1>7 DEF Verify, pool
<1>8. CASE SetStop
  BY <1>8 DEF SetStop, Mutex!Release
<1>9. CASE NotifyAll
  BY <1>9 DEF NotifyAll, Mutex!NotifyAll
<1>10. CASE Join
  BY <1>10 DEF Join, pool
<1>11. ASSUME NEW w \in Workers, WorkerAcquire(w) PROVE QueueInv'
  BY <1>11 DEF WorkerAcquire, Mutex!Acquire, Goto
<1>12. ASSUME NEW w \in Workers, FindNothing(w) PROVE QueueInv'
  BY <1>12 DEF FindNothing, Goto, pool
<1>13. ASSUME NEW w \in Workers, Sleep(w) PROVE QueueInv'
  BY <1>13 DEF Sleep, Mutex!Wait, Goto
<1>14. ASSUME NEW w \in Workers, Exit(w) PROVE QueueInv'
  BY <1>14 DEF Exit, Mutex!Release, Goto
<1>15. ASSUME NEW w \in Workers, Pop(w) PROVE QueueInv'
  <2>1. /\ tasks # <<>> /\ tasks \in Seq(Files) /\ started \in Seq(Files)
        /\ tasks' = Tail(tasks) /\ started' = Append(started, Head(tasks))
    BY <1>15 DEF Pop
  <2>2. Submitted' = Submitted
    BY <1>15 DEF Pop
  <2>3. Len(started) \in Nat /\ Len(tasks) \in Nat
    BY LenProperties
  <2> HIDE DEF Submitted, TypeOK
  <2> DEFINE h == Append(started, Head(tasks))
             q == Tail(tasks)
  <2>4. /\ Len(h) = Len(started) + 1
        /\ Len(q) = Len(tasks) - 1
        /\ \A k \in 1..(Len(started) + 1) : h[k] = k
        /\ \A k \in 1..(Len(tasks) - 1) : q[k] = Len(started) + 1 + k
    <3>1. /\ \A k \in 1..Len(started) : started[k] = k
          /\ \A k \in 1..Len(tasks) : tasks[k] = Len(started) + k
      OBVIOUS
    <3> QED
      BY ONLY <2>1, <3>1, PopInterval
  <2> HIDE DEF h, q
  <2>5. tasks' = q /\ started' = h
    BY <2>1 DEF h, q
  <2>6. Len(started') + Len(tasks') = Submitted'
    <3>1. Len(started) + Len(tasks) = Submitted
      OBVIOUS
    <3>2. Len(started') = Len(started) + 1 /\ Len(tasks') = Len(tasks) - 1
      BY <2>4, <2>5
    <3> QED
      BY ONLY <2>2, <2>3, <3>1, <3>2
  <2>7. \A k \in 1..Len(started') : started'[k] = k
    BY ONLY <2>4, <2>5
  <2>8. \A k \in 1..Len(tasks') : tasks'[k] = Len(started') + k
    BY ONLY <2>4, <2>5
  <2> QED
    BY <2>6, <2>7, <2>8
<1>16. ASSUME NEW w \in Workers, Run(w) PROVE QueueInv'
  BY <1>16 DEF Run, Goto, pool
<1>17. ASSUME NEW w \in Workers, Publish(w) PROVE QueueInv'
  BY <1>17 DEF Publish, Goto, pool
<1>18. ASSUME NEW w \in Workers, WakeUp(w) PROVE QueueInv'
  BY <1>18 DEF WakeUp, Mutex!WakeSpuriously
<1>19. CASE vars' = vars
  BY <1>19 DEF vars, pool
<1> QED
  BY <1>1, <1>2, <1>3, <1>4, <1>5, <1>6, <1>7, <1>8, <1>9, <1>10, <1>11,
     <1>12, <1>13, <1>14, <1>15, <1>16, <1>17, <1>18, <1>19
  DEF Next, MainStep, WorkerStep, Done

\* A step that leaves the tasks where they are preserves HoldInv.
LEMMA HoldUnchanged ==
  ASSUME HoldInv, UNCHANGED <<task, ready, started>>,
         \A w \in Workers : Holding(w)' <=> Holding(w)
  PROVE  HoldInv'
BY DEF HoldInv

LEMMA HoldStep == IInv /\ TypeOK' /\ [Next]_vars => HoldInv'
<1> SUFFICES ASSUME IInv, TypeOK', [Next]_vars PROVE HoldInv'
  OBVIOUS
<1> USE DEF TypeOK, IInv, Holding
<1>1. CASE Spawn
  <2>1. \A v \in Workers : Holding(v)' <=> Holding(v)
    BY <1>1 DEF Spawn, pool, MainInv
  <2> QED
    BY <1>1, <2>1, HoldUnchanged DEF Spawn
<1>2. CASE MainAcquire
  BY <1>2, HoldUnchanged DEF MainAcquire
<1>3. CASE Push
  BY <1>3, HoldUnchanged DEF Push
<1>4. CASE NotifyOne
  BY <1>4, HoldUnchanged DEF NotifyOne
<1>5. CASE EndEnqueue
  BY <1>5, HoldUnchanged DEF EndEnqueue
<1>6. CASE Get
  BY <1>6, HoldUnchanged DEF Get
<1>7. CASE Verify
  BY <1>7, HoldUnchanged DEF Verify
<1>8. CASE SetStop
  BY <1>8, HoldUnchanged DEF SetStop
<1>9. CASE NotifyAll
  BY <1>9, HoldUnchanged DEF NotifyAll
<1>10. CASE Join
  BY <1>10, HoldUnchanged DEF Join
<1>11. ASSUME NEW w \in Workers, WorkerAcquire(w) PROVE HoldInv'
  <2>1. \A v \in Workers : Holding(v)' <=> Holding(v)
    BY <1>11 DEF WorkerAcquire, Goto
  <2> QED
    BY <1>11, <2>1, HoldUnchanged DEF WorkerAcquire
<1>12. ASSUME NEW w \in Workers, FindNothing(w) PROVE HoldInv'
  <2>1. \A v \in Workers : Holding(v)' <=> Holding(v)
    BY <1>12 DEF FindNothing, Goto
  <2> QED
    BY <1>12, <2>1, HoldUnchanged DEF FindNothing
<1>13. ASSUME NEW w \in Workers, Sleep(w) PROVE HoldInv'
  <2>1. \A v \in Workers : Holding(v)' <=> Holding(v)
    BY <1>13 DEF Sleep, Goto
  <2> QED
    BY <1>13, <2>1, HoldUnchanged DEF Sleep
<1>14. ASSUME NEW w \in Workers, Exit(w) PROVE HoldInv'
  <2>1. \A v \in Workers : Holding(v)' <=> Holding(v)
    BY <1>14 DEF Exit, Goto
  <2> QED
    BY <1>14, <2>1, HoldUnchanged DEF Exit
<1>15. ASSUME NEW w \in Workers, Pop(w) PROVE HoldInv'
  <2> DEFINE t == Len(started) + 1
  <2>1. tasks # <<>> /\ tasks \in Seq(Files) /\ started \in Seq(Files)
    BY <1>15 DEF Pop
  <2>2. Len(started) \in Nat
    BY LenProperties
  <2>3. Head(tasks) = t /\ Len(Append(started, Head(tasks))) = t
    BY <2>1, PopInterval DEF QueueInv
  <2>4. Len(started') = t
    BY <1>15, <2>3 DEF Pop
  <2>5. /\ task' = [task EXCEPT ![w] = t]
        /\ ready' = ready
        /\ ~Holding(w)
        /\ \A v \in Workers : Holding(v)' <=> Holding(v) \/ v = w
    BY <1>15, <2>3 DEF Pop, Goto
  <2>6. task'[w] = t /\ \A v \in Workers \ {w} : task'[v] = task[v]
    BY <2>5
  <2> HIDE DEF Holding, TypeOK, IInv
  <2>7. HoldInv
    BY DEF IInv
  <2>8. ready' \subseteq 1..Len(started')
    BY <2>2, <2>4, <2>5, <2>7 DEF HoldInv
  <2>9. \A v \in Workers : Holding(v)' => task'[v] \in (1..Len(started')) \ ready'
    BY <2>2, <2>4, <2>5, <2>6, <2>7 DEF HoldInv
  <2>10. \A u, v \in Workers :
            Holding(u)' /\ Holding(v)' /\ task'[u] = task'[v] => u = v
    BY <2>2, <2>5, <2>6, <2>7 DEF HoldInv
  <2>11. \A x \in (1..Len(started')) \ ready' :
            \E v \in Workers : Holding(v)' /\ task'[v] = x
    BY <2>2, <2>4, <2>5, <2>6, <2>7 DEF HoldInv
  <2> QED
    BY <2>8, <2>9, <2>10, <2>11 DEF HoldInv
<1>16. ASSUME NEW w \in Workers, Run(w) PROVE HoldInv'
  <2>1. \A v \in Workers : Holding(v)' <=> Holding(v)
    BY <1>16 DEF Run, Goto
  <2> QED
    BY <1>16, <2>1, HoldUnchanged DEF Run
<1>17. ASSUME NEW w \in Workers, Publish(w) PROVE HoldInv'
  <2>1. /\ task' = [task EXCEPT ![w] = NoTask]
        /\ ready' = ready \cup {task[w]}
        /\ started' = started
        /\ Holding(w)
        /\ \A v \in Workers : Holding(v)' <=> Holding(v) /\ v # w
    BY <1>17 DEF Publish, Goto
  <2>2. \A v \in Workers \ {w} : task'[v] = task[v]
    BY <2>1
  <2> HIDE DEF Holding, TypeOK, IInv
  <2>3. HoldInv
    BY DEF IInv
  <2>4. ready' \subseteq 1..Len(started')
    BY <2>1, <2>3 DEF HoldInv
  <2>5. \A v \in Workers : Holding(v)' => task'[v] \in (1..Len(started')) \ ready'
    BY <2>1, <2>2, <2>3 DEF HoldInv
  <2>6. \A u, v \in Workers :
           Holding(u)' /\ Holding(v)' /\ task'[u] = task'[v] => u = v
    BY <2>1, <2>2, <2>3 DEF HoldInv
  <2>7. \A x \in (1..Len(started')) \ ready' :
           \E v \in Workers : Holding(v)' /\ task'[v] = x
    BY <2>1, <2>2, <2>3 DEF HoldInv
  <2> QED
    BY <2>4, <2>5, <2>6, <2>7 DEF HoldInv
<1>18. ASSUME NEW w \in Workers, WakeUp(w) PROVE HoldInv'
  BY <1>18, HoldUnchanged DEF WakeUp
<1>19. CASE vars' = vars
  BY <1>19, HoldUnchanged DEF vars, pool
<1> QED
  BY <1>1, <1>2, <1>3, <1>4, <1>5, <1>6, <1>7, <1>8, <1>9, <1>10, <1>11,
     <1>12, <1>13, <1>14, <1>15, <1>16, <1>17, <1>18, <1>19
  DEF Next, MainStep, WorkerStep, Done

LEMMA MainKnowledgeStep == IInv /\ TypeOK' /\ [Next]_vars => MainInv'
<1> SUFFICES ASSUME IInv, TypeOK', [Next]_vars PROVE MainInv'
  OBVIOUS
<1> USE DEF TypeOK, IInv, MainInv
<1>1. CASE Spawn
  <2>1. CASE i \in Workers
    BY <1>1, <2>1 DEF Spawn, pool
  <2>2. CASE i \notin Workers
    <3>1. mpc' = "enqueue" /\ i' = 1 /\ UNCHANGED <<stop, ready, wpc>>
      BY <1>1, <2>2 DEF Spawn, pool
    <3>2. ~stop
      BY <1>1 DEF Spawn
    <3> QED
      BY <3>1, <3>2
  <2> QED
    BY <2>1, <2>2
<1>2. CASE MainAcquire
  BY <1>2 DEF MainAcquire, Mutex!Acquire
<1>3. CASE Push
  BY <1>3 DEF Push, Mutex!Release
<1>4. CASE NotifyOne
  BY <1>4 DEF NotifyOne, Mutex!NotifyOne
<1>5. CASE EndEnqueue
  BY <1>5 DEF EndEnqueue, pool
<1>6. CASE Get
  <2>1. CASE i \in Files
    BY <1>6, <2>1 DEF Get, pool
  <2>2. CASE i \notin Files
    <3>1. i = TotalFiles + 1
      BY <1>6, <2>2 DEF Get
    <3>2. 1..(i - 1) \subseteq ready /\ ready \subseteq Files
      BY <1>6 DEF Get
    <3>3. \A f \in Files : f \in ready
      BY <3>1, <3>2
    <3>4. mpc' = "verify" /\ UNCHANGED <<ready, stop>> /\ ~stop
      BY <1>6, <2>2 DEF Get, pool
    <3>5. ready' = Files
      BY <3>2, <3>3, <3>4
    <3> QED
      BY <3>4, <3>5
  <2> QED
    BY <2>1, <2>2
<1>7. CASE Verify
  BY <1>7 DEF Verify, pool
<1>8. CASE SetStop
  BY <1>8 DEF SetStop, Mutex!Release
<1>9. CASE NotifyAll
  BY <1>9 DEF NotifyAll, Mutex!NotifyAll
<1>10. CASE Join
  <2>1. CASE i \in Workers
    BY <1>10, <2>1 DEF Join, pool
  <2>2. CASE i \notin Workers
    <3>1. i = NumThreads + 1
      BY <1>10, <2>2 DEF Join
    <3>2. \A w \in Workers : wpc[w] = "exited"
      BY <1>10, <3>1 DEF Join
    <3>3. mpc' = "done" /\ UNCHANGED <<ready, stop, wpc>> /\ stop
      BY <1>10, <2>2 DEF Join, pool
    <3>4. ready = Files
      BY <1>10 DEF Join
    <3> QED
      BY <3>2, <3>3, <3>4
  <2> QED
    BY <2>1, <2>2
<1>11. ASSUME NEW w \in Workers, WorkerAcquire(w) PROVE MainInv'
  BY <1>11 DEF WorkerAcquire, Mutex!Acquire, Goto
<1>12. ASSUME NEW w \in Workers, FindNothing(w) PROVE MainInv'
  BY <1>12 DEF FindNothing, Goto, pool
<1>13. ASSUME NEW w \in Workers, Sleep(w) PROVE MainInv'
  BY <1>13 DEF Sleep, Mutex!Wait, Goto
<1>14. ASSUME NEW w \in Workers, Exit(w) PROVE MainInv'
  BY <1>14 DEF Exit, Mutex!Release, Goto
<1>15. ASSUME NEW w \in Workers, Pop(w) PROVE MainInv'
  BY <1>15 DEF Pop, Mutex!Release, Goto
<1>16. ASSUME NEW w \in Workers, Run(w) PROVE MainInv'
  BY <1>16 DEF Run, Goto, pool
<1>17. ASSUME NEW w \in Workers, Publish(w) PROVE MainInv'
  BY <1>17 DEF Publish, Goto, pool
<1>18. ASSUME NEW w \in Workers, WakeUp(w) PROVE MainInv'
  BY <1>18 DEF WakeUp, Mutex!WakeSpuriously
<1>19. CASE vars' = vars
  BY <1>19 DEF vars, pool
<1> QED
  BY <1>1, <1>2, <1>3, <1>4, <1>5, <1>6, <1>7, <1>8, <1>9, <1>10, <1>11,
     <1>12, <1>13, <1>14, <1>15, <1>16, <1>17, <1>18, <1>19
  DEF Next, MainStep, WorkerStep, Done

-----------------------------------------------------------------------------
THEOREM Invariance == Spec => []IInv
<1>1. IInv /\ [Next]_vars => IInv'
  BY TypeStep, LockStep, QueueStep, HoldStep, MainKnowledgeStep DEF IInv
<1> QED
  BY InitIInv, <1>1, PTL DEF Spec

\* The variables of the pool keep their types, for every size.
THEOREM TypeCorrect == Spec => []TypeOK
<1>1. IInv => TypeOK
  BY DEF IInv
<1> QED
  BY <1>1, Invariance, PTL

\* Tasks are popped in the order of submission, none twice, none skipped.
THEOREM PoolIsFifo == Spec => []SubmissionOrder
<1>1. ASSUME IInv PROVE SubmissionOrder
  <2>1. tasks \in Seq(Files) /\ started \in Seq(Files)
    BY <1>1 DEF IInv, TypeOK
  <2> SUFFICES ASSUME NEW k \in DOMAIN (started \o tasks)
               PROVE  (started \o tasks)[k] = k
    BY DEF SubmissionOrder
  <2>2. /\ k \in 1..(Len(started) + Len(tasks))
        /\ (started \o tasks)[k] =
             IF k <= Len(started) THEN started[k] ELSE tasks[k - Len(started)]
    BY <2>1, ConcatProperties, LenProperties
  <2>3. Len(started) \in Nat /\ Len(tasks) \in Nat
    BY <2>1, LenProperties
  <2> QED
    BY <1>1, <2>2, <2>3 DEF IInv, QueueInv
<1> QED
  BY <1>1, Invariance, PTL

\* Every popped task has one owner until its future is ready.
THEOREM TasksRunOnce == Spec => []OneHolder
<1>1. ASSUME IInv PROVE OneHolder
  <2>1. started \in Seq(Files)
    BY <1>1 DEF IInv, TypeOK
  <2>2. Elements(started) = 1..Len(started)
    BY <1>1, <2>1, LenProperties DEF IInv, QueueInv, Elements
  <2> DEFINE N == 1..Len(started)
  <2>3. /\ ready \subseteq N
        /\ \A w \in Workers : Holding(w) => task[w] \in N \ ready
        /\ \A t \in N \ ready : \E w \in Workers : Holding(w) /\ task[w] = t
        /\ \A v, w \in Workers : Holding(v) /\ Holding(w) /\ task[v] = task[w] => v = w
    BY <1>1 DEF IInv, HoldInv
  <2> HIDE DEF N
  <2>4. N = Held \cup ready /\ Held \cap ready = {}
    BY <2>3 DEF Held
  <2> QED
    BY <2>2, <2>3, <2>4 DEF OneHolder, N
<1> QED
  BY <1>1, Invariance, PTL

\* Once every future is ready nothing is queued or held.
LEMMA AllIsDone ==
  ASSUME IInv, ready = Files,
         mpc \in {"verify", "destroy", "set_stop", "notify_all", "join", "done"}
  PROVE  tasks = <<>> /\ Held = {}
<1> USE DEF IInv
<1>1. tasks \in Seq(Files) /\ Len(tasks) \in Nat /\ Len(started) \in Nat
  BY LenProperties DEF TypeOK
<1>2. Submitted = TotalFiles
  BY DEF Submitted
<1>3. Len(started) >= TotalFiles
  BY <1>1 DEF HoldInv
<1>4. Len(tasks) = 0 /\ Len(started) = TotalFiles
  BY <1>1, <1>2, <1>3 DEF QueueInv
<1>5. tasks = <<>>
  BY <1>1, <1>4, EmptySeq
<1>6. Held = {}
  BY <1>4 DEF HoldInv, Held
<1> QED
  BY <1>5, <1>6

\* No worker can reach a local of measure_time, or a member of the pool, that
\* has been destroyed.
THEOREM LifetimesAreSafe == Spec => []NothingDangles
<1>1. ASSUME IInv PROVE NothingDangles
  <2> USE <1>1 DEF IInv
  <2>1. ASSUME mpc = "done"
        PROVE  (\A w \in Workers : wpc[w] = "exited") /\ lock = NoOwner
    <3>1. \A w \in Workers : wpc[w] = "exited"
      BY <2>1 DEF MainInv
    <3> QED
      BY <2>1, <3>1 DEF LockInv, TypeOK
  <2> QED
    BY <2>1, AllIsDone DEF NothingDangles, MainInv
<1> QED
  BY <1>1, Invariance, PTL

-----------------------------------------------------------------------------
(* WorkConserving: the number of workers that are awake. *)

LEMMA WorkersAreFinite ==
  /\ IsFiniteSet(Workers) /\ Cardinality(Workers) = NumThreads
  /\ \A S \in SUBSET Workers : /\ IsFiniteSet(S) /\ Cardinality(S) \in Nat
                               /\ Cardinality(S) <= NumThreads
<1>1. IsFiniteSet(Workers) /\ Cardinality(Workers) = NumThreads
  BY FS_Interval
<1>2. ASSUME NEW S \in SUBSET Workers
      PROVE  /\ IsFiniteSet(S) /\ Cardinality(S) \in Nat
             /\ Cardinality(S) <= NumThreads
  <2>1. IsFiniteSet(S) /\ Cardinality(S) <= Cardinality(Workers)
    BY <1>1, FS_Subset
  <2> QED
    BY <1>1, <2>1, FS_CardinalityType
<1> QED
  BY <1>1, <1>2

LEMMA SleepStep == IInv /\ SleepInv /\ [Next]_vars => SleepInv'
<1> SUFFICES ASSUME IInv, SleepInv, [Next]_vars PROVE SleepInv'
  OBVIOUS
<1> USE DEF SleepInv, IInv, TypeOK
<1>1. ASSUME UNCHANGED tasks,
             \A w \in Workers : wpc'[w] = "sleep" => wpc[w] = "sleep" \/ tasks = <<>>
      PROVE  SleepInv'
  BY <1>1
<1>2. CASE Push
  <2>1. \A w \in Workers : wpc[w] # "sleep"
    BY <1>2 DEF Push, LockInv, Mutex!Release
  <2> QED
    BY <1>2, <2>1 DEF Push
<1>3. ASSUME NEW w \in Workers, Pop(w) PROVE SleepInv'
  <2>1. \A v \in Workers : wpc[v] # "sleep"
    BY <1>3 DEF Pop
  <2> QED
    BY <1>3, <2>1 DEF Pop, Goto
<1>4. ASSUME NEW w \in Workers, WorkerStep(w) \/ WakeUp(w), ~Pop(w) PROVE SleepInv'
  BY <1>1, <1>4 DEF WorkerStep, WorkerAcquire, FindNothing, Sleep, Exit, Run,
    Publish, WakeUp, Goto, pool
<1>5. CASE MainStep /\ ~Push
  <2>1. UNCHANGED tasks
    BY <1>5 DEF MainStep, Spawn, MainAcquire, NotifyOne, EndEnqueue, Get, Verify,
      SetStop, NotifyAll, Join, pool
  <2>2. UNCHANGED wpc \/ (i \in Workers /\ wpc' = [wpc EXCEPT ![i] = "acquire"])
    BY <1>5 DEF MainStep, Spawn, MainAcquire, NotifyOne, EndEnqueue, Get, Verify,
      SetStop, NotifyAll, Join
  <2> QED
    BY <1>1, <2>1, <2>2
<1>6. CASE vars' = vars
  BY <1>1, <1>6 DEF vars, pool
<1> QED
  BY <1>2, <1>3, <1>4, <1>5, <1>6 DEF Next, Done

\* The names of the two quantities that WorkConserving compares with the queue.
Awake   == Workers \ waiting
Pending == IF mpc = "notify_one" THEN 1 ELSE 0

\* More workers awake or more notifications to come for no more tasks.
LEMMA AwakeGrows ==
  ASSUME WorkConserving, mpc # "spawn", mpc' # "spawn", waiting \subseteq Workers,
         tasks \in Seq(Files), tasks' \in Seq(Files),
         waiting' \subseteq waiting, Pending' >= Pending,
         Len(tasks') <= Len(tasks)
  PROVE  WorkConserving'
<1>1. Awake \subseteq Awake' /\ Awake' \in SUBSET Workers
  BY DEF Awake
<1>2. Cardinality(Awake) <= Cardinality(Awake') /\ Cardinality(Awake) \in Nat
      /\ Cardinality(Awake') \in Nat
  BY <1>1, WorkersAreFinite, FS_Subset
<1>3. Len(tasks) \in Nat /\ Len(tasks') \in Nat
  BY LenProperties
<1>4. Pending \in Nat /\ Pending' \in Nat
  BY DEF Pending
<1>5. Cardinality(Awake) + Pending >= Len(tasks) \/ Awake = Workers
  BY DEF WorkConserving, Awake, Pending
<1>6. Cardinality(Awake') + Pending' >= Len(tasks') \/ Awake' = Workers
  <2>1. CASE Awake = Workers
    BY <1>1, <2>1
  <2>2. CASE Cardinality(Awake) + Pending >= Len(tasks)
    BY <1>2, <1>3, <1>4, <2>2
  <2> QED
    BY <1>5, <2>1, <2>2
<1> QED
  BY <1>6 DEF WorkConserving, Awake, Pending

\* The notification that was pending wakes a sleeper, when there is one.
LEMMA NotifyOneConserves ==
  ASSUME IInv, WorkConserving, NotifyOne PROVE WorkConserving'
<1>1. /\ mpc = "notify_one" /\ mpc' = "enqueue" /\ tasks' = tasks
      /\ waiting \subseteq Workers /\ tasks \in Seq(Files)
  BY DEF NotifyOne, IInv, TypeOK
<1>2. CASE waiting = {}
  <2>1. Awake' = Workers
    BY <1>2 DEF NotifyOne, Mutex!NotifyOne, Awake
  <2> QED
    BY <2>1 DEF WorkConserving, Awake
<1>3. CASE waiting # {}
  <2>1. PICK w \in waiting : waiting' = waiting \ {w}
    BY <1>3 DEF NotifyOne, Mutex!NotifyOne
  <2>2. Awake' = Awake \cup {w} /\ w \notin Awake /\ Awake \in SUBSET Workers
    BY <1>1, <2>1 DEF Awake
  <2>3. Cardinality(Awake') = Cardinality(Awake) + 1 /\ Cardinality(Awake) \in Nat
    BY <2>2, WorkersAreFinite, FS_AddElement
  <2>4. Cardinality(Awake) + 1 >= Len(tasks) \/ Awake = Workers
    BY <1>1 DEF WorkConserving, Awake
  <2>5. Cardinality(Awake') + 0 >= Len(tasks')
    BY <1>1, <2>2, <2>3, <2>4, LenProperties
  <2> QED
    BY <1>1, <2>5 DEF WorkConserving, Awake
<1> QED
  BY <1>2, <1>3

LEMMA ConserveStep ==
  IInv /\ IInv' /\ SleepInv /\ WorkConserving /\ [Next]_vars => WorkConserving'
<1> SUFFICES ASSUME IInv, IInv', SleepInv, WorkConserving, [Next]_vars
             PROVE  WorkConserving'
  OBVIOUS
<1>0. /\ waiting \subseteq Workers /\ tasks \in Seq(Files) /\ tasks' \in Seq(Files)
      /\ Len(tasks) \in Nat /\ waiting' \subseteq Workers
  BY LenProperties DEF IInv, TypeOK
<1>1. ASSUME UNCHANGED tasks, waiting' \subseteq waiting,
             mpc' = "spawn" => mpc = "spawn",
             mpc = "notify_one" => mpc' = "notify_one",
             mpc # "spawn"
      PROVE  WorkConserving'
  BY <1>0, <1>1, AwakeGrows DEF Pending
\* As long as the queue is empty there is nothing to show.
<1>2. ASSUME tasks' = <<>> PROVE WorkConserving'
  <2>1. Awake' \in SUBSET Workers /\ Pending' \in Nat
    BY DEF Awake, Pending
  <2>2. Cardinality(Awake') \in Nat
    BY <2>1, WorkersAreFinite
  <2>3. Cardinality(Awake') + Pending' >= Len(tasks')
    BY <1>2, <2>1, <2>2, EmptySeq
  <2> QED
    BY <2>3 DEF WorkConserving, Awake, Pending
<1>3. ASSUME mpc = "spawn" PROVE tasks = <<>>
  <2>1. Len(started) \in Nat
    BY LenProperties DEF IInv, TypeOK
  <2>2. Len(tasks) = 0
    BY <1>0, <1>3, <2>1 DEF IInv, QueueInv, Submitted
  <2> QED
    BY <1>0, <2>2, EmptySeq
<1>4. CASE Spawn
  BY <1>2, <1>3, <1>4 DEF Spawn, pool
<1>5. CASE Push
  <2>1. /\ mpc = "push" /\ mpc' = "notify_one" /\ waiting' = waiting
        /\ tasks' = Append(tasks, i) /\ i \in Files
    BY <1>5 DEF Push, Mutex!Release, IInv, MainInv
  <2>2. Len(tasks') = Len(tasks) + 1
    BY <1>0, <2>1, AppendProperties
  <2>3. Awake' = Awake /\ Awake \in SUBSET Workers
    BY <2>1 DEF Awake
  <2>4. Cardinality(Awake) \in Nat
    BY <2>3, WorkersAreFinite
  <2>5. Cardinality(Awake) + 0 >= Len(tasks) \/ Awake = Workers
    BY <2>1 DEF WorkConserving, Awake
  <2>6. Cardinality(Awake') + 1 >= Len(tasks') \/ Awake' = Workers
    BY <1>0, <2>2, <2>3, <2>4, <2>5
  <2> QED
    BY <2>1, <2>6 DEF WorkConserving, Awake
<1>6. CASE NotifyOne
  BY <1>6, NotifyOneConserves
<1>7. CASE MainStep /\ ~Spawn /\ ~Push /\ ~NotifyOne
  BY <1>1, <1>7 DEF MainStep, MainAcquire, EndEnqueue, Get, Verify, SetStop,
    NotifyAll, Join, pool, Mutex!Acquire, Mutex!Release, Mutex!NotifyAll
<1>8. ASSUME NEW w \in Workers, Sleep(w) PROVE WorkConserving'
  BY <1>2, <1>8 DEF Sleep, SleepInv
<1>9. ASSUME NEW w \in Workers, Pop(w) PROVE WorkConserving'
  <2>1. /\ tasks # <<>> /\ tasks' = Tail(tasks) /\ UNCHANGED <<mpc, waiting>>
    BY <1>9 DEF Pop, Mutex!Release
  <2>2. Len(tasks') = Len(tasks) - 1
    BY <1>0, <2>1, HeadTailProperties
  <2>3. mpc # "spawn"
    BY <1>3, <2>1
  <2> QED
    BY <1>0, <2>1, <2>2, <2>3, AwakeGrows DEF Pending
<1>10. ASSUME NEW w \in Workers, WorkerStep(w) \/ WakeUp(w), ~Sleep(w), ~Pop(w)
       PROVE  WorkConserving'
  <2>1. UNCHANGED <<tasks, mpc>> /\ waiting' \subseteq waiting
    BY <1>10 DEF WorkerStep, WorkerAcquire, FindNothing, Exit, Run, Publish,
      WakeUp, pool, Mutex!Acquire, Mutex!Release, Mutex!WakeSpuriously
  <2> QED
    BY <1>1, <1>2, <1>3, <2>1
<1>11. CASE vars' = vars
  <2>1. UNCHANGED <<tasks, mpc, waiting>>
    BY <1>11 DEF vars, pool
  <2> QED
    BY <1>1, <1>2, <1>3, <2>1
<1> QED
  BY <1>4, <1>5, <1>6, <1>7, <1>8, <1>9, <1>10, <1>11 DEF Next, Done

\* No notification is lost, for any number of workers: a queued task has a worker
\* that is awake, or a notification to come, unless all workers are awake.
THEOREM NoTaskIsForgotten == Spec => []WorkConserving
<1>1. Init => SleepInv /\ WorkConserving
  BY DEF Init, SleepInv, WorkConserving
<1>2. IInv /\ SleepInv /\ WorkConserving /\ IInv' /\ [Next]_vars
        => SleepInv' /\ WorkConserving'
  BY SleepStep, ConserveStep
<1> QED
  BY <1>1, <1>2, Invariance, PTL DEF Spec

-----------------------------------------------------------------------------
(* WarningIsExact: the number of tasks that were counted. *)

LEMMA FilesAreFinite ==
  /\ IsFiniteSet(Files) /\ Cardinality(Files) = TotalFiles
  /\ \A S \in SUBSET Files : IsFiniteSet(S) /\ Cardinality(S) \in Nat
<1>1. IsFiniteSet(Files) /\ Cardinality(Files) = TotalFiles
  BY FS_Interval
<1>2. ASSUME NEW S \in SUBSET Files PROVE IsFiniteSet(S) /\ Cardinality(S) \in Nat
  BY <1>1, FS_Subset, FS_CardinalityType
<1> QED
  BY <1>1, <1>2

LEMMA RanAreFiles == ASSUME IInv PROVE Ran \in SUBSET Files
<1>1. \A w \in Workers : wpc[w] = "publish" => task[w] \in Files
  BY HeldIsFile DEF IInv, Holding
<1> QED
  BY <1>1 DEF IInv, TypeOK, Ran

\* A step that runs no task, publishes no future and warns of nothing.
LEMMA CountUnchanged ==
  ASSUME CountInv, UNCHANGED <<ready, success_count, failed>>,
         \A w \in Workers : /\ wpc'[w] = "publish" <=> wpc[w] = "publish"
                            /\ wpc[w] = "publish" => task'[w] = task[w],
         mpc' \in {"destroy", "set_stop", "notify_all", "join", "done"} =>
           warned' = (success_count # TotalFiles)
  PROVE  CountInv'
<1>1. Ran' = Ran
  BY DEF Ran
<1> QED
  BY <1>1 DEF CountInv

\* The body of a task counts its file or reports it, and has not done so before.
LEMMA RunCounts ==
  ASSUME IInv, CountInv, NEW w \in Workers, Run(w) PROVE CountInv'
<1>1. PICK f : f = task[w]
  OBVIOUS
<1>2. /\ wpc[w] = "run" /\ wpc' = [wpc EXCEPT ![w] = "publish"]
      /\ UNCHANGED <<task, mpc, ready, warned>>
  BY DEF Run, Goto
<1>3. f \in Files /\ f \notin ready
  BY <1>1, <1>2, HeldIsFile DEF IInv, HoldInv, Holding
<1>4. \A v \in Workers : wpc[v] = "publish" => task[v] # f
  BY <1>1, <1>2 DEF IInv, HoldInv, Holding
<1>5. f \notin Ran
  BY <1>3, <1>4 DEF Ran
<1>6. \A v \in Workers : wpc'[v] = "publish" <=> wpc[v] = "publish" \/ v = w
  BY <1>2 DEF IInv, TypeOK
<1>7. Ran' = Ran \cup {f}
  BY <1>1, <1>2, <1>6 DEF Ran
<1>8. mpc \notin {"destroy", "set_stop", "notify_all", "join", "done"}
  BY <1>1, <1>3 DEF IInv, MainInv
<1>9. Ran \ failed \in SUBSET Files /\ failed \subseteq Ran
  BY RanAreFiles DEF CountInv
<1>10. CASE success_count' = success_count + 1 /\ failed' = failed
  <2>1. Ran' \ failed' = (Ran \ failed) \cup {f} /\ f \notin Ran \ failed
    BY <1>5, <1>7, <1>9, <1>10
  <2>2. Cardinality(Ran' \ failed') = Cardinality(Ran \ failed) + 1
    BY <1>9, <2>1, FilesAreFinite, FS_AddElement
  <2> QED
    BY <1>2, <1>7, <1>8, <1>9, <1>10, <2>2 DEF CountInv
<1>11. CASE success_count' = success_count + 0 /\ failed' = failed \cup {f}
  <2>1. Ran' \ failed' = Ran \ failed
    BY <1>5, <1>7, <1>11
  <2>2. success_count' = success_count
    BY <1>11 DEF IInv, TypeOK
  <2> QED
    BY <1>2, <1>7, <1>8, <1>9, <1>11, <2>1, <2>2 DEF CountInv
<1> QED
  BY <1>1, <1>10, <1>11 DEF Run, Credit

\* The publication takes the task from its worker to the ready ones.
LEMMA PublishCounts ==
  ASSUME IInv, CountInv, NEW w \in Workers, Publish(w) PROVE CountInv'
<1>1. PICK f : f = task[w]
  OBVIOUS
<1>2. /\ wpc[w] = "publish" /\ ready' = ready \cup {f}
      /\ wpc' = [wpc EXCEPT ![w] = "acquire"]
      /\ task' = [task EXCEPT ![w] = NoTask]
      /\ UNCHANGED <<mpc, success_count, failed, warned>>
  BY <1>1 DEF Publish, Goto
<1>3. \A v \in Workers : v # w => wpc'[v] = wpc[v] /\ task'[v] = task[v]
  BY <1>2 DEF IInv, TypeOK
<1>4. wpc'[w] # "publish"
  BY <1>2 DEF IInv, TypeOK
<1>5. Ran' = Ran
  BY <1>1, <1>2, <1>3, <1>4 DEF Ran
<1> QED
  BY <1>2, <1>5 DEF CountInv

LEMMA CountStep == IInv /\ CountInv /\ [Next]_vars => CountInv'
<1> SUFFICES ASSUME IInv, CountInv, [Next]_vars PROVE CountInv'
  OBVIOUS
<1>0. wpc \in [Workers -> {"unborn", "acquire", "evaluate", "sleep", "run",
                           "publish", "exited"}]
      /\ task \in [Workers -> Files \cup {NoTask}]
  BY DEF IInv, TypeOK
<1>1. CASE Spawn
  <2>1. i \in Workers => wpc[i] = "unborn"
    BY <1>1 DEF Spawn, IInv, MainInv
  <2> QED
    BY <1>0, <1>1, <2>1, CountUnchanged DEF Spawn
<1>2. CASE Verify
  BY <1>2, CountUnchanged DEF Verify
<1>3. CASE MainStep /\ ~Spawn /\ ~Verify
  <2>1. UNCHANGED <<wpc, task, results>>
    BY <1>3 DEF MainStep, MainAcquire, Push, NotifyOne, EndEnqueue, Get, SetStop,
      NotifyAll, Join
  <2>2. mpc' \in {"destroy", "set_stop", "notify_all", "join", "done"} =>
          mpc \in {"destroy", "set_stop", "notify_all", "join", "done"}
    BY <1>3 DEF MainStep, MainAcquire, Push, NotifyOne, EndEnqueue, Get, SetStop,
      NotifyAll, Join
  <2> QED
    BY <2>1, <2>2, CountUnchanged DEF CountInv
<1>4. ASSUME NEW w \in Workers, Run(w) PROVE CountInv'
  BY <1>4, RunCounts
<1>5. ASSUME NEW w \in Workers, Publish(w) PROVE CountInv'
  BY <1>5, PublishCounts
<1>6. ASSUME NEW w \in Workers, WorkerStep(w) \/ WakeUp(w), ~Run(w), ~Publish(w)
      PROVE  CountInv'
  <2>1. UNCHANGED <<mpc, results>>
    BY <1>6 DEF WorkerStep, WorkerAcquire, FindNothing, Sleep, Exit, Pop, WakeUp
  <2>2. \A v \in Workers : /\ wpc'[v] = "publish" <=> wpc[v] = "publish"
                           /\ wpc[v] = "publish" => task'[v] = task[v]
    BY <1>0, <1>6 DEF WorkerStep, WorkerAcquire, FindNothing, Sleep, Exit, Pop,
      WakeUp, Goto
  <2> QED
    BY <2>1, <2>2, CountUnchanged DEF CountInv
<1>7. CASE vars' = vars
  BY <1>7, CountUnchanged DEF vars, CountInv
<1> QED
  BY <1>1, <1>2, <1>3, <1>4, <1>5, <1>6, <1>7 DEF Next, Done

\* The warning tells of a failure and of nothing else, for any number of files:
\* at the comparison every future is ready, so every body has run.
THEOREM WarningCorrect == Spec => []WarningIsExact
<1>1. IInv /\ CountInv => WarningIsExact
  <2> SUFFICES ASSUME IInv, CountInv,
                      mpc \in {"destroy", "set_stop", "notify_all", "join", "done"}
               PROVE  warned = (failed # {})
    BY DEF WarningIsExact
  <2>1. ready = Files
    BY DEF IInv, MainInv
  <2>2. Ran = Files
    BY <2>1, RanAreFiles DEF Ran
  <2>3. failed \in SUBSET Files /\ success_count = Cardinality(Files \ failed)
    BY <2>2 DEF CountInv
  <2>4. success_count = TotalFiles <=> failed = {}
    <3>1. Cardinality(Files) = Cardinality(Files \ failed) => Files = Files \ failed
      BY FilesAreFinite, FS_Subset
    <3> QED
      BY <2>3, <3>1, FilesAreFinite
  <2>5. warned = (success_count # TotalFiles) /\ warned \in BOOLEAN
    BY DEF CountInv, IInv, TypeOK
  <2> QED
    BY <2>4, <2>5
<1>2. Init => CountInv
  <2>1. ASSUME Init PROVE Ran = {}
    BY <2>1 DEF Init, Ran
  <2> QED
    BY <2>1, FS_EmptySet DEF Init, CountInv
<1>3. IInv /\ CountInv /\ [Next]_vars => CountInv'
  BY CountStep
<1> QED
  BY <1>1, <1>2, <1>3, Invariance, PTL DEF Spec

-----------------------------------------------------------------------------
(* ThreadPool implements TaskExecutor: the steps of the pool that a client  *)
(* can see are the steps of an executor, and the others are stutters.       *)

\* The tasks an executor knows are those that were submitted.
LEMMA KnownTasks ==
  ASSUME IInv PROVE Executor!Known = 1..Submitted
<1>1. Len(tasks) \in Nat /\ Len(started) \in Nat /\ DOMAIN tasks = 1..Len(tasks)
  BY LenProperties DEF IInv, TypeOK
<1>2. {tasks[k] : k \in DOMAIN tasks} = (Len(started) + 1)..(Len(started) + Len(tasks))
  <2>1. \A k \in 1..Len(tasks) : tasks[k] = Len(started) + k
    BY DEF IInv, QueueInv
  <2>2. ASSUME NEW t \in (Len(started) + 1)..(Len(started) + Len(tasks))
        PROVE  \E k \in 1..Len(tasks) : t = tasks[k]
    <3>1. t - Len(started) \in 1..Len(tasks)
      BY <1>1
    <3> QED
      BY <1>1, <2>1, <3>1
  <2>3. ASSUME NEW k \in 1..Len(tasks)
        PROVE  tasks[k] \in (Len(started) + 1)..(Len(started) + Len(tasks))
    BY <1>1, <2>1
  <2> QED
    BY <1>1, <2>2, <2>3
<1>3. Held \cup ready = 1..Len(started)
  <2> DEFINE N == 1..Len(started)
  <2>1. /\ ready \subseteq N
        /\ \A w \in Workers : Holding(w) => task[w] \in N \ ready
        /\ \A t \in N \ ready : \E w \in Workers : Holding(w) /\ task[w] = t
    BY DEF IInv, HoldInv
  <2> HIDE DEF N
  <2>2. Held \cup ready = N
    BY <2>1 DEF Held
  <2> QED
    BY <2>2 DEF N
<1>4. Len(started) + Len(tasks) = Submitted
  BY DEF IInv, QueueInv
<1> QED
  BY <1>1, <1>2, <1>3, <1>4 DEF Executor!Known

\* Two workers do not hold one task, so fewer tasks are held than there are
\* workers when one of the workers holds none.
LEMMA HeldIsSmall ==
  ASSUME IInv, NEW w \in Workers, ~Holding(w)
  PROVE  Cardinality(Held) < NumThreads
<1> DEFINE Others == Workers \ {w}
           holder == [t \in Held |-> CHOOSE v \in Workers : Holding(v) /\ task[v] = t]
<1>1. \A t \in Held : holder[t] \in Workers /\ Holding(holder[t]) /\ task[holder[t]] = t
  BY DEF Held
<1>2. holder \in [Held -> Others]
  BY <1>1
<1>3. \A s, t \in Held : holder[s] = holder[t] => s = t
  BY <1>1
<1>4. holder \in Injection(Held, Others)
  BY <1>2, <1>3, Zenon DEF Injection, IsInjective
<1>5. IsFiniteSet(Others) /\ Cardinality(Others) = NumThreads - 1
  <2> HIDE DEF Workers, holder
  <2>1. IsFiniteSet(Workers) /\ Cardinality(Workers) = NumThreads
    BY WorkersAreFinite
  <2> QED
    BY <2>1, FS_RemoveElement
<1>6. IsFiniteSet(Held) /\ Cardinality(Held) <= NumThreads - 1
  BY <1>4, <1>5, FS_Injection
<1> QED
  BY <1>6, FS_CardinalityType

\* A step that no client sees.
LEMMA HiddenStep ==
  ASSUME UNCHANGED <<tasks, ready, stop>>, mpc' = "done" <=> mpc = "done",
         \A w \in Workers : /\ Holding(w)' <=> Holding(w)
                            /\ Holding(w) => task'[w] = task[w]
  PROVE  UNCHANGED Executor!vars
<1>1. Held' = Held
  BY DEF Held
<1> QED
  BY <1>1 DEF Executor!vars

LEMMA PushSubmits == ASSUME IInv, Push PROVE Executor!Submit(i)
<1>1. /\ tasks' = Append(tasks, i) /\ ~stop /\ mpc = "push" /\ mpc' = "notify_one"
      /\ UNCHANGED <<stop, wpc, task, ready>>
  BY DEF Push
<1>2. i \notin Executor!Known
  BY <1>1, KnownTasks DEF Submitted, IInv, TypeOK
<1>3. Held' = Held
  BY <1>1 DEF Held, Holding
<1> QED
  BY <1>1, <1>2, <1>3 DEF Executor!Submit

LEMMA PopStarts ==
  ASSUME IInv, NEW w \in Workers, Pop(w) PROVE Executor!Start
<1>1. PICK t : t = Head(tasks)
  OBVIOUS
<1>2. /\ wpc[w] = "evaluate" /\ tasks # <<>> /\ tasks' = Tail(tasks)
      /\ task' = [task EXCEPT ![w] = t] /\ wpc' = [wpc EXCEPT ![w] = "run"]
      /\ UNCHANGED <<stop, mpc, ready>>
  BY <1>1 DEF Pop, Goto
<1>3. mpc # "done"
  BY <1>2 DEF IInv, MainInv
<1>4. ~Holding(w)
  BY <1>2 DEF Holding
<1>5. /\ task'[w] = t /\ Holding(w)'
      /\ \A v \in Workers : v # w => task'[v] = task[v] /\ (Holding(v)' <=> Holding(v))
  BY <1>2 DEF IInv, TypeOK, Holding
<1>6. Held' = Held \cup {t}
  BY <1>4, <1>5 DEF Held
<1>7. Cardinality(Held) < NumThreads
  BY <1>4, HeldIsSmall
<1>8. Held' = Held \cup {Head(tasks)}
  BY <1>1, <1>6
<1>9. (~stop)' = ~stop /\ (mpc # "done")' = (mpc # "done")
  BY <1>2
<1>10. Executor!Cardinality(Held) = Cardinality(Held)
  BY DEF Executor!Cardinality, Cardinality
<1>11. tasks # <<>> /\ tasks' = Tail(tasks) /\ UNCHANGED ready
  BY <1>2
<1> QED
  BY <1>3, <1>7, <1>8, <1>9, <1>10, <1>11, Zenon DEF Executor!Start

LEMMA PublishCompletes ==
  ASSUME IInv, NEW w \in Workers, Publish(w)
  PROVE  \E f \in Files : Executor!Complete(f)
<1>1. PICK f : f = task[w]
  OBVIOUS
<1>2. /\ wpc[w] = "publish" /\ ready' = ready \cup {f}
      /\ task' = [task EXCEPT ![w] = NoTask] /\ wpc' = [wpc EXCEPT ![w] = "acquire"]
      /\ UNCHANGED <<tasks, stop, mpc>>
  BY <1>1 DEF Publish, Goto, pool
<1>3. Holding(w) /\ f \in Files /\ f \in Held
  BY <1>1, <1>2, HeldIsFile DEF IInv, Holding, Held
<1>4. /\ ~Holding(w)'
      /\ \A v \in Workers : v # w => task'[v] = task[v] /\ (Holding(v)' <=> Holding(v))
  BY <1>2 DEF IInv, TypeOK, Holding
<1>5. \A v \in Workers : v # w /\ Holding(v) => task[v] # f
  BY <1>1, <1>3 DEF IInv, HoldInv
<1>6. Held' = Held \ {f}
  BY <1>1, <1>3, <1>4, <1>5 DEF Held
<1> QED
  BY <1>2, <1>3, <1>6 DEF Executor!Complete

LEMMA StepIsExecutorStep ==
  IInv /\ IInv' /\ [Next]_vars => [Executor!Next]_(Executor!vars)
<1> SUFFICES ASSUME IInv, IInv', [Next]_vars
             PROVE  Executor!Next \/ UNCHANGED Executor!vars
  OBVIOUS
<1>0. wpc \in [Workers -> {"unborn", "acquire", "evaluate", "sleep", "run",
                           "publish", "exited"}]
      /\ task \in [Workers -> Files \cup {NoTask}]
  BY DEF IInv, TypeOK
<1>1. CASE Spawn
  <2>1. i \in Workers => wpc[i] = "unborn"
    BY <1>1 DEF Spawn, IInv, MainInv
  <2>2. \A w \in Workers : Holding(w)' <=> Holding(w)
    BY <1>0, <1>1, <2>1 DEF Spawn, Holding
  <2> QED
    BY <1>1, <2>2, HiddenStep DEF Spawn, pool
<1>2. CASE Push
  <2>1. i \in Files
    BY <1>2 DEF Push, IInv, MainInv
  <2> QED
    BY <1>2, <2>1, PushSubmits DEF Executor!Next
<1>3. CASE SetStop
  <2>1. Held' = Held
    BY <1>3 DEF SetStop, Held, Holding
  <2>2. ~stop
    BY <1>3 DEF SetStop, IInv, MainInv
  <2>3. Executor!Stop
    BY <1>3, <2>1, <2>2 DEF SetStop, Executor!Stop
  <2> QED
    BY <2>3 DEF Executor!Next
<1>4. CASE Join
  <2>1. Held' = Held
    BY <1>4 DEF Join, Held, Holding
  <2>2. CASE mpc' = "done"
    <3>1. stop /\ tasks = <<>> /\ Held = {}
      BY <1>4, AllIsDone DEF Join, IInv, MainInv
    <3>2. Executor!Vanish
      BY <1>4, <2>1, <2>2, <3>1 DEF Join, pool, Executor!Vanish
    <3> QED
      BY <3>2 DEF Executor!Next
  <2>3. CASE mpc' # "done"
    BY <1>4, <2>1, <2>3 DEF Join, pool, Executor!vars
  <2> QED
    BY <2>2, <2>3
<1>5. CASE MainStep /\ ~Spawn /\ ~Push /\ ~SetStop /\ ~Join
  <2>1. UNCHANGED <<tasks, ready, stop, wpc, task>> /\ mpc' # "done" /\ mpc # "done"
    BY <1>5 DEF MainStep, MainAcquire, NotifyOne, EndEnqueue, Get, Verify,
      NotifyAll, pool
  <2> QED
    BY <2>1, HiddenStep DEF Holding
<1>6. ASSUME NEW w \in Workers, Pop(w) PROVE Executor!Next
  BY <1>6, PopStarts DEF Executor!Next
<1>7. ASSUME NEW w \in Workers, Publish(w) PROVE Executor!Next
  BY <1>7, PublishCompletes DEF Executor!Next
<1>8. ASSUME NEW w \in Workers, WorkerStep(w) \/ WakeUp(w), ~Pop(w), ~Publish(w)
      PROVE  UNCHANGED Executor!vars
  <2>1. UNCHANGED <<tasks, ready, stop, mpc, task>>
    BY <1>8 DEF WorkerStep, WorkerAcquire, FindNothing, Sleep, Exit, Run, WakeUp, pool
  <2>2. \A v \in Workers : Holding(v)' <=> Holding(v)
    BY <1>0, <1>8 DEF WorkerStep, WorkerAcquire, FindNothing, Sleep, Exit, Run,
      WakeUp, Goto, Holding
  <2> QED
    BY <2>1, <2>2, HiddenStep
<1>9. CASE vars' = vars
  BY <1>9, HiddenStep DEF vars, pool, Holding
<1> QED
  BY <1>1, <1>2, <1>3, <1>4, <1>5, <1>6, <1>7, <1>8, <1>9 DEF Next, Done

\* The pool is an executor, for any number of workers: what its client sees of
\* it, it could have seen of TaskExecutor.
THEOREM PoolIsExecutor == Spec => ImplementsExecutor
<1>1. Init => Executor!Init
  <2>1. ASSUME Init PROVE Held = {}
    BY <2>1 DEF Init, Held, Holding
  <2> QED
    BY <2>1 DEF Init, Executor!Init
<1>2. IInv /\ IInv' /\ [Next]_vars => [Executor!Next]_(Executor!vars)
  BY StepIsExecutorStep
<1> QED
  BY <1>1, <1>2, Invariance, PTL DEF Spec, ImplementsExecutor, Executor!Spec
=============================================================================
