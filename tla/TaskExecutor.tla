---------------------------- MODULE TaskExecutor ----------------------------
(***************************************************************************)
(* What a pool of threads promises to the code that submits tasks to it,   *)
(* whatever mutexes, condition variables and threads it is made of: tasks  *)
(* are started in the order of submission, each of them once, at most      *)
(* Capacity at a time; a stopped executor takes no more tasks but runs     *)
(* those it has; and it is gone only when every task has completed.        *)
(***************************************************************************)
EXTENDS Naturals, Sequences, FiniteSets

CONSTANTS Tasks,      \* the tasks that may be submitted
          Capacity    \* how many of them may run at the same time

VARIABLES queued,     \* the tasks submitted and not started, oldest first
          running,    \* the tasks started and not completed
          completed,  \* the tasks whose results are available
          open,       \* the executor accepts tasks
          alive       \* the executor exists

vars == <<queued, running, completed, open, alive>>

Known == {queued[k] : k \in DOMAIN queued} \cup running \cup completed

Init ==
  /\ queued = <<>>
  /\ running = {}
  /\ completed = {}
  /\ open = TRUE
  /\ alive = TRUE

Submit(t) ==
  /\ open
  /\ t \notin Known
  /\ queued' = Append(queued, t)
  /\ UNCHANGED <<running, completed, open, alive>>

Start ==
  /\ alive
  /\ queued # <<>>
  /\ Cardinality(running) < Capacity
  /\ running' = running \cup {Head(queued)}
  /\ queued' = Tail(queued)
  /\ UNCHANGED <<completed, open, alive>>

Complete(t) ==
  /\ t \in running
  /\ running' = running \ {t}
  /\ completed' = completed \cup {t}
  /\ UNCHANGED <<queued, open, alive>>

Stop ==
  /\ open
  /\ open' = FALSE
  /\ UNCHANGED <<queued, running, completed, alive>>

Vanish ==
  /\ alive /\ ~open
  /\ queued = <<>> /\ running = {}
  /\ alive' = FALSE
  /\ UNCHANGED <<queued, running, completed, open>>

Next ==
  \/ \E t \in Tasks : Submit(t) \/ Complete(t)
  \/ Start \/ Stop \/ Vanish

Spec == Init /\ [][Next]_vars

=============================================================================
