------------------------------ MODULE Monitor ------------------------------
(***************************************************************************)
(* A std::mutex together with the std::condition_variable used with it.    *)
(* Neither is defined in this repository; the operators below are what the *)
(* programs of 2025/03/01 and 2020/06/10 rely on:                          *)
(*   - the mutex has at most one owner and blocks the others;              *)
(*   - wait releases the mutex and goes to sleep in one step, and a        *)
(*     notification is lost when nobody sleeps;                            *)
(*   - notify_one wakes some sleeper, whichever it is;                     *)
(*   - a sleeper may also wake up without any notification.                *)
(* A thread that was woken up has to acquire the mutex again.              *)
(***************************************************************************)

CONSTANT NoOwner     \* the value of lock while the mutex is free

VARIABLES lock,      \* the thread that owns the mutex, or NoOwner
          waiting    \* the threads asleep on the condition variable

Acquire(t) ==
  /\ lock = NoOwner
  /\ t \notin waiting
  /\ lock' = t
  /\ UNCHANGED waiting

Release(t) ==
  /\ lock = t
  /\ lock' = NoOwner
  /\ UNCHANGED waiting

\* The second half of condition_variable::wait: release and sleep atomically.
Wait(t) ==
  /\ lock = t
  /\ lock' = NoOwner
  /\ waiting' = waiting \cup {t}

NotifyOne ==
  /\ IF waiting = {} THEN UNCHANGED waiting
     ELSE \E t \in waiting : waiting' = waiting \ {t}
  /\ UNCHANGED lock

NotifyAll ==
  /\ waiting' = {}
  /\ UNCHANGED lock

\* A spurious wakeup, which the C++ standard allows at any time.
WakeSpuriously(t) ==
  /\ t \in waiting
  /\ waiting' = waiting \ {t}
  /\ UNCHANGED lock
=============================================================================
