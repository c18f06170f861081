---------------------------- MODULE MulticoreFasta ----------------------------
(***************************************************************************)
(* generate_And_Wrap_Pseudorandom_DNA_Sequence of                          *)
(* 2018/01/02/multicorefasta.c, called once for each random sequence: the  *)
(* threads of an OpenMP team take turns at the random numbers and turns at *)
(* the output, each under a lock of its own, and translate their blocks in *)
(* between.                                                                *)
(*                                                                         *)
(* A random number is its rank in the stream, and a letter is the number   *)
(* it was made from; seed is the rank of the last one.  A block is the     *)
(* interval of its letters.  A step is one access to what threads share; a *)
(* thread that finds it is not its turn releases the lock and tries again. *)
(***************************************************************************)
EXTENDS Integers, Sequences

CONSTANTS
  NumThreads,    \* tnum, the size of the team
  BlockSize,     \* CHARACTERS_PER_BLOCK
  Width,         \* MAXIMUM_LINE_WIDTH
  Lengths,       \* char_num of the successive calls
  MayFail        \* whether a write may fail

ASSUME MulticoreAssumption ==
  /\ NumThreads \in Nat \ {0}
  /\ BlockSize \in Nat \ {0}
  /\ Width \in Nat \ {0}
  /\ \E lines \in 1..BlockSize : BlockSize = lines * Width   \* LINES_PER_BLOCK
  /\ Lengths \in Seq(Nat)
  /\ MayFail \in BOOLEAN

Threads == 0..(NumThreads - 1)
Nobody  == -1
Calls   == 1..Len(Lengths)
NoBlock == [from |-> 1, to |-> 0]

VARIABLES
  call,                \* the current call
  mpc,                 \* whether it is in its parallel region
  rng_lock, rng_tid, rng_cnt, seed,
  out_lock, out_tid,
  pc,                  \* where each thread is
  block,               \* the letters each thread holds
  output,              \* the blocks that were written
  status               \* of the program: a write failed, exit(1) was called

main == <<call, mpc>>
rng  == <<rng_lock, rng_tid, rng_cnt, seed>>
out  == <<out_lock, out_tid, output, status>>
vars == <<main, rng, out, pc, block>>

Init ==
  /\ call = 1 /\ mpc = "call"
  /\ rng_lock = Nobody /\ rng_tid = 0 /\ rng_cnt = 0 /\ seed = 0
  /\ out_lock = Nobody /\ out_tid = 0
  /\ pc = [t \in Threads |-> "done"]
  /\ block = [t \in Threads |-> NoBlock]
  /\ output = <<>>
  /\ status = "ok"

Goto(t, label) == pc' = [pc EXCEPT ![t] = label]

\* Mutant: the turn comes back to the first thread one thread too late.
FollowerLate(t) == IF t + 1 > NumThreads THEN 0 ELSE t + 1

\* The thread whose turn it is after t.
Follower(t) == IF t + 1 >= NumThreads THEN 0 ELSE t + 1

-----------------------------------------------------------------------------
(* The thread that calls the function. *)

StartRegion ==
  /\ mpc = "call" /\ call \in Calls
  /\ rng_tid' = 0 /\ out_tid' = 0
  /\ rng_cnt' = Lengths[call]
  /\ pc' = [t \in Threads |-> "rng"]
  /\ mpc' = "region"
  /\ UNCHANGED <<call, rng_lock, seed, out_lock, output, status, block>>

\* The barrier at the end of the parallel region.
EndRegion ==
  /\ mpc = "region"
  /\ \A t \in Threads : pc[t] = "done"
  /\ mpc' = "call" /\ call' = call + 1
  /\ UNCHANGED <<rng, out, pc, block>>

-----------------------------------------------------------------------------
(* rng_gen_blk *)

LockRng(t) ==
  /\ pc[t] = "rng"
  /\ rng_lock = Nobody /\ rng_lock' = t
  /\ Goto(t, "rng_turn")
  /\ UNCHANGED <<main, rng_tid, rng_cnt, seed, out, block>>

MissRngTurn(t) ==
  /\ pc[t] = "rng_turn" /\ rng_tid # t
  /\ rng_lock' = Nobody
  /\ Goto(t, "rng")
  /\ UNCHANGED <<main, rng_tid, rng_cnt, seed, out, block>>

TakeRngTurn(t) ==
  /\ pc[t] = "rng_turn" /\ rng_tid = t
  /\ rng_tid' = Follower(t)
  /\ Goto(t, "draw")
  /\ UNCHANGED <<main, rng_lock, rng_cnt, seed, out, block>>

\* Mutant: only full blocks are drawn.
full_cnt == IF BlockSize <= rng_cnt THEN BlockSize ELSE 0

gen_cnt == IF BlockSize < rng_cnt THEN BlockSize ELSE rng_cnt

\* Draw a block, or leave the loop when everything was drawn.
Draw(t) ==
  /\ pc[t] = "draw"
  /\ rng_cnt' = rng_cnt - gen_cnt
  /\ seed' = seed + gen_cnt
  /\ block' = [block EXCEPT ![t] = [from |-> seed + 1, to |-> seed + gen_cnt]]
  /\ rng_lock' = Nobody
  /\ Goto(t, IF gen_cnt = 0 THEN "done" ELSE "out")
  /\ UNCHANGED <<main, rng_tid, out>>

-----------------------------------------------------------------------------
(* out_write *)

LockOut(t) ==
  /\ pc[t] = "out"
  /\ out_lock = Nobody /\ out_lock' = t
  /\ Goto(t, "out_turn")
  /\ UNCHANGED <<main, rng, out_tid, output, status, block>>

MissOutTurn(t) ==
  /\ pc[t] = "out_turn" /\ out_tid # t
  /\ out_lock' = Nobody
  /\ Goto(t, "out")
  /\ UNCHANGED <<main, rng, out_tid, output, status, block>>

\* Mutant: a block is written when it is ready.
TakeAnyOutTurn(t) ==
  /\ pc[t] = "out_turn"
  /\ out_tid' = Follower(out_tid)
  /\ Goto(t, "write")
  /\ UNCHANGED <<main, rng, out_lock, output, status, block>>

TakeOutTurn(t) ==
  /\ pc[t] = "out_turn" /\ out_tid = t
  /\ out_tid' = Follower(t)
  /\ Goto(t, "write")
  /\ UNCHANGED <<main, rng, out_lock, output, status, block>>

Write(t) ==
  /\ pc[t] = "write"
  /\ output' = Append(output, block[t])
  /\ out_lock' = Nobody
  /\ Goto(t, "rng")
  /\ UNCHANGED <<main, rng, out_tid, status, block>>

\* fwrite returns 0, which the thread finds after it released the lock.
FailWrite(t) ==
  /\ MayFail
  /\ pc[t] = "write"
  /\ status' = "failed"
  /\ out_lock' = Nobody
  /\ Goto(t, "io_error")
  /\ UNCHANGED <<main, rng, out_tid, output, block>>

Exit(t) ==
  /\ pc[t] = "io_error"
  /\ status' = "exited"
  /\ UNCHANGED <<main, rng, out_lock, out_tid, output, pc, block>>

-----------------------------------------------------------------------------
Lock(t) == LockRng(t) \/ LockOut(t)
Work(t) == MissRngTurn(t) \/ TakeRngTurn(t) \/ Draw(t) \/ MissOutTurn(t)
           \/ TakeOutTurn(t) \/ Write(t) \/ FailWrite(t) \/ Exit(t)

Finished == mpc = "call" /\ call \notin Calls
Running  == status # "exited"
Stop     == (Finished \/ ~Running) /\ UNCHANGED vars

Next ==
  \/ Running /\ StartRegion
  \/ Running /\ EndRegion
  \/ \E t \in Threads : Running /\ Lock(t)
  \/ \E t \in Threads : Running /\ Work(t)
  \/ Stop

Spec == Init /\ [][Next]_vars

-----------------------------------------------------------------------------
(* Properties. *)

\* The blocks come out in the order in which their numbers were drawn and none
\* twice, although the two turns advance independently and threads finish their
\* translations in any order; only a failed write leaves a gap, which the blocks
\* that others write before the exit do not fill.
InOrder ==
  \A k \in DOMAIN output :
    LET before == IF k = 1 THEN 0 ELSE output[k - 1].to
    IN  output[k].from > before /\ (status = "ok" => output[k].from = before + 1)

\* The lines of letters first..last: a letter, or 0 for the end of a line, which
\* comes after Width letters and after the last one.
Lines(first, last) ==
  LET m == last - first + 1
      size == m + (m + Width - 1) \div Width
  IN  [p \in 1..size |-> IF p = size \/ p % (Width + 1) = 0 THEN 0
                         ELSE first - 1 + p - (p \div (Width + 1))]

\* What the blocks look like, each translated from column 0 by its thread.
Text[k \in 0..Len(output)] ==
  IF k = 0 THEN <<>> ELSE Text[k - 1] \o Lines(output[k].from, output[k].to)

\* What was to be drawn in the first c calls.
Upto[c \in 0..Len(Lengths)] == IF c = 0 THEN 0 ELSE Upto[c - 1] + Lengths[c]
Sequence[c \in 0..Len(Lengths)] ==
  IF c = 0 THEN <<>> ELSE Sequence[c - 1] \o Lines(Upto[c - 1] + 1, Upto[c])

\* Each call that returns leaves the text of its sequence, broken into lines as if
\* one thread had written it, and the locks free; the second call continues the
\* random numbers of the first.  A call does not return after a failed write.
Formatted ==
  mpc = "call" =>
    /\ status = "ok"
    /\ Text[Len(output)] = Sequence[call - 1]
    /\ seed = Upto[call - 1]
    /\ rng_lock = Nobody /\ out_lock = Nobody

\* Thread t need not wait for the turn of another one.
CanGoOn(t) ==
  \/ rng_tid = t /\ pc[t] \in {"rng", "rng_turn"}
  \/ out_tid = t /\ pc[t] \in {"out", "out_turn"}
  \/ pc[t] \in {"draw", "write", "io_error"}

\* The threads never all spin: while one of them has not left its loop, there is
\* one that waits for its own turn or needs no turn at all.  So neither turn goes
\* to a thread that is gone while the others wait for the other turn, and a
\* region only lasts for ever if the locks keep going to threads out of turn.
TurnsAreServed ==
  mpc = "region" =>
    \/ \E t \in Threads : CanGoOn(t)
    \/ \A t \in Threads : pc[t] = "done"
=============================================================================
