# A TLA+ model of the concurrent programs of Daniel Lemire's blog code

The repository is a collection of programs, one directory per blog post. Most of
its 2452 files are single-threaded benchmarks: a pure function (arithmetic, bit
packing, hashing, UTF-8, base64, search, sort, often with SIMD intrinsics) and a
loop that times it. There is no single system. What the repository has of
control, where the order of steps decides whether the program is right, is a
dozen programs with threads, dispatch queues, coroutines or a sequential data
structure with a protocol. This project models those, each program by itself,
as the programs never call each other.

## 1. Inventory

| Component | Source | State | Operations | What is hard |
|---|---|---|---|---|
| ThreadPool | `2025/03/01/open_pool.cpp` | queue of tasks, `stop`, mutex, condition variable, `success_count`, the futures | constructor, worker loop, `enqueue`, destructor, `measure_time` | notification after the unlock, drain at stop, a counter destroyed before the pool |
| ParallelOpen | `2025/03/01/open.cpp` | one range per thread, `success_count` | `measure_time`, `open_files_range` | relaxed additions compared after the joins |
| FastaPipeline | `extra/swift/nucleotide/Sources/fasta-ganszky/main.swift` | 2 x `nBufs` buffers, 2 x `nBufs` semaphores, three dispatch queues, a group, `deferedWrite`, `writeBlock` | `randomFasta`: producer, consumers, writers, final block | overtaking consumers, reuse of buffers, a bounded pool of threads, the last block |
| CvWorker | `2020/06/10/worker.cpp`, `struct worker` | `has_work`, `exiting`, mutex, condition variable, `counter` | `work`, `finish`, `stop_thread`, thread loop | one condition variable for both directions, an unlocked read of `exiting` |
| SpinWorker | `2020/06/10/worker.cpp`, `struct eager_worker`, `struct yield_worker` | two atomics, `counter` | the same | `has_work` is also set at the stop |
| WorkerProgram | `2020/06/10/worker.cpp`, `main` and the globals | one worker of each kind, the shared `counter` | three rounds of calls, `std::async`, plain threads, then the destructors | unlocked increments by four kinds of threads; the workers outlive `main` |
| MulticoreFasta | `2018/01/02/multicorefasta.c` | two turns under two OpenMP locks, `rng_cnt`, the seed, a block per thread | `rng_gen_blk`, `out_write`, both calls of `main` | blocks overtake each other between the two turns; a write fails |
| FastaText | `multicorefasta.c`, `fasta-ganszky/main.swift`, `fasta-lemire/main.swift` | offset in the string, what is left to print, buffer | the repeated sequence in three programs, the random lines of the third | wrap-around of the offset, lines that end with the buffer, the last line |
| KNucleotide | `extra/swift/nucleotide/Sources/nucleotide-lemire/main.swift`, `nucleotide-ganszky/main.swift` | the buffer of `fgets`, the nucleotides, one dictionary per task, the sum | `readInputAndRewrite`, `getSequenceHash` | leftovers in the buffer; slices and remainder; merges on a serial queue |
| BoundedPriorityQueue | `2017/06/21/pqgp.js`, `test.js` | `array`, `size`, `heapified` | `add`, `add2`, `poll`, `trim` | a heap that is built late, a size that `heapify` resets |
| BroadcastServer | `2023/11/27/server.py`, `blackserver.py`, `aioserver.py` | the set `connected`, one handler per connection | connect, receive and broadcast, leave | the set changes during an iteration that awaits; failed sends; one server has no `finally` |
| PingPongClients | `2023/11/27/client.py` | the two connections, `round_trips` | `client1`, `client2` | who is connected first |
| ProfilerServer | `2025/10/26/main.go` | `profiling` under a mutex, the profilers of the runtime | three handlers, and those of net/http/pprof | only the mutex keeps the test and the assignment of the flag together; a start may fail |
| ExhaustiveTest | `2026/07/15/tests/unit.cpp` | `all_ok`, `error_reported` | `run_ipv4_serialize_tests` | early exit on a flag that may be stale, a single report |
| others | see `PROJECT.json` | | | |

PROJECT.json lists all components with their status, those that are not modelled
with the reason, and under `hazards` the lines where each program can go wrong
in a way a test would hardly reach.

What makes each component correct:

* **ThreadPool** starts tasks in the order of submission, each once; a future
  becomes ready; no worker sleeps while a task waits; nothing a task refers to
  is destroyed while it is queued or runs; the warning is printed exactly when a
  file could not be opened; `measure_time` returns.
* **ParallelOpen**: the ranges partition the files, whatever the number of
  threads; the warning is exact.
* **FastaPipeline** prints the letters in the order of the random numbers; a
  buffer has one owner at a time; a call of `randomFasta` leaves semaphores,
  queues and deferred writes as it found them; with enough threads it ends.
* **BroadcastServer**: `connected` holds the connections that are served; a
  broadcast during which nobody comes or goes reaches everybody once; a failure
  does not make later broadcasts fail.
* **PingPongClients**: one message at a time is on its way, and round trips happen.
* **ProfilerServer**: the flag is set exactly while one handler will clear it;
  who starts a profile stops it; every request is answered.
* **ExhaustiveTest**: the verdict is right and one difference is reported.
* **CvWorker, SpinWorker**: one execution per `work()`/`finish()` pair, no lost
  wakeup, the destructor joins.
* **WorkerProgram**: no two threads increment `counter` at the same time, every
  call is counted, and the program exits.
* **MulticoreFasta**: blocks are written in the order their numbers were drawn, and
  the lines are those one thread would have written; a call does not return after a
  failed write, and the threads never all wait for turns of others.
* **FastaText**: the letters of the sequence in lines of the right width, within
  the buffers.
* **KNucleotide**: the sequence of the input is read; the counts are the numbers of
  occurrences, however the tasks interleave.
* **BoundedPriorityQueue**: it keeps the smallest values of the stream and polls
  them greatest first.

## 2. Modules

| Module | Models | Kind |
|---|---|---|
| `Monitor` | `std::mutex` and `std::condition_variable` as the programs use them | external, instantiated |
| `TaskExecutor` | what a pool promises to its client | abstract |
| `ThreadPool` | `ThreadPool` and `measure_time` of open_pool.cpp | detailed, implements `TaskExecutor` |
| `ThreadPool_proofs` | theorems about `ThreadPool` | proofs |
| `ForkJoin` | a loop split over threads that are joined, as in open.cpp and unit.cpp | instantiated by extension |
| `ParallelOpen` | `measure_time` and `open_files_range` of open.cpp | detailed, extends `ForkJoin` |
| `ExhaustiveTest` | the parallel test of unit.cpp | detailed, extends `ForkJoin` |
| `FastaPipeline`, `FastaPipeline_proofs` | `randomFasta` | detailed, proofs |
| `WorkService` | what a worker promises | abstract |
| `CvWorker`, `SpinWorker` | the three workers of worker.cpp | detailed, implement `WorkService` |
| `WorkerProgram`, `WorkerProgram_proofs` | worker.cpp: one `CvWorker`, two `SpinWorker`s, plain threads | composition, proofs |
| `MulticoreFasta`, `MulticoreFasta_proofs` | the random sequences of multicorefasta.c | detailed, proofs |
| `FastaText` | the sequential text of three FASTA generators | detailed |
| `KNucleotide`, `KNucleotide_proofs` | reading and counting of the two k-nucleotide programs | detailed, proofs |
| `TopK` | what a bounded queue promises | abstract |
| `PriorityQueue` | pqgp.js | detailed, implements `TopK` where the code does |
| `BroadcastServer` | the handlers of the three servers | detailed, without clients |
| `ChatClients` | `BroadcastServer` with arbitrary clients | composition |
| `PingPong` | `BroadcastServer` with the clients of client.py | composition |
| `ProfilerServer` | main.go | detailed |
| `Programs_proofs` | theorems about the split of a loop, `ParallelOpen`, `ExhaustiveTest`, `ChatClients`, `PingPong` and `ProfilerServer` | proofs |
| `Sequential_proofs` | theorems about `PriorityQueue` and `FastaText` | proofs |
| `Lemmas` | numbers, products, finite sets, recursive functions, sums | lemmas the proofs share |
| `MC*` | instances for TLC | configuration |

A step of a model is one access to state another thread can see: taking a mutex,
everything done under it up to its release, a notification, an atomic load or
store, a semaphore operation, the start and the end of the use of a shared
buffer. `wpc`, `mpc`, `ppc`, `cpc` are program counters and name the next step.
Definitions keep the names of the source (`success_count`, `deferedWrite`,
`junks`, `has_work`...). Each module contains, before some definitions, the
*mutants* that PROJECT.json lists: the same definition with a plausible mistake,
used to check that each property can tell.

**Monitor.** `lock` is the owner, `waiting` the sleepers. `Wait` releases and
sleeps in one step, as the standard requires; a sleeper that is notified has to
take the mutex again like anybody else; `NotifyOne` chooses any sleeper;
`WakeSpuriously` is allowed, as the standard allows it, up to `MaxSpurious`
times in a behaviour.

**ThreadPool.** A worker goes acquire -> evaluate -> (sleep | exit | run ->
publish). The main thread goes spawn -> (enqueue -> push -> notify_one)* ->
get* -> verify -> destroy -> set_stop -> notify_all -> join* -> done: the
constructor, the two loops of `measure_time`, its comparison, and the destructor
that the end of the scope runs. A task is named by its file. Its body either
counts a success or reports a failure, which is what matters of opening a file.
`started` and `failed` are history variables.

**FastaPipeline.** A random number is its rank in the stream, and a letter is the
number it was made from; so the output is right if it is 1, 2, 3, ... Filling a
block and translating a block take two steps each; in between the block holds
`Torn`, and whoever reads it shows it. Wrapping of lines is left out, so a block
of `BufSize` numbers becomes one of `BufSize` letters. The work items of the
queues take a thread of a pool of `PoolSize`: libdispatch does not give a queue
a thread of its own, and a closure that waits for a semaphore keeps the one it
has. The producer makes `junks - 1` blocks and main the last one, as in the code.

**CvWorker, SpinWorker.** Each has the side of its caller (`mpc`) and the loop of
its thread (`wpc`). The read of `exiting` in `while (!exiting)` of `struct worker` is
a data race: once `exiting` is set it may return either value. `yield_worker` has
the steps of `eager_worker`. `ImplementsService` is the refinement of `WorkService`.

**WorkerProgram.** `stage` runs over the statements of `main` and then over the
destructors of the globals, the last one constructed first. In its stage a worker
is called `NumCalls` times, as `printtime` and the `start...worker` functions do,
or destroyed; its thread runs at any time. The increments of `counter` are kept
apart by who made them, and `NoRace` is what justifies that they add up. The two
spinning workers are woken at the stop by `has_work` and increment once more.

**MulticoreFasta.** A random number is its rank, so a block is an interval. A
thread that finds under the lock that it is not its turn releases the lock and
tries again, as the loops of `rng_gen_blk` and `out_write` do. The translation of a
block touches nothing shared and falls between `Draw` and `LockOut`. A write may
fail; the thread finds out after the unlock, and others may write in between.

**FastaText.** `port` is the program; all of them have the variables `offset`,
`left`, `buffer` and `output`, and each turn of a loop is a step. A letter is its
position in the string, or the rank of its random number, and 0 ends a line.

**KNucleotide.** `buf` is the buffer of `fgets` from its allocation on, when it may hold
anything (`Memory`), and keeps what earlier lines left there: those before sequence
THREE, which `SkipLine` reads, the last line of sequence TWO and the header among them,
and then its own. `left` is what it held when the sequence began. Whatever the line, `linewidth` bytes are appended, and the last
newline found from the end decides how many are kept. A task finds the numbers of
its slice by shifting, in one step, as they concern its own dictionary; the merge
is a lookup and a store per key, in any order of the keys, inside the serial queue.

**PriorityQueue.** An operation is a step, as JavaScript has one thread. The heap
is in `array`, indexed from 0 as in the code; `compare` is that of test.js, which puts
the greatest value on top. A queue is used with `add` or with `add2`, chosen once.
The loops are recursive functions on their turns: `Rise` and `Sink` are a turn of
`add` and of `_percolateDown`, which stops where it is when the condition of the loop
fails, and `Heapified` counts the turns of `heapify`. The number of turns allowed is
never less than what the loops need, which the proofs show.
`added` and `polled` are history variables.

**BroadcastServer.** A handler gives way in `recv`, and in a send before (`write`)
and after (`drain`) it writes; a send that never gives way is the behaviour in
which the two steps follow at once. The iterator of a Python set is external: it
compares the size of the set with the one it started with (`used`), and `todo` is
what it has still to return; an insertion may rehash the table, so `Accept` may
change `todo` of every iteration to any set of members. A removal never rehashes.
`inbox` keeps all messages a client was sent, so it is also the history. The
variable `has_finally` says which server runs; in the servers with the clause the
framework may also cancel a handler whose connection is lost. `ChatClients` lets
clients connect, send and close at any time; `PingPong` constrains them to what
client.py does, in the same variables.

**ProfilerServer.** A request is served by a goroutine and comes back once it was
answered. `profilingMu` is the owner of the mutex: the test of the flag and its
assignment are steps of their own, and so is the deferred function, which takes the
mutex again. `engine` is whose CPU profile and whose trace the runtime takes; a start
fails when there is one.

**ExhaustiveTest.** `wrong` is the set of values whose two conversions differ, any
subset of the values. `Compare` does not look at `all_ok`, as a relaxed load may
return the old value; `Exit` needs the new one.

## 3. Runs

| Run | Question | Bounds | Distinct states |
|---|---|---|---|
| `pool` | safety of the pool, `measure_time` returns, `TaskExecutor` is implemented | 3 workers, 3 files, 1 spurious wakeup | 34777 |
| `parallel_open` | the split, the warning | 3 threads, 5 files | 1567 |
| `fasta` | order, ownership, clean return, and every sequence is printed with `nBufs + 2` threads | `nBufs` 4, block of 2, calls of 19, 3 and 4 numbers, 6 threads | 150272 |
| `multicore_fasta` | order and text of the blocks, also around a failed write; not all threads spin for turns of others | 4 threads, blocks of 4 in lines of 2, calls of 27 and 4 numbers, writes may fail | 1901 |
| `fasta_text` | what is printed for each `number`; bounds of the buffers | lines of 3, strings of 3 to 5, up to 34 letters, buffer of 11 | 3433 |
| `k_nucleotide` | what is read, what is counted | 3 tasks, lines of 5, sequences of 1, 2, 5, 7 and 10 letters, frames 1 and 2; before them a header of 1 or 4, full lines, a last line of 3; a buffer of zeros or of newlines | 238282 |
| `workers` | wakeups, races, the count, the exit, `WorkService` for each worker | 3 calls of each kind, 2 spurious wakeups | 6488 |
| `exhaustive_test` | the verdict and the report | 3 threads, 5 values, any set of wrong ones | 10630 |
| `profiler_server` | the flag, the profiles, answers | 2 + 1 + 1 requests of this program, 2 of net/http/pprof | 3276 |
| `chat` | who is a member, who gets a message, what a failure causes | 3 clients, 1 message each | 762396 |
| `ping_pong` | one message on its way; the round trips go on | 5 round trips | 294 |
| `priority_queue` | the heap, what is kept, each operation against `TopK` | values 1 to 3, sizes 1, 3 and 5, streams of 7 before the first poll | 346289 |

Why the bounds are enough to be interesting. The pool has more than two workers
(two can race while a third sleeps) and as many tasks as workers, so that the
queue is empty, short and longer than the number of awake workers; one spurious
wakeup is what distinguishes a wait with a predicate from one without. The first
call of `fasta` goes more than twice round the buffers, so that they are reused
and `writeBlock` wraps; the second call checks that the first left everything as
it found it, and the third has no remainder. Three clients of `chat` are a
sender, a receiver and somebody who comes or leaves meanwhile, and let a join and
a leave cancel out in the size of the set. `profiler_server` has two requests of
one kind and one of each other. `parallel_open` and `exhaustive_test` have a
remainder of 2; open.cpp itself never has one, as 1, 2, 4, 8 and 16 threads divide
10000 files evenly, so that this part of the split is checked for other numbers than
those of `main`. The workers make several calls, and a call only depends on the
previous one.

The first call of `multicore_fasta` takes each thread round its turns more than
once, ends in a short block and leaves the turns somewhere in the middle; the second
starts them again at thread 0 and has exactly one block, so that most threads find
nothing to do. The
lengths of `fasta_text` go past the whole buffer of each program more than once and
meet every remainder of a line, of a string and of a buffer. The sequences of
`k_nucleotide` are shorter than a line, a full line, a line and a half, two lines, and
leave remainders over three tasks or none; those that leave a task without a position
trap. Behind a short one the buffer has the newline of a longer header, that of the last
line of sequence TWO when that is longer than the header, one it was allocated with, or
none. A heap of five has parents on two levels, and while it is filled or polled a
parent with one child.

Fairness. A specification with liveness properties assumes weak fairness of each
thread (`ParallelOpen`, `ExhaustiveTest`, `MulticoreFasta`, `ChatClients`, `FastaText`,
`KNucleotide` and `PriorityQueue` have none and state no liveness): the operating system runs a
thread that can run. Waiting for a mutex that is free at every
moment it is looked at needs no more here, because no thread can take the mutex
of these programs infinitely often without main making progress in between. Of
`MulticoreFasta` no liveness is claimed: threads that miss their turn take and release the
OpenMP lock for ever, and OpenMP does not promise the lock to the thread whose turn it
is, so the program need not end. `TurnsAreServed` is what can be said without fairness:
while a thread has not left its loop, there is one that waits for its own turn, or for none.
No
fairness is assumed of spurious wakeups. In `FastaPipeline` each queue that has an
item to start eventually gets a free thread, which libdispatch does.

In `ProfilerServer` nobody has to send a request; goroutines run and sleeps end. Strong
fairness is assumed of `profilingMu`: a `sync.Mutex` is handed to the goroutine that has
waited longest once it has waited for a millisecond. A handler writes its answer while
it has the flag (main.go:74), and that this ends is an assumption about the environment:
the client reads the answer or closes the connection, as the server sets no time limit.
In `PingPong` clients and handlers run and the network delivers.

`CHECK_DEADLOCK FALSE` appears where `Termination` is checked instead (`pool`,
`fasta`) and where the clients may stop (`chat`, `ping_pong`). The other
specifications have an explicit final step, or never stop.

What was met while modelling. No run expects a violation: where the code does
something surprising and no line of the repository promises otherwise, the
property says what it does, exactly.

* `fasta`: with `n` a multiple of `rndBufSize` (614400) `remainder` is 0, the length of
  the last substring becomes -1 and the program traps (main.swift:216); the third
  call of the run does.
* `ping_pong`: client.py starts both clients at once. When the server takes the first
  message of `client1` before it has added `client2`, nobody gets it and both wait for
  ever (client.py:10). `GoesOn` shows that this is the only way to stop.
* `chat`: a client that comes or leaves during a broadcast costs the *sender* its
  connection, as the iteration over `connected` raises; in aioserver.py the dead
  connection then stays in the set (`ConnectedIsServed`), so that later broadcasts
  fail as well.
* `multicore_fasta`: after a failed write, other threads may write later blocks before
  the program exits (multicorefasta.c:210); `InOrder` says that nothing fills the gap. The
  program need not end, see above (multicorefasta.c:256).
* `fasta_text`: the program in C prints an empty line after the repeated sequence when
  `n` fills its lines, unless it ends with the buffer (multicorefasta.c:116); fasta-lemire moves the offset before it
  copies, so its repeated sequence starts with the second line of the string
  (main.swift:64).
* `k_nucleotide`: the last nucleotide is dropped when it ends a full line
  (nucleotide-lemire/main.swift:108), and a sequence shorter than a line is read together
  with what is left in the buffer up to the last newline there (line 105): that of the
  header, of the last line of sequence TWO, or one in the memory that was allocated.
* `priority_queue`: `poll` on a queue that was not heapified doubles a value and does
  not shrink the queue (pqgp.js:130, `PollDoubles`); after a poll, `add2` leaves
  `heapified` true for an array that need not be a heap (pqgp.js:127).

## 4. Proofs

`ThreadPool_proofs` proves for every number of threads, files and spurious
wakeups, from `ThreadPoolAssumption` alone:

* `Invariance`: `Spec => []IInv`;
* `TypeCorrect` (`TypeOK`), `PoolIsFifo` (`SubmissionOrder`), `TasksRunOnce`
  (`OneHolder`), `LifetimesAreSafe` (`NothingDangles`), `NoTaskIsForgotten`
  (`WorkConserving`), `WarningCorrect` (`WarningIsExact`);
* `PoolIsExecutor`: `Spec => ImplementsExecutor`, the refinement of `TaskExecutor`.

None of these properties is inductive. `IInv` adds to the types:
`LockInv`, which ties the owner of the mutex to the program counters, so that
what is done under the mutex is done by one thread; `QueueInv`, which says that
`started \o tasks` is 1, 2, ..., up to the number of submissions the main
thread's counter stands for; `HoldInv`, that each popped task is with one worker
or its future is ready; `MainInv`, what the main thread knows at each point
(collected futures are ready, joined workers have exited, `stop` is set from
there on). For `WorkConserving` there is `SleepInv`, that a worker on its way to sleep
still has the mutex under which it found the queue empty, and for
`WarningIsExact` `CountInv`, that `success_count` is the number of tasks that ran and
did not fail. `SubmissionOrder` follows from
`QueueInv`, `OneHolder` from `HoldInv`, `NothingDangles` from `MainInv` (all futures
are ready after the loop of `get()`) with `QueueInv` and `HoldInv` (then no task is
queued or held), and `WarningIsExact` from `CountInv` with the cardinality of the set
of all tasks. The refinement needs `QueueInv` for the start of a task, which is the
head of the abstract queue as well, and `HoldInv` for its end.

`WorkerProgram_proofs` proves for every number of calls and spurious wakeups:
`IncrementsDoNotRace` (`NoRace`), `CountIsRight` (`CounterIsRight`), `NoWakeupIsLost`
(`NoLostWakeup`) and `WorkersImplementService` (`WorkersServe`). Each worker has an
inductive invariant of its own over its caller's and its thread's program counters
(`SpinInv`; `CvInv`, which is `LockInv` and `WorkInv`); `StageInv` says that a worker is
in a call or a destructor in its own stages only, and `PlainInv` what the plain
threads have counted. A worker that is not in a call or a destructor does not
increment, so that `NoRace` follows.

`MulticoreFasta_proofs` proves for every team, block size, line width and list of
calls, with or without failing writes, `BlocksInOrder` (`InOrder`) and `SomebodyGoesOn`
(`TurnsAreServed`). `OrderInv` says that there are a thread `f` and numbers `p` and `e` such
that, in the order of the turns, the `p` threads from `f` on hold the blocks that were drawn
and not written, and the `e` threads after them are those that have left their loops. `out_tid`
is `f`, or the next one while `f` writes, and `rng_tid` is the thread after the `p + e`, or the
next one while that one draws; `e` is 0 as long as numbers are left. The blocks held have no
gap, and begin where the output ends, or later when a write has failed (`Follows`). So when
nobody works, it is the output turn of `f`, which has something to write, or, if `p` is 0, the
turn at the numbers of a thread that wants some. `FailInv` says that a thread whose write
failed stays, so that its call does not return.

`TextOfOneThread` (`Formatted`) says that the text of every call that returns is the one that
a single thread would have written, that no call returns after a failed write, and that the
locks are free. Its invariant `WrittenInv` adds `DrawnInv`, that a block
starts where whole blocks end and that what was drawn and what is left make up the
calls so far, and `TextInv`, that what was written of the current call are its first
lines. `TextInv` is kept by a write because lines of an interval that is cut at a
multiple of the width are the lines of the two parts (`LinesJoin`), and `TextOf`, which
cuts the output into calls, only looks at blocks from the left (`TextGrows`).

`FastaPipeline_proofs` proves for every number of buffers that is a power of two (as the
code asks), block size, list of calls and pool of threads: `BlocksHaveOneOwner` (`OneOwner`), `LettersInOrder` (`InOrder`)
and `CallsReturnClean` (`CleanReturn`). An iteration of the producer has a number for
ever, a buffer only has the number modulo `nBufs`; so the invariant speaks of
iterations. `NumbersInv` and `LettersInv` say that a semaphore at zero has exactly one
holder: the producer while it fills, a consumer, the writer's queue, the writer or
`deferedWrite`. `GroupInv` says that the group counts the closures that have not ended.
`OrderInv` says that there is a number `written` of iterations printed: `writeBlock` is
its remainder, each iteration from there up to the producer's is with its consumer or,
by its block, pending at the writer, and what can be pending is less than `nBufs` away,
so that a block names one iteration. Overtaking consumers therefore cannot make the
writer print a block of a later round.

`KNucleotide_proofs` proves for every number of tasks, width of a line, set of texts, lines
before them, contents of the allocated buffer and list of frames: `NothingElseIsRead` (`ReadsTheSequence`) and `SlicesCountAll`
(`CountsAreExact`). `ReadInv` says byte by byte what was appended so far: the text, a
newline, a zero, and behind them what the buffer held, which is `left` as long as
one line was read and letters of the line before otherwise; the search for the last
newline then finds the one that ends the text, or the last one of `OldNewlines`. The counts need
two facts. The key that a task shifts along is the number whose digits are the next
`frame` letters (`KeyShifts`, `IndexIsKeys`), for the masks the program computes. And
`hash` is exact for the positions merged so far (`HashInv`): `Merged` is the set of positions
whose task has merged that key already, and a store adds the occurrences of one key in
one slice (`StoreAdds`), since the serial queue keeps what was looked up true until the
store (`QueueInv`, `LocalInv`).

`Programs_proofs` starts from the split of a loop: for every number of indices and
threads the parts are within the loop, in order, and cover it. The arithmetic rests on
two lemmas, `Quotient` and `Monotonic`, because the product of two variables is beyond the
solver unless it is given the instances. `JoinInv` is what the main thread knows of the
threads it has started and joined. Two programs split a loop this way:

* `ParallelOpen`: `RangesPartition`, and from it `FilesOpenedOnce`:
  `OpenSpec => []EachFileOnce`. `FilesInv` says that a file was tried once if its
  thread has passed it, and never otherwise. `WarningCorrect` (`WarningIsExact`) adds
  `CountInv`: `success` of a thread is the cardinality of the set of files it opened,
  `success_count` that of the files opened by the threads that have added theirs.
  These sets are disjoint, so that their cardinalities add up and no sum over the
  threads is needed.
* `ExhaustiveTest`: `VerdictCorrect`, `TestSpec => []VerdictIsRight`. `TestInv`
  says that a thread out of its loop has tested its chunk, or `all_ok` is false,
  and that `all_ok` is false only after a difference was found; so a thread may
  see the flag as late as it likes. `ReportIsSingle` (`OneReport`) rests on
  `ReportInv`: at most one thread has found `error_reported` unset, and it is the one
  that prints or has printed.

Its other part is about the servers.

* `ProfilerServer`: `FlagCorrect`, `ProfilesAreOwn` and `HandlersDoNotCollide`, for all
  sets of requests. `MutexInv` says who has the mutex, and that the flag is clear as long as
  a handler that has found it so is about to set it. With it the flag's invariant is
  inductive, and the engines' is with the types and the places of a request; the third property follows from the two: who
  holds the profiler is asleep, hence a holder of the flag, and there is one.
* `ChatClients`: `MembersAreServed`, `FailuresAreContained` and `QuietBroadcastsArrive`
  (`QuietDelivery`), for every number of clients and messages. `QuietInv` says that as
  long as nobody came or left, the iterator's size is the set's and the next receiver
  is a member. `DeliveryInv` says of such a broadcast which members are still pending,
  those whose inbox does not have the message, and that no inbox has it twice; a
  message is new because an inbox only has numbers up to `taken`.
* `PingPong`: `OneAtATime` (`OneMessage`), for every number of round trips. `LoopInv` says
  that every broadcast reaches exactly the other client; `TurnInv`, that a client only
  sends in answer to what it read, but for the first message of `client1`, and that what is
  in an inbox or being written to it was taken from the other client.

`Sequential_proofs` proves the four properties of the queue for every set of numbers,
every size and every stream: `AlwaysHeapOrder` (`HeapOrder`), `AlwaysKeepsTheSmallest`
(`KeepsTheSmallest`), `AlwaysServesAsTopK` (`ServesAsTopK`, the refinement of `TopK`) and
`AlwaysPollDoubles` (`PollDoubles`).

* The loops. The code moves a hole through the array and puts the value in at the end;
  the proofs look at the array with the value in the hole, so that each turn exchanges
  a parent and a child (`MoveExchanges`). `HeapBelow` and `HeapAbove` are the orders that
  hold but for the value on its way, up or down (`HeapRises`, `HeapSinks`). The way up ends
  within as many turns as the place has a number, the way down within as many as there
  are places, as each turn moves it (`PercolateUp`, `PercolateDown`). `HeapifyIs` goes
  from half the length to the top.
* The bags. `Number(a, n, x)` is how often `x` is among the first `n` values; an exchange
  keeps it (`NumberOfExchanged`), and what an operation does to it is what it does to the
  bag (`HeldMore`, `HeldLess`, `HeldExchange`).
* The operations. `QueueInv`, the types and `HeapOrder`, is inductive: `add` relies on the
  heap it finds, `add2` makes it at the last free place, and a poll that finds
  `heapified` for an array that is no heap (pqgp.js:127) leaves the queue short of
  full, where `add2` does not need the order. `StreamInv` says that until the first poll
  everything added is held while there is room, and afterwards nothing that is held
  is greater than what is not: what `Replace` gives up is the greatest, because
  the top of a heap is (`TopIsGreatest`).

It also proves, for every width, length of the string, number of letters and size of the
buffer, `AlwaysPrintsTheLetters` (`PrintsTheLetters`) and `AlwaysInBounds` (`InBounds`) of
`FastaText`. `Byte(L, p)` is the byte in place `p` of the endless text whose letters are
given by `L`, in lines; `Lined` says that a sequence is its beginning. `TextInv` says that the
buffer, or what is printed together with the buffer, is such a beginning of the letters of
the program (`TheLetters`), how far it goes, and where the offset stands in the string.

* A line goes on with the text because the offset and the number of letters so far have the
  same remainder by the length of the string (`CopyIs`, `AdvanceIs`); fasta-lemire moves
  the offset first, and its letters are those that come one line later (`LettersAre`).
* A printed copy of the block goes on with the text because a string of `len` letters
  repeats after `len` lines, whatever the width (`BytesRepeat`, `StringRepeats`). Of what
  remains after whole blocks the remainder by `Width + 1` is that of `number` by `Width`
  (`LeftIs`): this decides whether the rest is empty, may end with a line, or equals the block.
* `TextIs` says what is printed in the end, with the end of a line that is not full.

`Lemmas` has what several of these need: quotients and remainders, induction over a set
of numbers (`SetInduction`), that a function defined by recursion over `0..n` exists and
satisfies its equation (`Recursion`), and sums. The library's induction theorems take an
operator as a parameter, so these are stated with sets and functions.

Only model-checked: liveness (`Termination`, `Answered`, `GoesOn`), as liveness and
`ENABLED` are out of the prover's reach. Every safety property that a run checks is
also proved.

## 5. Left out

* Creation of the files, timing, medians, printing of reports.
* Exceptions by exhaustion of memory or threads; an allocation that fails between
  two calls of `enqueue` (open_pool.cpp:102) would destroy `results` and
  `success_count` before the pool joins. An OpenMP team smaller than `tnum`
  (multicorefasta.c:234), in which a turn would go to nobody.
* In `FastaPipeline`: line breaks and the probability tables; `n = 0`,
  which stops the program at the range `0..<junks-1`; and what
  `String(cString:)` finds after a full buffer, which has no room for a
  terminating zero. Buffers of this size are given whole pages that end in
  zeros, so that the string ends there. The pointer that escapes from
  `withCString` in `repeatFasta` (line 106) is taken to be valid.
* In `FastaText`: the block of fasta-ganszky has no terminating zero (`blockNl`, main.swift:107)
  but is read as a C string (line 123); it is taken to end where it was filled, as it does
  when the memory behind was never used and holds zeros.
  The headers are left out: fasta-lemire prints them through the buffered
  `print` and the letters through another path (main.swift:156), whose relative order
  depends on the flush.
* `handleMemProfile` of main.go refuses a heap profile during a CPU profile, but lets
  one start while it works (main.go:87). Nothing in the repository says what a heap
  profile suffers from it, so no property is stated.
* In the chat servers: the text of messages, printing, and the function `echo` of
  blackserver.py, which nothing calls.

Not modelled, and why:

* `BandwidthProbe`, `RacyCopy`, `OperationQueues`: programs that race on purpose or by
  accident, of which nothing is asked but a time. All that could be stated is
  which values a race may leave.
* `PromiseCounters`, `ThreadCost`: no shared state beyond one counter.
* `Sampling`, `FlatHashSimulation`: statistical; what matters is a distribution.
* `SmallKernels`: some 2000 files of single-threaded kernels over bits and bytes, each a
  pure function beside its timer. They make up the bulk of the repository and have
  no control to model, so that the modules cover a small share of its lines.
* `Vendored`: copies of other projects (simdjson, ada, httplib, tables), which are most
  of the lines of the repository.

## 6. Plan

What would come next, in this order:

1. `BandwidthProbe` and `RacyCopy`: the outcomes of their data races.
2. `Sampling` against a reference definition over bounded inputs; Floyd's algorithm
   of randomsample.js draws from one value too few.
