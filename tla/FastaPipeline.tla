---------------------------- MODULE FastaPipeline ----------------------------
(***************************************************************************)
(* randomFasta of extra/swift/nucleotide/Sources/fasta-ganszky/main.swift, *)
(* called once per sequence to print.  A producer on a serial queue fills  *)
(* blocks with random numbers, consumers on a concurrent queue turn them   *)
(* into letters and a writer on a serial queue prints them in the order of *)
(* production.  pSemaphore[b] is the right to overwrite bufs[b] and        *)
(* wSemaphore[b] the right to overwrite cBufs[b].                          *)
(*                                                                         *)
(* A number, and the letter made from it, is its rank in the stream of     *)
(* random numbers; Torn is what a reader finds in a block that is being    *)
(* written.  Lines are not modelled.  The work items of the three queues   *)
(* share a pool of PoolSize threads, and an item that waits for a          *)
(* semaphore keeps its thread.  A full block leaves no room for the zero   *)
(* that ends a C string; its pages end in zeros, so a printed block ends   *)
(* with its last letter.                                                   *)
(***************************************************************************)
EXTENDS Integers, Sequences, FiniteSets

CONSTANTS
  NumBufs,     \* nBufs
  BufSize,     \* rndBufSize
  Lengths,     \* the parameter n of the successive calls of randomFasta
  PoolSize     \* how many threads the dispatch queues may use together

Torn == 0

ASSUME FastaAssumption ==
  /\ NumBufs \in Nat \ {0}
  /\ \E k \in 0..NumBufs : NumBufs = 2 ^ k    \* "need to be a power of two"
  /\ BufSize \in Nat \ {0}
  /\ Lengths \in Seq(Nat \ {0})
  /\ PoolSize \in Nat \ {0}

VARIABLES
  call,          \* the current call of randomFasta
  mpc,           \* where the main thread is in it
  group,         \* the count of the dispatch group
  ppc, i,        \* the producer's work item and its loop counter
  cQueue,        \* the consumers that wait for a thread, by loop counter
  cpc,           \* where each consumer is
  wQueue,        \* the blocks whose writers wait for their turn
  wpc, wblk,     \* where the running writer is, and the block it handles
  pSemaphore, wSemaphore, bufs, cBufs,
  seed,          \* the rank of the next random number
  deferedWrite, writeBlock,
  output         \* what was printed

main     == <<call, mpc>>
producer == <<ppc, i>>
consumer == <<cQueue, cpc>>
writer   == <<wQueue, wpc, wblk, deferedWrite, writeBlock, output>>
vars == <<main, group, producer, consumer, writer, pSemaphore, wSemaphore,
          bufs, cBufs, seed>>

Blocks    == 0..(NumBufs - 1)
Calls     == DOMAIN Lengths
n         == Lengths[call]
junks     == (n + BufSize - 1) \div BufSize
remainder == n % BufSize
Items     == 0..(CHOOSE m \in {Lengths[c] : c \in Calls} :
                   \A c \in Calls : Lengths[c] <= m)
Block(k)  == k % NumBufs

\* What genRandom(n: m) puts at the beginning of a block, over what was there.
Fill(block, m) == [k \in 0..(BufSize - 1) |-> IF k < m THEN seed + k ELSE block[k]]
Scratched      == [k \in 0..(BufSize - 1) |-> Torn]
\* What consumeRandom(n: m) writes from random numbers, over what was there.
Translate(numbers, block, m) ==
  [k \in 0..(BufSize - 1) |-> IF k < m THEN numbers[k] ELSE block[k]]
\* The first m letters of a block.
Prefix(block, m) == [k \in 1..m |-> block[k - 1]]

\* Mutant: a block is printed although it is not its turn.
AnyTurn(b)         == TRUE
\* Mutants: nobody waits for a block; the block of letters is not given back.
NoWWait(b)         == UNCHANGED wSemaphore
NoWSignal(b)       == UNCHANGED wSemaphore

\* (b + 1) & (nBufs - 1), as nBufs is a power of two.
NextBlock(b) == (b + 1) % NumBufs

Turn(b) == b = writeBlock

\* wait() and signal() of the semaphores.
PWait(b)   == pSemaphore[b] > 0 /\ pSemaphore' = [pSemaphore EXCEPT ![b] = @ - 1]
PSignal(b) == pSemaphore' = [pSemaphore EXCEPT ![b] = @ + 1]
WWait(b)   == wSemaphore[b] > 0 /\ wSemaphore' = [wSemaphore EXCEPT ![b] = @ - 1]
WSignal(b) == wSemaphore' = [wSemaphore EXCEPT ![b] = @ + 1]

Consumers  == {k \in Items : cpc[k] \notin {"none", "queued"}}
Busy       == (IF ppc \in {"loop", "fill"} THEN 1 ELSE 0)
              + Cardinality(Consumers)
              + (IF wpc = "idle" THEN 0 ELSE 1)
ThreadFree == Busy < PoolSize

Init ==
  /\ call = 1
  /\ mpc = "call"
  /\ group = 0
  /\ ppc = "off" /\ i = 0
  /\ cQueue = <<>>
  /\ cpc = [k \in Items |-> "none"]
  /\ wQueue = <<>>
  /\ wpc = "idle" /\ wblk = 0
  /\ pSemaphore = [b \in Blocks |-> 1]
  /\ wSemaphore = [b \in Blocks |-> 1]
  /\ bufs = [b \in Blocks |-> Scratched]
  /\ cBufs = [b \in Blocks |-> Scratched]
  /\ seed = 1
  /\ deferedWrite = <<>>
  /\ writeBlock = 0
  /\ output = <<>>

-----------------------------------------------------------------------------
(* The main thread. *)

\* Enter the group and hand the production over to pQueue.
StartCall ==
  /\ mpc = "call"
  /\ call \in Calls
  /\ mpc' = "group_wait"
  /\ group' = group + 1
  /\ ppc' = "queued"
  /\ i' = 0
  /\ deferedWrite' = <<>>
  /\ writeBlock' = 0
  /\ UNCHANGED <<call, consumer, wQueue, wpc, wblk, output, pSemaphore,
                 wSemaphore, bufs, cBufs, seed>>

GroupWait ==
  /\ mpc = "group_wait"
  /\ group = 0
  /\ mpc' = "last"
  /\ UNCHANGED <<call, group, producer, consumer, writer, pSemaphore,
                 wSemaphore, bufs, cBufs, seed>>

\* The remainder is generated and translated in block 0 without semaphores.
LastBlock ==
  /\ mpc = "last"
  /\ bufs' = [bufs EXCEPT ![0] = Fill(@, remainder)]
  /\ cBufs' = [cBufs EXCEPT ![0] = Translate(bufs'[0], @, remainder)]
  /\ seed' = seed + remainder
  /\ mpc' = "print"
  /\ UNCHANGED <<call, group, producer, consumer, writer, pSemaphore, wSemaphore>>

\* Without a remainder the substring to print ends before it starts, which
\* stops the program.
LastPrint ==
  /\ mpc = "print"
  /\ IF remainder = 0
     THEN /\ mpc' = "trap"
          /\ UNCHANGED <<call, output>>
     ELSE /\ mpc' = "call"
          /\ call' = call + 1
          /\ output' = output \o Prefix(cBufs[0], remainder)
  /\ UNCHANGED <<group, producer, consumer, wQueue, wpc, wblk, deferedWrite,
                 writeBlock, pSemaphore, wSemaphore, bufs, cBufs, seed>>

\* The program has printed its sequences, or it has stopped.
Done ==
  /\ mpc = "trap" \/ (mpc = "call" /\ call \notin Calls)
  /\ UNCHANGED vars

-----------------------------------------------------------------------------
(* The producer: the closure given to pQueue. *)

ProducerStart ==
  /\ ppc = "queued"
  /\ ThreadFree
  /\ ppc' = "loop"
  /\ UNCHANGED <<main, group, i, consumer, writer, pSemaphore, wSemaphore, bufs,
                 cBufs, seed>>

\* Wait for the block and begin to overwrite it.
ProducerWait ==
  /\ ppc = "loop"
  /\ i < junks - 1
  /\ PWait(Block(i))
  /\ bufs' = [bufs EXCEPT ![Block(i)] = Scratched]
  /\ ppc' = "fill"
  /\ UNCHANGED <<main, group, i, consumer, writer, wSemaphore, cBufs, seed>>

\* End genRandom and submit the block's consumer.
ProducerFill ==
  /\ ppc = "fill"
  /\ bufs' = [bufs EXCEPT ![Block(i)] = Fill(@, BufSize)]
  /\ seed' = seed + BufSize
  /\ cQueue' = Append(cQueue, i)
  /\ cpc' = [cpc EXCEPT ![i] = "queued"]
  /\ group' = group + 1
  /\ i' = i + 1
  /\ ppc' = "loop"
  /\ UNCHANGED <<main, writer, pSemaphore, wSemaphore, cBufs>>

ProducerLeave ==
  /\ ppc = "loop"
  /\ i >= junks - 1
  /\ group' = group - 1
  /\ ppc' = "off"
  /\ UNCHANGED <<main, i, consumer, writer, pSemaphore, wSemaphore, bufs, cBufs,
                 seed>>

-----------------------------------------------------------------------------
(* The consumer of iteration k: the closure given to cQueue. *)

CGoto(k, label) == cpc' = [cpc EXCEPT ![k] = label]

\* A concurrent queue starts its items in order and does not wait for them.
ConsumerStart ==
  /\ cQueue # <<>>
  /\ ThreadFree
  /\ cQueue' = Tail(cQueue)
  /\ CGoto(Head(cQueue), "wait")
  /\ UNCHANGED <<main, group, producer, writer, pSemaphore, wSemaphore, bufs,
                 cBufs, seed>>

\* Wait for the block of letters and begin to overwrite it.
ConsumerWait(k) ==
  /\ cpc[k] = "wait"
  /\ WWait(Block(k))
  /\ cBufs' = [cBufs EXCEPT ![Block(k)] = Scratched]
  /\ CGoto(k, "consume")
  /\ UNCHANGED <<main, group, producer, cQueue, writer, pSemaphore, bufs, seed>>

ConsumerTranslate(k) ==
  /\ cpc[k] = "consume"
  /\ cBufs' = [cBufs EXCEPT ![Block(k)] = Translate(bufs[Block(k)], @, BufSize)]
  /\ CGoto(k, "signal")
  /\ UNCHANGED <<main, group, producer, cQueue, writer, pSemaphore, wSemaphore,
                 bufs, seed>>

ConsumerSignal(k) ==
  /\ cpc[k] = "signal"
  /\ PSignal(Block(k))
  /\ CGoto(k, "submit")
  /\ UNCHANGED <<main, group, producer, cQueue, writer, wSemaphore, bufs, cBufs,
                 seed>>

\* Mutant: the writer is submitted without the group.
ConsumerSubmitNoGroup(k) ==
  /\ cpc[k] = "submit"
  /\ wQueue' = Append(wQueue, Block(k))
  /\ group' = group - 1
  /\ CGoto(k, "none")
  /\ UNCHANGED <<main, producer, cQueue, wpc, wblk, deferedWrite, writeBlock,
                 output, pSemaphore, wSemaphore, bufs, cBufs, seed>>

\* Submit the writer, which enters the group, and leave the group.
ConsumerSubmit(k) ==
  /\ cpc[k] = "submit"
  /\ wQueue' = Append(wQueue, Block(k))
  /\ group' = (group + 1) - 1
  /\ CGoto(k, "none")
  /\ UNCHANGED <<main, producer, cQueue, wpc, wblk, deferedWrite, writeBlock,
                 output, pSemaphore, wSemaphore, bufs, cBufs, seed>>

-----------------------------------------------------------------------------
(* The writer: the closure given to wQueue, one at a time. *)

WriterStart ==
  /\ wpc = "idle"
  /\ wQueue # <<>>
  /\ ThreadFree
  /\ wblk' = Head(wQueue)
  /\ wQueue' = Tail(wQueue)
  /\ wpc' = "start"
  /\ UNCHANGED <<main, group, producer, consumer, deferedWrite, writeBlock,
                 output, pSemaphore, wSemaphore, bufs, cBufs, seed>>

\* It is not the turn of this block.
WriterDefer ==
  /\ wpc = "start"
  /\ ~Turn(wblk)
  /\ deferedWrite' = Append(deferedWrite, wblk)
  /\ group' = group - 1
  /\ wpc' = "idle"
  /\ UNCHANGED <<main, producer, consumer, wQueue, wblk, writeBlock, output,
                 pSemaphore, wSemaphore, bufs, cBufs, seed>>

PrintBlock(b) ==
  /\ output' = output \o Prefix(cBufs[b], BufSize)
  /\ writeBlock' = NextBlock(writeBlock)
  /\ wblk' = b
  /\ wpc' = "signal"
  /\ UNCHANGED <<main, group, producer, consumer, wQueue, pSemaphore, wSemaphore,
                 bufs, cBufs, seed>>

WriterPrint ==
  /\ wpc = "start"
  /\ Turn(wblk)
  /\ PrintBlock(wblk)
  /\ UNCHANGED deferedWrite

WriterSignal ==
  /\ wpc = "signal"
  /\ WSignal(wblk)
  /\ wpc' = "drain"
  /\ UNCHANGED <<main, group, producer, consumer, wQueue, wblk, deferedWrite,
                 writeBlock, output, pSemaphore, bufs, cBufs, seed>>

\* The deferred block whose turn has come, removed at its first index.
WriterDrain ==
  /\ wpc = "drain"
  /\ \E k \in DOMAIN deferedWrite :
       /\ deferedWrite[k] = writeBlock
       /\ \A m \in 1..(k - 1) : deferedWrite[m] # writeBlock
       /\ deferedWrite' = SubSeq(deferedWrite, 1, k - 1)
                          \o SubSeq(deferedWrite, k + 1, Len(deferedWrite))
  /\ PrintBlock(writeBlock)

WriterEnd ==
  /\ wpc = "drain"
  /\ \A k \in DOMAIN deferedWrite : deferedWrite[k] # writeBlock
  /\ group' = group - 1
  /\ wpc' = "idle"
  /\ UNCHANGED <<main, producer, consumer, wQueue, wblk, deferedWrite,
                 writeBlock, output, pSemaphore, wSemaphore, bufs, cBufs, seed>>

-----------------------------------------------------------------------------
MainStep     == StartCall \/ GroupWait \/ LastBlock \/ LastPrint
ProducerStep == ProducerStart \/ ProducerWait \/ ProducerFill \/ ProducerLeave
ConsumerStep(k) == ConsumerWait(k) \/ ConsumerTranslate(k) \/ ConsumerSignal(k)
                   \/ ConsumerSubmit(k)
WriterStep   == WriterStart \/ WriterDefer \/ WriterPrint \/ WriterSignal
                \/ WriterDrain \/ WriterEnd

Next ==
  \/ MainStep \/ ProducerStep \/ ConsumerStart \/ WriterStep
  \/ \E k \in Items : ConsumerStep(k)
  \/ Done

\* Every thread that can run runs, and the dispatch library gives a free thread
\* to each queue that has an item to start.
Fairness ==
  /\ WF_vars(MainStep)
  /\ WF_vars(ProducerStep)
  /\ WF_vars(ConsumerStart)
  /\ WF_vars(WriterStep)
  /\ \A k \in Items : WF_vars(ConsumerStep(k))

Spec == Init /\ [][Next]_vars /\ Fairness

-----------------------------------------------------------------------------
(* Properties. *)

\* The letters come out in the order of the random numbers, each of them once
\* and none torn, however the consumers overtake one another: no block is
\* reused before it was translated, nor printed before its turn, nor
\* overwritten before it was printed.
InOrder == \A k \in DOMAIN output : output[k] = k

Count(s, b)   == Cardinality({k \in DOMAIN s : s[k] = b})
At(b, labels) == Cardinality({k \in Items : cpc[k] \in labels /\ Block(k) = b})
Flag(P)       == IF P THEN 1 ELSE 0

\* The right to overwrite a block of numbers is in its semaphore, with the
\* producer, or with the one consumer that has not yet given it back; the right
\* to overwrite a block of letters is in its semaphore, with one consumer, or
\* with the one writer that is pending, deferred or running for it.
OneOwner ==
  \A b \in Blocks :
    /\ pSemaphore[b] + Flag(ppc = "fill" /\ Block(i) = b)
       + At(b, {"queued", "wait", "consume", "signal"}) = 1
    /\ wSemaphore[b] + At(b, {"consume", "signal", "submit"}) + Count(wQueue, b)
       + Flag(wpc \in {"start", "signal"} /\ wblk = b) + Count(deferedWrite, b) = 1

\* The number of letters the first c calls have to print.
PrintedBy[c \in 0..Len(Lengths)] == IF c = 0 THEN 0 ELSE PrintedBy[c - 1] + Lengths[c]

\* randomFasta returns with its n letters printed and nothing left behind: the
\* group waits for the deferred writes of consumers that overtook others, and
\* the next call finds every semaphore at one.
CleanReturn ==
  mpc = "call" =>
    /\ Len(output) = PrintedBy[call - 1]
    /\ ppc = "off" /\ wpc = "idle"
    /\ cQueue = <<>> /\ wQueue = <<>> /\ deferedWrite = <<>>
    /\ \A k \in Items : cpc[k] = "none"
    /\ \A b \in Blocks : pSemaphore[b] = 1 /\ wSemaphore[b] = 1

\* Every sequence is eventually printed, up to one whose last substring traps.
Termination == <>(mpc = "trap" \/ (mpc = "call" /\ call \notin Calls))
=============================================================================
