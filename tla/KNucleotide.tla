----------------------------- MODULE KNucleotide -----------------------------
(***************************************************************************)
(* extra/swift/nucleotide/Sources/nucleotide-lemire/main.swift, which      *)
(* nucleotide-ganszky repeats: read the lines of a sequence, then count,   *)
(* for each length in Frames, how often each string of that length occurs. *)
(* ntasks iterations of concurrentPerform count their slices in            *)
(* dictionaries of their own and merge them on a serial queue; main counts *)
(* the remainder.                                                          *)
(*                                                                         *)
(* A letter of the input is what the program rewrites it to, one of 0..3;  *)
(* the other bytes of the input are NL and NUL.                            *)
(***************************************************************************)
EXTENDS Integers, Sequences, FiniteSets, Functions

CONSTANTS
  ntasks,
  linewidth,
  Texts,      \* what sequence THREE of the input may be, never empty
  Before,     \* the lines that may come before it, the last one its header
  Memory,     \* what the buffer may hold when it is allocated
  Frames      \* the lengths getSequenceHash is called with, in turn

NL  == 10
NUL == -1

ASSUME NucleotideAssumption ==
  /\ ntasks \in Nat \ {0}
  /\ linewidth \in Nat \ {0}
  /\ \A t \in Texts : t \in Seq(0..3) /\ t # <<>>
  /\ \A b \in Before : b \in Seq(Seq(0..3)) /\ b # <<>>
  /\ Memory \subseteq [1..(linewidth + 2) -> 0..3 \cup {NL, NUL}]
  /\ Frames \in Seq(Nat \ {0})

VARIABLES
  text,            \* the sequence in the input
  earlier,         \* the lines before it that are still to be read
  lines, buf,      \* the number of its lines read, and the buffer of fgets
  left,            \* the buffer as the lines before the sequence left it
  seq,             \* what was read, then its nucleotides
  frame, mpc,      \* the call of getSequenceHash, and where main is
  hash, lHash,     \* the counts, in all and of each task
  tpc,             \* where each task is
  found,           \* the key each task is merging, and what it found there
  mQueue           \* the task that runs on the serial queue

input  == <<text, earlier, lines, buf, left>>
counts == <<hash, lHash, tpc, found, mQueue>>
vars   == <<input, seq, frame, mpc, counts>>

Tasks  == 0..(ntasks - 1)
Nobody == -1
Empty  == [k \in {} |-> 0]
Get(counter, k) == IF k \in DOMAIN counter THEN counter[k] ELSE 0

\* fgets stores a line and a zero over what the buffer held.  The bytes from
\* linewidth + 3 on are never read, and no line is longer than the 98 there are.
fgets(b, letters) ==
  LET line == letters \o <<NL, NUL>>
  IN  [p \in DOMAIN b |-> IF p <= Len(line) THEN line[p] ELSE b[p]]

Init ==
  /\ text \in Texts
  /\ earlier \in Before
  /\ lines = 0
  /\ buf \in Memory /\ left = buf
  /\ seq = <<>>
  /\ frame = 1 /\ mpc = "skip"
  /\ hash = Empty
  /\ lHash = [t \in Tasks |-> Empty]
  /\ tpc = [t \in Tasks |-> "off"]
  /\ found = [t \in Tasks |-> <<0, 0>>]
  /\ mQueue = Nobody

-----------------------------------------------------------------------------
(* readInputAndRewrite *)

\* The loop that ends with the header.
SkipLine ==
  /\ mpc = "skip"
  /\ buf' = fgets(buf, Head(earlier)) /\ left' = buf'
  /\ earlier' = Tail(earlier)
  /\ mpc' = IF earlier' = <<>> THEN "read" ELSE "skip"
  /\ UNCHANGED <<text, lines, seq, frame, counts>>

LineEnd(k) == IF k * linewidth < Len(text) THEN k * linewidth ELSE Len(text)

\* Whatever the line, linewidth bytes of the buffer are appended.
ReadLine ==
  /\ mpc = "read" /\ lines * linewidth < Len(text)
  /\ buf' = fgets(buf, SubSeq(text, lines * linewidth + 1, LineEnd(lines + 1)))
  /\ seq' = seq \o SubSeq(buf', 1, linewidth)
  /\ lines' = lines + 1
  /\ UNCHANGED <<text, earlier, left, frame, mpc, counts>>

\* Mutant: everything is kept.
LengthNotSearched == Len(seq)

\* The index of the last newline among the last linewidth - 1 bytes, or else of
\* the last byte: the number of bytes to keep.
LastNewline ==
  LET newlines == {p \in (Len(seq) - linewidth + 1)..(Len(seq) - 1) : seq[p + 1] = NL}
  IN  IF newlines = {} THEN Len(seq) - 1
      ELSE CHOOSE p \in newlines : \A q \in newlines : q <= p

\* (byte & 6) >> 1
bits(byte) == CASE byte = NL -> 1 [] byte = NUL -> 0 [] OTHER -> byte

Rewrite ==
  /\ mpc = "read" /\ lines * linewidth >= Len(text)
  /\ seq' = [p \in 1..LastNewline |-> bits(seq[p])]
  /\ mpc' = "call"
  /\ UNCHANGED <<input, frame, counts>>

-----------------------------------------------------------------------------
(* getSequenceHash; the array seq is indexed from 0. *)

n         == Frames[frame]
Base(i)   == seq[i + 1]
Positions == Len(seq) - (n - 1)
slice     == Positions \div ntasks
remainder == Positions % ntasks

\* The number whose digits are the n nucleotides from position i on.
compress(i) ==
  LET digits[d \in 0..n] == IF d = 0 THEN 0 ELSE digits[d - 1] * 4 + Base(i + d - 1)
  IN  digits[n]

\* How many strings of each length up to n there are; mask is one less than the last.
Strings[d \in 0..n] == IF d = 0 THEN 1 ELSE Strings[d - 1] * 4

\* ((idx << 2) & mask) | b
Shift(idx, b) == ((idx * 4) % Strings[n]) + b

\* What task t finds at the positions of its slice.
Index(t) ==
  LET idx[l \in (t * slice)..((t + 1) * slice - 1)] ==
        IF l = t * slice THEN compress(l) ELSE Shift(idx[l - 1], Base(l + n - 1))
  IN  idx

Plus(counter, k, m) ==
  [q \in DOMAIN counter \cup {k} |-> Get(counter, q) + (IF q = k THEN m ELSE 0)]
Tally(idx) ==
  [k \in {idx[l] : l \in DOMAIN idx} |-> Cardinality({l \in DOMAIN idx : idx[l] = k})]

\* A slice without a position is an invalid range, which stops the program.
Call ==
  /\ mpc = "call" /\ frame \in DOMAIN Frames
  /\ IF Positions < ntasks
     THEN mpc' = "trap" /\ UNCHANGED tpc
     ELSE mpc' = "perform" /\ tpc' = [t \in Tasks |-> "count"]
  /\ hash' = Empty
  /\ UNCHANGED <<input, seq, frame, lHash, found, mQueue>>

Count(t) ==
  /\ tpc[t] = "count"
  /\ lHash' = [lHash EXCEPT ![t] = Tally(Index(t))]
  /\ tpc' = [tpc EXCEPT ![t] = "merge"]
  /\ UNCHANGED <<input, seq, frame, mpc, hash, found, mQueue>>

\* Mutant: the tasks merge on the concurrent queue.
EnterConcurrently(t) ==
  /\ tpc[t] = "merge"
  /\ tpc' = [tpc EXCEPT ![t] = "look"]
  /\ UNCHANGED <<input, seq, frame, mpc, hash, lHash, found, mQueue>>

\* mQueue.sync
EnterQueue(t) ==
  /\ tpc[t] = "merge"
  /\ mQueue = Nobody /\ mQueue' = t
  /\ tpc' = [tpc EXCEPT ![t] = "look"]
  /\ UNCHANGED <<input, seq, frame, mpc, hash, lHash, found>>

\* The loop over the dictionary, in any order: look a key up, then store the sum.
LookUp(t) ==
  /\ tpc[t] = "look"
  /\ \E k \in DOMAIN lHash[t] : found' = [found EXCEPT ![t] = <<k, Get(hash, k)>>]
  /\ tpc' = [tpc EXCEPT ![t] = "store"]
  /\ UNCHANGED <<input, seq, frame, mpc, hash, lHash, mQueue>>

Store(t) ==
  /\ tpc[t] = "store"
  /\ LET k == found[t][1]
     IN  /\ hash' = Plus(Restrict(hash, DOMAIN hash \ {k}), k, found[t][2] + lHash[t][k])
         /\ lHash' = [lHash EXCEPT ![t] = Restrict(@, DOMAIN @ \ {k})]
  /\ tpc' = [tpc EXCEPT ![t] = "look"]
  /\ found' = [found EXCEPT ![t] = <<0, 0>>]
  /\ UNCHANGED <<input, seq, frame, mpc, mQueue>>

LeaveQueue(t) ==
  /\ tpc[t] = "look" /\ lHash[t] = Empty
  /\ mQueue' = Nobody
  /\ tpc' = [tpc EXCEPT ![t] = "off"]
  /\ UNCHANGED <<input, seq, frame, mpc, hash, lHash, found>>

\* concurrentPerform returns.
JoinAll ==
  /\ mpc = "perform"
  /\ \A t \in Tasks : tpc[t] = "off"
  /\ mpc' = "rest"
  /\ UNCHANGED <<input, seq, frame, counts>>

\* The loop over the positions the slices leave out.
CountRest ==
  /\ mpc = "rest"
  /\ LET start == Len(seq) - remainder - (n - 1)
         sum[i \in 0..remainder] ==
           IF i = 0 THEN hash ELSE Plus(sum[i - 1], compress(start + i - 1), 1)
     IN  hash' = sum[remainder]
  /\ mpc' = "return"
  /\ UNCHANGED <<input, seq, frame, lHash, tpc, found, mQueue>>

Return ==
  /\ mpc = "return"
  /\ frame' = frame + 1 /\ mpc' = "call"
  /\ UNCHANGED <<input, seq, counts>>

-----------------------------------------------------------------------------
Task(t) == Count(t) \/ EnterQueue(t) \/ LookUp(t) \/ Store(t) \/ LeaveQueue(t)
Done    == mpc = "trap" \/ (mpc = "call" /\ frame \notin DOMAIN Frames)

Next ==
  \/ SkipLine \/ ReadLine \/ Rewrite \/ Call \/ JoinAll \/ CountRest \/ Return
  \/ \E t \in Tasks : Task(t)
  \/ Done /\ UNCHANGED vars

Spec == Init /\ [][Next]_vars

-----------------------------------------------------------------------------
(* Properties. *)

\* The newlines in the buffer behind a sequence that is shorter than a line: of the
\* header, of a longer line before it, say the last one of sequence TWO, or in
\* the memory that was allocated.
OldNewlines ==
  {p \in (Len(text) + 3)..linewidth : Len(text) < linewidth /\ left[p] = NL}

\* What is read together with a sequence that is shorter than a line: its own
\* newline and zero, and what is left in the buffer before the last newline.
Leftover ==
  LET last == CHOOSE p \in OldNewlines : \A q \in OldNewlines : q <= p
  IN  [p \in 1..(last - (Len(text) + 1)) |->
         IF p = 1 THEN bits(NL) ELSE IF p = 2 THEN bits(NUL)
         ELSE bits(left[Len(text) + p])]

\* The nucleotides of the sequence are read and nothing else, although every
\* line is appended with the whole width of the buffer, with two exceptions.  The
\* last one is dropped when it ends a full line; and a sequence shorter than a
\* line is read together with leftovers when the buffer has an old newline
\* behind it.
ReadsTheSequence ==
  mpc \notin {"skip", "read"} =>
    seq = CASE Len(text) % linewidth = 0 -> SubSeq(text, 1, Len(text) - 1)
            [] OldNewlines # {}          -> text \o Leftover
            [] OTHER                     -> text

\* How often the string with number k stands in the sequence.
Occurrences(k) == Cardinality({i \in 0..(Positions - 1) : compress(i) = k})

\* The counts do not depend on how the positions are cut into slices nor on the
\* order of the merges, and none is lost: getSequenceHash returns the number of
\* occurrences of each string, and a key for no other.
CountsAreExact ==
  mpc = "return" =>
    /\ DOMAIN hash = {compress(i) : i \in 0..(Positions - 1)}
    /\ \A k \in DOMAIN hash : hash[k] = Occurrences(k)
=============================================================================
