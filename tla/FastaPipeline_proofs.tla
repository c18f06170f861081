------------------------ MODULE FastaPipeline_proofs ------------------------
(***************************************************************************)
(* Theorems about randomFasta for every number of buffers, size of a block,*)
(* list of calls and pool of threads: each block has one owner at a time,  *)
(* the letters come out in order, and a call leaves nothing behind.        *)
(*                                                                         *)
(* An iteration of the producer's loop names a block of numbers for ever,  *)
(* while bufs, cBufs and the queue of the writer only have its index       *)
(* modulo NumBufs.  The invariant speaks of iterations: written is the     *)
(* number of those that were printed, and every iteration from there to i  *)
(* is with its consumer or, by its block, with the writer.                 *)
(***************************************************************************)
EXTENDS FastaPipeline, Lemmas, SequenceTheorems, FiniteSetTheorems, TLAPS

Elements(s) == {s[k] : k \in DOMAIN s}
Without(s, k) == SubSeq(s, 1, k - 1) \o SubSeq(s, k + 1, Len(s))
NoRepeat(s) == \A j, k \in DOMAIN s : s[j] = s[k] => j = k

TypeInv ==
  /\ call \in 1..(Len(Lengths) + 1)
  /\ mpc \in {"call", "group_wait", "last", "print", "trap"}
  /\ ppc \in {"off", "queued", "loop", "fill"} /\ i \in Nat
  /\ cQueue \in Seq(Items)
  /\ cpc \in [Items -> {"none", "queued", "wait", "consume", "signal", "submit"}]
  /\ wQueue \in Seq(Blocks) /\ deferedWrite \in Seq(Blocks)
  /\ wpc \in {"idle", "start", "signal", "drain"}
  /\ wblk \in Blocks /\ writeBlock \in Blocks
  /\ pSemaphore \in [Blocks -> {0, 1}] /\ wSemaphore \in [Blocks -> {0, 1}]
  /\ bufs \in [Blocks -> [0..(BufSize - 1) -> Nat]]
  /\ cBufs \in [Blocks -> [0..(BufSize - 1) -> Nat]]
  /\ seed \in Nat \ {0}
  /\ output \in Seq(Nat)

\* Nothing is queued, waited for or deferred.
Idle ==
  /\ ppc = "off" /\ wpc = "idle"
  /\ cQueue = <<>> /\ wQueue = <<>> /\ deferedWrite = <<>>
  /\ \A k \in Items : cpc[k] = "none"

PhaseInv ==
  /\ mpc \in {"group_wait", "last", "print"} => call \in Calls
  /\ mpc # "group_wait" => Idle
  /\ mpc = "group_wait" =>
       /\ i <= junks - 1
       /\ ppc = "queued" => i = 0
       /\ ppc = "fill" => i < junks - 1
       /\ ppc = "off" => i = junks - 1
  /\ mpc = "last" => i = junks - 1
  /\ NoRepeat(cQueue)
  /\ \A k \in Items : cpc[k] = "queued" <=> k \in Elements(cQueue)

\* The right to overwrite bufs[b], as a semaphore at zero and one holder.
HoldsNumbers(k) == cpc[k] \in {"queued", "wait", "consume", "signal"}
Filling(b)      == ppc = "fill" /\ Block(i) = b

NumbersInv ==
  /\ \A j, k \in Items : HoldsNumbers(j) /\ HoldsNumbers(k) /\ Block(j) = Block(k) => j = k
  /\ \A k \in Items : HoldsNumbers(k) => pSemaphore[Block(k)] = 0 /\ ~Filling(Block(k))
  /\ \A b \in Blocks : Filling(b) => pSemaphore[b] = 0
  /\ \A b \in Blocks : pSemaphore[b] = 0 =>
       Filling(b) \/ \E k \in Items : HoldsNumbers(k) /\ Block(k) = b

\* The right to overwrite cBufs[b].
HoldsLetters(k) == cpc[k] \in {"consume", "signal", "submit"}
Writing(b)      == wpc \in {"start", "signal"} /\ wblk = b
Queued(b)       == b \in Elements(wQueue)
Deferred(b)     == b \in Elements(deferedWrite)

LettersInv ==
  /\ NoRepeat(wQueue) /\ NoRepeat(deferedWrite)
  /\ \A j, k \in Items : HoldsLetters(j) /\ HoldsLetters(k) /\ Block(j) = Block(k) => j = k
  /\ \A k \in Items : HoldsLetters(k) =>
       /\ wSemaphore[Block(k)] = 0
       /\ ~Queued(Block(k)) /\ ~Writing(Block(k)) /\ ~Deferred(Block(k))
  /\ \A b \in Blocks :
       /\ Queued(b) => wSemaphore[b] = 0 /\ ~Writing(b) /\ ~Deferred(b)
       /\ Writing(b) => wSemaphore[b] = 0 /\ ~Deferred(b)
       /\ Deferred(b) => wSemaphore[b] = 0
       /\ wSemaphore[b] = 0 => Queued(b) \/ Writing(b) \/ Deferred(b)
                               \/ \E k \in Items : HoldsLetters(k) /\ Block(k) = b

\* The group counts the closures that have not ended.
Active == {k \in Items : cpc[k] # "none"}

GroupInv ==
  /\ IsFiniteSet(Active)
  /\ group = Flag(ppc # "off") + Cardinality(Active) + Len(wQueue) + Flag(wpc # "idle")

\* The rank before the first number of this call, and the numbers of iteration k.
Base       == seed - i * BufSize
Numbers(k) == [j \in 0..(BufSize - 1) |-> Base + k * BufSize + j]

\* A block that was translated and not yet printed, as the writer knows it.
Pending(b) == Queued(b) \/ (wpc = "start" /\ wblk = b) \/ Deferred(b)

Order(written) ==
  /\ writeBlock = Block(written)
  /\ Len(output) = Base + written * BufSize - 1
  /\ wpc \in {"idle", "start"} => ~Deferred(writeBlock)
  /\ \A k \in Items : cpc[k] # "none" => written <= k /\ k < i
  /\ \A k \in Items : HoldsLetters(k) => k < written + NumBufs
  /\ \A k \in written..(i - 1) : cpc[k] = "none" =>
       k < written + NumBufs /\ Pending(Block(k))
  /\ \A b \in Blocks : Pending(b) =>
       \E k \in written..(i - 1) : k < written + NumBufs /\ Block(k) = b /\ cpc[k] = "none"
  /\ \A k \in Items : cpc[k] \in {"queued", "wait", "consume"} => bufs[Block(k)] = Numbers(k)
  /\ \A k \in written..(i - 1) : cpc[k] \in {"signal", "submit", "none"} =>
       cBufs[Block(k)] = Numbers(k)

OrderInv ==
  /\ InOrder
  /\ mpc = "group_wait" => \E written \in 0..i : Order(written)
  /\ mpc \in {"call", "last"} => Len(output) = seed - 1
  /\ mpc = "print" =>
       /\ Len(output) = seed - 1 - remainder
       /\ \A j \in 0..(BufSize - 1) : j < remainder => cBufs[0][j] = seed - remainder + j

\* How many numbers were drawn.
CountInv ==
  /\ mpc = "call" => seed - 1 = PrintedBy[call - 1]
  /\ mpc \in {"group_wait", "last"} => seed - 1 = PrintedBy[call - 1] + i * BufSize
  /\ mpc = "print" => seed - 1 = PrintedBy[call - 1] + (junks - 1) * BufSize + remainder

IInv == TypeInv /\ PhaseInv /\ NumbersInv /\ LettersInv /\ GroupInv /\ OrderInv /\ CountInv

-----------------------------------------------------------------------------
(* The numbers of the loop. *)

LEMMA Constants ==
  NumBufs \in Nat \ {0} /\ BufSize \in Nat \ {0} /\ Lengths \in Seq(Nat \ {0})
BY FastaAssumption

\* The blocks go round.
LEMMA BlockOf ==
  /\ 0 \in Blocks
  /\ \A k \in Nat : Block(k) \in Blocks /\ Block(k + 1) = NextBlock(Block(k))
  /\ \A b \in Blocks : NextBlock(b) \in Blocks
  /\ Block(0) = 0
<1>1. NumBufs \in Nat \ {0}
  BY Constants
<1>2. ASSUME NEW k \in Nat PROVE Block(k) \in Blocks /\ Block(k + 1) = NextBlock(Block(k))
  BY <1>1, DivMod, NextRemainder DEF Block, Blocks, NextBlock
<1>3. ASSUME NEW b \in Blocks PROVE NextBlock(b) \in Blocks
  <2>1. b + 1 \in Nat
    BY <1>1 DEF Blocks
  <2> QED
    BY <1>1, <2>1, DivMod DEF Blocks, NextBlock
<1>4. Block(0) = 0 /\ 0 \in Blocks
  BY <1>1 DEF Block, Blocks
<1> QED
  BY <1>2, <1>3, <1>4

LEMMA BlocksDiffer ==
  ASSUME NEW j \in Nat, NEW k \in Nat, j < k + NumBufs, k < j + NumBufs, Block(j) = Block(k)
  PROVE  j = k
<1>1. NumBufs \in Nat \ {0}
  BY Constants
<1>2. CASE j <= k
  BY <1>1, <1>2, RemaindersDiffer DEF Block
<1>3. CASE k <= j
  BY <1>1, <1>3, RemaindersDiffer DEF Block
<1> QED
  BY <1>2, <1>3

LEMMA OneRoundBefore ==
  ASSUME NEW k \in Nat, NumBufs <= k
  PROVE  k - NumBufs \in Nat /\ Block(k - NumBufs) = Block(k)
<1> DEFINE j == k - NumBufs
           p == j \div NumBufs
           q == k \div NumBufs
<1>1. j \in Nat
  BY Constants
<1>2. /\ p \in Nat /\ Block(j) \in 0..(NumBufs - 1) /\ j = p * NumBufs + Block(j)
      /\ q \in Nat /\ Block(k) \in 0..(NumBufs - 1) /\ k = q * NumBufs + Block(k)
  BY <1>1, Constants, DivMod DEF Block
<1>3. k = j + NumBufs
  BY Constants
<1> HIDE DEF j, p, q
<1> DEFINE t == p + 1
<1>4. t * NumBufs + Block(j) = q * NumBufs + Block(k) /\ t \in Nat
  BY <1>2, <1>3, Constants, Multiples
<1> HIDE DEF t
<1>5. Block(j) = Block(k)
  <2> DEFINE u == Block(j)
             v == Block(k)
  <2>1. /\ NumBufs \in Nat \ {0} /\ t \in Nat /\ q \in Nat
        /\ u \in 0..(NumBufs - 1) /\ v \in 0..(NumBufs - 1)
        /\ t * NumBufs + u = q * NumBufs + v
    BY <1>2, <1>4, Constants
  <2> HIDE DEF u, v
  <2>2. u = v
    BY <2>1, OneRemainder
  <2> QED
    BY <2>2 DEF u, v
<1> QED
  BY <1>1, <1>5 DEF j

\* The blocks of a call but the last one, and the letters of the last one.
LEMMA JunksOf ==
  ASSUME NEW l \in Nat \ {0}
  PROVE  LET m == (l + BufSize - 1) \div BufSize
             r == l % BufSize
         IN  /\ m \in Nat \ {0} /\ m <= l
             /\ r \in 0..(BufSize - 1)
             /\ r # 0 => (m - 1) * BufSize + r = l
<1> DEFINE m == (l + BufSize - 1) \div BufSize
           s == (l + BufSize - 1) % BufSize
           q == l \div BufSize
           r == l % BufSize
<1>1. BufSize \in Nat /\ BufSize >= 1 /\ BufSize \in Nat \ {0} /\ l \in Nat
  BY Constants
<1>2. l + BufSize - 1 \in Nat
  BY <1>1
<1>3. /\ m \in Nat /\ s \in 0..(BufSize - 1) /\ l + BufSize - 1 = m * BufSize + s
      /\ q \in Nat /\ r \in 0..(BufSize - 1) /\ l = q * BufSize + r
  <2> DEFINE x == l + BufSize - 1
  <2>1. x \in Nat
    BY <1>2
  <2> HIDE DEF x
  <2>2. x \div BufSize \in Nat /\ x % BufSize \in 0..(BufSize - 1)
        /\ x = (x \div BufSize) * BufSize + (x % BufSize)
    BY <1>1, <2>1, DivMod
  <2>3. q \in Nat /\ r \in 0..(BufSize - 1) /\ l = q * BufSize + r
    BY <1>1, DivMod
  <2> QED
    BY <2>2, <2>3 DEF x
<1> HIDE DEF m, s, q, r
<1>4. m # 0
  BY <1>1, <1>3, Multiples
<1>5. m <= l
  <2>1. 1 * l <= BufSize * l
    BY <1>1, Multiples
  <2>2. l < m => l * BufSize + BufSize <= m * BufSize
    BY <1>1, <1>3, Multiples
  <2>3. l * BufSize = BufSize * l /\ 1 * l = l /\ l * BufSize \in Nat /\ m * BufSize \in Nat
    BY <1>1, <1>3, Multiples
  <2> QED
    BY <1>1, <1>3, <2>1, <2>2, <2>3
<1>6. ASSUME r # 0 PROVE (m - 1) * BufSize + r = l
  <2>1. (q + 1) * BufSize + (r - 1) = m * BufSize + s
    BY <1>1, <1>3, Multiples
  <2>2. r - 1 \in 0..(BufSize - 1) /\ q + 1 \in Nat
    BY <1>1, <1>3, <1>6
  <2>3. q + 1 = m
    BY <1>1, <1>3, <2>1, <2>2, OneRemainder
  <2>4. m - 1 = q
    BY <1>3, <2>3
  <2> QED
    BY <1>3, <2>4
<1> QED
  BY <1>3, <1>4, <1>5, <1>6 DEF m, r

\* Some call has the most letters to print.
LEMMA ItemsAreEnough ==
  ASSUME Calls # {}
  PROVE  \E m \in Nat : Items = 0..m /\ \A c \in Calls : Lengths[c] <= m
<1> DEFINE Longest(k) == \E c \in 1..k : \A d \in 1..k : Lengths[d] <= Lengths[c]
           T == {k \in Nat : k >= 1 /\ k <= Len(Lengths) => Longest(k)}
<1>1. Calls = 1..Len(Lengths) /\ Len(Lengths) \in Nat
      /\ \A c \in Calls : Lengths[c] \in Nat
  BY Constants DEF Calls
<1>2. 0 \in T
  OBVIOUS
<1>3. ASSUME NEW k \in Nat, k \in T PROVE k + 1 \in T
  <2>1. CASE k = 0
    BY <1>1, <2>1
  <2>2. CASE k >= 1 /\ k + 1 <= Len(Lengths)
    <3>1. PICK c \in 1..k : \A d \in 1..k : Lengths[d] <= Lengths[c]
      BY <1>3, <2>2
    <3>2. Lengths[k + 1] <= Lengths[c] \/ Lengths[c] <= Lengths[k + 1]
      BY <1>1, <2>2, <3>1
    <3>3. CASE Lengths[k + 1] <= Lengths[c]
      <4>1. c \in 1..(k + 1) /\ \A d \in 1..(k + 1) : Lengths[d] <= Lengths[c]
        BY <3>1, <3>3
      <4> QED
        BY <4>1
    <3>4. CASE Lengths[c] <= Lengths[k + 1]
      <4>1. \A d \in 1..(k + 1) : Lengths[d] <= Lengths[k + 1]
        BY <1>1, <2>2, <3>1, <3>4
      <4> QED
        BY <4>1
    <3> QED
      BY <3>2, <3>3, <3>4
  <2> QED
    BY <1>1, <1>3, <2>1, <2>2
<1> HIDE DEF T
<1>4. Nat \subseteq T
  BY <1>2, <1>3, SetInduction
<1> HIDE DEF Longest
<1>5. Longest(Len(Lengths))
  BY <1>1, <1>4 DEF T
<1>6. \E m \in {Lengths[c] : c \in Calls} : \A c \in Calls : Lengths[c] <= m
  BY <1>1, <1>5 DEF Longest
<1> DEFINE max == CHOOSE m \in {Lengths[c] : c \in Calls} : \A c \in Calls : Lengths[c] <= m
<1>7. max \in {Lengths[c] : c \in Calls} /\ \A c \in Calls : Lengths[c] <= max
  BY <1>6
<1>8. Items = 0..max
  BY DEF Items
<1> QED
  BY <1>1, <1>7, <1>8

LEMMA CallOf ==
  ASSUME call \in Calls
  PROVE  /\ junks \in Nat \ {0} /\ remainder \in 0..(BufSize - 1)
         /\ remainder # 0 => (junks - 1) * BufSize + remainder = n
         /\ Items \subseteq Nat /\ 0..junks \subseteq Items
<1>1. n \in Nat \ {0}
  BY Constants DEF Calls, n
<1>2. /\ junks \in Nat \ {0} /\ junks <= n /\ remainder \in 0..(BufSize - 1)
      /\ remainder # 0 => (junks - 1) * BufSize + remainder = n
  BY <1>1, JunksOf DEF junks, remainder
<1>3. PICK m \in Nat : Items = 0..m /\ \A c \in Calls : Lengths[c] <= m
  BY ItemsAreEnough
<1>4. n <= m
  BY <1>3 DEF n
<1> QED
  BY <1>1, <1>2, <1>3, <1>4

-----------------------------------------------------------------------------
(* Queues. *)

LEMMA AppendTo ==
  ASSUME NEW S, NEW s \in Seq(S), NEW x \in S
  PROVE  /\ Append(s, x) \in Seq(S) /\ Len(Append(s, x)) = Len(s) + 1
         /\ Elements(Append(s, x)) = Elements(s) \cup {x}
         /\ NoRepeat(s) /\ x \notin Elements(s) => NoRepeat(Append(s, x))
<1> DEFINE r == Append(s, x)
<1>1. /\ r \in Seq(S) /\ Len(r) = Len(s) + 1 /\ Len(s) \in Nat
      /\ \A k \in 1..Len(s) : r[k] = s[k]
      /\ r[Len(s) + 1] = x
      /\ DOMAIN r = 1..(Len(s) + 1) /\ DOMAIN s = 1..Len(s)
  OBVIOUS
<1> HIDE DEF r
<1>2. Elements(r) = Elements(s) \cup {x}
  BY <1>1 DEF Elements
<1>3. NoRepeat(s) /\ x \notin Elements(s) => NoRepeat(r)
  BY <1>1 DEF Elements, NoRepeat
<1> QED
  BY <1>1, <1>2, <1>3 DEF r

LEMMA RemoveFrom ==
  ASSUME NEW S, NEW s \in Seq(S), NEW k \in DOMAIN s
  PROVE  /\ Without(s, k) \in Seq(S)
         /\ NoRepeat(s) => /\ Elements(Without(s, k)) = Elements(s) \ {s[k]}
                           /\ NoRepeat(Without(s, k))
<1> DEFINE r == Without(s, k)
           a == SubSeq(s, 1, k - 1)
           b == SubSeq(s, k + 1, Len(s))
<1>1. Len(s) \in Nat /\ DOMAIN s = 1..Len(s) /\ k \in 1..Len(s)
  OBVIOUS
<1>2. a \in Seq(S) /\ Len(a) = k - 1 /\ \A j \in 1..(k - 1) : a[j] = s[j]
  BY <1>1
<1>3. b \in Seq(S) /\ Len(b) = Len(s) - k /\ \A j \in 1..(Len(s) - k) : b[j] = s[k + j]
  BY <1>1, SubSeqProperties
<1> HIDE DEF a, b, r
<1>4. /\ r \in Seq(S) /\ Len(r) = Len(s) - 1 /\ DOMAIN r = 1..(Len(s) - 1)
      /\ \A j \in 1..(Len(s) - 1) : r[j] = IF j <= Len(a) THEN a[j] ELSE b[j - Len(a)]
  <2>1. r = a \o b
    BY DEF a, b, r, Without
  <2>2. /\ r \in Seq(S) /\ Len(r) = Len(a) + Len(b)
        /\ \A j \in 1..(Len(a) + Len(b)) : r[j] = IF j <= Len(a) THEN a[j] ELSE b[j - Len(a)]
    BY <1>2, <1>3, <2>1, ConcatProperties
  <2>3. Len(a) + Len(b) = Len(s) - 1
    BY <1>1, <1>2, <1>3
  <2>4. DOMAIN r = 1..(Len(s) - 1)
    BY <2>2, <2>3
  <2> QED
    BY <2>2, <2>3, <2>4
<1>5. \A j \in 1..(Len(s) - 1) : r[j] = IF j < k THEN s[j] ELSE s[j + 1]
  <2> SUFFICES ASSUME NEW j \in 1..(Len(s) - 1)
               PROVE  r[j] = IF j < k THEN s[j] ELSE s[j + 1]
    OBVIOUS
  <2>1. CASE j < k
    <3>1. j \in 1..(k - 1) /\ j <= Len(a)
      BY <1>1, <1>2, <2>1
    <3> QED
      BY <1>2, <1>4, <2>1, <3>1
  <2>2. CASE j >= k
    <3>1. j - (k - 1) \in 1..(Len(s) - k) /\ ~(j <= Len(a)) /\ k + (j - (k - 1)) = j + 1
      BY <1>1, <1>2, <2>2
    <3>2. r[j] = b[j - (k - 1)]
      BY <1>2, <1>4, <3>1
    <3>3. ~(j < k)
      BY <1>1, <2>2
    <3> QED
      BY <1>3, <3>1, <3>2, <3>3
  <2> QED
    BY <1>1, <2>1, <2>2
<1>6. ASSUME NoRepeat(s) PROVE NoRepeat(r)
  <2> SUFFICES ASSUME NEW x \in DOMAIN r, NEW y \in DOMAIN r, r[x] = r[y] PROVE x = y
    BY DEF NoRepeat
  <2> DEFINE From(j) == IF j < k THEN j ELSE j + 1
  <2>1. /\ From(x) \in DOMAIN s /\ r[x] = s[From(x)]
        /\ From(y) \in DOMAIN s /\ r[y] = s[From(y)]
    BY <1>1, <1>4, <1>5
  <2>2. From(x) = From(y)
    <3> HIDE DEF From
    <3> QED
      BY <1>6, <2>1 DEF NoRepeat
  <2> QED
    BY <1>1, <1>4, <2>2
<1>7. ASSUME NoRepeat(s), NEW x PROVE x \in Elements(r) <=> x \in Elements(s) \ {s[k]}
  <2>1. ASSUME x \in Elements(r) PROVE x \in Elements(s) \ {s[k]}
    <3>1. PICK j \in 1..(Len(s) - 1) : x = r[j]
      BY <1>4, <2>1 DEF Elements
    <3>2. CASE j < k
      BY <1>1, <1>5, <1>7, <3>1, <3>2 DEF Elements, NoRepeat
    <3>3. CASE j >= k
      <4>1. x = s[j + 1] /\ j + 1 \in DOMAIN s /\ j + 1 # k
        BY <1>1, <1>5, <3>1, <3>3
      <4> QED
        BY <1>7, <4>1 DEF Elements, NoRepeat
    <3> QED
      BY <1>1, <3>2, <3>3
  <2>2. ASSUME x \in Elements(s), x # s[k] PROVE x \in Elements(r)
    <3>1. PICK j \in 1..Len(s) : x = s[j] /\ j # k
      BY <1>1, <2>2 DEF Elements
    <3>2. CASE j < k
      BY <1>1, <1>4, <1>5, <3>1, <3>2 DEF Elements
    <3>3. CASE j > k
      <4>1. x = r[j - 1] /\ j - 1 \in DOMAIN r
        BY <1>1, <1>4, <1>5, <3>1, <3>3
      <4> QED
        BY <4>1 DEF Elements
    <3> QED
      BY <1>1, <3>1, <3>2, <3>3
  <2> QED
    BY <2>1, <2>2
<1> QED
  BY <1>4, <1>6, <1>7 DEF r

LEMMA TailOf ==
  ASSUME NEW S, NEW s \in Seq(S), s # <<>>
  PROVE  /\ Head(s) \in S /\ Head(s) \in Elements(s)
         /\ Tail(s) \in Seq(S) /\ Len(Tail(s)) = Len(s) - 1
         /\ NoRepeat(s) => Elements(Tail(s)) = Elements(s) \ {Head(s)} /\ NoRepeat(Tail(s))
<1>1. 1 \in DOMAIN s /\ Head(s) = s[1] /\ Head(s) \in S
  OBVIOUS
<1>2. Without(s, 1) = Tail(s)
  BY DEF Without
<1>3. Len(Tail(s)) = Len(s) - 1
  OBVIOUS
<1>4. Without(s, 1) \in Seq(S)
      /\ (NoRepeat(s) => Elements(Without(s, 1)) = Elements(s) \ {s[1]} /\ NoRepeat(Without(s, 1)))
  BY <1>1, RemoveFrom
<1>5. Head(s) \in Elements(s)
  BY <1>1 DEF Elements
<1> QED
  BY <1>1, <1>2, <1>3, <1>4, <1>5

-----------------------------------------------------------------------------
LEMMA PrintedByIsSum ==
  /\ PrintedBy \in [0..Len(Lengths) -> Nat]
  /\ PrintedBy[0] = 0
  /\ \A c \in 1..Len(Lengths) : PrintedBy[c] = PrintedBy[c - 1] + Lengths[c]
<1> DEFINE m == Len(Lengths)
           step == [c \in 1..m |-> [v \in Nat |-> v + Lengths[c]]]
           Solves(f) == f = [c \in 0..m |-> IF c = 0 THEN 0 ELSE f[c - 1] + Lengths[c]]
<1>1. m \in Nat /\ \A c \in 1..m : Lengths[c] \in Nat
  BY Constants
<1>2. step \in [1..m -> [Nat -> Nat]]
  BY <1>1
<1>3. PICK f \in [0..m -> Nat] : f[0] = 0 /\ \A c \in 1..m : f[c] = step[c][f[c - 1]]
  <2> DEFINE zero == 0
  <2>1. m \in Nat /\ zero \in Nat
    BY <1>1
  <2> HIDE DEF m, step, zero
  <2>2. \E f \in [0..m -> Nat] : Recursive(f, m, zero, step)
    BY <1>2, <2>1, Recursion, Zenon
  <2> QED
    BY <2>2 DEF Recursive, zero
<1>4. ASSUME NEW c \in 1..m PROVE f[c] = f[c - 1] + Lengths[c]
  <2>1. f[c - 1] \in Nat
    BY <1>1
  <2> QED
    BY <1>3, <2>1
<1>5. Solves(f)
  <2> DEFINE g == [c \in 0..m |-> IF c = 0 THEN 0 ELSE f[c - 1] + Lengths[c]]
  <2>1. \A c \in 0..m : f[c] = g[c]
    BY <1>1, <1>3, <1>4
  <2>2. f = g
    BY <2>1
  <2> QED
    BY <2>2
<1>6. PrintedBy = CHOOSE g : Solves(g)
  BY DEF PrintedBy
<1>7. Solves(PrintedBy)
  <2> HIDE DEF Solves
  <2> QED
    BY <1>5, <1>6
<1>8. PrintedBy[0] = 0 /\ \A c \in 1..m : PrintedBy[c] = PrintedBy[c - 1] + Lengths[c]
  BY <1>1, <1>7
<1>9. PrintedBy \in [0..m -> Nat]
  <2> DEFINE T == {c \in Nat : c <= m => PrintedBy[c] \in Nat}
  <2>1. 0 \in T
    BY <1>8
  <2>2. ASSUME NEW c \in Nat, c \in T PROVE c + 1 \in T
    <3>1. CASE c + 1 <= m
      <4>1. c + 1 \in 1..m /\ (c + 1) - 1 = c /\ PrintedBy[c] \in Nat
        BY <1>1, <2>2, <3>1
      <4> QED
        BY <1>1, <1>8, <4>1
    <3> QED
      BY <1>1, <3>1
  <2>3. Nat \subseteq T
    <3> HIDE DEF T
    <3> QED
      BY <2>1, <2>2, SetInduction
  <2>4. \A c \in 0..m : PrintedBy[c] \in Nat
    BY <2>3
  <2>5. PrintedBy = [c \in 0..m |-> PrintedBy[c]]
    BY <1>7
  <2> QED
    BY <2>4, <2>5
<1> QED
  BY <1>8, <1>9

LEMMA Initially == Init => IInv
<1> SUFFICES ASSUME Init PROVE IInv
  OBVIOUS
<1> USE DEF Init
<1>1. 0 \in Blocks /\ Len(Lengths) \in Nat /\ BufSize \in Nat
  BY Constants, BlockOf
<1>2. TypeInv
  <2>1. Scratched \in [0..(BufSize - 1) -> Nat]
    BY DEF Scratched, Torn
  <2> QED
    BY <1>1, <2>1 DEF TypeInv
<1>3. PhaseInv
  BY DEF PhaseInv, Idle, NoRepeat, Elements
<1>4. NumbersInv
  BY DEF NumbersInv, HoldsNumbers, Filling
<1>5. LettersInv
  BY DEF LettersInv, HoldsLetters, Queued, Writing, Deferred, NoRepeat, Elements
<1>6. GroupInv
  <2>1. Active = {}
    BY DEF Active
  <2> QED
    BY <2>1, FS_EmptySet DEF GroupInv, Flag
<1>7. OrderInv
  BY DEF OrderInv, InOrder
<1>8. CountInv
  BY PrintedByIsSum DEF CountInv
<1> QED
  BY <1>2, <1>3, <1>4, <1>5, <1>6, <1>7, <1>8 DEF IInv

-----------------------------------------------------------------------------
(* Types. *)

\* While something is queued or running, main waits for the group.
LEMMA Context ==
  ASSUME IInv, mpc = "group_wait"
  PROVE  /\ call \in Calls /\ i \in Items /\ Items \subseteq Nat /\ i \in Nat
         /\ 0..i \subseteq Items /\ i <= junks - 1
         /\ 0..junks \subseteq Items /\ junks \in Nat \ {0}
         /\ \A k \in Items : Block(k) \in Blocks
<1>1. call \in Calls /\ i \in Nat /\ i <= junks - 1
  BY DEF IInv, PhaseInv, TypeInv
<1> QED
  BY <1>1, CallOf, BlockOf

LEMMA Working ==
  ASSUME IInv
  PROVE  /\ ppc # "off" \/ wpc # "idle" => mpc = "group_wait"
         /\ cQueue # <<>> \/ wQueue # <<>> \/ deferedWrite # <<>> => mpc = "group_wait"
         /\ \A k \in Items : cpc[k] # "none" => mpc = "group_wait"
BY DEF IInv, PhaseInv, Idle

LEMMA FillType ==
  ASSUME NEW block \in [0..(BufSize - 1) -> Nat], NEW m, seed \in Nat
  PROVE  Fill(block, m) \in [0..(BufSize - 1) -> Nat]
BY Constants DEF Fill

LEMMA TranslateType ==
  ASSUME NEW block \in [0..(BufSize - 1) -> Nat], NEW m,
         NEW numbers \in [0..(BufSize - 1) -> Nat]
  PROVE  Translate(numbers, block, m) \in [0..(BufSize - 1) -> Nat]
BY DEF Translate

LEMMA PrefixType ==
  ASSUME NEW block \in [0..(BufSize - 1) -> Nat], NEW m \in 0..BufSize, NEW s \in Seq(Nat)
  PROVE  /\ s \o Prefix(block, m) \in Seq(Nat)
         /\ Len(s \o Prefix(block, m)) = Len(s) + m
         /\ \A k \in 1..Len(s) : (s \o Prefix(block, m))[k] = s[k]
         /\ \A k \in 1..m : (s \o Prefix(block, m))[Len(s) + k] = block[k - 1]
<1> DEFINE p == Prefix(block, m)
<1>1. m \in Nat /\ BufSize \in Nat /\ m <= BufSize /\ Len(s) \in Nat
  BY Constants
<1>2. p \in [1..m -> Nat] /\ \A k \in 1..m : p[k] = block[k - 1]
  BY <1>1 DEF Prefix
<1>3. p \in Seq(Nat) /\ Len(p) = m
  BY <1>1, <1>2
<1> HIDE DEF p
<1>4. /\ s \o p \in Seq(Nat) /\ Len(s \o p) = Len(s) + Len(p)
      /\ \A k \in 1..(Len(s) + Len(p)) :
           (s \o p)[k] = IF k <= Len(s) THEN s[k] ELSE p[k - Len(s)]
  BY <1>3, ConcatProperties
<1>5. ASSUME NEW k \in 1..m PROVE (s \o p)[Len(s) + k] = block[k - 1]
  <2>1. Len(s) + k \in 1..(Len(s) + Len(p)) /\ ~(Len(s) + k <= Len(s))
        /\ Len(s) + k - Len(s) = k
    BY <1>1, <1>3
  <2> QED
    BY <1>2, <1>4, <2>1
<1>6. \A k \in 1..Len(s) : k \in 1..(Len(s) + Len(p)) /\ k <= Len(s)
  BY <1>1, <1>3
<1> QED
  BY <1>3, <1>4, <1>5, <1>6 DEF p

\* What a step of the consumer of iteration k starts from.
LEMMA Consuming ==
  ASSUME IInv, NEW k \in Items, cpc[k] # "none"
  PROVE  /\ mpc = "group_wait" /\ k \in Nat /\ Block(k) \in Blocks
         /\ HoldsNumbers(k) => pSemaphore[Block(k)] = 0
         /\ HoldsLetters(k) => wSemaphore[Block(k)] = 0
BY Working, Context DEF IInv, NumbersInv, LettersInv

LEMMA TypeStep == IInv /\ [Next]_vars => TypeInv'
<1> SUFFICES ASSUME IInv, [Next]_vars PROVE TypeInv'
  OBVIOUS
<1> USE DEF vars, main, producer, consumer, writer
<1>0. TypeInv /\ Len(Lengths) \in Nat /\ BufSize \in Nat
  BY Constants DEF IInv
<1>1. Scratched \in [0..(BufSize - 1) -> Nat]
  BY DEF Scratched, Torn
<1>2. CASE MainStep
  <2>1. CASE StartCall
    <3>1. 0 \in Blocks /\ <<>> \in Seq(Blocks)
      BY BlockOf
    <3> QED
      BY <1>0, <2>1, <3>1 DEF StartCall, TypeInv
  <2>2. CASE GroupWait
    BY <1>0, <2>2 DEF GroupWait, TypeInv
  <2>3. CASE LastBlock
    <3>1. call \in Calls
      BY <2>3 DEF LastBlock, IInv, PhaseInv
    <3>2. remainder \in Nat
      BY <3>1, CallOf
    <3>3. Fill(bufs[0], remainder) \in [0..(BufSize - 1) -> Nat]
      BY <1>0, BlockOf, FillType DEF TypeInv
    <3>4. bufs' \in [Blocks -> [0..(BufSize - 1) -> Nat]]
      BY <1>0, <2>3, <3>3 DEF LastBlock, TypeInv
    <3>5. Translate(bufs'[0], cBufs[0], remainder) \in [0..(BufSize - 1) -> Nat]
      BY <1>0, <3>4, BlockOf, TranslateType DEF TypeInv
    <3>6. cBufs' \in [Blocks -> [0..(BufSize - 1) -> Nat]]
      BY <1>0, <2>3, <3>5 DEF LastBlock, TypeInv
    <3>7. seed + remainder \in Nat \ {0}
      BY <1>0, <3>2 DEF TypeInv
    <3> QED
      BY <1>0, <2>3, <3>4, <3>6, <3>7 DEF LastBlock, TypeInv
  <2>4. CASE LastPrint
    <3>1. call \in Calls
      BY <2>4 DEF LastPrint, IInv, PhaseInv
    <3>2. remainder \in 0..BufSize
      BY <1>0, <3>1, CallOf
    <3>3. output \o Prefix(cBufs[0], remainder) \in Seq(Nat)
      BY <1>0, <3>2, BlockOf, PrefixType DEF TypeInv
    <3>4. call + 1 \in 1..(Len(Lengths) + 1)
      BY <1>0, <3>1, Constants DEF Calls
    <3> QED
      BY <1>0, <2>4, <3>3, <3>4 DEF LastPrint, TypeInv
  <2> QED
    BY <1>2, <2>1, <2>2, <2>3, <2>4 DEF MainStep
<1>3. CASE ProducerStep
  <2>1. i \in Items /\ i \in Nat /\ Block(i) \in Blocks
    BY <1>3, Working, Context DEF ProducerStep, ProducerStart, ProducerWait, ProducerFill, ProducerLeave
  <2>2. CASE ProducerStart
    BY <1>0, <2>2 DEF ProducerStart, TypeInv
  <2>3. CASE ProducerWait
    <3>1. pSemaphore' \in [Blocks -> {0, 1}]
      BY <1>0, <2>1, <2>3 DEF ProducerWait, PWait, TypeInv
    <3>2. bufs' \in [Blocks -> [0..(BufSize - 1) -> Nat]]
      BY <1>0, <1>1, <2>3 DEF ProducerWait, TypeInv
    <3> QED
      BY <1>0, <2>3, <3>1, <3>2 DEF ProducerWait, TypeInv
  <2>4. CASE ProducerFill
    <3>1. Fill(bufs[Block(i)], BufSize) \in [0..(BufSize - 1) -> Nat]
      BY <1>0, <2>1, FillType DEF TypeInv
    <3>2. Append(cQueue, i) \in Seq(Items)
      BY <1>0, <2>1, AppendTo DEF TypeInv
    <3>3. bufs' \in [Blocks -> [0..(BufSize - 1) -> Nat]]
      BY <1>0, <2>4, <3>1 DEF ProducerFill, TypeInv
    <3>4. seed + BufSize \in Nat \ {0} /\ i + 1 \in Nat
      BY <1>0, <2>1 DEF TypeInv
    <3> QED
      BY <1>0, <2>4, <3>2, <3>3, <3>4 DEF ProducerFill, TypeInv
  <2>5. CASE ProducerLeave
    BY <1>0, <2>5 DEF ProducerLeave, TypeInv
  <2> QED
    BY <1>3, <2>2, <2>3, <2>4, <2>5 DEF ProducerStep
<1>4. CASE ConsumerStart
  <2>1. Head(cQueue) \in Items /\ Tail(cQueue) \in Seq(Items)
    BY <1>0, <1>4, TailOf DEF ConsumerStart, TypeInv
  <2> QED
    BY <1>0, <1>4, <2>1 DEF ConsumerStart, CGoto, TypeInv
<1>5. ASSUME NEW k \in Items, ConsumerStep(k) PROVE TypeInv'
  <2>1. /\ Block(k) \in Blocks
        /\ HoldsNumbers(k) => pSemaphore[Block(k)] = 0
    BY <1>5, Consuming
       DEF ConsumerStep, ConsumerWait, ConsumerTranslate, ConsumerSignal, ConsumerSubmit
  <2>2. CASE ConsumerWait(k)
    <3>1. wSemaphore' \in [Blocks -> {0, 1}]
      BY <1>0, <2>1, <2>2 DEF ConsumerWait, WWait, TypeInv
    <3>2. cBufs' \in [Blocks -> [0..(BufSize - 1) -> Nat]]
      BY <1>0, <1>1, <2>2 DEF ConsumerWait, TypeInv
    <3> QED
      BY <1>0, <2>2, <3>1, <3>2 DEF ConsumerWait, CGoto, TypeInv
  <2>3. CASE ConsumerTranslate(k)
    <3>1. Translate(bufs[Block(k)], cBufs[Block(k)], BufSize) \in [0..(BufSize - 1) -> Nat]
      BY <1>0, <2>1, TranslateType DEF TypeInv
    <3> QED
      BY <1>0, <2>1, <2>3, <3>1 DEF ConsumerTranslate, CGoto, TypeInv
  <2>4. CASE ConsumerSignal(k)
    <3>1. pSemaphore' \in [Blocks -> {0, 1}]
      BY <1>0, <2>1, <2>4 DEF ConsumerSignal, PSignal, HoldsNumbers, TypeInv
    <3> QED
      BY <1>0, <2>4, <3>1 DEF ConsumerSignal, CGoto, TypeInv
  <2>5. CASE ConsumerSubmit(k)
    <3>1. Append(wQueue, Block(k)) \in Seq(Blocks)
      BY <1>0, <2>1, AppendTo DEF TypeInv
    <3> QED
      BY <1>0, <2>5, <3>1 DEF ConsumerSubmit, CGoto, TypeInv
  <2> QED
    BY <1>5, <2>2, <2>3, <2>4, <2>5 DEF ConsumerStep
<1>6. CASE WriterStep
  <2>1. CASE WriterStart
    <3>1. Head(wQueue) \in Blocks /\ Tail(wQueue) \in Seq(Blocks)
      BY <1>0, <2>1, TailOf DEF WriterStart, TypeInv
    <3> QED
      BY <1>0, <2>1, <3>1 DEF WriterStart, TypeInv
  <2>2. CASE WriterDefer
    <3>1. Append(deferedWrite, wblk) \in Seq(Blocks)
      BY <1>0, AppendTo DEF TypeInv
    <3> QED
      BY <1>0, <2>2, <3>1 DEF WriterDefer, TypeInv
  <2>3. ASSUME NEW b \in Blocks, PrintBlock(b), deferedWrite' \in Seq(Blocks) PROVE TypeInv'
    <3>1. BufSize \in 0..BufSize /\ cBufs[b] \in [0..(BufSize - 1) -> Nat] /\ output \in Seq(Nat)
      BY <1>0 DEF TypeInv
    <3>2. output \o Prefix(cBufs[b], BufSize) \in Seq(Nat)
      BY <3>1, PrefixType
    <3>3. NextBlock(writeBlock) \in Blocks
      BY <1>0, BlockOf DEF TypeInv
    <3> QED
      BY <1>0, <2>3, <3>2, <3>3 DEF PrintBlock, TypeInv
  <2>4. CASE WriterPrint
    BY <1>0, <2>3, <2>4 DEF WriterPrint, TypeInv
  <2>5. CASE WriterSignal
    <3>1. wSemaphore[wblk] = 0
      BY <2>5 DEF WriterSignal, IInv, TypeInv, LettersInv, Writing
    <3>2. wSemaphore' \in [Blocks -> {0, 1}]
      BY <1>0, <2>5, <3>1 DEF WriterSignal, WSignal, TypeInv
    <3> QED
      BY <1>0, <2>5, <3>2 DEF WriterSignal, TypeInv
  <2>6. CASE WriterDrain
    <3>1. PICK k \in DOMAIN deferedWrite : deferedWrite' = Without(deferedWrite, k)
      BY <2>6 DEF WriterDrain, Without
    <3>2. deferedWrite' \in Seq(Blocks)
      BY <1>0, <3>1, RemoveFrom DEF TypeInv
    <3> QED
      BY <1>0, <2>3, <2>6, <3>2 DEF WriterDrain, TypeInv
  <2>7. CASE WriterEnd
    BY <1>0, <2>7 DEF WriterEnd, TypeInv
  <2> QED
    BY <1>6, <2>1, <2>2, <2>4, <2>5, <2>6, <2>7 DEF WriterStep
<1>7. CASE UNCHANGED vars
  BY <1>0, <1>7 DEF TypeInv
<1> QED
  BY <1>2, <1>3, <1>4, <1>5, <1>6, <1>7 DEF Next, Done

-----------------------------------------------------------------------------
(* Phases of a call. *)

\* The iteration that is to be filled has no consumer yet.
LEMMA Fresh ==
  ASSUME IInv, mpc = "group_wait"
  PROVE  cpc[i] = "none" /\ i \notin Elements(cQueue)
<1>1. PICK written \in 0..i : Order(written)
  BY DEF IInv, OrderInv
<1>2. i \in Items /\ i \in Nat
  BY Context DEF IInv, TypeInv
<1>3. cpc[i] = "none"
  BY <1>1, <1>2 DEF Order
<1> QED
  BY <1>2, <1>3 DEF IInv, PhaseInv

LEMMA NoElements ==
  ASSUME NEW S, NEW s \in Seq(S), Elements(s) = {}
  PROVE  s = <<>>
<1>1. DOMAIN s = 1..Len(s) /\ Len(s) \in Nat
  OBVIOUS
<1>2. ASSUME Len(s) # 0 PROVE FALSE
  <2>1. 1 \in DOMAIN s
    BY <1>1, <1>2
  <2> QED
    BY <2>1 DEF Elements
<1> QED
  BY <1>1, <1>2, EmptySeq

\* When the group is empty, so are the queues; no block can be deferred, as the
\* next one to print would be with nobody.
LEMMA GroupEmpty ==
  ASSUME IInv, mpc = "group_wait", group = 0
  PROVE  Idle /\ i = junks - 1 /\ Len(output) = seed - 1
<1>1. /\ IsFiniteSet(Active) /\ Cardinality(Active) \in Nat
      /\ Flag(ppc # "off") + Cardinality(Active) + Len(wQueue) + Flag(wpc # "idle") = 0
      /\ wQueue \in Seq(Blocks) /\ Len(wQueue) \in Nat
      /\ Flag(ppc # "off") \in {0, 1} /\ Flag(wpc # "idle") \in {0, 1}
  BY FS_CardinalityType DEF IInv, GroupInv, TypeInv, Flag
<1>2. /\ Flag(ppc # "off") = 0 /\ Cardinality(Active) = 0
      /\ Len(wQueue) = 0 /\ Flag(wpc # "idle") = 0
  BY <1>1
<1>3. ppc = "off" /\ wpc = "idle" /\ wQueue = <<>>
  BY <1>1, <1>2, EmptySeq DEF Flag
<1>4. \A k \in Items : cpc[k] = "none"
  BY <1>1, <1>2, FS_EmptySet DEF Active
<1>5. cQueue = <<>>
  <2>1. Elements(cQueue) = {}
    <3>1. \A k \in Elements(cQueue) : k \in Items
      BY DEF IInv, TypeInv, Elements
    <3> QED
      BY <1>4, <3>1 DEF IInv, PhaseInv
  <2> QED
    BY <2>1, NoElements DEF IInv, TypeInv
<1>6. i = junks - 1 /\ i \in Nat /\ 0..junks \subseteq Items /\ seed \in Nat /\ BufSize \in Nat
      /\ junks \in Nat
  BY <1>3, Context, Constants DEF IInv, PhaseInv, TypeInv
<1>7. PICK written \in 0..i : Order(written)
  BY DEF IInv, OrderInv
<1>8. written = i
  <2>1. SUFFICES ASSUME written # i PROVE FALSE
    OBVIOUS
  <2>2. written \in written..(i - 1) /\ written \in Items
    BY <1>6, <1>7, <2>1
  <2>3. Pending(Block(written)) /\ writeBlock = Block(written) /\ ~Deferred(writeBlock)
    BY <1>3, <1>4, <1>7, <2>2 DEF Order
  <2> QED
    BY <1>3, <2>3 DEF Pending, Queued, Elements
<1>9. deferedWrite = <<>>
  <2>1. deferedWrite \in Seq(Blocks) /\ written..(i - 1) = {}
    BY <1>6, <1>8 DEF IInv, TypeInv
  <2>2. \A b \in Blocks : ~Deferred(b)
    BY <1>7, <2>1 DEF Order, Pending
  <2>3. Elements(deferedWrite) = {}
    BY <2>1, <2>2 DEF Deferred, Elements
  <2> QED
    BY <2>1, <2>3, NoElements
<1>10. Len(output) = seed - 1
  <2>1. Len(output) = (seed - i * BufSize) + i * BufSize - 1
    BY <1>7, <1>8 DEF Order, Base
  <2>2. i * BufSize \in Nat
    BY <1>6, Multiples
  <2> QED
    BY <1>6, <2>1, <2>2
<1> QED
  BY <1>3, <1>4, <1>5, <1>6, <1>9, <1>10 DEF Idle

LEMMA PhaseStep == IInv /\ [Next]_vars => PhaseInv'
<1> SUFFICES ASSUME IInv, [Next]_vars PROVE PhaseInv'
  OBVIOUS
<1> USE DEF vars, main, producer, consumer, writer
<1>0. PhaseInv /\ TypeInv
  BY DEF IInv
<1>1. ASSUME UNCHANGED <<main, producer, consumer>>, mpc = "group_wait" PROVE PhaseInv'
  BY <1>0, <1>1 DEF PhaseInv, junks, n, Elements, NoRepeat
<1>2. CASE MainStep
  <2>1. CASE StartCall
    <3>1. junks \in Nat \ {0}
      BY <2>1, CallOf DEF StartCall
    <3> QED
      BY <1>0, <2>1, <3>1 DEF StartCall, PhaseInv, Idle, junks, n, Elements, NoRepeat
  <2>2. CASE GroupWait
    <3>1. Idle /\ i = junks - 1
      BY <2>2, GroupEmpty DEF GroupWait
    <3> QED
      BY <1>0, <2>2, <3>1 DEF GroupWait, PhaseInv, Idle, junks, n, Elements, NoRepeat
  <2>3. CASE LastBlock
    BY <1>0, <2>3 DEF LastBlock, PhaseInv, Idle, junks, n, Elements, NoRepeat
  <2>4. CASE LastPrint
    BY <1>0, <2>4 DEF LastPrint, PhaseInv, Idle, Elements, NoRepeat
  <2> QED
    BY <1>2, <2>1, <2>2, <2>3, <2>4 DEF MainStep
<1>3. CASE ProducerStep
  <2>1. mpc = "group_wait" /\ i \in Items /\ i \in Nat /\ junks \in Nat
    BY <1>0, <1>3, Working, Context
       DEF ProducerStep, ProducerStart, ProducerWait, ProducerFill, ProducerLeave, TypeInv
  <2>2. CASE ProducerStart \/ ProducerWait \/ ProducerLeave
    BY <1>0, <2>1, <2>2
       DEF ProducerStart, ProducerWait, ProducerLeave, PhaseInv, junks, n, Elements, NoRepeat
  <2>3. CASE ProducerFill
    <3>1. cQueue \in Seq(Items) /\ NoRepeat(cQueue) /\ i \notin Elements(cQueue)
      BY <1>0, <2>1, Fresh DEF PhaseInv, TypeInv
    <3>2. Elements(cQueue)' = Elements(cQueue) \cup {i} /\ NoRepeat(cQueue)'
      BY <2>1, <2>3, <3>1, AppendTo DEF ProducerFill
    <3>3. \A k \in Items : cpc'[k] = "queued" <=> k \in Elements(cQueue)'
      BY <1>0, <2>1, <2>3, <3>2 DEF ProducerFill, PhaseInv, TypeInv
    <3>4. i' <= junks' - 1
      BY <1>0, <2>1, <2>3 DEF ProducerFill, PhaseInv, junks, n
    <3> QED
      BY <1>0, <2>1, <2>3, <3>2, <3>3, <3>4 DEF ProducerFill, PhaseInv
  <2> QED
    BY <1>3, <2>2, <2>3 DEF ProducerStep
<1>4. CASE ConsumerStart
  <2>1. mpc = "group_wait" /\ cQueue \in Seq(Items) /\ NoRepeat(cQueue)
    BY <1>0, <1>4, Working DEF ConsumerStart, PhaseInv, TypeInv
  <2>2. /\ Head(cQueue) \in Items
        /\ Elements(cQueue)' = Elements(cQueue) \ {Head(cQueue)} /\ NoRepeat(cQueue)'
    BY <1>4, <2>1, TailOf DEF ConsumerStart
  <2>3. \A k \in Items : cpc'[k] = "queued" <=> k \in Elements(cQueue)'
    BY <1>0, <1>4, <2>2 DEF ConsumerStart, CGoto, PhaseInv, TypeInv
  <2> QED
    BY <1>0, <1>4, <2>1, <2>2, <2>3 DEF ConsumerStart, PhaseInv, junks, n
<1>5. ASSUME NEW k \in Items, ConsumerStep(k) PROVE PhaseInv'
  <2>1. mpc = "group_wait" /\ cpc[k] \notin {"none", "queued"}
    BY <1>5, Working
       DEF ConsumerStep, ConsumerWait, ConsumerTranslate, ConsumerSignal, ConsumerSubmit
  <2>2. \E label \in {"consume", "signal", "submit", "none"} : CGoto(k, label)
    BY <1>5 DEF ConsumerStep, ConsumerWait, ConsumerTranslate, ConsumerSignal, ConsumerSubmit
  <2>3. UNCHANGED <<main, producer, cQueue>>
    BY <1>5 DEF ConsumerStep, ConsumerWait, ConsumerTranslate, ConsumerSignal, ConsumerSubmit
  <2>4. \A j \in Items : cpc'[j] = "queued" <=> j \in Elements(cQueue)'
    BY <1>0, <2>1, <2>2, <2>3 DEF CGoto, PhaseInv, TypeInv, Elements
  <2> QED
    BY <1>0, <2>1, <2>3, <2>4 DEF PhaseInv, junks, n, NoRepeat
<1>6. CASE WriterStep
  <2>1. mpc = "group_wait"
    BY <1>6, Working DEF WriterStep, WriterStart, WriterDefer, WriterPrint, WriterSignal,
                         WriterDrain, WriterEnd
  <2>2. UNCHANGED <<main, producer, consumer>>
    BY <1>6 DEF WriterStep, WriterStart, WriterDefer, WriterPrint, WriterSignal,
                WriterDrain, WriterEnd, PrintBlock
  <2> QED
    BY <1>1, <2>1, <2>2
<1>7. CASE UNCHANGED vars
  BY <1>0, <1>7 DEF PhaseInv, Idle, junks, n, Elements, NoRepeat
<1> QED
  BY <1>2, <1>3, <1>4, <1>5, <1>6, <1>7 DEF Next, Done

-----------------------------------------------------------------------------
(* The rights to overwrite a block. *)

LEMMA NumbersStep == IInv /\ [Next]_vars => NumbersInv'
<1> SUFFICES ASSUME IInv, [Next]_vars PROVE NumbersInv'
  OBVIOUS
<1> USE DEF vars, main, producer, consumer, writer
<1>0. NumbersInv /\ TypeInv
  BY DEF IInv
<1>1. ASSUME UNCHANGED pSemaphore, \A k \in Items : HoldsNumbers(k)' <=> HoldsNumbers(k),
             \A b : Filling(b)' <=> Filling(b)
      PROVE  NumbersInv'
  BY <1>0, <1>1 DEF NumbersInv, Block
<1>2. CASE MainStep
  BY <1>1, <1>2, Working DEF MainStep, StartCall, GroupWait, LastBlock, LastPrint,
                             HoldsNumbers, Filling
<1>3. CASE ProducerStep
  <2>1. mpc = "group_wait" /\ i \in Items /\ Block(i) \in Blocks /\ cpc[i] = "none"
    BY <1>3, Working, Context, Fresh
       DEF ProducerStep, ProducerStart, ProducerWait, ProducerFill, ProducerLeave
  <2>2. CASE ProducerStart \/ ProducerLeave
    BY <1>1, <2>2 DEF ProducerStart, ProducerLeave, HoldsNumbers, Filling
  <2>3. CASE ProducerWait
    <3>1. pSemaphore[Block(i)] = 1 /\ pSemaphore' = [pSemaphore EXCEPT ![Block(i)] = 0]
      <4>1. pSemaphore[Block(i)] \in {0, 1} /\ pSemaphore[Block(i)] > 0
        BY <1>0, <2>1, <2>3 DEF ProducerWait, PWait, TypeInv
      <4>2. pSemaphore[Block(i)] = 1
        BY <4>1
      <4> QED
        BY <2>3, <4>2 DEF ProducerWait, PWait
    <3>2. \A k \in Items : HoldsNumbers(k)' <=> HoldsNumbers(k)
      BY <2>3 DEF ProducerWait, HoldsNumbers
    <3>3. \A b \in Blocks : ~Filling(b) /\ (Filling(b)' <=> b = Block(i))
      BY <2>3 DEF ProducerWait, Filling, Block
    <3>4. \A k \in Items : HoldsNumbers(k) => Block(k) # Block(i) /\ Block(k) \in Blocks
      BY <1>0, <2>1, <3>1, Context DEF NumbersInv
    <3>5. pSemaphore'[Block(i)] = 0
          /\ \A b \in Blocks : b # Block(i) => pSemaphore'[b] = pSemaphore[b]
      BY <1>0, <2>1, <3>1 DEF TypeInv
    <3> QED
      BY <1>0, <2>1, <3>2, <3>3, <3>4, <3>5 DEF NumbersInv, Block
  <2>4. CASE ProducerFill
    <3>1. \A k \in Items : HoldsNumbers(k)' <=> HoldsNumbers(k) \/ k = i
      BY <1>0, <2>1, <2>4 DEF ProducerFill, HoldsNumbers, TypeInv
    <3>2. \A b \in Blocks : ~Filling(b)' /\ (Filling(b) <=> b = Block(i))
      BY <2>4 DEF ProducerFill, Filling
    <3>3. UNCHANGED pSemaphore
      BY <2>4 DEF ProducerFill
    <3>4. \A k \in Items : Block(k) \in Blocks
      BY <2>1, Context
    <3> QED
      BY <1>0, <2>1, <3>1, <3>2, <3>3, <3>4 DEF NumbersInv, Block
  <2> QED
    BY <1>3, <2>2, <2>3, <2>4 DEF ProducerStep
<1>4. CASE ConsumerStart
  <2>1. Head(cQueue) \in Items /\ Head(cQueue) \in Elements(cQueue)
    BY <1>0, <1>4, TailOf DEF ConsumerStart, TypeInv
  <2>2. cpc[Head(cQueue)] = "queued"
    BY <2>1 DEF IInv, PhaseInv
  <2> QED
    BY <1>0, <1>1, <1>4, <2>1, <2>2 DEF ConsumerStart, CGoto, HoldsNumbers, Filling, TypeInv
<1>5. ASSUME NEW k \in Items, ConsumerStep(k) PROVE NumbersInv'
  <2>1. CASE ConsumerWait(k) \/ ConsumerTranslate(k) \/ ConsumerSubmit(k)
    BY <1>0, <1>1, <2>1 DEF ConsumerWait, ConsumerTranslate, ConsumerSubmit, CGoto,
                            HoldsNumbers, Filling, TypeInv
  <2>2. CASE ConsumerSignal(k)
    <3>1. HoldsNumbers(k) /\ mpc = "group_wait" /\ Block(k) \in Blocks
          /\ pSemaphore[Block(k)] = 0
      BY <2>2, Consuming DEF ConsumerSignal, HoldsNumbers
    <3>2. pSemaphore'[Block(k)] = 1
          /\ \A b \in Blocks : b # Block(k) => pSemaphore'[b] = pSemaphore[b]
      BY <1>0, <2>2, <3>1 DEF ConsumerSignal, PSignal, TypeInv
    <3>3. \A j \in Items : HoldsNumbers(j)' <=> HoldsNumbers(j) /\ j # k
      BY <1>0, <2>2 DEF ConsumerSignal, CGoto, HoldsNumbers, TypeInv
    <3>4. \A b \in Blocks : Filling(b)' <=> Filling(b)
      BY <2>2 DEF ConsumerSignal, Filling
    <3>5. \A j \in Items : Block(j) \in Blocks
      BY <3>1, Context
    <3> QED
      BY <1>0, <3>1, <3>2, <3>3, <3>4, <3>5 DEF NumbersInv, Block
  <2> QED
    BY <1>5, <2>1, <2>2 DEF ConsumerStep
<1>6. CASE WriterStep
  BY <1>1, <1>6 DEF WriterStep, WriterStart, WriterDefer, WriterPrint, WriterSignal,
                    WriterDrain, WriterEnd, PrintBlock, HoldsNumbers, Filling
<1>7. CASE UNCHANGED vars
  BY <1>1, <1>7 DEF HoldsNumbers, Filling
<1> QED
  BY <1>2, <1>3, <1>4, <1>5, <1>6, <1>7 DEF Next, Done

LEMMA LettersStep == IInv /\ [Next]_vars => LettersInv'
<1> SUFFICES ASSUME IInv, [Next]_vars PROVE LettersInv'
  OBVIOUS
<1> USE DEF vars, main, producer, consumer, writer
<1>0. LettersInv /\ TypeInv
  BY DEF IInv
<1>1. ASSUME UNCHANGED <<wSemaphore, wQueue, deferedWrite>>,
             \A k \in Items : HoldsLetters(k)' <=> HoldsLetters(k),
             \A b : Writing(b)' <=> Writing(b)
      PROVE  LettersInv'
  BY <1>0, <1>1 DEF LettersInv, Block, Queued, Deferred, Elements, NoRepeat
<1>2. CASE MainStep
  <2>1. UNCHANGED <<wSemaphore, wQueue, cpc, wpc, wblk>>
    BY <1>2 DEF MainStep, StartCall, GroupWait, LastBlock, LastPrint
  <2>2. UNCHANGED deferedWrite
    BY <1>2, Working DEF MainStep, StartCall, GroupWait, LastBlock, LastPrint
  <2> QED
    BY <1>1, <2>1, <2>2 DEF HoldsLetters, Writing
<1>3. CASE ProducerStep
  <2>1. CASE ProducerStart \/ ProducerWait \/ ProducerLeave
    BY <1>1, <2>1 DEF ProducerStart, ProducerWait, ProducerLeave, HoldsLetters, Writing
  <2>2. CASE ProducerFill
    <3>1. i \in Items /\ cpc[i] = "none"
      BY <2>2, Working, Context, Fresh DEF ProducerFill
    <3> QED
      BY <1>0, <1>1, <2>2, <3>1 DEF ProducerFill, HoldsLetters, Writing, TypeInv
  <2> QED
    BY <1>3, <2>1, <2>2 DEF ProducerStep
<1>4. CASE ConsumerStart
  <2>1. Head(cQueue) \in Items /\ Head(cQueue) \in Elements(cQueue)
    BY <1>0, <1>4, TailOf DEF ConsumerStart, TypeInv
  <2>2. cpc[Head(cQueue)] = "queued"
    BY <2>1 DEF IInv, PhaseInv
  <2> QED
    BY <1>0, <1>1, <1>4, <2>1, <2>2 DEF ConsumerStart, CGoto, HoldsLetters, Writing, TypeInv
<1>5. ASSUME NEW k \in Items, ConsumerStep(k) PROVE LettersInv'
  <2>1. CASE ConsumerTranslate(k) \/ ConsumerSignal(k)
    BY <1>0, <1>1, <2>1 DEF ConsumerTranslate, ConsumerSignal, CGoto, HoldsLetters, Writing,
                            TypeInv
  <2>2. CASE ConsumerWait(k) \/ ConsumerSubmit(k)
    <3>1. Block(k) \in Blocks /\ \A j \in Items : Block(j) \in Blocks
      BY <2>2, Consuming, Context DEF ConsumerWait, ConsumerSubmit
    <3>2. \A b : Writing(b)' <=> Writing(b)
      BY <2>2 DEF ConsumerWait, ConsumerSubmit, Writing
    <3>3. UNCHANGED deferedWrite
      BY <2>2 DEF ConsumerWait, ConsumerSubmit
    <3>4. CASE ConsumerWait(k)
      <4>1. wSemaphore[Block(k)] \in {0, 1} /\ wSemaphore[Block(k)] > 0
        BY <1>0, <3>1, <3>4 DEF ConsumerWait, WWait, TypeInv
      <4>2. wSemaphore[Block(k)] = 1
        BY <4>1
      <4>3. wSemaphore'[Block(k)] = 0
            /\ \A b \in Blocks : b # Block(k) => wSemaphore'[b] = wSemaphore[b]
        BY <1>0, <3>1, <3>4, <4>2 DEF ConsumerWait, WWait, TypeInv
      <4>4. \A j \in Items : HoldsLetters(j)' <=> HoldsLetters(j) \/ j = k
        BY <1>0, <3>4 DEF ConsumerWait, CGoto, HoldsLetters, TypeInv
      <4>5. UNCHANGED wQueue
        BY <3>4 DEF ConsumerWait
      <4>6. \A j \in Items : HoldsLetters(j) => Block(j) # Block(k)
        BY <1>0, <4>2 DEF LettersInv
      <4>7. ~Queued(Block(k)) /\ ~Writing(Block(k)) /\ ~Deferred(Block(k))
        BY <1>0, <3>1, <4>2 DEF LettersInv
      <4> QED
        BY <1>0, <3>1, <3>2, <3>3, <4>3, <4>4, <4>5, <4>6, <4>7
           DEF LettersInv, Block, Queued, Deferred, Elements, NoRepeat
    <3>5. CASE ConsumerSubmit(k)
      <4>1. HoldsLetters(k) /\ UNCHANGED wSemaphore /\ wQueue' = Append(wQueue, Block(k))
        BY <3>5 DEF ConsumerSubmit, HoldsLetters
      <4>2. wSemaphore[Block(k)] = 0 /\ ~Queued(Block(k)) /\ ~Writing(Block(k))
            /\ ~Deferred(Block(k))
        BY <1>0, <4>1 DEF LettersInv
      <4>3. Elements(wQueue)' = Elements(wQueue) \cup {Block(k)} /\ NoRepeat(wQueue)'
        BY <1>0, <3>1, <4>1, <4>2, AppendTo DEF TypeInv, LettersInv, Queued
      <4>4. \A b : Queued(b)' <=> Queued(b) \/ b = Block(k)
        BY <4>3 DEF Queued
      <4>5. \A b : Deferred(b)' <=> Deferred(b)
        BY <3>3 DEF Deferred, Elements
      <4>6. \A j \in Items : HoldsLetters(j)' <=> HoldsLetters(j) /\ j # k
        BY <1>0, <3>5 DEF ConsumerSubmit, CGoto, HoldsLetters, TypeInv
      <4>7. NoRepeat(deferedWrite)'
        BY <1>0, <3>3 DEF LettersInv, NoRepeat
      <4> QED
        BY <1>0, <3>1, <3>2, <4>1, <4>2, <4>3, <4>4, <4>5, <4>6, <4>7 DEF LettersInv, Block
    <3> QED
      BY <2>2, <3>4, <3>5
  <2> QED
    BY <1>5, <2>1, <2>2 DEF ConsumerStep
<1>6. CASE WriterStep
  <2>1. \A k \in Items : (HoldsLetters(k)' <=> HoldsLetters(k)) /\ Block(k)' = Block(k)
    BY <1>6 DEF WriterStep, WriterStart, WriterDefer, WriterPrint, WriterSignal,
                WriterDrain, WriterEnd, PrintBlock, HoldsLetters, Block
  <2>2. \A k \in Items : Block(k) \in Blocks
    BY <1>6, Working, Context DEF WriterStep, WriterStart, WriterDefer, WriterPrint,
                                  WriterSignal, WriterDrain, WriterEnd
  <2>3. CASE WriterPrint \/ WriterEnd
    BY <1>1, <2>1, <2>3 DEF WriterPrint, WriterEnd, PrintBlock, Writing
  <2>4. CASE WriterStart
    <3> DEFINE b0 == Head(wQueue)
    <3>1. /\ b0 \in Blocks /\ Queued(b0) /\ NoRepeat(wQueue)'
          /\ Elements(wQueue)' = Elements(wQueue) \ {b0}
      BY <1>0, <2>4, TailOf DEF WriterStart, LettersInv, TypeInv, Queued
    <3>2. \A b : Queued(b)' <=> Queued(b) /\ b # b0
      BY <3>1 DEF Queued
    <3>3. \A b : ~Writing(b) /\ (Writing(b)' <=> b = b0)
      BY <2>4 DEF WriterStart, Writing
    <3>4. UNCHANGED <<wSemaphore, deferedWrite>>
      BY <2>4 DEF WriterStart
    <3>5. NoRepeat(deferedWrite)' /\ \A b : Deferred(b)' <=> Deferred(b)
      BY <1>0, <3>4 DEF LettersInv, NoRepeat, Deferred, Elements
    <3> HIDE DEF b0
    <3> QED
      BY <1>0, <2>1, <2>2, <3>1, <3>2, <3>3, <3>4, <3>5 DEF LettersInv
  <2>5. CASE WriterDefer
    <3>1. wblk \in Blocks /\ Writing(wblk) /\ ~Deferred(wblk)
      BY <1>0, <2>5 DEF WriterDefer, Writing, TypeInv, LettersInv
    <3>2. NoRepeat(deferedWrite)' /\ Elements(deferedWrite)' = Elements(deferedWrite) \cup {wblk}
      BY <1>0, <2>5, <3>1, AppendTo DEF WriterDefer, LettersInv, TypeInv, Deferred
    <3>3. \A b : Deferred(b)' <=> Deferred(b) \/ b = wblk
      BY <3>2 DEF Deferred
    <3>4. \A b : ~Writing(b)' /\ (Writing(b) <=> b = wblk)
      BY <2>5 DEF WriterDefer, Writing
    <3>5. UNCHANGED <<wSemaphore, wQueue>>
      BY <2>5 DEF WriterDefer
    <3>6. NoRepeat(wQueue)' /\ \A b : Queued(b)' <=> Queued(b)
      BY <1>0, <3>5 DEF LettersInv, NoRepeat, Queued, Elements
    <3> QED
      BY <1>0, <2>1, <2>2, <3>1, <3>2, <3>3, <3>4, <3>5, <3>6 DEF LettersInv
  <2>6. CASE WriterSignal
    <3>1. wblk \in Blocks /\ Writing(wblk) /\ wSemaphore[wblk] = 0
      BY <1>0, <2>6 DEF WriterSignal, Writing, TypeInv, LettersInv
    <3>2. wSemaphore'[wblk] = 1
          /\ \A b \in Blocks : b # wblk => wSemaphore'[b] = wSemaphore[b]
      BY <1>0, <2>6, <3>1 DEF WriterSignal, WSignal, TypeInv
    <3>3. \A b : ~Writing(b)' /\ (Writing(b) <=> b = wblk)
      BY <2>6 DEF WriterSignal, Writing
    <3>4. UNCHANGED <<wQueue, deferedWrite>>
      BY <2>6 DEF WriterSignal
    <3>5. /\ NoRepeat(wQueue)' /\ \A b : Queued(b)' <=> Queued(b)
          /\ NoRepeat(deferedWrite)' /\ \A b : Deferred(b)' <=> Deferred(b)
      BY <1>0, <3>4 DEF LettersInv, NoRepeat, Queued, Deferred, Elements
    <3> QED
      BY <1>0, <2>1, <2>2, <3>1, <3>2, <3>3, <3>5 DEF LettersInv
  <2>7. CASE WriterDrain
    <3>1. PICK k \in DOMAIN deferedWrite :
            deferedWrite[k] = writeBlock /\ deferedWrite' = Without(deferedWrite, k)
      BY <2>7 DEF WriterDrain, Without
    <3>2. NoRepeat(deferedWrite)'
          /\ Elements(deferedWrite)' = Elements(deferedWrite) \ {writeBlock}
      BY <1>0, <3>1, RemoveFrom DEF LettersInv, TypeInv
    <3>3. writeBlock \in Blocks /\ Deferred(writeBlock)
          /\ \A b : Deferred(b)' <=> Deferred(b) /\ b # writeBlock
      BY <1>0, <3>1, <3>2 DEF Deferred, Elements, TypeInv
    <3>4. \A b : ~Writing(b) /\ (Writing(b)' <=> b = writeBlock)
      BY <2>7 DEF WriterDrain, PrintBlock, Writing
    <3>5. UNCHANGED <<wSemaphore, wQueue>>
      BY <2>7 DEF WriterDrain, PrintBlock
    <3>6. NoRepeat(wQueue)' /\ \A b : Queued(b)' <=> Queued(b)
      BY <1>0, <3>5 DEF LettersInv, NoRepeat, Queued, Elements
    <3> QED
      BY <1>0, <2>1, <2>2, <3>2, <3>3, <3>4, <3>5, <3>6 DEF LettersInv
  <2> QED
    BY <1>6, <2>3, <2>4, <2>5, <2>6, <2>7 DEF WriterStep
<1>7. CASE UNCHANGED vars
  BY <1>1, <1>7 DEF HoldsLetters, Writing
<1> QED
  BY <1>2, <1>3, <1>4, <1>5, <1>6, <1>7 DEF Next, Done

-----------------------------------------------------------------------------
(* The group. *)

LEMMA GroupStep == IInv /\ [Next]_vars => GroupInv'
<1> SUFFICES ASSUME IInv, [Next]_vars PROVE GroupInv'
  OBVIOUS
<1> USE DEF vars, main, producer, consumer, writer
<1>0. /\ TypeInv /\ IsFiniteSet(Active) /\ Cardinality(Active) \in Nat
      /\ group = Flag(ppc # "off") + Cardinality(Active) + Len(wQueue) + Flag(wpc # "idle")
      /\ Len(wQueue) \in Nat /\ wQueue \in Seq(Blocks)
  BY FS_CardinalityType DEF IInv, GroupInv, TypeInv
<1>1. ASSUME UNCHANGED <<group, wQueue>>, (ppc = "off")' <=> ppc = "off",
             (wpc = "idle")' <=> wpc = "idle", Active' = Active
      PROVE  GroupInv'
  BY <1>0, <1>1 DEF GroupInv, Flag
<1>2. CASE MainStep
  <2>1. Active' = Active
    BY <1>2 DEF MainStep, StartCall, GroupWait, LastBlock, LastPrint, Active
  <2>2. CASE StartCall
    <3>1. ppc = "off"
      BY <2>2, Working DEF StartCall
    <3> QED
      BY <1>0, <2>1, <2>2, <3>1 DEF StartCall, GroupInv, Flag
  <2>3. CASE GroupWait \/ LastBlock \/ LastPrint
    BY <1>1, <2>1, <2>3 DEF GroupWait, LastBlock, LastPrint
  <2> QED
    BY <1>2, <2>2, <2>3 DEF MainStep
<1>3. CASE ProducerStep
  <2>1. CASE ProducerStart \/ ProducerWait
    BY <1>1, <2>1 DEF ProducerStart, ProducerWait, Active
  <2>2. CASE ProducerFill
    <3>1. i \in Items /\ cpc[i] = "none"
      BY <2>2, Working, Context, Fresh DEF ProducerFill
    <3>2. Active' = Active \cup {i} /\ i \notin Active
      BY <1>0, <2>2, <3>1 DEF ProducerFill, Active, TypeInv
    <3>3. IsFiniteSet(Active)' /\ Cardinality(Active)' = Cardinality(Active) + 1
      BY <1>0, <3>2, FS_AddElement
    <3> QED
      BY <1>0, <2>2, <3>3 DEF ProducerFill, GroupInv, Flag
  <2>3. CASE ProducerLeave
    <3>1. Active' = Active
      BY <2>3 DEF ProducerLeave, Active
    <3> QED
      BY <1>0, <2>3, <3>1 DEF ProducerLeave, GroupInv, Flag
  <2> QED
    BY <1>3, <2>1, <2>2, <2>3 DEF ProducerStep
<1>4. CASE ConsumerStart
  <2>1. Head(cQueue) \in Items /\ Head(cQueue) \in Elements(cQueue)
    BY <1>0, <1>4, TailOf DEF ConsumerStart, TypeInv
  <2>2. cpc[Head(cQueue)] = "queued"
    BY <2>1 DEF IInv, PhaseInv
  <2>3. Active' = Active
    BY <1>0, <1>4, <2>1, <2>2 DEF ConsumerStart, CGoto, Active, TypeInv
  <2> QED
    BY <1>1, <1>4, <2>3 DEF ConsumerStart
<1>5. ASSUME NEW k \in Items, ConsumerStep(k) PROVE GroupInv'
  <2>1. CASE ConsumerWait(k) \/ ConsumerTranslate(k) \/ ConsumerSignal(k)
    <3>1. Active' = Active
      BY <1>0, <2>1 DEF ConsumerWait, ConsumerTranslate, ConsumerSignal, CGoto, Active, TypeInv
    <3> QED
      BY <1>1, <2>1, <3>1 DEF ConsumerWait, ConsumerTranslate, ConsumerSignal
  <2>2. CASE ConsumerSubmit(k)
    <3>1. Active' = Active \ {k} /\ k \in Active
      BY <1>0, <2>2 DEF ConsumerSubmit, CGoto, Active, TypeInv
    <3>2. IsFiniteSet(Active)' /\ Cardinality(Active)' = Cardinality(Active) - 1
      BY <1>0, <3>1, FS_RemoveElement
    <3>3. Block(k) \in Blocks
      BY <2>2, Consuming DEF ConsumerSubmit
    <3>4. Len(wQueue)' = Len(wQueue) + 1
      BY <1>0, <2>2, <3>3, AppendTo DEF ConsumerSubmit
    <3>5. UNCHANGED <<ppc, wpc>> /\ group' = (group + 1) - 1
      BY <2>2 DEF ConsumerSubmit
    <3>6. PICK p \in Nat, w \in Nat :
            p = Flag(ppc # "off") /\ w = Flag(wpc # "idle")
      BY DEF Flag
    <3>7. p = Flag(ppc # "off")' /\ w = Flag(wpc # "idle")'
      BY <3>5, <3>6
    <3>8. PICK c \in Nat, l \in Nat : c = Cardinality(Active) /\ l = Len(wQueue)
      BY <1>0
    <3>9. group = p + c + l + w
      BY <1>0, <3>6, <3>8
    <3>10. group' = p + (c - 1) + (l + 1) + w
      BY <3>5, <3>9
    <3>11. Cardinality(Active)' = c - 1 /\ Len(wQueue)' = l + 1
      BY <3>2, <3>4, <3>8
    <3> QED
      BY <3>2, <3>7, <3>10, <3>11 DEF GroupInv
  <2> QED
    BY <1>5, <2>1, <2>2 DEF ConsumerStep
<1>6. CASE WriterStep
  <2>1. Active' = Active
    BY <1>6 DEF WriterStep, WriterStart, WriterDefer, WriterPrint, WriterSignal,
                WriterDrain, WriterEnd, PrintBlock, Active
  <2>2. CASE WriterPrint \/ WriterSignal \/ WriterDrain
    BY <1>1, <2>1, <2>2 DEF WriterPrint, WriterSignal, WriterDrain, PrintBlock
  <2>3. CASE WriterStart
    <3>1. Len(wQueue)' = Len(wQueue) - 1
      BY <1>0, <2>3, TailOf DEF WriterStart
    <3> QED
      BY <1>0, <2>1, <2>3, <3>1 DEF WriterStart, GroupInv, Flag
  <2>4. CASE WriterDefer \/ WriterEnd
    BY <1>0, <2>1, <2>4 DEF WriterDefer, WriterEnd, GroupInv, Flag
  <2> QED
    BY <1>6, <2>2, <2>3, <2>4 DEF WriterStep
<1>7. CASE UNCHANGED vars
  BY <1>1, <1>7 DEF Active
<1> QED
  BY <1>2, <1>3, <1>4, <1>5, <1>6, <1>7 DEF Next, Done

-----------------------------------------------------------------------------
(* The numbers drawn. *)

LEMMA CountStep == IInv /\ [Next]_vars => CountInv'
<1> SUFFICES ASSUME IInv, [Next]_vars PROVE CountInv'
  OBVIOUS
<1> USE DEF vars, main, producer, consumer, writer
<1>0. /\ CountInv /\ seed \in Nat /\ i \in Nat /\ BufSize \in Nat
      /\ i * BufSize \in Nat /\ (i + 1) * BufSize = i * BufSize + BufSize
      /\ 0 * BufSize = 0
      /\ call \in 1..(Len(Lengths) + 1) /\ Len(Lengths) \in Nat
      /\ PrintedBy[call - 1] \in Nat
  <2>1. /\ CountInv /\ seed \in Nat /\ i \in Nat /\ BufSize \in Nat
        /\ call \in 1..(Len(Lengths) + 1) /\ Len(Lengths) \in Nat
    BY Constants DEF IInv, TypeInv
  <2>2. i * BufSize \in Nat /\ (i + 1) * BufSize = i * BufSize + BufSize /\ 0 * BufSize = 0
    BY <2>1, Multiples
  <2>3. PrintedBy[call - 1] \in Nat
    BY <2>1, PrintedByIsSum
  <2> QED
    BY <2>1, <2>2, <2>3
<1>1. ASSUME UNCHANGED <<call, mpc, i, seed>> PROVE CountInv'
  BY <1>0, <1>1 DEF CountInv, junks, remainder, n
<1>2. CASE MainStep
  <2>1. CASE StartCall
    BY <1>0, <2>1 DEF StartCall, CountInv
  <2>2. CASE GroupWait
    BY <1>0, <2>2 DEF GroupWait, CountInv
  <2>3. CASE LastBlock
    <3>1. i = junks - 1 /\ call \in Calls
      BY <2>3 DEF LastBlock, IInv, PhaseInv
    <3>2. remainder \in Nat /\ junks' = junks /\ remainder' = remainder
      BY <2>3, <3>1, CallOf DEF LastBlock, junks, remainder, n
    <3>3. (junks - 1) * BufSize = i * BufSize
      BY <3>1
    <3> QED
      BY <1>0, <2>3, <3>2, <3>3 DEF LastBlock, CountInv
  <2>4. CASE LastPrint
    <3>1. CASE remainder = 0
      BY <2>4, <3>1 DEF LastPrint, CountInv
    <3>2. CASE remainder # 0
      <4>1. call \in Calls /\ seed - 1 = PrintedBy[call - 1] + (junks - 1) * BufSize + remainder
        BY <1>0, <2>4 DEF LastPrint, IInv, PhaseInv, CountInv
      <4>2. /\ (junks - 1) * BufSize + remainder = n /\ junks - 1 \in Nat /\ remainder \in Nat
            /\ (junks - 1) * BufSize \in Nat
        <5>1. junks - 1 \in Nat /\ remainder \in Nat
              /\ (junks - 1) * BufSize + remainder = n
          BY <1>0, <3>2, <4>1, CallOf
        <5> QED
          BY <1>0, <5>1, Multiples
      <4>3. call' = call + 1 /\ mpc' = "call" /\ seed' = seed
        BY <2>4, <3>2 DEF LastPrint
      <4>4. PrintedBy[call] = PrintedBy[call - 1] + n
        BY <1>0, <4>1, PrintedByIsSum DEF Calls, n
      <4>5. seed - 1 = PrintedBy[call]
        BY <1>0, <4>1, <4>2, <4>4
      <4>6. call' - 1 = call
        BY <1>0, <4>3
      <4> QED
        BY <4>3, <4>5, <4>6 DEF CountInv
    <3> QED
      BY <3>1, <3>2
  <2> QED
    BY <1>2, <2>1, <2>2, <2>3, <2>4 DEF MainStep
<1>3. CASE ProducerStep
  <2>1. CASE ProducerStart \/ ProducerWait \/ ProducerLeave
    BY <1>1, <2>1 DEF ProducerStart, ProducerWait, ProducerLeave
  <2>2. CASE ProducerFill
    <3>1. mpc = "group_wait"
      BY <2>2, Working DEF ProducerFill
    <3>2. /\ mpc' = mpc /\ call' = call /\ seed' = seed + BufSize
          /\ i' * BufSize = i * BufSize + BufSize
      BY <1>0, <2>2 DEF ProducerFill
    <3>3. seed - 1 = PrintedBy[call - 1] + i * BufSize
      BY <1>0, <3>1 DEF CountInv
    <3>4. seed' - 1 = PrintedBy[call' - 1] + i' * BufSize
      BY <1>0, <3>2, <3>3
    <3> QED
      BY <3>1, <3>2, <3>4 DEF CountInv
  <2> QED
    BY <1>3, <2>1, <2>2 DEF ProducerStep
<1>4. CASE ConsumerStart
  BY <1>1, <1>4 DEF ConsumerStart
<1>5. ASSUME NEW k \in Items, ConsumerStep(k) PROVE CountInv'
  BY <1>1, <1>5 DEF ConsumerStep, ConsumerWait, ConsumerTranslate, ConsumerSignal, ConsumerSubmit
<1>6. CASE WriterStep
  BY <1>1, <1>6 DEF WriterStep, WriterStart, WriterDefer, WriterPrint, WriterSignal,
                    WriterDrain, WriterEnd, PrintBlock
<1>7. CASE UNCHANGED vars
  BY <1>1, <1>7
<1> QED
  BY <1>2, <1>3, <1>4, <1>5, <1>6, <1>7 DEF Next, Done

-----------------------------------------------------------------------------
(* The order of the output. *)

\* A block whose letters follow those that were printed keeps the output in order.
LEMMA PrintInOrder ==
  ASSUME NEW s \in Seq(Nat), \A k \in DOMAIN s : s[k] = k, NEW m \in 0..BufSize,
         NEW block \in [0..(BufSize - 1) -> Nat],
         \A j \in 0..(BufSize - 1) : j < m => block[j] = Len(s) + 1 + j
  PROVE  LET r == s \o Prefix(block, m)
         IN  (\A k \in DOMAIN r : r[k] = k) /\ Len(r) = Len(s) + m
<1> DEFINE r == s \o Prefix(block, m)
<1>1. /\ r \in Seq(Nat) /\ Len(r) = Len(s) + m
      /\ \A k \in 1..Len(s) : r[k] = s[k]
      /\ \A k \in 1..m : r[Len(s) + k] = block[k - 1]
  BY PrefixType
<1>2. BufSize \in Nat /\ Len(s) \in Nat /\ DOMAIN s = 1..Len(s) /\ m \in Nat /\ m <= BufSize
  BY Constants
<1> HIDE DEF r
<1>3. ASSUME NEW k \in DOMAIN r PROVE r[k] = k
  <2>1. k \in 1..(Len(s) + m)
    BY <1>1, <1>2
  <2>2. CASE k <= Len(s)
    BY <1>1, <1>2, <2>1, <2>2
  <2>3. CASE k > Len(s)
    <3> DEFINE j == k - Len(s)
    <3>1. j \in 1..m /\ Len(s) + j = k /\ j - 1 \in 0..(BufSize - 1) /\ j - 1 < m
      BY <1>2, <2>1, <2>3
    <3>2. r[k] = block[j - 1]
      <4> HIDE DEF j
      <4> QED
        BY <1>1, <3>1
    <3>3. block[j - 1] = Len(s) + 1 + (j - 1)
      <4> HIDE DEF j
      <4> QED
        BY <3>1
    <3> QED
      BY <1>2, <3>1, <3>2, <3>3
  <2> QED
    BY <1>2, <2>1, <2>2, <2>3
<1> QED
  BY <1>1, <1>3 DEF r

\* A step that prints nothing and leaves every iteration where it was.
LEMMA OrderKept ==
  ASSUME NEW written \in Nat, Order(written),
         UNCHANGED <<writeBlock, output, seed, i, cBufs>>,
         \A k \in Items : /\ (cpc[k] = "none")' <=> cpc[k] = "none"
                          /\ HoldsLetters(k)' => HoldsLetters(k)
                          /\ (cpc[k] \in {"queued", "wait", "consume"})'
                               => /\ cpc[k] \in {"queued", "wait", "consume"}
                                  /\ bufs'[Block(k)] = bufs[Block(k)]
                          /\ (cpc[k] \in {"signal", "submit", "none"})'
                               => cpc[k] \in {"signal", "submit", "none"},
         written..(i - 1) \subseteq Items,
         \A k \in Items : Block(k) \in Blocks,
         \A b \in Blocks : Pending(b)' <=> Pending(b),
         (wpc \in {"idle", "start"})' => ~Deferred(writeBlock)'
  PROVE  Order(written)'
<1> USE DEF Order, Numbers, Base
<1>1. /\ \A k \in Items : Block(k)' = Block(k) /\ Numbers(k)' = Numbers(k)
      /\ (written..(i - 1))' = written..(i - 1)
      /\ Base' = Base
  BY DEF Block
<1>2. (writeBlock = Block(written))' /\ (Len(output) = Base + written * BufSize - 1)'
  BY DEF Block
<1>3. (\A k \in Items : cpc[k] # "none" => written <= k /\ k < i)'
  OBVIOUS
<1>4. (\A k \in Items : HoldsLetters(k) => k < written + NumBufs)'
  OBVIOUS
<1>5. (\A k \in written..(i - 1) : cpc[k] = "none" =>
         k < written + NumBufs /\ Pending(Block(k)))'
  BY <1>1
<1>6. (\A b \in Blocks : Pending(b) =>
        \E k \in written..(i - 1) : k < written + NumBufs /\ Block(k) = b /\ cpc[k] = "none")'
  BY <1>1
<1>7. (\A k \in Items : cpc[k] \in {"queued", "wait", "consume"} => bufs[Block(k)] = Numbers(k))'
  BY <1>1
<1>8. (\A k \in written..(i - 1) : cpc[k] \in {"signal", "submit", "none"} =>
        cBufs[Block(k)] = Numbers(k))'
  BY <1>1
<1> QED
  BY <1>2, <1>3, <1>4, <1>5, <1>6, <1>7, <1>8

\* The iteration that is pending with the next block to print is the first one
\* that was not printed.
LEMMA NextPending ==
  ASSUME IInv, mpc = "group_wait", NEW written \in 0..i, Order(written), Pending(writeBlock)
  PROVE  /\ written < i /\ written \in Items /\ cpc[written] = "none"
         /\ cBufs[writeBlock] = Numbers(written)
<1>1. i \in Nat /\ NumBufs \in Nat /\ writeBlock \in Blocks /\ 0..i \subseteq Items
  BY Context, Constants DEF IInv, TypeInv
<1>2. PICK k \in written..(i - 1) :
        k < written + NumBufs /\ Block(k) = writeBlock /\ cpc[k] = "none"
  BY <1>1 DEF Order
<1>3. Block(k) = Block(written) /\ k \in Nat /\ written \in Nat
  BY <1>1, <1>2 DEF Order
<1>4. k = written
  BY <1>1, <1>2, <1>3, BlocksDiffer
<1> QED
  BY <1>1, <1>2, <1>4 DEF Order

\* Printing it makes its successor the first one.
LEMMA PrintOrder ==
  ASSUME IInv, mpc = "group_wait", NEW written \in 0..i, Order(written), Pending(writeBlock),
         PrintBlock(writeBlock), \A b \in Blocks : Pending(b)' <=> Pending(b) /\ b # writeBlock
  PROVE  InOrder' /\ Order(written + 1)' /\ written + 1 \in 0..i
<1>1. /\ written < i /\ written \in Items /\ cpc[written] = "none"
      /\ cBufs[writeBlock] = Numbers(written)
  BY NextPending
<1>2. /\ i \in Nat /\ written \in Nat /\ NumBufs \in Nat \ {0} /\ BufSize \in Nat
      /\ 0..i \subseteq Items /\ Items \subseteq Nat /\ \A k \in Items : Block(k) \in Blocks
      /\ writeBlock = Block(written) /\ writeBlock \in Blocks
      /\ Base \in Int /\ written * BufSize \in Nat
      /\ (written + 1) * BufSize = written * BufSize + BufSize
  <2>1. /\ i \in Nat /\ written \in Nat /\ NumBufs \in Nat \ {0} /\ BufSize \in Nat
        /\ 0..i \subseteq Items /\ Items \subseteq Nat /\ \A k \in Items : Block(k) \in Blocks
        /\ writeBlock = Block(written) /\ writeBlock \in Blocks /\ seed \in Nat
    <3>1. writeBlock = Block(written) /\ writeBlock \in Blocks /\ seed \in Nat
      BY DEF IInv, TypeInv, Order
    <3> QED
      BY <3>1, Context, Constants
  <2>2. written * BufSize \in Nat /\ i * BufSize \in Nat
        /\ (written + 1) * BufSize = written * BufSize + BufSize
    BY <2>1, Multiples
  <2> QED
    BY <2>1, <2>2 DEF Base
<1>3. /\ output' = output \o Prefix(cBufs[writeBlock], BufSize)
      /\ writeBlock' = Block(written + 1) /\ wpc' = "signal"
      /\ UNCHANGED <<seed, i, cpc, bufs, cBufs>>
  BY <1>2, BlockOf DEF PrintBlock, producer, consumer
<1>4. Len(output) = Base + written * BufSize - 1
  BY DEF Order
<1>5. InOrder' /\ Len(output') = Len(output) + BufSize
  <2>1. \A j \in 0..(BufSize - 1) : cBufs[writeBlock][j] = Len(output) + 1 + j
    <3>1. \A j \in 0..(BufSize - 1) : Numbers(written)[j] = Base + written * BufSize + j
      BY DEF Numbers
    <3>2. cBufs[writeBlock] = Numbers(written)
      BY <1>1
    <3>3. \A j \in 0..(BufSize - 1) : j \in Int
      OBVIOUS
    <3>4. Len(output) + 1 = Base + written * BufSize
      BY <1>2, <1>4
    <3> HIDE DEF Numbers
    <3> QED
      BY <1>2, <3>1, <3>2, <3>3, <3>4
  <2>2. /\ output \in Seq(Nat) /\ \A k \in DOMAIN output : output[k] = k
        /\ BufSize \in 0..BufSize /\ cBufs[writeBlock] \in [0..(BufSize - 1) -> Nat]
    <3>1. BufSize \in 0..BufSize
      BY <1>2
    <3>2. output \in Seq(Nat) /\ cBufs[writeBlock] \in [0..(BufSize - 1) -> Nat]
      BY <1>2 DEF IInv, TypeInv
    <3> QED
      BY <3>1, <3>2 DEF IInv, OrderInv, InOrder
  <2> QED
    BY <1>3, <2>1, <2>2, PrintInOrder DEF InOrder
<1>6. /\ \A k \in Items : /\ Block(k)' = Block(k) /\ Numbers(k)' = Numbers(k)
                          /\ HoldsLetters(k)' <=> HoldsLetters(k)
      /\ Base' = Base
  BY <1>3 DEF Block, Numbers, Base, HoldsLetters
<1>7. \A k \in (written + 1)..(i - 1) : k \in written..(i - 1) /\ k # written /\ k \in Items
  BY <1>2
<1> DEFINE next == written + 1
<1>8. next \in Nat /\ next \in 0..i /\ next = written + 1
  BY <1>1, <1>2
<1> HIDE DEF next
<1>9. /\ (writeBlock = Block(next))' /\ (Len(output) = Base + next * BufSize - 1)'
      /\ (wpc \in {"idle", "start"} => ~Deferred(writeBlock))'
  <2>1. next * BufSize = written * BufSize + BufSize
    BY <1>2, <1>8
  <2> QED
    BY <1>2, <1>3, <1>4, <1>5, <1>6, <1>8, <2>1 DEF Block
<1>10. \A k \in Items : cpc'[k] # "none" => next <= k /\ k < i'
  <2> SUFFICES ASSUME NEW k \in Items, cpc'[k] # "none" PROVE next <= k /\ k < i'
    OBVIOUS
  <2>1. cpc[k] # "none" /\ k \in Nat
    BY <1>2, <1>3
  <2>2. written <= k /\ k < i /\ k # written
    BY <1>1, <2>1 DEF Order
  <2> QED
    BY <1>2, <1>3, <1>8, <2>1, <2>2
<1>11. \A k \in Items : HoldsLetters(k)' => k < next + NumBufs
  <2> SUFFICES ASSUME NEW k \in Items, HoldsLetters(k)' PROVE k < next + NumBufs
    OBVIOUS
  <2>1. HoldsLetters(k) /\ k \in Nat
    BY <1>2, <1>6
  <2>2. k < written + NumBufs
    BY <2>1 DEF Order
  <2> QED
    BY <1>2, <1>8, <2>1, <2>2
<1>12. ASSUME NEW k \in next..(i - 1), cpc[k] = "none"
       PROVE  k < next + NumBufs /\ Pending(Block(k))'
  <2>1. k \in written..(i - 1) /\ k # written /\ k \in Items /\ k \in Nat
    BY <1>2, <1>7, <1>8, <1>12
  <2>2. k < written + NumBufs /\ Pending(Block(k))
    BY <1>12, <2>1 DEF Order
  <2>3. Block(k) # writeBlock /\ Block(k) \in Blocks
    BY <1>2, <2>1, <2>2, BlocksDiffer
  <2>4. Pending(Block(k))' <=> Pending(Block(k)) /\ Block(k) # writeBlock
    <3>1. PICK b \in Blocks : b = Block(k)
      BY <2>3
    <3>2. b' = b /\ Block(k)' = b
      BY <1>6, <2>1, <3>1
    <3>3. Pending(Block(k))' <=> Pending(b)'
      BY <3>1, <3>2 DEF Pending, Queued, Deferred
    <3> QED
      BY <3>1, <3>3
  <2> QED
    BY <1>2, <1>8, <2>1, <2>2, <2>3, <2>4
<1>13. ASSUME NEW b \in Blocks, Pending(b)'
       PROVE  \E k \in next..(i - 1) : k < next + NumBufs /\ Block(k) = b /\ cpc[k] = "none"
  <2>1. Pending(b) /\ b # writeBlock
    BY <1>13
  <2>2. PICK k \in written..(i - 1) : k < written + NumBufs /\ Block(k) = b /\ cpc[k] = "none"
    BY <2>1 DEF Order
  <2>3. k # written
    BY <1>2, <2>1, <2>2
  <2>4. k \in next..(i - 1) /\ k < next + NumBufs
    BY <1>2, <1>8, <2>2, <2>3
  <2> QED
    BY <2>2, <2>4
<1>14. \A k \in Items : cpc'[k] \in {"queued", "wait", "consume"} => bufs'[Block(k)] = Numbers(k)
  BY <1>3 DEF Order
<1>15. \A k \in next..(i - 1) : cpc'[k] \in {"signal", "submit", "none"} =>
          cBufs'[Block(k)] = Numbers(k)
  BY <1>3, <1>7, <1>8 DEF Order
<1>16. next..(i - 1) \subseteq Items /\ i' = i /\ cpc' = cpc
  BY <1>3, <1>7, <1>8
<1>17. Order(next)'
  <2>1. (\A k \in next..(i - 1) : cpc[k] = "none" => k < next + NumBufs /\ Pending(Block(k)))'
    BY <1>12, <1>16
  <2>2. (\A b \in Blocks : Pending(b) =>
           \E k \in next..(i - 1) : k < next + NumBufs /\ Block(k) = b /\ cpc[k] = "none")'
    BY <1>6, <1>13, <1>16
  <2>3. (\A k \in Items : cpc[k] \in {"queued", "wait", "consume"} => bufs[Block(k)] = Numbers(k))'
    BY <1>6, <1>14
  <2>4. (\A k \in next..(i - 1) : cpc[k] \in {"signal", "submit", "none"} =>
           cBufs[Block(k)] = Numbers(k))'
    BY <1>6, <1>15, <1>16
  <2>5. (\A k \in Items : cpc[k] # "none" => next <= k /\ k < i)'
        /\ (\A k \in Items : HoldsLetters(k) => k < next + NumBufs)'
    BY <1>10, <1>11
  <2> QED
    BY <1>9, <2>1, <2>2, <2>3, <2>4, <2>5 DEF Order
<1> QED
  BY <1>5, <1>8, <1>17 DEF next

LEMMA MainOrder ==
  ASSUME IInv, MainStep
  PROVE  OrderInv'
<1> USE DEF vars, main, producer, consumer, writer
<1>0. TypeInv /\ OrderInv /\ BufSize \in Nat \ {0} /\ seed \in Nat /\ 0 \in Blocks
  BY Constants, BlockOf DEF IInv, TypeInv
<1>1. CASE StartCall
  <2>1. Idle /\ Len(output) = seed - 1 /\ InOrder
    BY <1>0, <1>1 DEF StartCall, IInv, PhaseInv, OrderInv
  <2>2. /\ i' = 0 /\ cpc' = cpc /\ deferedWrite' = <<>> /\ wQueue' = <<>> /\ wpc' = "idle"
        /\ writeBlock' = 0 /\ output' = output /\ seed' = seed /\ mpc' = "group_wait"
    BY <1>1, <2>1 DEF StartCall, Idle
  <2>3. (0..(i - 1))' = {} /\ \A k \in Items : cpc'[k] = "none"
    BY <2>1, <2>2 DEF Idle
  <2>4. \A b : ~Queued(b)' /\ ~Deferred(b)' /\ ~Pending(b)'
    BY <2>2 DEF Queued, Deferred, Pending, Elements
  <2>5. (writeBlock = Block(0))' /\ (Len(output) = Base + 0 * BufSize - 1)'
    <3>1. i' * BufSize = 0 /\ 0 * BufSize = 0
      BY <1>0, <2>2
    <3> QED
      BY <1>0, <2>1, <2>2, <3>1, BlockOf DEF Base, Block
  <2>6. Order(0)'
    BY <2>2, <2>3, <2>4, <2>5 DEF Order, HoldsLetters
  <2>7. InOrder'
    BY <2>1, <2>2 DEF InOrder
  <2>8. \E written \in 0..i' : Order(written)'
    BY <2>2, <2>6
  <2> QED
    BY <2>2, <2>7, <2>8 DEF OrderInv
<1>2. CASE GroupWait
  BY <1>0, <1>2, GroupEmpty DEF GroupWait, OrderInv, InOrder
<1>3. CASE LastBlock
  <2>1. /\ Len(output) = seed - 1 /\ remainder \in 0..(BufSize - 1) /\ InOrder
        /\ remainder' = remainder
    BY <1>0, <1>3, CallOf DEF LastBlock, IInv, PhaseInv, OrderInv, remainder, n
  <2>2. seed' = seed + remainder /\ mpc' = "print" /\ output' = output
    BY <1>3 DEF LastBlock
  <2>3. ASSUME NEW j \in 0..(BufSize - 1), j < remainder
        PROVE  cBufs'[0][j] = seed + j
    <3>1. bufs'[0] = Fill(bufs[0], remainder)
      BY <1>0, <1>3 DEF LastBlock, TypeInv
    <3>2. bufs'[0][j] = seed + j
      BY <2>3, <3>1 DEF Fill
    <3>3. cBufs'[0] = Translate(bufs'[0], cBufs[0], remainder)
      BY <1>0, <1>3 DEF LastBlock, TypeInv
    <3> QED
      BY <2>3, <3>2, <3>3 DEF Translate
  <2>4. Len(output)' = seed' - 1 - remainder'
    BY <1>0, <2>1, <2>2
  <2>5. \A j \in 0..(BufSize - 1) : j < remainder' => cBufs'[0][j] = seed' - remainder' + j
    BY <1>0, <2>1, <2>2, <2>3
  <2> QED
    BY <2>1, <2>2, <2>4, <2>5 DEF OrderInv, InOrder
<1>4. CASE LastPrint
  <2>1. CASE remainder = 0
    BY <1>0, <1>4, <2>1 DEF LastPrint, OrderInv, InOrder
  <2>2. CASE remainder # 0
    <3>1. /\ Len(output) = seed - 1 - remainder /\ remainder \in 0..(BufSize - 1)
          /\ \A j \in 0..(BufSize - 1) : j < remainder => cBufs[0][j] = seed - remainder + j
      BY <1>0, <1>4, CallOf DEF LastPrint, IInv, PhaseInv, OrderInv
    <3>2. \A j \in 0..(BufSize - 1) : j < remainder => cBufs[0][j] = Len(output) + 1 + j
      BY <1>0, <3>1
    <3>3. /\ output \in Seq(Nat) /\ \A k \in DOMAIN output : output[k] = k
          /\ remainder \in 0..BufSize /\ cBufs[0] \in [0..(BufSize - 1) -> Nat]
      <4>1. remainder \in 0..BufSize
        BY <1>0, <3>1
      <4> QED
        BY <1>0, <4>1 DEF TypeInv, OrderInv, InOrder
    <3>4. output' = output \o Prefix(cBufs[0], remainder) /\ mpc' = "call" /\ seed' = seed
      BY <1>4, <2>2 DEF LastPrint
    <3>5. InOrder' /\ Len(output') = Len(output) + remainder
      BY <3>2, <3>3, <3>4, PrintInOrder DEF InOrder
    <3> QED
      BY <1>0, <3>1, <3>4, <3>5 DEF OrderInv
  <2> QED
    BY <2>1, <2>2
<1> QED
  BY <1>1, <1>2, <1>3, <1>4 DEF MainStep

\* What the steps of the other threads start from.
LEMMA OrderContext ==
  ASSUME IInv, mpc = "group_wait"
  PROVE  \E written \in 0..i :
           /\ Order(written) /\ written \in Nat /\ written..(i - 1) \subseteq Items
<1>1. PICK written \in 0..i : Order(written)
  BY DEF IInv, OrderInv
<1>2. written \in Nat /\ written..(i - 1) \subseteq Items
  BY Context
<1> QED
  BY <1>1, <1>2

LEMMA ProducerOrder ==
  ASSUME IInv, ProducerStep
  PROVE  OrderInv'
<1> USE DEF vars, main, producer, consumer, writer
<1>0. /\ TypeInv /\ NumbersInv /\ mpc = "group_wait" /\ mpc' = mpc /\ output' = output
      /\ \A k \in Items : Block(k) \in Blocks /\ Block(k)' = Block(k)
  BY Working, Context DEF IInv, ProducerStep, ProducerStart, ProducerWait, ProducerFill,
                          ProducerLeave, Block
<1>1. InOrder'
  BY <1>0 DEF IInv, OrderInv, InOrder
<1>2. PICK written \in 0..i : Order(written) /\ written \in Nat /\ written..(i - 1) \subseteq Items
  BY <1>0, OrderContext
<1>3. i \in Items /\ i \in Nat /\ Block(i) \in Blocks /\ 0..i \subseteq Items
  BY <1>0, Context
<1>4. UNCHANGED <<writeBlock, cBufs, wpc, wblk, wQueue, deferedWrite>>
      /\ \A b : Pending(b)' <=> Pending(b)
  BY DEF ProducerStep, ProducerStart, ProducerWait, ProducerFill, ProducerLeave, Pending,
         Queued, Deferred, Elements
<1>5. (wpc \in {"idle", "start"})' => ~Deferred(writeBlock)'
  BY <1>2, <1>4 DEF Order, Deferred, Elements
<1>6. CASE ProducerStart \/ ProducerLeave \/ ProducerWait
  <2>1. UNCHANGED <<seed, i, cpc>>
    BY <1>6 DEF ProducerStart, ProducerLeave, ProducerWait
  <2>2. ASSUME NEW k \in Items, cpc[k] \in {"queued", "wait", "consume"}
        PROVE  bufs'[Block(k)] = bufs[Block(k)]
    <3>1. CASE ProducerStart \/ ProducerLeave
      BY <3>1 DEF ProducerStart, ProducerLeave
    <3>2. CASE ProducerWait
      <4>1. pSemaphore[Block(k)] = 0 /\ pSemaphore[Block(i)] > 0
        BY <1>0, <2>2, <3>2 DEF NumbersInv, HoldsNumbers, ProducerWait, PWait
      <4>2. Block(k) # Block(i)
        BY <4>1
      <4> QED
        BY <1>0, <3>2, <4>2 DEF ProducerWait, TypeInv
    <3> QED
      BY <1>6, <3>1, <3>2
  <2>3. Order(written)'
    BY <1>0, <1>2, <1>4, <1>5, <2>1, <2>2, OrderKept DEF HoldsLetters
  <2> QED
    BY <1>0, <1>1, <2>1, <2>3 DEF OrderInv
<1>7. CASE ProducerFill
  <2>1. /\ i' = i + 1 /\ seed' = seed + BufSize
        /\ bufs' = [bufs EXCEPT ![Block(i)] = Fill(@, BufSize)]
        /\ cpc' = [cpc EXCEPT ![i] = "queued"] /\ ppc = "fill"
    BY <1>7 DEF ProducerFill
  <2>2. cpc[i] = "none" /\ \A k \in Items : cpc[k] # "none" => written <= k /\ k < i
    BY <1>0, <1>2, Fresh DEF Order
  <2>3. /\ seed \in Nat /\ BufSize \in Nat /\ i * BufSize \in Nat
        /\ (i + 1) * BufSize = i * BufSize + BufSize
    <3>1. seed \in Nat /\ BufSize \in Nat
      BY <1>0, Constants DEF TypeInv
    <3> QED
      BY <1>3, <3>1, Multiples
  <2>4. Base' = Base /\ Base + i * BufSize = seed
    BY <2>1, <2>3 DEF Base
  <2>5. \A k \in Items : Numbers(k)' = Numbers(k)
    BY <2>4 DEF Numbers
  <2>6. bufs'[Block(i)] = Numbers(i)
    <3>1. bufs'[Block(i)] = Fill(bufs[Block(i)], BufSize)
      BY <1>0, <1>3, <2>1 DEF TypeInv
    <3>2. Fill(bufs[Block(i)], BufSize) = Numbers(i)
      BY <2>3, <2>4 DEF Fill, Numbers
    <3> QED
      BY <3>1, <3>2
  <2>7. /\ cpc'[i] = "queued" /\ \A k \in Items : k # i => cpc'[k] = cpc[k]
        /\ \A k \in Items : HoldsLetters(k)' <=> HoldsLetters(k)
    BY <1>0, <1>3, <2>1, <2>2 DEF TypeInv, HoldsLetters
  <2>8. \A k \in written..i : k \in Items /\ (k = i \/ k \in written..(i - 1))
    BY <1>2, <1>3
  <2>9. (writeBlock = Block(written))' /\ (Len(output) = Base + written * BufSize - 1)'
    BY <1>0, <1>2, <1>4, <2>4 DEF Order, Block
  <2>10. (\A k \in Items : cpc[k] # "none" => written <= k /\ k < i)'
         /\ (\A k \in Items : HoldsLetters(k) => k < written + NumBufs)'
    <3>1. \A k \in Items : cpc'[k] # "none" => written <= k /\ k < i + 1
      <4> SUFFICES ASSUME NEW k \in Items, cpc'[k] # "none" PROVE written <= k /\ k < i + 1
        OBVIOUS
      <4>1. CASE k = i
        BY <1>2, <1>3, <4>1
      <4>2. CASE k # i
        <5>1. written <= k /\ k < i /\ k \in Nat
          BY <1>0, <2>2, <2>7, <4>2, Context
        <5> QED
          BY <1>3, <5>1
      <4> QED
        BY <4>1, <4>2
    <3>2. \A k \in Items : HoldsLetters(k) => k < written + NumBufs
      BY <1>2 DEF Order
    <3> QED
      BY <2>1, <2>7, <3>1, <3>2
  <2>11. (\A k \in written..(i - 1) : cpc[k] = "none" =>
            k < written + NumBufs /\ Pending(Block(k)))'
    <3>1. ASSUME NEW k \in written..i, cpc'[k] = "none"
          PROVE  k < written + NumBufs /\ Pending(Block(k))
      <4>1. k \in written..(i - 1) /\ cpc[k] = "none"
        BY <2>7, <2>8, <3>1
      <4> QED
        BY <1>2, <4>1 DEF Order
    <3>2. (written..(i - 1))' = written..i
      BY <1>2, <1>3, <2>1
    <3> QED
      BY <1>0, <1>4, <2>8, <3>1, <3>2
  <2>12. (\A b \in Blocks : Pending(b) =>
            \E k \in written..(i - 1) : k < written + NumBufs /\ Block(k) = b /\ cpc[k] = "none")'
    <3>1. ASSUME NEW b \in Blocks, Pending(b)
          PROVE  \E k \in written..i : k < written + NumBufs /\ Block(k)' = b /\ cpc'[k] = "none"
      <4>1. PICK k \in written..(i - 1) : k < written + NumBufs /\ Block(k) = b /\ cpc[k] = "none"
        BY <1>2, <3>1 DEF Order
      <4>2. k \in written..i /\ k # i /\ k \in Items
        BY <1>2, <1>3, <4>1
      <4> QED
        BY <1>0, <2>7, <4>1, <4>2
    <3>2. (written..(i - 1))' = written..i
      BY <1>2, <1>3, <2>1
    <3> QED
      BY <1>4, <3>1, <3>2
  <2>13. (\A k \in Items : cpc[k] \in {"queued", "wait", "consume"} => bufs[Block(k)] = Numbers(k))'
    <3>1. ASSUME NEW k \in Items, cpc'[k] \in {"queued", "wait", "consume"}, k # i
          PROVE  bufs'[Block(k)] = Numbers(k)
      <4>1. cpc[k] \in {"queued", "wait", "consume"}
        BY <2>7, <3>1
      <4>2. bufs[Block(k)] = Numbers(k) /\ ~Filling(Block(k))
        BY <1>0, <1>2, <4>1 DEF Order, NumbersInv, HoldsNumbers
      <4>3. Block(k) # Block(i)
        BY <2>1, <4>2 DEF Filling
      <4> QED
        BY <1>0, <2>1, <4>2, <4>3 DEF TypeInv
    <3> QED
      BY <1>0, <2>5, <2>6, <3>1
  <2>14. (\A k \in written..(i - 1) : cpc[k] \in {"signal", "submit", "none"} =>
            cBufs[Block(k)] = Numbers(k))'
    <3>1. ASSUME NEW k \in written..i, cpc'[k] \in {"signal", "submit", "none"}
          PROVE  cBufs[Block(k)] = Numbers(k) /\ k \in Items
      <4>1. k \in written..(i - 1) /\ cpc[k] \in {"signal", "submit", "none"} /\ k \in Items
        BY <2>7, <2>8, <3>1
      <4> QED
        BY <1>2, <4>1 DEF Order
    <3>2. (written..(i - 1))' = written..i
      BY <1>2, <1>3, <2>1
    <3> QED
      BY <1>0, <1>4, <2>5, <3>1, <3>2
  <2>15. Order(written)'
    BY <1>5, <2>9, <2>10, <2>11, <2>12, <2>13, <2>14 DEF Order
  <2>16. written \in 0..i'
    BY <1>2, <1>3, <2>1
  <2> QED
    BY <1>0, <1>1, <2>15, <2>16 DEF OrderInv
<1> QED
  BY <1>6, <1>7 DEF ProducerStep

LEMMA ConsumerStartOrder ==
  ASSUME IInv, ConsumerStart
  PROVE  OrderInv'
<1> USE DEF vars, main, producer, consumer, writer
<1>0. /\ TypeInv /\ mpc = "group_wait" /\ mpc' = mpc
      /\ UNCHANGED <<writeBlock, output, seed, i, bufs, cBufs, wpc, wblk, wQueue, deferedWrite>>
      /\ \A k \in Items : Block(k) \in Blocks
  BY Working, Context DEF IInv, ConsumerStart
<1>1. PICK written \in 0..i : Order(written) /\ written \in Nat /\ written..(i - 1) \subseteq Items
  BY <1>0, OrderContext
<1>2. Head(cQueue) \in Items /\ Head(cQueue) \in Elements(cQueue)
  BY <1>0, TailOf DEF ConsumerStart, TypeInv
<1>3. cpc[Head(cQueue)] = "queued"
  BY <1>2 DEF IInv, PhaseInv
<1> DEFINE h == Head(cQueue)
<1>4. cpc' = [cpc EXCEPT ![h] = "wait"]
  BY DEF ConsumerStart, CGoto
<1> HIDE DEF h
<1>5. cpc[h] = "queued" /\ cpc'[h] = "wait" /\ \A k \in Items : k # h => cpc'[k] = cpc[k]
  BY <1>0, <1>2, <1>3, <1>4 DEF TypeInv, h
<1>6. \A b : Pending(b)' <=> Pending(b)
  BY <1>0 DEF Pending, Queued, Deferred, Elements
<1>7. (wpc \in {"idle", "start"})' => ~Deferred(writeBlock)'
  BY <1>0, <1>1 DEF Order, Deferred, Elements
<1>8. \A k \in Items : /\ (cpc[k] = "none")' <=> cpc[k] = "none"
                       /\ HoldsLetters(k)' => HoldsLetters(k)
                       /\ (cpc[k] \in {"queued", "wait", "consume"})'
                            => /\ cpc[k] \in {"queued", "wait", "consume"}
                               /\ bufs'[Block(k)] = bufs[Block(k)]
                       /\ (cpc[k] \in {"signal", "submit", "none"})'
                            => cpc[k] \in {"signal", "submit", "none"}
  BY <1>0, <1>5 DEF HoldsLetters
<1>9. Order(written)'
  BY <1>0, <1>1, <1>6, <1>7, <1>8, OrderKept
<1> QED
  BY <1>0, <1>1, <1>9 DEF IInv, OrderInv, InOrder

\* An iteration a round ahead of one that was not printed finds the right to its
\* block of letters taken.
LEMMA ConsumerIsNear ==
  ASSUME IInv, mpc = "group_wait", NEW written \in 0..i, Order(written),
         NEW k \in Items, cpc[k] = "wait", wSemaphore[Block(k)] # 0
  PROVE  k < written + NumBufs
<1>1. /\ i \in Nat /\ written \in Nat /\ k \in Nat /\ NumBufs \in Nat \ {0} /\ k < i
      /\ 0..i \subseteq Items /\ \A j \in Items : Block(j) \in Blocks
  BY Context, Constants DEF Order
<1>2. SUFFICES ASSUME written + NumBufs <= k PROVE FALSE
  BY <1>1
<1> DEFINE j == k - NumBufs
<1>3. j \in Nat /\ Block(j) = Block(k)
  BY <1>1, <1>2, OneRoundBefore
<1>4. j \in written..(i - 1) /\ j \in Items /\ j # k
  BY <1>1, <1>2
<1> HIDE DEF j
<1>5. CASE cpc[j] = "none"
  <2>1. Pending(Block(j)) /\ Block(j) \in Blocks
    BY <1>1, <1>4, <1>5 DEF Order
  <2>2. wSemaphore[Block(j)] = 0
    BY <2>1 DEF Pending, IInv, LettersInv, Writing
  <2> QED
    BY <1>3, <2>2
<1>6. CASE HoldsLetters(j)
  BY <1>3, <1>4, <1>6 DEF IInv, LettersInv
<1>7. CASE HoldsNumbers(j)
  <2>1. HoldsNumbers(k)
    BY DEF HoldsNumbers
  <2> QED
    BY <1>3, <1>4, <1>7, <2>1 DEF IInv, NumbersInv
<1> QED
  BY <1>4, <1>5, <1>6, <1>7 DEF IInv, TypeInv, HoldsLetters, HoldsNumbers

\* A block of letters that is held or pending belongs to one iteration.
LEMMA LettersAreHeld ==
  ASSUME IInv, mpc = "group_wait", NEW written \in 0..i, Order(written),
         NEW j \in written..(i - 1), cpc[j] \in {"signal", "submit", "none"},
         NEW k \in Items, j # k, Block(j) = Block(k)
  PROVE  wSemaphore[Block(k)] = 0 /\ ~HoldsLetters(k)
<1>1. j \in Items /\ Block(j) \in Blocks
  BY Context
<1>2. CASE cpc[j] = "none"
  <2>1. Pending(Block(j))
    BY <1>2 DEF Order
  <2> QED
    BY <1>1, <2>1 DEF Pending, IInv, LettersInv, Writing
<1>3. CASE HoldsLetters(j)
  BY <1>1, <1>3 DEF IInv, LettersInv
<1> QED
  BY <1>2, <1>3 DEF HoldsLetters

LEMMA ConsumerOrder ==
  ASSUME IInv, NEW k \in Items, ConsumerStep(k)
  PROVE  OrderInv'
<1> USE DEF vars, main, producer, consumer, writer
<1>0. /\ TypeInv /\ mpc = "group_wait" /\ mpc' = mpc /\ k \in Nat /\ Block(k) \in Blocks
      /\ UNCHANGED <<writeBlock, output, seed, i, bufs, wpc, wblk, deferedWrite>>
      /\ \A j \in Items : Block(j) \in Blocks /\ Block(j)' = Block(j)
  BY Consuming, Context DEF IInv, ConsumerStep, ConsumerWait, ConsumerTranslate,
                            ConsumerSignal, ConsumerSubmit, Block
<1>1. PICK written \in 0..i : Order(written) /\ written \in Nat /\ written..(i - 1) \subseteq Items
  BY <1>0, OrderContext
<1>2. Base' = Base /\ \A j \in Items : Numbers(j)' = Numbers(j)
  BY <1>0 DEF Numbers, Base
<1>3. SUFFICES Order(written)'
  BY <1>0, <1>1 DEF IInv, OrderInv, InOrder
<1>4. /\ (writeBlock = Block(written))' /\ (Len(output) = Base + written * BufSize - 1)'
      /\ (wpc \in {"idle", "start"} => ~Deferred(writeBlock))'
  BY <1>0, <1>1, <1>2 DEF Order, Block, Deferred, Elements
<1>5. \A b : Deferred(b)' <=> Deferred(b)
  BY <1>0 DEF Deferred, Elements
<1>6. CASE ConsumerSignal(k)
  <2>1. /\ cpc[k] = "signal" /\ cpc'[k] = "submit" /\ UNCHANGED <<cBufs, wQueue>>
        /\ \A j \in Items : j # k => cpc'[j] = cpc[j]
    BY <1>0, <1>6 DEF ConsumerSignal, CGoto, TypeInv
  <2>2. \A j \in Items : /\ (cpc[j] = "none")' <=> cpc[j] = "none"
                         /\ HoldsLetters(j)' => HoldsLetters(j)
                         /\ (cpc[j] \in {"queued", "wait", "consume"})'
                              => /\ cpc[j] \in {"queued", "wait", "consume"}
                                 /\ bufs'[Block(j)] = bufs[Block(j)]
                         /\ (cpc[j] \in {"signal", "submit", "none"})'
                              => cpc[j] \in {"signal", "submit", "none"}
    BY <1>0, <2>1 DEF HoldsLetters
  <2>3. \A b : Pending(b)' <=> Pending(b)
    BY <1>0, <1>5, <2>1 DEF Pending, Queued, Elements
  <2>4. (wpc \in {"idle", "start"})' => ~Deferred(writeBlock)'
    BY <1>4
  <2> QED
    BY <1>0, <1>1, <2>1, <2>2, <2>3, <2>4, OrderKept
<1>7. CASE ConsumerWait(k) \/ ConsumerTranslate(k)
  <2>1. /\ UNCHANGED wQueue /\ cpc[k] # "none" /\ cpc'[k] # "none"
        /\ \A j \in Items : j # k => cpc'[j] = cpc[j] /\ (HoldsLetters(j)' <=> HoldsLetters(j))
        /\ \A j \in Blocks : j # Block(k) => cBufs'[j] = cBufs[j]
    BY <1>0, <1>7 DEF ConsumerWait, ConsumerTranslate, CGoto, TypeInv, HoldsLetters
  <2>2. \A b : Pending(b)' <=> Pending(b)
    BY <1>0, <1>5, <2>1 DEF Pending, Queued, Elements
  <2>3. k < written + NumBufs
    <3>1. CASE ConsumerWait(k)
      <4>1. cpc[k] = "wait" /\ wSemaphore[Block(k)] # 0
        BY <3>1 DEF ConsumerWait, WWait
      <4> QED
        BY <1>0, <1>1, <4>1, ConsumerIsNear
    <3>2. CASE ConsumerTranslate(k)
      BY <1>1, <3>2 DEF ConsumerTranslate, HoldsLetters, Order
    <3> QED
      BY <1>7, <3>1, <3>2
  <2>4. (\A j \in Items : cpc[j] # "none" => written <= j /\ j < i)'
        /\ (\A j \in Items : HoldsLetters(j) => j < written + NumBufs)'
    BY <1>0, <1>1, <2>1, <2>3 DEF Order
  <2>5. (\A j \in written..(i - 1) : cpc[j] = "none" =>
           j < written + NumBufs /\ Pending(Block(j)))'
    BY <1>0, <1>1, <2>1, <2>2 DEF Order
  <2>6. (\A b \in Blocks : Pending(b) =>
           \E j \in written..(i - 1) : j < written + NumBufs /\ Block(j) = b /\ cpc[j] = "none")'
    <3>1. ASSUME NEW b \in Blocks, Pending(b)
          PROVE  \E j \in written..(i - 1) : j < written + NumBufs /\ Block(j) = b /\ cpc'[j] = "none"
      <4>1. PICK j \in written..(i - 1) : j < written + NumBufs /\ Block(j) = b /\ cpc[j] = "none"
        BY <1>1, <3>1 DEF Order
      <4> QED
        BY <1>1, <2>1, <4>1
    <3> QED
      BY <1>0, <1>1, <2>2, <3>1
  <2>7. (\A j \in Items : cpc[j] \in {"queued", "wait", "consume"} => bufs[Block(j)] = Numbers(j))'
    <3>1. cpc[k] \in {"queued", "wait", "consume"}
      BY <1>7 DEF ConsumerWait, ConsumerTranslate
    <3> QED
      BY <1>0, <1>1, <1>2, <2>1, <3>1 DEF Order
  <2>8. ASSUME NEW j \in written..(i - 1), cpc'[j] \in {"signal", "submit", "none"}
        PROVE  cBufs'[Block(j)] = Numbers(j)
    <3>1. CASE j # k
      <4>1. /\ cpc[j] \in {"signal", "submit", "none"} /\ cBufs[Block(j)] = Numbers(j)
            /\ Block(j) \in Blocks
        BY <1>0, <1>1, <2>1, <2>8, <3>1 DEF Order
      <4>2. Block(j) # Block(k)
        <5>1. wSemaphore[Block(k)] # 0 \/ HoldsLetters(k)
          BY <1>7 DEF ConsumerWait, WWait, ConsumerTranslate, HoldsLetters
        <5> QED
          BY <1>0, <1>1, <3>1, <4>1, <5>1, LettersAreHeld
      <4> QED
        BY <2>1, <4>1, <4>2
    <3>2. CASE j = k
      <4>1. ConsumerTranslate(k)
        BY <1>0, <1>7, <2>8, <3>2 DEF ConsumerWait, CGoto, TypeInv
      <4>2. bufs[Block(k)] = Numbers(k)
        BY <1>1, <4>1 DEF ConsumerTranslate, Order
      <4>3. cBufs'[Block(k)] = Translate(bufs[Block(k)], cBufs[Block(k)], BufSize)
        BY <1>0, <4>1 DEF ConsumerTranslate, TypeInv
      <4>4. Translate(Numbers(k), cBufs[Block(k)], BufSize) = Numbers(k)
        BY Constants DEF Translate, Numbers
      <4> QED
        BY <3>2, <4>2, <4>3, <4>4
    <3> QED
      BY <3>1, <3>2
  <2>9. (\A j \in written..(i - 1) : cpc[j] \in {"signal", "submit", "none"} =>
           cBufs[Block(j)] = Numbers(j))'
    BY <1>0, <1>1, <1>2, <2>8
  <2> QED
    BY <1>4, <2>4, <2>5, <2>6, <2>7, <2>9 DEF Order
<1>8. CASE ConsumerSubmit(k)
  <2>1. /\ cpc[k] = "submit" /\ cpc'[k] = "none" /\ wQueue' = Append(wQueue, Block(k))
        /\ \A j \in Items : j # k => cpc'[j] = cpc[j]
        /\ \A j \in Items : HoldsLetters(j)' => HoldsLetters(j)
        /\ UNCHANGED cBufs
    BY <1>0, <1>8 DEF ConsumerSubmit, CGoto, TypeInv, HoldsLetters
  <2>2. \A b : Pending(b)' <=> Pending(b) \/ b = Block(k)
    <3>1. Elements(wQueue)' = Elements(wQueue) \cup {Block(k)}
      BY <1>0, <2>1, AppendTo DEF TypeInv
    <3> QED
      BY <1>0, <1>5, <3>1 DEF Pending, Queued
  <2>3. k \in written..(i - 1) /\ k < written + NumBufs
    <3>1. written <= k /\ k < i /\ k < written + NumBufs
      BY <1>1, <2>1 DEF Order, HoldsLetters
    <3> QED
      BY <1>0, <1>1, <3>1, Context
  <2>4. (\A j \in Items : cpc[j] # "none" => written <= j /\ j < i)'
        /\ (\A j \in Items : HoldsLetters(j) => j < written + NumBufs)'
    BY <1>0, <1>1, <2>1 DEF Order
  <2>5. (\A j \in written..(i - 1) : cpc[j] = "none" =>
           j < written + NumBufs /\ Pending(Block(j)))'
    <3>1. ASSUME NEW j \in written..(i - 1), cpc'[j] = "none"
          PROVE  j < written + NumBufs /\ (Pending(Block(j)) \/ Block(j) = Block(k))
      BY <1>1, <2>1, <2>3, <3>1 DEF Order
    <3> QED
      BY <1>0, <1>1, <2>2, <3>1
  <2>6. (\A b \in Blocks : Pending(b) =>
           \E j \in written..(i - 1) : j < written + NumBufs /\ Block(j) = b /\ cpc[j] = "none")'
    <3>1. ASSUME NEW b \in Blocks, Pending(b) \/ b = Block(k)
          PROVE  \E j \in written..(i - 1) : j < written + NumBufs /\ Block(j) = b /\ cpc'[j] = "none"
      <4>1. CASE b = Block(k)
        BY <2>1, <2>3, <4>1
      <4>2. CASE Pending(b)
        <5>1. PICK j \in written..(i - 1) : j < written + NumBufs /\ Block(j) = b /\ cpc[j] = "none"
          BY <1>1, <4>2 DEF Order
        <5> QED
          BY <1>1, <2>1, <5>1
      <4> QED
        BY <3>1, <4>1, <4>2
    <3> QED
      BY <1>0, <1>1, <2>2, <3>1
  <2>7. (\A j \in Items : cpc[j] \in {"queued", "wait", "consume"} => bufs[Block(j)] = Numbers(j))'
    BY <1>0, <1>1, <1>2, <2>1 DEF Order
  <2>8. (\A j \in written..(i - 1) : cpc[j] \in {"signal", "submit", "none"} =>
           cBufs[Block(j)] = Numbers(j))'
    BY <1>0, <1>1, <1>2, <2>1 DEF Order
  <2> QED
    BY <1>4, <2>4, <2>5, <2>6, <2>7, <2>8 DEF Order
<1> QED
  BY <1>6, <1>7, <1>8 DEF ConsumerStep

LEMMA WriterOrder ==
  ASSUME IInv, WriterStep
  PROVE  OrderInv'
<1> USE DEF vars, main, producer, consumer, writer
<1>0. /\ TypeInv /\ LettersInv /\ mpc = "group_wait" /\ mpc' = mpc /\ i' = i
      /\ \A k \in Items : Block(k) \in Blocks
      /\ UNCHANGED <<seed, bufs, cBufs, cpc>>
  BY Working, Context DEF IInv, WriterStep, WriterStart, WriterDefer, WriterPrint,
                          WriterSignal, WriterDrain, WriterEnd, PrintBlock
<1>1. PICK written \in 0..i : Order(written) /\ written \in Nat /\ written..(i - 1) \subseteq Items
  BY <1>0, OrderContext
<1>2. ASSUME UNCHANGED <<writeBlock, output>>, \A b \in Blocks : Pending(b)' <=> Pending(b),
             (wpc \in {"idle", "start"})' => ~Deferred(writeBlock)'
      PROVE  OrderInv'
  <2>1. Order(written)'
    BY <1>0, <1>1, <1>2, OrderKept DEF HoldsLetters
  <2> QED
    BY <1>0, <1>1, <1>2, <2>1 DEF IInv, OrderInv, InOrder
<1>3. ASSUME Pending(writeBlock), PrintBlock(writeBlock),
             \A b \in Blocks : Pending(b)' <=> Pending(b) /\ b # writeBlock
      PROVE  OrderInv'
  <2>1. InOrder' /\ Order(written + 1)' /\ written + 1 \in 0..i
    BY <1>0, <1>1, <1>3, PrintOrder
  <2> QED
    BY <1>0, <2>1 DEF OrderInv
<1>4. writeBlock \in Blocks /\ wblk \in Blocks
      /\ (wpc \in {"idle", "start"} => ~Deferred(writeBlock))
  BY <1>0, <1>1 DEF TypeInv, Order
<1>5. CASE WriterStart
  <2> DEFINE b0 == Head(wQueue)
  <2>1. /\ wpc = "idle" /\ wpc' = "start" /\ wblk' = b0
        /\ UNCHANGED <<writeBlock, output, deferedWrite>>
    BY <1>5 DEF WriterStart
  <2>2. Elements(wQueue)' = Elements(wQueue) \ {b0} /\ b0 \in Elements(wQueue)
    BY <1>0, <1>5, TailOf DEF WriterStart, LettersInv, TypeInv
  <2> HIDE DEF b0
  <2>3. \A b : (Queued(b)' <=> Queued(b) /\ b # b0) /\ (Deferred(b)' <=> Deferred(b)) /\ Queued(b0)
    BY <2>1, <2>2 DEF Queued, Deferred, Elements
  <2>4. \A b : Pending(b)' <=> Pending(b)
    BY <2>1, <2>3 DEF Pending
  <2>5. ~Deferred(writeBlock)'
    BY <1>4, <2>1 DEF Deferred, Elements
  <2> QED
    BY <1>2, <2>1, <2>4, <2>5
<1>6. CASE WriterDefer
  <2>1. /\ wpc = "start" /\ wpc' = "idle" /\ wblk # writeBlock
        /\ UNCHANGED <<writeBlock, output, wQueue>>
    BY <1>6 DEF WriterDefer, Turn
  <2>2. Elements(deferedWrite)' = Elements(deferedWrite) \cup {wblk}
    BY <1>0, <1>4, <1>6, AppendTo DEF WriterDefer, TypeInv
  <2>3. \A b : (Deferred(b)' <=> Deferred(b) \/ b = wblk) /\ (Queued(b)' <=> Queued(b))
    BY <2>1, <2>2 DEF Queued, Deferred, Elements
  <2>4. \A b : Pending(b)' <=> Pending(b)
    BY <2>1, <2>3 DEF Pending
  <2>5. ~Deferred(writeBlock)'
    BY <1>4, <2>1, <2>2 DEF Deferred
  <2> QED
    BY <1>2, <2>1, <2>4, <2>5
<1>7. CASE WriterPrint
  <2>1. /\ wpc = "start" /\ wpc' = "signal" /\ wblk = writeBlock /\ PrintBlock(writeBlock)
        /\ UNCHANGED <<wQueue, deferedWrite>>
    BY <1>7 DEF WriterPrint, Turn, PrintBlock
  <2>2. Pending(writeBlock)
    BY <2>1 DEF Pending
  <2>3. ~Queued(writeBlock) /\ ~Deferred(writeBlock)
    BY <1>0, <1>4, <2>1 DEF LettersInv, Writing
  <2>4. \A b : Pending(b)' <=> Pending(b) /\ b # writeBlock
    BY <2>1, <2>3 DEF Pending, Queued, Deferred, Elements
  <2> QED
    BY <1>3, <2>1, <2>2, <2>4
<1>8. CASE WriterSignal \/ WriterEnd
  <2>1. /\ wpc \notin {"idle", "start"}
        /\ UNCHANGED <<writeBlock, output, wQueue, deferedWrite>> /\ wpc' \in {"drain", "idle"}
    BY <1>8 DEF WriterSignal, WriterEnd
  <2>2. \A b : Pending(b)' <=> Pending(b)
    BY <2>1 DEF Pending, Queued, Deferred, Elements
  <2>3. (wpc \in {"idle", "start"})' => ~Deferred(writeBlock)'
    BY <1>8, <2>1 DEF WriterSignal, WriterEnd, Deferred, Elements
  <2> QED
    BY <1>2, <2>1, <2>2, <2>3
<1>9. CASE WriterDrain
  <2>1. PICK k \in DOMAIN deferedWrite :
          deferedWrite[k] = writeBlock /\ deferedWrite' = Without(deferedWrite, k)
    BY <1>9 DEF WriterDrain, Without
  <2>2. Elements(deferedWrite)' = Elements(deferedWrite) \ {writeBlock} /\ Deferred(writeBlock)
    <3>1. Elements(Without(deferedWrite, k)) = Elements(deferedWrite) \ {deferedWrite[k]}
      BY <1>0, RemoveFrom DEF LettersInv, TypeInv
    <3> QED
      BY <2>1, <3>1 DEF Deferred, Elements
  <2>3. wpc = "drain" /\ wpc' = "signal" /\ PrintBlock(writeBlock) /\ UNCHANGED wQueue
    BY <1>9 DEF WriterDrain, PrintBlock
  <2>4. ~Queued(writeBlock)
    BY <1>0, <1>4, <2>2 DEF LettersInv
  <2>5. Pending(writeBlock) /\ \A b : Pending(b)' <=> Pending(b) /\ b # writeBlock
    BY <2>2, <2>3, <2>4 DEF Pending, Queued, Deferred, Elements
  <2> QED
    BY <1>3, <2>3, <2>5
<1> QED
  BY <1>5, <1>6, <1>7, <1>8, <1>9 DEF WriterStep

LEMMA OrderStays ==
  ASSUME IInv, UNCHANGED vars
  PROVE  OrderInv'
<1> USE DEF vars, main, producer, consumer, writer
<1>1. CASE mpc = "group_wait"
  <2>1. PICK written \in 0..i : Order(written) /\ written \in Nat /\ written..(i - 1) \subseteq Items
    BY <1>1, OrderContext
  <2>2. \A k \in Items : Block(k) \in Blocks
    BY <1>1, Context
  <2>3. \A b : (Pending(b)' <=> Pending(b)) /\ (Deferred(b)' <=> Deferred(b))
    BY DEF Pending, Queued, Deferred, Elements
  <2>4. (wpc \in {"idle", "start"})' => ~Deferred(writeBlock)'
    BY <2>1 DEF Order, Deferred, Elements
  <2>5. Order(written)'
    BY <2>1, <2>2, <2>3, <2>4, OrderKept DEF HoldsLetters
  <2> QED
    BY <1>1, <2>1, <2>5 DEF IInv, OrderInv, InOrder
<1>2. CASE mpc # "group_wait"
  BY <1>2 DEF IInv, OrderInv, InOrder, remainder, n
<1> QED
  BY <1>1, <1>2

LEMMA OrderStep == IInv /\ [Next]_vars => OrderInv'
BY MainOrder, ProducerOrder, ConsumerStartOrder, ConsumerOrder, WriterOrder, OrderStays
   DEF Next, Done

-----------------------------------------------------------------------------
LEMMA Invariance == Spec => []IInv
<1>1. IInv /\ [Next]_vars => IInv'
  BY TypeStep, PhaseStep, NumbersStep, LettersStep, GroupStep, OrderStep, CountStep DEF IInv
<1> QED
  BY Initially, <1>1, PTL DEF Spec

\* The letters come out in the order of the random numbers, each once and none torn.
THEOREM LettersInOrder == Spec => []InOrder
<1>1. IInv => InOrder
  BY DEF IInv, OrderInv
<1> QED
  BY Invariance, <1>1, PTL

\* How often an element occurs in a queue without repetitions.
LEMMA CountOf ==
  ASSUME NEW S, NEW s \in Seq(S), NoRepeat(s), NEW b
  PROVE  Count(s, b) = IF b \in Elements(s) THEN 1 ELSE 0
<1> DEFINE D == {k \in DOMAIN s : s[k] = b}
<1>1. Count(s, b) = Cardinality(D)
  BY DEF Count
<1>2. CASE b \in Elements(s)
  <2>1. PICK k \in DOMAIN s : s[k] = b
    BY <1>2 DEF Elements
  <2>2. D = {k}
    BY <2>1 DEF NoRepeat
  <2> HIDE DEF D
  <2> QED
    BY <1>1, <1>2, <2>2, FS_Singleton
<1>3. CASE b \notin Elements(s)
  <2>1. D = {}
    BY <1>3 DEF Elements
  <2> HIDE DEF D
  <2> QED
    BY <1>1, <1>3, <2>1, FS_EmptySet
<1> QED
  BY <1>2, <1>3

\* How many of the consumers in some places are there for a block, when no two are.
LEMMA AtOf ==
  ASSUME NEW b, NEW labels,
         \A j, k \in Items : cpc[j] \in labels /\ cpc[k] \in labels /\ Block(j) = Block(k) => j = k
  PROVE  At(b, labels) = IF \E k \in Items : cpc[k] \in labels /\ Block(k) = b THEN 1 ELSE 0
<1> DEFINE D == {k \in Items : cpc[k] \in labels /\ Block(k) = b}
<1>1. At(b, labels) = Cardinality(D)
  BY DEF At
<1>2. CASE \E k \in Items : cpc[k] \in labels /\ Block(k) = b
  <2>1. PICK k \in Items : cpc[k] \in labels /\ Block(k) = b
    BY <1>2
  <2>2. D = {k}
    BY <2>1
  <2> HIDE DEF D
  <2> QED
    BY <1>1, <1>2, <2>2, FS_Singleton
<1>3. CASE ~\E k \in Items : cpc[k] \in labels /\ Block(k) = b
  <2>1. D = {}
    BY <1>3
  <2> HIDE DEF D
  <2> QED
    BY <1>1, <1>3, <2>1, FS_EmptySet
<1> QED
  BY <1>2, <1>3

\* Every block of numbers and every block of letters is in the hands of one closure,
\* or of its semaphore, at a time.
THEOREM BlocksHaveOneOwner == Spec => []OneOwner
<1>1. ASSUME IInv, NEW b \in Blocks
      PROVE  pSemaphore[b] + Flag(ppc = "fill" /\ Block(i) = b)
             + At(b, {"queued", "wait", "consume", "signal"}) = 1
  <2> DEFINE held == \E k \in Items : HoldsNumbers(k) /\ Block(k) = b
  <2>1. At(b, {"queued", "wait", "consume", "signal"}) = IF held THEN 1 ELSE 0
    BY <1>1, AtOf DEF HoldsNumbers, IInv, NumbersInv
  <2>2. Flag(ppc = "fill" /\ Block(i) = b) = IF Filling(b) THEN 1 ELSE 0
    BY DEF Flag, Filling
  <2>3. pSemaphore[b] \in {0, 1}
    BY <1>1 DEF IInv, TypeInv
  <2>4. /\ held => pSemaphore[b] = 0 /\ ~Filling(b)
        /\ Filling(b) => pSemaphore[b] = 0
        /\ pSemaphore[b] = 0 => Filling(b) \/ held
    BY <1>1 DEF IInv, NumbersInv
  <2> HIDE DEF held
  <2> QED
    BY <2>1, <2>2, <2>3, <2>4
<1>2. ASSUME IInv, NEW b \in Blocks
      PROVE  wSemaphore[b] + At(b, {"consume", "signal", "submit"}) + Count(wQueue, b)
             + Flag(wpc \in {"start", "signal"} /\ wblk = b) + Count(deferedWrite, b) = 1
  <2> DEFINE held == \E k \in Items : HoldsLetters(k) /\ Block(k) = b
  <2>1. At(b, {"consume", "signal", "submit"}) = IF held THEN 1 ELSE 0
    BY <1>2, AtOf DEF HoldsLetters, IInv, LettersInv
  <2>2. Flag(wpc \in {"start", "signal"} /\ wblk = b) = IF Writing(b) THEN 1 ELSE 0
    BY DEF Flag, Writing
  <2>3. Count(wQueue, b) = (IF Queued(b) THEN 1 ELSE 0)
        /\ Count(deferedWrite, b) = (IF Deferred(b) THEN 1 ELSE 0)
    BY <1>2, CountOf DEF IInv, TypeInv, LettersInv, Queued, Deferred
  <2>4. wSemaphore[b] \in {0, 1}
    BY <1>2 DEF IInv, TypeInv
  <2>5. /\ held => wSemaphore[b] = 0 /\ ~Queued(b) /\ ~Writing(b) /\ ~Deferred(b)
        /\ Queued(b) => wSemaphore[b] = 0 /\ ~Writing(b) /\ ~Deferred(b)
        /\ Writing(b) => wSemaphore[b] = 0 /\ ~Deferred(b)
        /\ Deferred(b) => wSemaphore[b] = 0
        /\ wSemaphore[b] = 0 => Queued(b) \/ Writing(b) \/ Deferred(b) \/ held
    BY <1>2 DEF IInv, LettersInv
  <2> HIDE DEF held
  <2> QED
    BY <2>1, <2>2, <2>3, <2>4, <2>5
<1>3. IInv => OneOwner
  BY <1>1, <1>2 DEF OneOwner
<1> QED
  BY Invariance, <1>3, PTL

\* A call returns with its letters printed, nothing running and every block free.
THEOREM CallsReturnClean == Spec => []CleanReturn
<1>1. ASSUME IInv, mpc = "call" PROVE CleanReturn
  <2>1. Idle
    BY <1>1 DEF IInv, PhaseInv
  <2>2. Len(output) = PrintedBy[call - 1]
    BY <1>1 DEF IInv, OrderInv, CountInv
  <2>3. ASSUME NEW b \in Blocks PROVE pSemaphore[b] = 1 /\ wSemaphore[b] = 1
    <3>1. \A k \in Items : ~HoldsNumbers(k) /\ ~HoldsLetters(k)
      BY <2>1 DEF Idle, HoldsNumbers, HoldsLetters
    <3>2. ~Filling(b) /\ ~Queued(b) /\ ~Writing(b) /\ ~Deferred(b)
      BY <2>1 DEF Idle, Filling, Queued, Writing, Deferred, Elements
    <3>3. pSemaphore[b] # 0 /\ wSemaphore[b] # 0
      BY <1>1, <3>1, <3>2 DEF IInv, NumbersInv, LettersInv
    <3> QED
      BY <1>1, <3>3 DEF IInv, TypeInv
  <2> QED
    BY <2>1, <2>2, <2>3 DEF CleanReturn, Idle
<1>2. IInv => CleanReturn
  BY <1>1 DEF CleanReturn
<1> QED
  BY Invariance, <1>2, PTL
=============================================================================
