--------------------------- MODULE Sequential_proofs ---------------------------
(***************************************************************************)
(* Theorems about the two components that run in one thread.               *)
(*                                                                         *)
(* FastPriorityQueueGP for every set of numbers, size and stream: the      *)
(* array is a heap where the operations rely on it, the queue keeps the    *)
(* smallest values of the stream, and its operations are those of TopK     *)
(* where the code makes them so.  A loop that moves a value to its place   *)
(* is looked at with the value in the free place: then each turn exchanges *)
(* two places of the array.                                                *)
(*                                                                         *)
(* FastaText for every width, length of the string, number of letters and  *)
(* size of the buffer: each program prints the letters in their lines, and *)
(* its buffers hold them.  What is in the buffers and printed is compared  *)
(* byte by byte with one text, given by the letter of each place.          *)
(***************************************************************************)
EXTENDS PriorityQueue, FastaText, Lemmas, SequenceTheorems, FiniteSetTheorems, TLAPS

-----------------------------------------------------------------------------
(* Places. *)

LEMMA ParentIs ==
  ASSUME NEW j \in Nat \ {0}
  PROVE  parent(j) \in 0..(j - 1) /\ (j = 2 * parent(j) + 1 \/ j = 2 * parent(j) + 2)
BY DEF parent

LEMMA HalfIs ==
  ASSUME NEW n \in Nat
  PROVE  n \div 2 \in Nat /\ 2 * (n \div 2) <= n /\ n <= 2 * (n \div 2) + 1
OBVIOUS

LEMMA PutIs ==
  ASSUME NEW n \in Nat, NEW a \in [0..(n - 1) -> Values], NEW i \in 0..(n - 1), NEW v \in Values
  PROVE  Put(a, i, v) \in [0..(n - 1) -> Values]
<1>1. 0..(n - 1) \cup {i} = 0..(n - 1)
  OBVIOUS
<1> QED
  BY <1>1 DEF Put

LEMMA PutAppends ==
  ASSUME NEW n \in Nat, NEW a \in [0..(n - 1) -> Values], NEW v \in Values
  PROVE  Put(a, n, v) \in [0..n -> Values]
<1>1. 0..(n - 1) \cup {n} = 0..n
  OBVIOUS
<1> QED
  BY <1>1 DEF Put

LEMMA PutThere == ASSUME NEW a, NEW i, NEW v PROVE Put(a, i, v)[i] = v
BY DEF Put

LEMMA PutElsewhere ==
  ASSUME NEW a, NEW i, NEW v, NEW j \in DOMAIN a, j # i
  PROVE  Put(a, i, v)[j] = a[j]
BY DEF Put

LEMMA PlacesAreFinite ==
  ASSUME NEW n \in Nat, NEW S, S \subseteq 0..(n - 1)
  PROVE  IsFiniteSet(S) /\ Cardinality(S) \in Nat
<1>1. IsFiniteSet(0..(n - 1))
  BY FS_Interval
<1>2. IsFiniteSet(S)
  BY <1>1, FS_Subset
<1> QED
  BY <1>2, FS_CardinalityType

LEMMA ValuesAreNat ==
  ASSUME NEW n \in Nat, NEW a \in [0..(n - 1) -> Values], NEW j \in 0..(n - 1)
  PROVE  a[j] \in Values /\ a[j] \in Nat
<1>1. a[j] \in Values
  OBVIOUS
<1> QED
  BY <1>1, PriorityQueueAssumption

-----------------------------------------------------------------------------
(* How often a value occurs in the first n places of an array. *)

Number(a, n, x) == Cardinality({j \in 0..(n - 1) : a[j] = x})
Bit(x, y)       == IF x = y THEN 1 ELSE 0

LEMMA NumberIsNat ==
  ASSUME NEW a, NEW n \in Nat, NEW x
  PROVE  /\ IsFiniteSet({j \in 0..(n - 1) : a[j] = x}) /\ Number(a, n, x) \in Nat
         /\ Number(a, n, x) > 0 <=> \E j \in 0..(n - 1) : a[j] = x
<1> DEFINE S == {j \in 0..(n - 1) : a[j] = x}
<1>1. IsFiniteSet(S)
  BY PlacesAreFinite
<1>2. Cardinality(S) \in Nat /\ (Cardinality(S) = 0 <=> S = {})
  BY <1>1, FS_CardinalityType, FS_EmptySet
<1> QED
  BY <1>1, <1>2 DEF Number

LEMMA NumberOfSame ==
  ASSUME NEW a, NEW b, NEW n \in Nat, \A j \in 0..(n - 1) : b[j] = a[j], NEW x
  PROVE  Number(b, n, x) = Number(a, n, x)
<1>1. {j \in 0..(n - 1) : b[j] = x} = {j \in 0..(n - 1) : a[j] = x}
  OBVIOUS
<1> QED
  BY <1>1 DEF Number

\* Another value in place p.
LEMMA NumberOfPut ==
  ASSUME NEW a, NEW b, NEW n \in Nat, NEW p \in 0..(n - 1),
         \A j \in 0..(n - 1) : j # p => b[j] = a[j], NEW x
  PROVE  Number(b, n, x) = Number(a, n, x) - Bit(a[p], x) + Bit(b[p], x)
<1> DEFINE S == {j \in 0..(n - 1) : a[j] = x}
           T == {j \in 0..(n - 1) : b[j] = x}
           R == {j \in 0..(n - 1) : j # p /\ a[j] = x}
<1>1. IsFiniteSet(R) /\ Cardinality(R) \in Nat
  BY PlacesAreFinite
<1>2. Cardinality(R \cup {p}) = Cardinality(R) + 1
  BY <1>1, FS_AddElement
<1>3. Cardinality(S) = Cardinality(R) + Bit(a[p], x)
  <2>1. CASE a[p] = x
    <3>1. S = R \cup {p}
      BY <2>1
    <3>2. Bit(a[p], x) = 1
      BY <2>1 DEF Bit
    <3> HIDE DEF S, T, R
    <3> QED
      BY <1>2, <3>1, <3>2
  <2>2. CASE a[p] # x
    <3>1. S = R
      BY <2>2
    <3>2. Bit(a[p], x) = 0
      BY <2>2 DEF Bit
    <3> HIDE DEF S, T, R
    <3> QED
      BY <1>1, <3>1, <3>2
  <2> QED
    BY <2>1, <2>2
<1>4. Cardinality(T) = Cardinality(R) + Bit(b[p], x)
  <2>1. CASE b[p] = x
    <3>1. T = R \cup {p}
      BY <2>1
    <3>2. Bit(b[p], x) = 1
      BY <2>1 DEF Bit
    <3> HIDE DEF S, T, R
    <3> QED
      BY <1>2, <3>1, <3>2
  <2>2. CASE b[p] # x
    <3>1. T = R
      BY <2>2
    <3>2. Bit(b[p], x) = 0
      BY <2>2 DEF Bit
    <3> HIDE DEF S, T, R
    <3> QED
      BY <1>1, <3>1, <3>2
  <2> QED
    BY <2>1, <2>2
<1>5. Number(a, n, x) = Cardinality(S) /\ Number(b, n, x) = Cardinality(T)
  BY DEF Number
<1>6. Bit(a[p], x) \in Nat /\ Bit(b[p], x) \in Nat
  BY DEF Bit
<1> HIDE DEF S, T, R
<1> QED
  BY <1>1, <1>3, <1>4, <1>5, <1>6

LEMMA NumberOfNext ==
  ASSUME NEW a, NEW n \in Nat, NEW x
  PROVE  Number(a, n + 1, x) = Number(a, n, x) + Bit(a[n], x)
<1> DEFINE S == {j \in 0..(n - 1) : a[j] = x}
           T == {j \in 0..((n + 1) - 1) : a[j] = x}
<1>1. IsFiniteSet(S) /\ Cardinality(S) \in Nat /\ n \notin S
  BY PlacesAreFinite
<1>2. CASE a[n] = x
  <2>1. T = S \cup {n}
    BY <1>2
  <2>2. Cardinality(S \cup {n}) = Cardinality(S) + 1
    BY <1>1, FS_AddElement
  <2> QED
    BY <1>2, <2>1, <2>2 DEF Number, Bit
<1>3. CASE a[n] # x
  <2>1. T = S
    BY <1>3
  <2>2. Number(a, n + 1, x) = Number(a, n, x) /\ Number(a, n, x) \in Nat
    BY <1>1, <2>1 DEF Number
  <2> QED
    BY <1>3, <2>2 DEF Bit
<1> QED
  BY <1>2, <1>3

Exchanged(a, b, p, q, n) ==
  /\ b[p] = a[q] /\ b[q] = a[p]
  /\ \A j \in 0..(n - 1) : j # p /\ j # q => b[j] = a[j]

LEMMA NumberOfExchanged ==
  ASSUME NEW a, NEW b, NEW n \in Nat, NEW p \in 0..(n - 1), NEW q \in 0..(n - 1), p # q,
         Exchanged(a, b, p, q, n), NEW x
  PROVE  Number(b, n, x) = Number(a, n, x)
<1> DEFINE c == [j \in 0..(n - 1) |-> IF j = p THEN a[q] ELSE a[j]]
<1>1. c[p] = a[q] /\ c[q] = a[q] /\ \A j \in 0..(n - 1) : j # p => c[j] = a[j]
  OBVIOUS
<1>2. \A j \in 0..(n - 1) : j # q => b[j] = c[j]
  BY DEF Exchanged
<1> HIDE DEF c
<1>3. Number(c, n, x) = Number(a, n, x) - Bit(a[p], x) + Bit(c[p], x)
  BY <1>1, NumberOfPut
<1>4. Number(b, n, x) = Number(c, n, x) - Bit(c[q], x) + Bit(b[q], x)
  BY <1>2, NumberOfPut
<1>5. Number(a, n, x) \in Nat /\ Bit(a[p], x) \in Nat /\ Bit(a[q], x) \in Nat
  BY NumberIsNat DEF Bit
<1>6. Number(c, n, x) = Number(a, n, x) - Bit(a[p], x) + Bit(a[q], x)
  BY <1>1, <1>3
<1>7. Number(b, n, x) = Number(c, n, x) - Bit(a[q], x) + Bit(a[p], x)
  BY <1>1, <1>4 DEF Exchanged
<1> QED
  BY <1>5, <1>6, <1>7

\* Moving the value of place q to the free place i exchanges the two, when the
\* free place is looked at with v in it.
LEMMA MoveExchanges ==
  ASSUME NEW n \in Nat, NEW a, NEW i \in 0..(n - 1), NEW q \in 0..(n - 1), q # i, NEW v,
         Put(a, i, v) \in [0..(n - 1) -> Values]
  PROVE  /\ a[q] = Put(a, i, v)[q]
         /\ Put(Put(a, i, a[q]), q, v) \in [0..(n - 1) -> Values]
         /\ Exchanged(Put(a, i, v), Put(Put(a, i, a[q]), q, v), i, q, n)
<1> DEFINE D == 0..(n - 1)
           f == Put(a, i, v)
           g == Put(Put(a, i, a[q]), q, v)
<1>1. DOMAIN a \cup {i} = D
  BY DEF Put
<1>2. g = [j \in D |-> IF j = q THEN v ELSE IF j = i THEN a[q] ELSE a[j]]
  BY <1>1 DEF Put
<1>3. f = [j \in D |-> IF j = i THEN v ELSE a[j]]
  BY <1>1 DEF Put
<1>4. a[q] = f[q] /\ f[i] = v /\ \A j \in D : f[j] \in Values /\ (j # i => f[j] = a[j])
  BY <1>3
<1> HIDE DEF f
<1>5. /\ g[q] = v /\ g[i] = a[q]
      /\ \A j \in D : j # i /\ j # q => g[j] = a[j]
  BY <1>2
<1>6. g \in [D -> Values]
  BY <1>2, <1>4
<1> HIDE DEF g
<1>7. Exchanged(f, g, i, q, n)
  BY <1>4, <1>5 DEF Exchanged
<1> QED
  BY <1>4, <1>6, <1>7 DEF f, g

-----------------------------------------------------------------------------
(* The loop of add. *)

\* The first n places are a heap but for the value in place h, and would be one
\* without it.
HeapBelow(a, n, h) ==
  /\ \A j \in 1..(n - 1) : j # h => a[j] <= a[parent(j)]
  /\ \A j \in 1..(n - 1) : parent(j) = h /\ h > 0 => a[j] <= a[parent(h)]

LEMMA HeapRises ==
  ASSUME NEW m \in Nat, NEW n \in 0..m, NEW a \in [0..(m - 1) -> Values],
         NEW b \in [0..(m - 1) -> Values],
         NEW h \in 1..(n - 1), HeapBelow(a, n, h), a[h] > a[parent(h)],
         Exchanged(a, b, h, parent(h), m)
  PROVE  HeapBelow(b, n, parent(h))
<1> DEFINE p == parent(h)
<1>1. p \in 0..(h - 1)
  BY ParentIs
<1>2. \A j \in 0..(n - 1) : a[j] \in Nat /\ b[j] \in Nat
  BY ValuesAreNat
<1>3. b[h] = a[p] /\ b[p] = a[h] /\ \A j \in 0..(n - 1) : j # h /\ j # p => b[j] = a[j]
  BY DEF Exchanged
<1>4. /\ \A j \in 1..(n - 1) : j # h => a[j] <= a[parent(j)]
      /\ \A j \in 1..(n - 1) : parent(j) = h => a[j] <= a[p]
      /\ a[h] > a[p]
  BY DEF HeapBelow
<1>5. \A j \in 1..(n - 1) : parent(j) \in 0..(j - 1)
  BY ParentIs
<1> HIDE DEF p
<1>6. ASSUME NEW j \in 1..(n - 1), j # p PROVE b[j] <= b[parent(j)]
  <2>0. parent(j) \in 0..(n - 1) /\ p \in 0..(n - 1) /\ h \in 0..(n - 1) /\ parent(j) # j
    BY <1>1, <1>5
  <2>1. CASE j = h
    BY <1>2, <1>3, <1>4, <2>0, <2>1 DEF p
  <2>2. CASE j # h /\ parent(j) = h
    BY <1>2, <1>3, <1>4, <1>6, <2>0, <2>2
  <2>3. CASE j # h /\ parent(j) = p
    <3>1. b[j] = a[j] /\ a[j] <= a[p] /\ b[p] = a[h]
      BY <1>3, <1>4, <1>6, <2>0, <2>3
    <3> QED
      BY <1>2, <1>4, <2>0, <2>3, <3>1
  <2>4. CASE j # h /\ parent(j) # h /\ parent(j) # p
    <3>1. b[j] = a[j] /\ b[parent(j)] = a[parent(j)]
      BY <1>3, <1>6, <2>0, <2>4
    <3>2. a[j] <= a[parent(j)]
      BY <1>4, <2>4
    <3> QED
      BY <3>1, <3>2
  <2> QED
    BY <2>1, <2>2, <2>3, <2>4
<1>7. ASSUME NEW j \in 1..(n - 1), parent(j) = p, p > 0 PROVE b[j] <= b[parent(p)]
  <2>1. parent(p) \in 0..(p - 1) /\ p \in 1..(n - 1)
    BY <1>1, <1>5, <1>7
  <2>2. b[parent(p)] = a[parent(p)] /\ a[p] <= a[parent(p)]
    BY <1>1, <1>3, <1>4, <2>1
  <2>3. b[j] <= a[p]
    <3>1. CASE j = h
      BY <1>1, <1>2, <1>3, <3>1
    <3>2. CASE j # h
      <4>1. j # p
        BY <1>5, <1>7
      <4> QED
        BY <1>2, <1>3, <1>4, <1>7, <3>2, <4>1
    <3> QED
      BY <3>1, <3>2
  <2>4. b[j] \in Nat /\ a[p] \in Nat /\ a[parent(p)] \in Nat
    <3>1. j \in 0..(n - 1) /\ p \in 0..(n - 1) /\ parent(p) \in 0..(n - 1)
      BY <2>1
    <3> QED
      BY <1>2, <3>1
  <2> QED
    BY <2>2, <2>3, <2>4
<1> QED
  BY <1>6, <1>7 DEF HeapBelow, p

\* After a turn: where the free place is, and what the first n places are like with
\* v in it; f is the array at the start of the loop.
Risen(s, m, n, v, f) ==
  /\ s.i \in 0..(n - 1)
  /\ Put(s.array, s.i, v) \in [0..(m - 1) -> Values]
  /\ HeapBelow(Put(s.array, s.i, v), n, s.i)
  /\ \A x : Number(Put(s.array, s.i, v), n, x) = Number(f, n, x)

\* The loop ends in this state.
Settled(s, v) == s.i > 0 => ~compare(v, s.array[parent(s.i)])

LEMMA RiseStep ==
  ASSUME NEW m \in Nat, NEW n \in 0..m, NEW v \in Values, NEW f, NEW s, Risen(s, m, n, v, f)
  PROVE  /\ Risen(Rise(s, v), m, n, v, f)
         /\ \/ Settled(s, v) /\ Rise(s, v) = s
            \/ Rise(s, v).i < s.i
<1>1. CASE Settled(s, v)
  <2>1. Rise(s, v) = s
    BY <1>1 DEF Settled, Rise
  <2> QED
    BY <1>1, <2>1
<1>2. CASE ~Settled(s, v)
  <2> DEFINE h == s.i
             p == parent(h)
             a == Put(s.array, h, v)
             r == Rise(s, v)
             b == Put(Put(s.array, h, s.array[p]), p, v)
  <2>1. h \in 1..(n - 1) /\ compare(v, s.array[p])
    BY <1>2 DEF Settled, Risen
  <2>2. p \in 0..(h - 1)
    BY <2>1, ParentIs
  <2>3. r.i = p /\ Put(r.array, r.i, v) = b
    BY <2>1 DEF Rise
  <2>4. /\ a \in [0..(m - 1) -> Values] /\ HeapBelow(a, n, h)
        /\ \A x : Number(a, n, x) = Number(f, n, x)
    BY DEF Risen
  <2>5. h \in 0..(m - 1) /\ p \in 0..(m - 1) /\ p # h
    BY <2>1, <2>2
  <2>6. s.array[p] = a[p] /\ b \in [0..(m - 1) -> Values] /\ Exchanged(a, b, h, p, m)
    <3> HIDE DEF p, h
    <3> QED
      BY <2>4, <2>5, MoveExchanges DEF a, b
  <2>7. a[h] = v
    BY DEF Put
  <2> HIDE DEF h, a, b, r
  <2>8. a[h] > a[p]
    BY <2>1, <2>6, <2>7 DEF compare
  <2>9. HeapBelow(b, n, p)
    BY <2>1, <2>4, <2>6, <2>8, HeapRises
  <2> HIDE DEF p
  <2>10. \A x : Number(b, n, x) = Number(a, n, x)
    <3>1. Exchanged(a, b, h, p, n) /\ h \in 0..(n - 1) /\ p \in 0..(n - 1)
      BY <2>1, <2>2, <2>6 DEF Exchanged
    <3> QED
      BY <2>5, <3>1, NumberOfExchanged
  <2>11. p \in 0..(n - 1) /\ p < h
    BY <2>1, <2>2
  <2>12. Risen(r, m, n, v, f)
    BY <2>3, <2>4, <2>6, <2>9, <2>10, <2>11 DEF Risen
  <2> QED
    BY <2>3, <2>11, <2>12 DEF r, h
<1> QED
  BY <1>1, <1>2

LEMMA SettledIsHeap ==
  ASSUME NEW m \in Nat, NEW n \in 0..m, NEW v \in Values, NEW f, NEW s, Risen(s, m, n, v, f),
         Settled(s, v), NEW j \in 1..(n - 1)
  PROVE  Put(s.array, s.i, v)[j] <= Put(s.array, s.i, v)[parent(j)]
<1> DEFINE h == s.i
           a == Put(s.array, h, v)
<1>1. h \in 0..(n - 1) /\ a \in [0..(m - 1) -> Values] /\ HeapBelow(a, n, h)
  BY DEF Risen
<1>2. CASE j # h
  BY <1>1, <1>2 DEF HeapBelow
<1>3. CASE j = h
  <2>1. parent(h) \in 0..(h - 1) /\ ~compare(v, s.array[parent(h)])
    BY <1>1, <1>3, ParentIs DEF Settled
  <2>2. a[h] = v /\ a[parent(h)] = s.array[parent(h)]
    <3>1. DOMAIN s.array \cup {h} = 0..(m - 1)
      BY <1>1 DEF Put
    <3>2. parent(h) \in DOMAIN s.array /\ parent(h) # h
      BY <1>1, <2>1, <3>1
    <3> QED
      BY <3>2 DEF Put
  <2> HIDE DEF h, a
  <2>3. a[h] \in Nat /\ a[parent(h)] \in Nat
    <3>1. h \in 0..(m - 1) /\ parent(h) \in 0..(m - 1)
      BY <1>1, <2>1
    <3> QED
      BY <1>1, <3>1, ValuesAreNat
  <2>4. a[h] <= a[parent(h)]
    BY <2>1, <2>2, <2>3 DEF compare
  <2> QED
    BY <1>3, <2>4 DEF a, h
<1> QED
  BY <1>2, <1>3

RiseTurns(a, i, v) ==
  CHOOSE f : f = [k \in 0..i |-> IF k = 0 THEN [array |-> a, i |-> i] ELSE Rise(f[k - 1], v)]

LEMMA RiseTurnsAre ==
  ASSUME NEW a, NEW i \in Nat, NEW v
  PROVE  /\ RiseTurns(a, i, v)[0] = [array |-> a, i |-> i]
         /\ \A k \in 1..i : RiseTurns(a, i, v)[k] = Rise(RiseTurns(a, i, v)[k - 1], v)
<1> DEFINE zero == [array |-> a, i |-> i]
           F(m, f) == [k \in 0..m |-> IF k = 0 THEN zero ELSE Rise(f[k - 1], v)]
           Solves(f) == f = F(i, f)
           T == {m \in Nat : \E f : f = F(m, f)}
           X == RiseTurns(a, i, v)
<1> HIDE DEF zero
<1>1. 0 \in T
  <2> DEFINE f == [k \in 0..0 |-> zero]
  <2>1. f = F(0, f)
    OBVIOUS
  <2> QED
    BY <2>1
<1>2. ASSUME NEW m \in Nat, m \in T PROVE m + 1 \in T
  <2>1. PICK f : f = F(m, f)
    BY <1>2
  <2> DEFINE g == [k \in 0..(m + 1) |-> IF k = m + 1 THEN Rise(f[m], v) ELSE f[k]]
  <2>2. ASSUME NEW k \in 0..(m + 1) PROVE g[k] = F(m + 1, g)[k]
    <3>1. CASE k = 0
      BY <2>1, <3>1
    <3>2. CASE k = m + 1
      BY <3>2
    <3>3. CASE k \in 1..m
      <4>1. f[k] = Rise(f[k - 1], v)
        BY <2>1, <3>3
      <4> QED
        BY <3>3, <4>1
    <3> QED
      BY <3>1, <3>2, <3>3
  <2>3. g = F(m + 1, g)
    BY <2>2
  <2>4. \E h : h = F(m + 1, h)
    <3> HIDE DEF g, F
    <3> QED
      BY <2>3
  <2> HIDE DEF F
  <2> QED
    BY <2>4
<1>3. \E f : Solves(f)
  <2>1. Nat \subseteq T
    <3> HIDE DEF T
    <3> QED
      BY <1>1, <1>2, SetInduction
  <2> QED
    BY <2>1
<1>4. X = CHOOSE f : Solves(f)
  BY DEF RiseTurns, zero
<1>5. Solves(X)
  <2> HIDE DEF Solves, X
  <2> QED
    BY <1>3, <1>4
<1> HIDE DEF X
<1>6. X[0] = zero /\ \A k \in 1..i : X[k] = Rise(X[k - 1], v)
  BY <1>5
<1> QED
  BY <1>6 DEF X, zero

LEMMA PercolateUp ==
  ASSUME NEW n \in Nat, NEW a \in [0..(n - 1) -> Values], NEW i \in 0..n, NEW v \in Values,
         \A j \in 1..(i - 1) : a[j] <= a[parent(j)]
  PROVE  /\ percolateUp(a, i, v) \in [0..((IF i = n THEN n + 1 ELSE n) - 1) -> Values]
         /\ \A x : Number(percolateUp(a, i, v), i + 1, x) = Number(Put(a, i, v), i + 1, x)
         /\ \A j \in 1..i : percolateUp(a, i, v)[j] <= percolateUp(a, i, v)[parent(j)]
<1>0. /\ i < n => Put(a, i, v) \in [0..(n - 1) -> Values]
      /\ i = n => Put(a, i, v) \in [0..n -> Values]
      /\ \A j \in 0..(n - 1) : j # i => Put(a, i, v)[j] = a[j]
  <2>1. \A j \in 0..(n - 1) : j # i => Put(a, i, v)[j] = a[j]
    BY PutElsewhere
  <2>2. i < n => Put(a, i, v) \in [0..(n - 1) -> Values]
    BY PutIs
  <2>3. i = n => Put(a, n, v) \in [0..n -> Values]
    BY PutAppends
  <2> QED
    BY <2>1, <2>2, <2>3
<1> DEFINE m == IF i = n THEN n + 1 ELSE n
           f == Put(a, i, v)
           X == RiseTurns(a, i, v)
           Y == X[i]
           zero == [array |-> a, i |-> i]
<1>1. m \in Nat /\ i + 1 \in 0..m
  OBVIOUS
<1>2. X[0] = zero /\ \A k \in 1..i : X[k] = Rise(X[k - 1], v)
  BY RiseTurnsAre
<1>3. percolateUp(a, i, v) = Put(Y.array, Y.i, v)
  BY DEF percolateUp, RiseTurns
<1>4. Risen(zero, m, i + 1, v, f)
  <2>1. zero.i = i /\ zero.array = a
    OBVIOUS
  <2>2. f \in [0..(m - 1) -> Values] /\ \A j \in 0..(n - 1) : j # i => f[j] = a[j]
    <3>1. /\ i < n => f \in [0..(n - 1) -> Values]
          /\ i = n => f \in [0..n -> Values]
          /\ \A j \in 0..(n - 1) : j # i => f[j] = a[j]
      BY <1>0 DEF f
    <3>2. i < n => m = n
      OBVIOUS
    <3>3. i = n => m - 1 = n
      OBVIOUS
    <3> HIDE DEF f, m
    <3> QED
      BY <3>1, <3>2, <3>3
  <2> HIDE DEF f
  <2>3. HeapBelow(f, i + 1, i)
    <3>1. ASSUME NEW j \in 1..((i + 1) - 1) PROVE parent(j) \in 0..(j - 1)
      BY ParentIs
    <3>2. ASSUME NEW j \in 1..((i + 1) - 1), j # i PROVE f[j] <= f[parent(j)]
      <4>1. parent(j) \in 0..(j - 1) /\ j \in 1..(i - 1)
        BY <3>1, <3>2
      <4>2. f[j] = a[j] /\ f[parent(j)] = a[parent(j)]
        BY <2>2, <4>1
      <4> QED
        BY <4>1, <4>2
    <3> QED
      BY <3>1, <3>2 DEF HeapBelow
  <2> HIDE DEF m, zero
  <2>4. Put(zero.array, zero.i, v) = f
    BY <2>1 DEF f
  <2>5. zero.i \in 0..((i + 1) - 1)
    BY <2>1
  <2> QED
    BY <2>1, <2>2, <2>3, <2>4, <2>5 DEF Risen
<1> HIDE DEF zero, X, f, m
<1> DEFINE Good(k) == Risen(X[k], m, i + 1, v, f) /\ (Settled(X[k], v) \/ X[k].i <= i - k)
           T == {k \in Nat : k <= i => Good(k)}
<1>5. 0 \in T
  <2>1. X[0].i <= i - 0
    BY <1>2 DEF zero
  <2> QED
    BY <1>2, <1>4, <2>1
<1>6. ASSUME NEW k \in Nat, k \in T PROVE k + 1 \in T
  <2> SUFFICES ASSUME k + 1 <= i PROVE Good(k + 1)
    OBVIOUS
  <2>1. Risen(X[k], m, i + 1, v, f) /\ (Settled(X[k], v) \/ X[k].i <= i - k)
    BY <1>6
  <2>2. X[k + 1] = Rise(X[k], v)
    <3>1. k + 1 \in 1..i /\ (k + 1) - 1 = k
      OBVIOUS
    <3> QED
      BY <1>2, <3>1
  <2> DEFINE s == X[k]
  <2>3. s.i \in Nat /\ X[k + 1].i \in Nat /\ Risen(X[k + 1], m, i + 1, v, f)
    <3>1. Risen(Rise(s, v), m, i + 1, v, f)
      BY <1>1, <2>1, RiseStep
    <3> QED
      BY <2>1, <2>2, <3>1 DEF Risen
  <2>4. (Settled(s, v) /\ X[k + 1] = s) \/ X[k + 1].i < s.i
    BY <1>1, <2>1, <2>2, RiseStep
  <2>5. CASE Settled(s, v) /\ X[k + 1] = s
    BY <2>3, <2>5
  <2>6. CASE X[k + 1].i < s.i
    <3>1. Settled(s, v) => Rise(s, v) = s
      BY DEF Settled, Rise
    <3>2. ~Settled(s, v)
      BY <2>2, <2>3, <2>6, <3>1
    <3>3. s.i <= i - k
      BY <2>1, <3>2
    <3>4. X[k + 1].i <= i - (k + 1)
      BY <2>3, <2>6, <3>3
    <3> QED
      BY <2>3, <3>4
  <2> QED
    BY <2>4, <2>5, <2>6
<1>7. Good(i)
  <2>1. Nat \subseteq T
    <3> HIDE DEF T
    <3> QED
      BY <1>5, <1>6, SetInduction
  <2> QED
    BY <2>1
<1>8. Risen(Y, m, i + 1, v, f) /\ Settled(Y, v)
  <2>1. Risen(Y, m, i + 1, v, f) /\ (Settled(Y, v) \/ Y.i <= i - i)
    BY <1>7
  <2>2. Y.i \in Nat
    BY <2>1 DEF Risen
  <2>3. ASSUME Y.i <= i - i PROVE Settled(Y, v)
    BY <2>2, <2>3 DEF Settled
  <2> QED
    BY <2>1, <2>3
<1> HIDE DEF Y
<1>9. \A j \in 1..((i + 1) - 1) : Put(Y.array, Y.i, v)[j] <= Put(Y.array, Y.i, v)[parent(j)]
  BY <1>1, <1>8, SettledIsHeap
<1>10. \A j \in 1..i : percolateUp(a, i, v)[j] <= percolateUp(a, i, v)[parent(j)]
  BY <1>3, <1>9
<1> QED
  BY <1>3, <1>8, <1>10 DEF Risen, m, f

-----------------------------------------------------------------------------
(* The loop of _percolateDown. *)

\* Among the first n places, those whose parent is at i or after it are in order
\* but for the children of h, and would be without the value in h.
HeapAbove(a, n, i, h) ==
  /\ h > i => parent(h) >= i
  /\ \A j \in 1..(n - 1) : parent(j) >= i /\ parent(j) # h => a[j] <= a[parent(j)]
  /\ \A j \in 1..(n - 1) : parent(j) = h /\ h > i => a[j] <= a[parent(h)]

LEMMA HeapSinks ==
  ASSUME NEW m \in Nat, NEW n \in 0..m, NEW a \in [0..(m - 1) -> Values],
         NEW b \in [0..(m - 1) -> Values], NEW i \in Nat,
         NEW h \in i..(n - 1), HeapAbove(a, n, i, h),
         NEW c \in 1..(n - 1), parent(c) = h, a[c] > a[h],
         \A j \in 1..(n - 1) : parent(j) = h => a[j] <= a[c],
         Exchanged(a, b, h, c, m)
  PROVE  HeapAbove(b, n, i, c)
<1>1. \A j \in 1..(n - 1) : parent(j) \in 0..(j - 1)
  BY ParentIs
<1>2. \A j \in 0..(n - 1) : a[j] \in Nat /\ b[j] \in Nat
  BY ValuesAreNat
<1>3. b[h] = a[c] /\ b[c] = a[h] /\ \A j \in 0..(n - 1) : j # h /\ j # c => b[j] = a[j]
  BY DEF Exchanged
<1>4. /\ h > i => parent(h) >= i
      /\ \A j \in 1..(n - 1) : parent(j) >= i /\ parent(j) # h => a[j] <= a[parent(j)]
      /\ \A j \in 1..(n - 1) : parent(j) = h /\ h > i => a[j] <= a[parent(h)]
  BY DEF HeapAbove
<1>5. h < c
  BY <1>1
<1>6. ASSUME NEW j \in 1..(n - 1), parent(j) >= i, parent(j) # c PROVE b[j] <= b[parent(j)]
  <2>0. parent(j) \in 0..(n - 1) /\ h \in 0..(n - 1) /\ c \in 0..(n - 1) /\ parent(j) < j
    BY <1>1
  <2>1. CASE j = c
    BY <1>2, <1>3, <2>0, <2>1
  <2>2. CASE j # c /\ parent(j) = h
    <3>1. b[j] = a[j] /\ a[j] <= a[c] /\ b[h] = a[c]
      BY <1>3, <2>0, <2>2
    <3> QED
      BY <2>2, <3>1
  <2>3. CASE j = h
    <3>1. h > i /\ a[c] <= a[parent(h)] /\ b[parent(h)] = a[parent(h)]
      BY <1>3, <1>4, <1>5, <1>6, <2>0, <2>3
    <3> QED
      BY <1>3, <2>3, <3>1
  <2>4. CASE j # c /\ j # h /\ parent(j) # h
    <3>1. b[j] = a[j] /\ b[parent(j)] = a[parent(j)] /\ a[j] <= a[parent(j)]
      BY <1>3, <1>4, <1>6, <2>0, <2>4
    <3> QED
      BY <3>1
  <2> QED
    BY <2>1, <2>2, <2>3, <2>4
<1>7. ASSUME NEW j \in 1..(n - 1), parent(j) = c PROVE b[j] <= b[parent(c)]
  <2>1. j > c /\ j # h
    BY <1>1, <1>5, <1>7
  <2>2. b[j] = a[j] /\ a[j] <= a[c]
    BY <1>3, <1>4, <1>5, <1>7, <2>1
  <2> QED
    BY <1>3, <2>2
<1>8. c > i => parent(c) >= i
  OBVIOUS
<1> QED
  BY <1>6, <1>7, <1>8 DEF HeapAbove

LEMMA BestChildIs ==
  ASSUME NEW m \in Nat, NEW n \in 0..m, NEW h \in 0..(n - 1), h < n \div 2, NEW d, NEW v,
         Put(d, h, v) \in [0..(m - 1) -> Values]
  PROVE  /\ BestChild(d, n, h) \in 1..(n - 1) /\ parent(BestChild(d, n, h)) = h
         /\ BestChild(d, n, h) # h
         /\ \A j \in 1..(n - 1) :
              parent(j) = h => Put(d, h, v)[j] <= Put(d, h, v)[BestChild(d, n, h)]
<1> DEFINE a == Put(d, h, v)
           c == BestChild(d, n, h)
           l == 2 * h + 1
<1>1. l \in 1..(n - 1) /\ l # h
  BY HalfIs
<1>2. \A j \in 0..(m - 1) : j # h => a[j] = d[j]
  <2>1. DOMAIN d \cup {h} = 0..(m - 1)
    BY DEF Put
  <2> QED
    BY <2>1 DEF Put
<1>3. \A j \in 0..(n - 1) : a[j] \in Nat
  BY ValuesAreNat
<1> HIDE DEF a
<1>4. \A j \in 1..(n - 1) : parent(j) = h <=> j = l \/ j = l + 1
  <2> SUFFICES ASSUME NEW j \in 1..(n - 1) PROVE parent(j) = h <=> j = l \/ j = l + 1
    OBVIOUS
  <2>1. parent(j) \in Nat /\ (j = 2 * parent(j) + 1 \/ j = 2 * parent(j) + 2)
    BY ParentIs
  <2> QED
    BY <2>1
<1>5. CASE l + 1 < n /\ compare(d[l + 1], d[l])
  <2>1. c = l + 1 /\ l + 1 \in 1..(n - 1) /\ l + 1 # h
    BY <1>1, <1>5 DEF BestChild
  <2>2. d[l + 1] = a[l + 1] /\ d[l] = a[l] /\ a[l] \in Nat /\ a[l + 1] \in Nat
    BY <1>1, <1>2, <1>3, <2>1
  <2>3. a[l + 1] > a[l]
    BY <1>5, <2>2 DEF compare
  <2> HIDE DEF l, c
  <2> QED
    BY <1>4, <2>1, <2>2, <2>3 DEF a, c
<1>6. CASE ~(l + 1 < n /\ compare(d[l + 1], d[l]))
  <2>1. c = l
    BY <1>6 DEF BestChild
  <2>2. l + 1 \in 1..(n - 1) => a[l + 1] <= a[l]
    <3> SUFFICES ASSUME l + 1 \in 1..(n - 1) PROVE a[l + 1] <= a[l]
      OBVIOUS
    <3>1. d[l + 1] = a[l + 1] /\ d[l] = a[l] /\ a[l] \in Nat /\ a[l + 1] \in Nat
      BY <1>1, <1>2, <1>3
    <3> QED
      BY <1>6, <3>1 DEF compare
  <2>3. a[l] \in Nat
    BY <1>1, <1>3
  <2> HIDE DEF l, c
  <2> QED
    BY <1>1, <1>4, <2>1, <2>2, <2>3 DEF a, c
<1> QED
  BY <1>5, <1>6

\* As Risen and Settled, for the places from i on; ok tells whether they were in
\* order at the start.
Sunk(s, m, n, i, v, f, ok) ==
  /\ s.i \in i..(n - 1)
  /\ Put(s.array, s.i, v) \in [0..(m - 1) -> Values]
  /\ ok => HeapAbove(Put(s.array, s.i, v), n, i, s.i)
  /\ \A x : Number(Put(s.array, s.i, v), n, x) = Number(f, n, x)

Rested(s, n, v) ==
  s.i < n \div 2 => ~compare(s.array[BestChild(s.array, n, s.i)], v)

LEMMA SinkStep ==
  ASSUME NEW m \in Nat, NEW n \in 0..m, NEW i \in Nat, NEW v \in Values, NEW f,
         NEW ok, NEW s, Sunk(s, m, n, i, v, f, ok)
  PROVE  /\ Sunk(Sink(s, n, v), m, n, i, v, f, ok)
         /\ \/ Rested(s, n, v) /\ Sink(s, n, v) = s
            \/ Sink(s, n, v).i > s.i
<1>1. CASE Rested(s, n, v)
  <2>1. Sink(s, n, v) = s
    BY <1>1 DEF Rested, Sink
  <2> QED
    BY <1>1, <2>1
<1>2. CASE ~Rested(s, n, v)
  <2> DEFINE h == s.i
             c == BestChild(s.array, n, h)
             a == Put(s.array, h, v)
             r == Sink(s, n, v)
             b == Put(Put(s.array, h, s.array[c]), c, v)
  <2>1. h \in i..(n - 1) /\ h < n \div 2 /\ compare(s.array[c], v)
    BY <1>2 DEF Rested, Sunk
  <2>2. r.i = c /\ Put(r.array, r.i, v) = b
    BY <2>1 DEF Sink
  <2>3. /\ a \in [0..(m - 1) -> Values] /\ (ok => HeapAbove(a, n, i, h))
        /\ \A x : Number(a, n, x) = Number(f, n, x)
    BY DEF Sunk
  <2>4. h \in 0..(n - 1)
    BY <2>1
  <2>5. c \in 1..(n - 1) /\ parent(c) = h /\ c # h
        /\ \A j \in 1..(n - 1) : parent(j) = h => a[j] <= a[c]
    <3> HIDE DEF h
    <3> QED
      BY <2>1, <2>3, <2>4, BestChildIs DEF a, c
  <2>6. a[h] = v
    BY DEF Put
  <2>7. h \in 0..(m - 1) /\ c \in 0..(m - 1)
    <3> HIDE DEF h, c
    <3> QED
      BY <2>4, <2>5
  <2>8. s.array[c] = a[c] /\ b \in [0..(m - 1) -> Values] /\ Exchanged(a, b, h, c, m)
    <3> HIDE DEF c, h
    <3>1. Put(s.array, h, v) \in [0..(m - 1) -> Values] /\ c # h
      BY <2>3, <2>5 DEF a
    <3> HIDE DEF a, b
    <3>2. /\ s.array[c] = Put(s.array, h, v)[c]
          /\ Put(Put(s.array, h, s.array[c]), c, v) \in [0..(m - 1) -> Values]
          /\ Exchanged(Put(s.array, h, v), Put(Put(s.array, h, s.array[c]), c, v), h, c, m)
      BY <2>7, <3>1, MoveExchanges
    <3> QED
      BY <3>2 DEF a, b
  <2> HIDE DEF h, a, b, r, c
  <2>9. a[c] > a[h]
    BY <2>1, <2>6, <2>8 DEF compare
  <2>10. ASSUME ok PROVE HeapAbove(b, n, i, c)
    BY <2>1, <2>3, <2>5, <2>8, <2>9, <2>10, HeapSinks
  <2>11. \A x : Number(b, n, x) = Number(a, n, x)
    <3>1. Exchanged(a, b, h, c, n) /\ c \in 0..(n - 1)
      BY <2>5, <2>8 DEF Exchanged
    <3> QED
      BY <2>4, <2>5, <3>1, NumberOfExchanged
  <2>12. c \in i..(n - 1) /\ c > h
    BY <2>1, <2>5, ParentIs
  <2>13. Sunk(r, m, n, i, v, f, ok)
    BY <2>2, <2>3, <2>8, <2>10, <2>11, <2>12 DEF Sunk
  <2> QED
    BY <2>2, <2>12, <2>13 DEF r, h
<1> QED
  BY <1>1, <1>2

LEMMA RestedIsHeap ==
  ASSUME NEW m \in Nat, NEW n \in 0..m, NEW i \in Nat, NEW v \in Values, NEW f,
         NEW ok, ok, NEW s, Sunk(s, m, n, i, v, f, ok), Rested(s, n, v),
         NEW j \in 1..(n - 1), parent(j) >= i
  PROVE  Put(s.array, s.i, v)[j] <= Put(s.array, s.i, v)[parent(j)]
<1> DEFINE h == s.i
           a == Put(s.array, h, v)
           c == BestChild(s.array, n, h)
<1>1. h \in i..(n - 1) /\ h \in 0..(n - 1) /\ a \in [0..(m - 1) -> Values] /\ HeapAbove(a, n, i, h)
  BY DEF Sunk
<1>2. CASE parent(j) # h
  BY <1>1, <1>2 DEF HeapAbove
<1>3. CASE parent(j) = h
  <2>1. h < n \div 2
    <3>1. j = 2 * h + 1 \/ j = 2 * h + 2
      BY <1>3, ParentIs
    <3>2. n \div 2 \in Nat /\ n <= 2 * (n \div 2) + 1
      BY HalfIs
    <3> HIDE DEF h
    <3> QED
      BY <1>1, <3>1, <3>2
  <2>2. ~compare(s.array[c], v)
    BY <2>1 DEF Rested
  <2>3. c \in 1..(n - 1) /\ c # h /\ a[j] <= a[c]
    <3> HIDE DEF h
    <3> QED
      BY <1>1, <1>3, <2>1, BestChildIs DEF a, c
  <2>4. a[h] = v /\ a[c] = s.array[c]
    <3>1. DOMAIN s.array \cup {h} = 0..(m - 1)
      BY <1>1 DEF Put
    <3>2. c \in 0..(m - 1)
      BY <2>3
    <3>3. c \in DOMAIN s.array
      BY <2>3, <3>1, <3>2
    <3> HIDE DEF c
    <3> QED
      BY <2>3, <3>3 DEF Put
  <2> HIDE DEF h, a, c
  <2>5. a[h] \in Nat /\ a[c] \in Nat /\ a[j] \in Nat
    <3>1. h \in 0..(m - 1) /\ c \in 0..(m - 1) /\ j \in 0..(m - 1)
      BY <1>1, <2>3
    <3> QED
      BY <1>1, <3>1, ValuesAreNat
  <2>6. a[j] <= a[h]
    BY <2>2, <2>3, <2>4, <2>5 DEF compare
  <2> QED
    BY <1>3, <2>6 DEF a, h
<1> QED
  BY <1>2, <1>3

SinkTurns(a, n, i, v) ==
  CHOOSE f : f = [k \in 0..n |-> IF k = 0 THEN [array |-> a, i |-> i] ELSE Sink(f[k - 1], n, v)]

LEMMA SinkTurnsAre ==
  ASSUME NEW a, NEW n \in Nat, NEW i, NEW v
  PROVE  /\ SinkTurns(a, n, i, v)[0] = [array |-> a, i |-> i]
         /\ \A k \in 1..n : SinkTurns(a, n, i, v)[k] = Sink(SinkTurns(a, n, i, v)[k - 1], n, v)
<1> DEFINE zero == [array |-> a, i |-> i]
           F(m, f) == [k \in 0..m |-> IF k = 0 THEN zero ELSE Sink(f[k - 1], n, v)]
           Solves(f) == f = F(n, f)
           T == {m \in Nat : \E f : f = F(m, f)}
           X == SinkTurns(a, n, i, v)
<1> HIDE DEF zero
<1>1. 0 \in T
  <2> DEFINE f == [k \in 0..0 |-> zero]
  <2>1. f = F(0, f)
    OBVIOUS
  <2> QED
    BY <2>1
<1>2. ASSUME NEW m \in Nat, m \in T PROVE m + 1 \in T
  <2>1. PICK f : f = F(m, f)
    BY <1>2
  <2> DEFINE g == [k \in 0..(m + 1) |-> IF k = m + 1 THEN Sink(f[m], n, v) ELSE f[k]]
  <2>2. ASSUME NEW k \in 0..(m + 1) PROVE g[k] = F(m + 1, g)[k]
    <3>1. CASE k = 0
      BY <2>1, <3>1
    <3>2. CASE k = m + 1
      BY <3>2
    <3>3. CASE k \in 1..m
      <4>1. f[k] = Sink(f[k - 1], n, v)
        BY <2>1, <3>3
      <4> QED
        BY <3>3, <4>1
    <3> QED
      BY <3>1, <3>2, <3>3
  <2>3. g = F(m + 1, g)
    BY <2>2
  <2>4. \E h : h = F(m + 1, h)
    <3> HIDE DEF g, F
    <3> QED
      BY <2>3
  <2> HIDE DEF F
  <2> QED
    BY <2>4
<1>3. \E f : Solves(f)
  <2>1. Nat \subseteq T
    <3> HIDE DEF T
    <3> QED
      BY <1>1, <1>2, SetInduction
  <2> QED
    BY <2>1
<1>4. X = CHOOSE f : Solves(f)
  BY DEF SinkTurns, zero
<1>5. Solves(X)
  <2> HIDE DEF Solves, X
  <2> QED
    BY <1>3, <1>4
<1> HIDE DEF X
<1>6. X[0] = zero /\ \A k \in 1..n : X[k] = Sink(X[k - 1], n, v)
  BY <1>5
<1> QED
  BY <1>6 DEF X, zero

OrderedAfter(a, n, i) == \A j \in 1..(n - 1) : parent(j) > i => a[j] <= a[parent(j)]

\* v comes to a place from which the first n places are in order downwards, if they
\* were below the free place.
LEMMA PercolateDown ==
  ASSUME NEW m \in Nat, NEW n \in 0..m, NEW a \in [0..(m - 1) -> Values], NEW i \in 0..(n - 1),
         NEW v \in Values
  PROVE  /\ percolateDown(a, n, i, v) \in [0..(m - 1) -> Values]
         /\ \A x : Number(percolateDown(a, n, i, v), n, x) = Number(Put(a, i, v), n, x)
         /\ OrderedAfter(a, n, i) =>
              \A j \in 1..(n - 1) : parent(j) >= i =>
                percolateDown(a, n, i, v)[j] <= percolateDown(a, n, i, v)[parent(j)]
<1> DEFINE ok == OrderedAfter(a, n, i)
           f == Put(a, i, v)
           X == SinkTurns(a, n, i, v)
           Y == X[n]
           zero == [array |-> a, i |-> i]
<1>0. n \in Nat /\ i \in Nat /\ i \in 0..(m - 1)
  OBVIOUS
<1>1. f \in [0..(m - 1) -> Values] /\ \A j \in 0..(m - 1) : j # i => f[j] = a[j]
  <2>1. \A j \in 0..(m - 1) : j # i => Put(a, i, v)[j] = a[j]
    BY PutElsewhere
  <2>2. Put(a, i, v) \in [0..(m - 1) -> Values]
    BY <1>0, PutIs
  <2> QED
    BY <2>1, <2>2
<1>2. X[0] = zero /\ \A k \in 1..n : X[k] = Sink(X[k - 1], n, v)
  BY <1>0, SinkTurnsAre
<1>3. percolateDown(a, n, i, v) = Put(Y.array, Y.i, v)
  BY DEF percolateDown, SinkTurns
<1>4. Sunk(zero, m, n, i, v, f, ok)
  <2>1. zero.i = i /\ zero.array = a
    OBVIOUS
  <2> HIDE DEF f
  <2>3. ASSUME ok PROVE HeapAbove(f, n, i, i)
    <3>2. ASSUME NEW j \in 1..(n - 1), parent(j) >= i, parent(j) # i PROVE f[j] <= f[parent(j)]
      <4>1. parent(j) \in 0..(j - 1) /\ parent(j) > i
        BY <1>0, <3>2, ParentIs
      <4>2. f[j] = a[j] /\ f[parent(j)] = a[parent(j)]
        BY <1>1, <4>1
      <4> QED
        BY <2>3, <4>1, <4>2 DEF OrderedAfter
    <3> QED
      BY <3>2 DEF HeapAbove
  <2> HIDE DEF zero
  <2>4. Put(zero.array, zero.i, v) = f
    BY <2>1 DEF f
  <2>5. zero.i \in i..(n - 1)
    BY <2>1
  <2> QED
    BY <1>1, <2>1, <2>3, <2>4, <2>5 DEF Sunk
<1> HIDE DEF zero, X, f, ok
<1> DEFINE Good(k) == Sunk(X[k], m, n, i, v, f, ok) /\ (Rested(X[k], n, v) \/ X[k].i >= k)
           T == {k \in Nat : k <= n => Good(k)}
<1>5. 0 \in T
  <2>1. X[0].i >= 0
    BY <1>2 DEF zero
  <2> QED
    BY <1>2, <1>4, <2>1
<1>6. ASSUME NEW k \in Nat, k \in T PROVE k + 1 \in T
  <2> SUFFICES ASSUME k + 1 <= n PROVE Good(k + 1)
    OBVIOUS
  <2>1. Sunk(X[k], m, n, i, v, f, ok) /\ (Rested(X[k], n, v) \/ X[k].i >= k)
    BY <1>6
  <2>2. X[k + 1] = Sink(X[k], n, v)
    <3>1. k + 1 \in 1..n /\ (k + 1) - 1 = k
      OBVIOUS
    <3> QED
      BY <1>2, <3>1
  <2> DEFINE s == X[k]
  <2>3. s.i \in Nat /\ X[k + 1].i \in Nat /\ Sunk(X[k + 1], m, n, i, v, f, ok)
    <3>1. Sunk(Sink(s, n, v), m, n, i, v, f, ok)
      BY <1>0, <2>1, SinkStep
    <3> QED
      BY <2>1, <2>2, <3>1 DEF Sunk
  <2>4. (Rested(s, n, v) /\ X[k + 1] = s) \/ X[k + 1].i > s.i
    BY <1>0, <2>1, <2>2, SinkStep
  <2>5. CASE Rested(s, n, v) /\ X[k + 1] = s
    BY <2>3, <2>5
  <2>6. CASE X[k + 1].i > s.i
    <3>1. Rested(s, n, v) => Sink(s, n, v) = s
      BY DEF Rested, Sink
    <3>2. ~Rested(s, n, v)
      BY <2>2, <2>3, <2>6, <3>1
    <3>3. s.i >= k
      BY <2>1, <3>2
    <3>4. X[k + 1].i >= k + 1
      BY <2>3, <2>6, <3>3
    <3> QED
      BY <2>3, <3>4
  <2> QED
    BY <2>4, <2>5, <2>6
<1>7. Good(n)
  <2>1. Nat \subseteq T
    <3> HIDE DEF T
    <3> QED
      BY <1>5, <1>6, SetInduction
  <2> QED
    BY <2>1
<1>8. Sunk(Y, m, n, i, v, f, ok) /\ Rested(Y, n, v)
  <2>1. Sunk(Y, m, n, i, v, f, ok) /\ (Rested(Y, n, v) \/ Y.i >= n)
    BY <1>7
  <2>2. Y.i \in i..(n - 1)
    BY <2>1 DEF Sunk
  <2> QED
    BY <2>1, <2>2
<1> HIDE DEF Y
<1>9. ASSUME ok PROVE \A j \in 1..(n - 1) :
        parent(j) >= i => Put(Y.array, Y.i, v)[j] <= Put(Y.array, Y.i, v)[parent(j)]
  BY <1>0, <1>8, <1>9, RestedIsHeap
<1> QED
  BY <1>3, <1>8, <1>9 DEF Sunk, f, ok

-----------------------------------------------------------------------------
(* The loop of heapify. *)

HeapTurns(a, n, m) ==
  CHOOSE f : f = [k \in 0..m |->
    IF k = 0 THEN a
    ELSE percolateDown(f[k - 1], n, (n \div 2) + 1 - k, f[k - 1][(n \div 2) + 1 - k])]

LEMMA HeapTurnsAre ==
  ASSUME NEW a, NEW n \in Nat, NEW l \in Nat
  PROVE  /\ HeapTurns(a, n, l)[0] = a
         /\ \A k \in 1..l :
              HeapTurns(a, n, l)[k]
                = percolateDown(HeapTurns(a, n, l)[k - 1], n, (n \div 2) + 1 - k,
                                HeapTurns(a, n, l)[k - 1][(n \div 2) + 1 - k])
<1> DEFINE Turn(b, k) == percolateDown(b, n, (n \div 2) + 1 - k, b[(n \div 2) + 1 - k])
           F(m, f) == [k \in 0..m |-> IF k = 0 THEN a ELSE Turn(f[k - 1], k)]
           Solves(f) == f = F(l, f)
           T == {m \in Nat : \E f : f = F(m, f)}
           X == HeapTurns(a, n, l)
<1>4. X = CHOOSE f : Solves(f)
  BY DEF HeapTurns
<1> HIDE DEF Turn
<1>1. 0 \in T
  <2> DEFINE f == [k \in 0..0 |-> a]
  <2>1. f = F(0, f)
    OBVIOUS
  <2> QED
    BY <2>1
<1>2. ASSUME NEW m \in Nat, m \in T PROVE m + 1 \in T
  <2>1. PICK f : f = F(m, f)
    BY <1>2
  <2> DEFINE g == [k \in 0..(m + 1) |-> IF k = m + 1 THEN Turn(f[m], m + 1) ELSE f[k]]
  <2>2. ASSUME NEW k \in 0..(m + 1) PROVE g[k] = F(m + 1, g)[k]
    <3>1. CASE k = 0
      BY <2>1, <3>1
    <3>2. CASE k = m + 1
      BY <3>2
    <3>3. CASE k \in 1..m
      <4>1. f[k] = Turn(f[k - 1], k)
        BY <2>1, <3>3
      <4> QED
        BY <3>3, <4>1
    <3> QED
      BY <3>1, <3>2, <3>3
  <2>3. g = F(m + 1, g)
    BY <2>2
  <2>4. \E h : h = F(m + 1, h)
    <3> HIDE DEF g, F
    <3> QED
      BY <2>3
  <2> HIDE DEF F
  <2> QED
    BY <2>4
<1>3. \E f : Solves(f)
  <2>1. Nat \subseteq T
    <3> HIDE DEF T
    <3> QED
      BY <1>1, <1>2, SetInduction
  <2> QED
    BY <2>1
<1>5. Solves(X)
  <2> HIDE DEF Solves, X
  <2> QED
    BY <1>3, <1>4
<1> HIDE DEF X
<1>6. X[0] = a /\ \A k \in 1..l : X[k] = Turn(X[k - 1], k)
  BY <1>5
<1> QED
  BY <1>6 DEF X, Turn

LEMMA HeapifyIs ==
  ASSUME NEW n \in Nat \ {0}, NEW a \in [0..(n - 1) -> Values]
  PROVE  /\ heapify(a) \in [0..(n - 1) -> Values]
         /\ \A x : Number(heapify(a), n, x) = Number(a, n, x)
         /\ \A j \in 1..(n - 1) : heapify(a)[j] <= heapify(a)[parent(j)]
<1> DEFINE q == n \div 2
           X == HeapTurns(a, n, q + 1)
<1>1. q \in Nat /\ 2 * q <= n /\ n <= 2 * q + 1
  BY HalfIs
<1>2. Cardinality(DOMAIN a) = n
  BY FS_Interval
<1>3. heapify(a) = X[q + 1]
  BY <1>2 DEF heapify, Heapified, HeapTurns
<1>4. X[0] = a /\ \A k \in 1..(q + 1) : X[k] = percolateDown(X[k - 1], n, q + 1 - k, X[k - 1][q + 1 - k])
  <2>1. q + 1 \in Nat
    BY <1>1
  <2> HIDE DEF q
  <2>2. X[0] = a
    BY <2>1, HeapTurnsAre
  <2> QED
    BY <2>1, <2>2, HeapTurnsAre DEF q
<1> HIDE DEF X, q
<1> DEFINE Good(k) ==
             /\ X[k] \in [0..(n - 1) -> Values]
             /\ \A x : Number(X[k], n, x) = Number(a, n, x)
             /\ \A j \in 1..(n - 1) : parent(j) >= q + 1 - k => X[k][j] <= X[k][parent(j)]
           T == {k \in Nat : k <= q + 1 => Good(k)}
<1>5. 0 \in T
  <2>1. ASSUME NEW j \in 1..(n - 1), parent(j) >= q + 1 - 0 PROVE FALSE
    <3>1. parent(j) \in Nat /\ (j = 2 * parent(j) + 1 \/ j = 2 * parent(j) + 2)
      BY ParentIs
    <3> QED
      BY <1>1, <2>1, <3>1
  <2> QED
    BY <1>4, <2>1
<1>6. ASSUME NEW k \in Nat, k \in T PROVE k + 1 \in T
  <2> SUFFICES ASSUME k + 1 <= q + 1 PROVE Good(k + 1)
    OBVIOUS
  <2> DEFINE i == q + 1 - (k + 1)
             b == X[k]
  <2>1. Good(k)
    BY <1>1, <1>6
  <2>2. X[k + 1] = percolateDown(b, n, i, b[i])
    <3>1. k + 1 \in 1..(q + 1) /\ (k + 1) - 1 = k
      BY <1>1
    <3> QED
      BY <1>4, <3>1
  <2>3. i \in 0..(n - 1) /\ i + 1 = q + 1 - k
    BY <1>1
  <2>4. /\ b \in [0..(n - 1) -> Values] /\ b[i] \in Values
        /\ \A x : Number(b, n, x) = Number(a, n, x)
    <3>1. b \in [0..(n - 1) -> Values] /\ \A x : Number(b, n, x) = Number(a, n, x)
      BY <2>1
    <3> HIDE DEF i, b
    <3> QED
      BY <2>3, <3>1
  <2>5. OrderedAfter(b, n, i)
    <3>1. ASSUME NEW j \in 1..(n - 1), parent(j) > i PROVE parent(j) >= q + 1 - k
      BY <2>3, <3>1, ParentIs
    <3> QED
      BY <2>1, <3>1 DEF OrderedAfter
  <2> HIDE DEF i, b, Good
  <2> DEFINE r == percolateDown(b, n, i, b[i])
  <2>6. /\ r \in [0..(n - 1) -> Values]
        /\ \A x : Number(r, n, x) = Number(Put(b, i, b[i]), n, x)
        /\ \A j \in 1..(n - 1) : parent(j) >= i => r[j] <= r[parent(j)]
    <3>1. n \in Nat /\ n \in 0..n
      OBVIOUS
    <3> QED
      BY <2>3, <2>4, <2>5, <3>1, PercolateDown
  <2> HIDE DEF r
  <2>7. \A x : Number(Put(b, i, b[i]), n, x) = Number(b, n, x)
    <3>1. \A j \in 0..(n - 1) : Put(b, i, b[i])[j] = b[j]
      BY <2>3, <2>4 DEF Put
    <3> QED
      BY <3>1, NumberOfSame
  <2> QED
    BY <2>2, <2>4, <2>6, <2>7 DEF Good, r, i
<1>7. Good(q + 1)
  <2>1. Nat \subseteq T
    <3> HIDE DEF T
    <3> QED
      BY <1>5, <1>6, SetInduction
  <2> QED
    BY <1>1, <2>1
<1>8. \A j \in 1..(n - 1) : parent(j) >= q + 1 - (q + 1)
  BY <1>1, ParentIs
<1> QED
  BY <1>3, <1>7, <1>8

-----------------------------------------------------------------------------
(* Bags, by the number of times each value is in them. *)

Amount(B, x) == IF x \in DOMAIN B THEN B[x] ELSE 0

LEMMA AmountIs ==
  ASSUME NEW B, IsABag(B), NEW x
  PROVE  Amount(B, x) \in Nat /\ (x \in DOMAIN B <=> Amount(B, x) > 0)
BY DEF IsABag, Amount

LEMMA SameBag ==
  ASSUME NEW B, IsABag(B), NEW C, IsABag(C), \A x : Amount(B, x) = Amount(C, x)
  PROVE  B = C
<1>1. DOMAIN B = DOMAIN C
  BY AmountIs
<1>2. \A x \in DOMAIN B : B[x] = C[x]
  BY <1>1 DEF Amount
<1> QED
  BY <1>1, <1>2 DEF IsABag

LEMMA OneMore ==
  ASSUME NEW B, IsABag(B), NEW v
  PROVE  /\ IsABag(B (+) SetToBag({v}))
         /\ \A x : Amount(B (+) SetToBag({v}), x) = Amount(B, x) + Bit(v, x)
<1> DEFINE C == SetToBag({v})
           S == B (+) C
<1>1. DOMAIN C = {v} /\ C[v] = 1
  BY DEF SetToBag
<1> HIDE DEF C
<1>2. DOMAIN S = DOMAIN B \cup {v}
  BY <1>1 DEF (+)
<1>3. ASSUME NEW x \in DOMAIN S PROVE S[x] = Amount(B, x) + Bit(v, x)
  <2>1. S[x] = (IF x \in DOMAIN B THEN B[x] ELSE 0) + (IF x \in DOMAIN C THEN C[x] ELSE 0)
    BY <1>2, <1>3 DEF (+)
  <2>2. (IF x \in DOMAIN C THEN C[x] ELSE 0) = Bit(v, x)
    BY <1>1 DEF Bit
  <2> QED
    BY <2>1, <2>2 DEF Amount
<1>4. S = [x \in DOMAIN S |-> S[x]]
  BY DEF (+)
<1> HIDE DEF S
<1>5. \A x : Bit(v, x) \in {0, 1} /\ (Bit(v, x) = 1 <=> x = v)
  BY DEF Bit
<1>6. \A x : Amount(S, x) = Amount(B, x) + Bit(v, x)
  <2> SUFFICES ASSUME NEW x PROVE Amount(S, x) = Amount(B, x) + Bit(v, x)
    OBVIOUS
  <2>1. CASE x \in DOMAIN S
    BY <1>3, <2>1 DEF Amount
  <2>2. CASE x \notin DOMAIN S
    BY <1>2, <1>5, <2>2 DEF Amount
  <2> QED
    BY <2>1, <2>2
<1>7. ASSUME NEW x \in DOMAIN S PROVE S[x] \in {n \in Nat : n > 0}
  <2>1. Amount(B, x) \in Nat /\ (x \in DOMAIN B <=> Amount(B, x) > 0)
    BY AmountIs
  <2> QED
    BY <1>2, <1>3, <1>5, <1>7, <2>1
<1>8. IsABag(S)
  BY <1>4, <1>7 DEF IsABag
<1> QED
  BY <1>6, <1>8 DEF S, C

LEMMA OneLess ==
  ASSUME NEW B, IsABag(B), NEW v, Amount(B, v) > 0
  PROVE  /\ IsABag(B (-) SetToBag({v}))
         /\ \A x : Amount(B (-) SetToBag({v}), x) = Amount(B, x) - Bit(v, x)
<1> DEFINE C == SetToBag({v})
           D == [x \in DOMAIN B |-> IF x \in DOMAIN C THEN B[x] - C[x] ELSE B[x]]
           S == B (-) C
<1>1. DOMAIN C = {v} /\ C[v] = 1
  BY DEF SetToBag
<1>2. S = [x \in {y \in DOMAIN D : D[y] > 0} |-> D[x]]
  BY DEF (-)
<1> HIDE DEF C, S
<1>3. \A x : Bit(v, x) \in {0, 1} /\ (Bit(v, x) = 1 <=> x = v)
  BY DEF Bit
<1>4. \A x : Amount(B, x) \in Nat /\ (x \in DOMAIN B <=> Amount(B, x) > 0)
  BY AmountIs
<1>5. ASSUME NEW x \in DOMAIN B PROVE D[x] = Amount(B, x) - Bit(v, x)
  BY <1>1, <1>3, <1>4, <1>5 DEF Amount
<1>6. DOMAIN D = DOMAIN B
  OBVIOUS
<1> HIDE DEF D
<1>7. \A x : x \in DOMAIN S <=> Amount(B, x) - Bit(v, x) > 0
  BY <1>2, <1>3, <1>4, <1>5, <1>6
<1>8. \A x \in DOMAIN S : S[x] = Amount(B, x) - Bit(v, x)
  BY <1>2, <1>5, <1>6
<1>9. \A x : Amount(S, x) = Amount(B, x) - Bit(v, x)
  <2> SUFFICES ASSUME NEW x PROVE Amount(S, x) = Amount(B, x) - Bit(v, x)
    OBVIOUS
  <2>1. CASE x \in DOMAIN S
    BY <1>8, <2>1 DEF Amount
  <2>2. CASE x \notin DOMAIN S
    <3>1. Amount(B, x) - Bit(v, x) >= 0
      BY <1>3, <1>4
    <3>2. ~(Amount(B, x) - Bit(v, x) > 0)
      BY <1>7, <2>2
    <3>3. Amount(S, x) = 0
      BY <2>2 DEF Amount
    <3>4. Amount(B, x) \in Nat /\ Bit(v, x) \in Nat
      BY <1>3, <1>4
    <3> QED
      BY <3>1, <3>2, <3>3, <3>4
  <2> QED
    BY <2>1, <2>2
<1>10. IsABag(S)
  <2>1. \A x \in DOMAIN S : S[x] \in {n \in Nat : n > 0}
    BY <1>3, <1>4, <1>7, <1>8
  <2>2. S = [x \in DOMAIN S |-> S[x]]
    BY <1>2
  <2> QED
    BY <2>1, <2>2 DEF IsABag
<1> QED
  BY <1>9, <1>10 DEF S, C

LEMMA WhatIsGone ==
  ASSUME NEW B, IsABag(B), NEW C, IsABag(C), NEW x
  PROVE  x \in BagToSet(B (-) C) <=> Amount(B, x) > Amount(C, x)
<1> DEFINE D == [y \in DOMAIN B |-> IF y \in DOMAIN C THEN B[y] - C[y] ELSE B[y]]
<1>1. BagToSet(B (-) C) = {y \in DOMAIN D : D[y] > 0}
  BY DEF (-), BagToSet
<1>2. /\ Amount(B, x) \in Nat /\ (x \in DOMAIN B <=> Amount(B, x) > 0)
      /\ Amount(C, x) \in Nat /\ (x \in DOMAIN C <=> Amount(C, x) > 0)
  BY AmountIs
<1>3. x \in DOMAIN B => D[x] = Amount(B, x) - Amount(C, x)
  BY <1>2 DEF Amount
<1>4. DOMAIN D = DOMAIN B
  OBVIOUS
<1> HIDE DEF D
<1> QED
  BY <1>1, <1>2, <1>3, <1>4

LEMMA PartOf ==
  ASSUME NEW B, IsABag(B), NEW C, IsABag(C)
  PROVE  B \sqsubseteq C <=> \A x : Amount(B, x) <= Amount(C, x)
<1>1. \A x : /\ Amount(B, x) \in Nat /\ (x \in DOMAIN B <=> Amount(B, x) > 0)
             /\ Amount(C, x) \in Nat /\ (x \in DOMAIN C <=> Amount(C, x) > 0)
  BY AmountIs
<1>2. ASSUME B \sqsubseteq C, NEW x PROVE Amount(B, x) <= Amount(C, x)
  <2>1. CASE x \in DOMAIN B
    <3>1. x \in DOMAIN C /\ B[x] <= C[x]
      BY <1>2, <2>1 DEF \sqsubseteq
    <3> QED
      BY <2>1, <3>1 DEF Amount
  <2>2. CASE x \notin DOMAIN B
    BY <1>1, <2>2
  <2> QED
    BY <2>1, <2>2
<1>3. ASSUME \A x : Amount(B, x) <= Amount(C, x) PROVE B \sqsubseteq C
  <2>1. ASSUME NEW x \in DOMAIN B PROVE x \in DOMAIN C /\ B[x] <= C[x]
    <3>1. Amount(B, x) <= Amount(C, x) /\ x \in DOMAIN C
      BY <1>1, <1>3, <2>1
    <3> QED
      BY <2>1, <3>1 DEF Amount
  <2> QED
    BY <2>1 DEF \sqsubseteq
<1> QED
  BY <1>2, <1>3

-----------------------------------------------------------------------------
(* How many values a bag has. *)

LEMMA CopiesAre ==
  ASSUME NEW B, IsABag(B), NEW z
  PROVE  z \in Copies(B) <=> \E x : \E k \in 1..Amount(B, x) : z = <<x, k>>
<1>1. \A x : Amount(B, x) \in Nat /\ (x \in DOMAIN B <=> Amount(B, x) > 0)
  BY AmountIs
<1>2. ASSUME z \in Copies(B) PROVE \E x : \E k \in 1..Amount(B, x) : z = <<x, k>>
  <2>1. PICK x \in DOMAIN B : z \in {x} \X (1..B[x])
    BY <1>2 DEF Copies, BagToSet
  <2>2. PICK k \in 1..B[x] : z = <<x, k>>
    BY <2>1
  <2>3. B[x] = Amount(B, x)
    BY <2>1 DEF Amount
  <2> QED
    BY <2>2, <2>3
<1>3. ASSUME NEW x, NEW k \in 1..Amount(B, x), z = <<x, k>> PROVE z \in Copies(B)
  <2>1. x \in DOMAIN B /\ B[x] = Amount(B, x)
    BY <1>1, <1>3 DEF Amount
  <2>2. z \in {x} \X (1..B[x])
    BY <1>3, <2>1
  <2> QED
    BY <2>1, <2>2 DEF Copies, BagToSet
<1> QED
  BY <1>2, <1>3

LEMMA SizeOfMore ==
  ASSUME NEW B, IsABag(B), IsFiniteSet(Copies(B)), NEW v
  PROVE  /\ IsFiniteSet(Copies(B (+) SetToBag({v})))
         /\ BagSize(B (+) SetToBag({v})) = BagSize(B) + 1
<1> DEFINE C == B (+) SetToBag({v})
           new == <<v, Amount(B, v) + 1>>
<1>1. IsABag(C) /\ \A x : Amount(C, x) = Amount(B, x) + Bit(v, x)
  BY OneMore
<1> HIDE DEF C
<1>2. \A x : Amount(B, x) \in Nat /\ (x = v => Bit(v, x) = 1) /\ (x # v => Bit(v, x) = 0)
  BY AmountIs DEF Bit
<1>3. Copies(C) = Copies(B) \cup {new}
  <2>1. ASSUME NEW z \in Copies(C) PROVE z \in Copies(B) \cup {new}
    <3>1. PICK x, k : k \in 1..Amount(C, x) /\ z = <<x, k>>
      BY <1>1, <2>1, CopiesAre
    <3>2. CASE x = v /\ k = Amount(B, v) + 1
      BY <3>1, <3>2
    <3>3. CASE ~(x = v /\ k = Amount(B, v) + 1)
      <4>1. k \in 1..Amount(B, x)
        BY <1>1, <1>2, <3>1, <3>3
      <4> QED
        BY <3>1, <4>1, CopiesAre
    <3> QED
      BY <3>2, <3>3
  <2>2. ASSUME NEW z \in Copies(B) PROVE z \in Copies(C)
    <3>1. PICK x, k : k \in 1..Amount(B, x) /\ z = <<x, k>>
      BY <2>2, CopiesAre
    <3>2. k \in 1..Amount(C, x)
      BY <1>1, <1>2, <3>1
    <3> QED
      BY <1>1, <3>1, <3>2, CopiesAre
  <2>3. new \in Copies(C)
    <3>1. Amount(B, v) + 1 \in 1..Amount(C, v)
      BY <1>1, <1>2
    <3> QED
      BY <1>1, <3>1, CopiesAre
  <2> QED
    BY <2>1, <2>2, <2>3
<1>4. new \notin Copies(B)
  <2> SUFFICES ASSUME new \in Copies(B) PROVE FALSE
    OBVIOUS
  <2>1. PICK x, k : k \in 1..Amount(B, x) /\ new = <<x, k>>
    BY CopiesAre
  <2> QED
    BY <1>2, <2>1
<1> HIDE DEF new
<1> QED
  BY <1>3, <1>4, FS_AddElement DEF BagSize, C

LEMMA SizeOfPart ==
  ASSUME NEW B, IsABag(B), NEW C, IsABag(C), B \sqsubseteq C, IsFiniteSet(Copies(C))
  PROVE  BagSize(B) \in Nat /\ BagSize(C) \in Nat /\ BagSize(B) <= BagSize(C)
<1>1. \A x : Amount(B, x) \in Nat /\ Amount(C, x) \in Nat /\ Amount(B, x) <= Amount(C, x)
  BY AmountIs, PartOf
<1>2. ASSUME NEW z \in Copies(B) PROVE z \in Copies(C)
  <2>1. PICK x, k : k \in 1..Amount(B, x) /\ z = <<x, k>>
    BY <1>2, CopiesAre
  <2>2. k \in 1..Amount(C, x)
    BY <1>1, <2>1
  <2> QED
    BY <2>1, <2>2, CopiesAre
<1>3. Copies(B) \subseteq Copies(C)
  BY <1>2
<1> QED
  BY <1>3, FS_Subset, FS_CardinalityType DEF BagSize

-----------------------------------------------------------------------------
(* The bag of the first n values of an array. *)

HeldOf(a, n) ==
  LET values == {a[i] : i \in 0..(n - 1)}
  IN  [v \in values |-> Cardinality({i \in 0..(n - 1) : a[i] = v})]

Heap(a, n) == \A j \in 1..(n - 1) : a[j] <= a[parent(j)]

LEMMA HeldIs == Held = HeldOf(array, size) /\ Held' = HeldOf(array', size')
BY DEF Held, HeldOf

LEMMA HeldAmount ==
  ASSUME NEW a, NEW n \in Nat
  PROVE  IsABag(HeldOf(a, n)) /\ \A x : Amount(HeldOf(a, n), x) = Number(a, n, x)
<1> DEFINE B == HeldOf(a, n)
<1>1. \A x : Number(a, n, x) \in Nat /\ (Number(a, n, x) > 0 <=> \E j \in 0..(n - 1) : a[j] = x)
  BY NumberIsNat
<1>2. B = [v \in {a[i] : i \in 0..(n - 1)} |-> Number(a, n, v)]
  BY DEF HeldOf, Number
<1> HIDE DEF B
<1>3. \A x : x \in DOMAIN B <=> Number(a, n, x) > 0
  BY <1>1, <1>2
<1>4. \A x \in DOMAIN B : B[x] = Number(a, n, x)
  BY <1>2
<1>5. B = [x \in DOMAIN B |-> B[x]]
  BY <1>2
<1>6. IsABag(B)
  BY <1>1, <1>3, <1>4, <1>5 DEF IsABag
<1>7. \A x : Amount(B, x) = Number(a, n, x)
  BY <1>1, <1>3, <1>4 DEF Amount
<1> QED
  BY <1>6, <1>7 DEF B

LEMMA HeldSize ==
  ASSUME NEW a, NEW n \in Nat
  PROVE  IsFiniteSet(Copies(HeldOf(a, n))) /\ BagSize(HeldOf(a, n)) = n
<1> DEFINE T == {k \in Nat : IsFiniteSet(Copies(HeldOf(a, k))) /\ BagSize(HeldOf(a, k)) = k}
<1>1. 0 \in T
  <2>1. Copies(HeldOf(a, 0)) = {}
    BY DEF Copies, BagToSet, HeldOf
  <2> QED
    BY <2>1, FS_EmptySet DEF BagSize
<1>2. ASSUME NEW k \in Nat, k \in T PROVE k + 1 \in T
  <2> DEFINE B == HeldOf(a, k)
             C == B (+) SetToBag({a[k]})
  <2>1. IsABag(B) /\ \A x : Amount(B, x) = Number(a, k, x)
    BY HeldAmount
  <2>2. IsABag(C) /\ \A x : Amount(C, x) = Amount(B, x) + Bit(a[k], x)
    BY <2>1, OneMore
  <2>3. IsABag(HeldOf(a, k + 1)) /\ \A x : Amount(HeldOf(a, k + 1), x) = Number(a, k + 1, x)
    BY HeldAmount
  <2>4. \A x : Number(a, k + 1, x) = Number(a, k, x) + Bit(a[k], x)
    BY NumberOfNext
  <2>5. IsFiniteSet(Copies(B)) /\ BagSize(B) = k
    BY <1>2
  <2>6. IsFiniteSet(Copies(C)) /\ BagSize(C) = k + 1
    BY <2>1, <2>5, SizeOfMore
  <2> HIDE DEF B, C
  <2>7. HeldOf(a, k + 1) = C
    BY <2>1, <2>2, <2>3, <2>4, SameBag
  <2> QED
    BY <2>6, <2>7
<1>3. Nat \subseteq T
  <2> HIDE DEF T
  <2> QED
    BY <1>1, <1>2, SetInduction
<1> QED
  BY <1>3

\* What changes of the numbers is what changes of the bag.
LEMMA HeldMore ==
  ASSUME NEW a, NEW n \in Nat, NEW b, NEW m \in Nat, NEW v,
         \A x : Number(b, m, x) = Number(a, n, x) + Bit(v, x)
  PROVE  HeldOf(b, m) = HeldOf(a, n) (+) SetToBag({v})
<1> DEFINE B == HeldOf(a, n)
           C == HeldOf(b, m)
           D == B (+) SetToBag({v})
<1>1. IsABag(B) /\ \A x : Amount(B, x) = Number(a, n, x)
  BY HeldAmount
<1>2. IsABag(C) /\ \A x : Amount(C, x) = Number(b, m, x)
  BY HeldAmount
<1>3. IsABag(D) /\ \A x : Amount(D, x) = Amount(B, x) + Bit(v, x)
  BY <1>1, OneMore
<1> HIDE DEF B, C, D
<1>4. C = D
  BY <1>1, <1>2, <1>3, SameBag
<1> QED
  BY <1>4 DEF B, C, D

LEMMA HeldLess ==
  ASSUME NEW a, NEW n \in Nat, NEW b, NEW m \in Nat, NEW p \in 0..(n - 1),
         \A x : Number(b, m, x) = Number(a, n, x) - Bit(a[p], x)
  PROVE  HeldOf(b, m) = HeldOf(a, n) (-) SetToBag({a[p]})
<1> DEFINE v == a[p]
           B == HeldOf(a, n)
           C == HeldOf(b, m)
           D == B (-) SetToBag({v})
<1>1. IsABag(B) /\ \A x : Amount(B, x) = Number(a, n, x)
  BY HeldAmount
<1>2. IsABag(C) /\ \A x : Amount(C, x) = Number(b, m, x)
  BY HeldAmount
<1>3. Amount(B, v) > 0
  <2>1. \E j \in 0..(n - 1) : a[j] = v
    OBVIOUS
  <2> HIDE DEF B, v
  <2>2. Number(a, n, v) > 0
    BY <2>1, NumberIsNat
  <2> QED
    BY <1>1, <2>2
<1>4. IsABag(D) /\ \A x : Amount(D, x) = Amount(B, x) - Bit(v, x)
  <2> HIDE DEF B, v
  <2> QED
    BY <1>1, <1>3, OneLess
<1> HIDE DEF B, C, D
<1>5. C = D
  BY <1>1, <1>2, <1>4, SameBag
<1> QED
  BY <1>5 DEF B, C, D

LEMMA HeldExchange ==
  ASSUME NEW a, NEW n \in Nat, NEW b, NEW m \in Nat, NEW p \in 0..(n - 1), NEW v,
         \A x : Number(b, m, x) = Number(a, n, x) - Bit(a[p], x) + Bit(v, x)
  PROVE  /\ HeldOf(b, m) = (HeldOf(a, n) (+) SetToBag({v})) (-) SetToBag({a[p]})
         /\ HeldOf(b, m) = (HeldOf(a, n) (-) SetToBag({a[p]})) (+) SetToBag({v})
<1> DEFINE u == a[p]
           B == HeldOf(a, n)
           C == HeldOf(b, m)
           D == B (+) SetToBag({v})
           E == D (-) SetToBag({u})
           F == B (-) SetToBag({u})
           G == F (+) SetToBag({v})
<1>1. IsABag(B) /\ \A x : Amount(B, x) = Number(a, n, x)
  BY HeldAmount
<1>2. IsABag(C) /\ \A x : Amount(C, x) = Number(b, m, x)
  BY HeldAmount
<1>3. Amount(B, u) > 0
  <2>1. \E j \in 0..(n - 1) : a[j] = u
    OBVIOUS
  <2> HIDE DEF B, u
  <2>2. Number(a, n, u) > 0
    BY <2>1, NumberIsNat
  <2> QED
    BY <1>1, <2>2
<1> HIDE DEF B, C, u
<1>4. IsABag(D) /\ \A x : Amount(D, x) = Amount(B, x) + Bit(v, x)
  BY <1>1, OneMore
<1>5. \A x : Amount(B, x) \in Nat /\ Bit(v, x) \in {0, 1} /\ Bit(u, x) \in {0, 1}
  BY <1>1, AmountIs DEF Bit
<1>6. Amount(D, u) > 0
  <2>1. Amount(D, u) = Amount(B, u) + Bit(v, u) /\ Amount(B, u) \in Nat /\ Bit(v, u) \in {0, 1}
    BY <1>4, <1>5
  <2> QED
    BY <1>3, <2>1
<1>7. IsABag(F) /\ \A x : Amount(F, x) = Amount(B, x) - Bit(u, x)
  BY <1>1, <1>3, OneLess
<1> HIDE DEF D, F
<1>8. IsABag(E) /\ \A x : Amount(E, x) = Amount(D, x) - Bit(u, x)
  BY <1>4, <1>6, OneLess
<1>9. IsABag(G) /\ \A x : Amount(G, x) = Amount(F, x) + Bit(v, x)
  BY <1>7, OneMore
<1> HIDE DEF E, G
<1>10. \A x : Amount(C, x) = Amount(B, x) - Bit(u, x) + Bit(v, x)
  BY <1>1, <1>2 DEF u
<1>11. C = E
  <2>1. \A x : Amount(C, x) = Amount(E, x)
    BY <1>4, <1>5, <1>8, <1>10
  <2> QED
    BY <1>2, <1>8, <2>1, SameBag
<1>12. C = G
  <2>1. \A x : Amount(C, x) = Amount(G, x)
    BY <1>5, <1>7, <1>9, <1>10
  <2> QED
    BY <1>2, <1>9, <2>1, SameBag
<1> QED
  BY <1>11, <1>12 DEF B, C, D, E, F, G, u

\* The same, for a top that goes before the other value comes.
LEMMA HeldSwapped ==
  ASSUME NEW a, NEW n \in Nat, 0 < n, NEW b, NEW v,
         \A x : Number(b, n, x) = Number(a, n, x) - Bit(a[0], x) + Bit(v, x)
  PROVE  HeldOf(b, n) = (HeldOf(a, n) (-) SetToBag({a[0]})) (+) SetToBag({v})
<1>1. PICK p \in 0..(n - 1) : p = 0
  OBVIOUS
<1>2. \A x : Number(b, n, x) = Number(a, n, x) - Bit(a[p], x) + Bit(v, x)
  BY <1>1
<1>3. HeldOf(b, n) = (HeldOf(a, n) (-) SetToBag({a[p]})) (+) SetToBag({v})
  BY <1>2, HeldExchange
<1> QED
  BY <1>1, <1>3

LEMMA TopIsGreatest ==
  ASSUME NEW m \in Nat, NEW n \in 0..m, NEW a \in [0..(m - 1) -> Values], Heap(a, n),
         NEW p \in 0..(n - 1)
  PROVE  a[p] <= a[0]
<1> DEFINE T == {k \in Nat : \A j \in 0..(n - 1) : j <= k => a[j] <= a[0]}
<1>1. \A j \in 0..(n - 1) : a[j] \in Nat
  BY ValuesAreNat
<1>2. 0 \in T
  <2>1. ASSUME NEW j \in 0..(n - 1), j <= 0 PROVE a[j] <= a[0]
    <3>1. j = 0
      BY <2>1
    <3> QED
      BY <1>1, <3>1
  <2> QED
    BY <2>1
<1>3. ASSUME NEW k \in Nat, k \in T PROVE k + 1 \in T
  <2> SUFFICES ASSUME NEW j \in 0..(n - 1), j <= k + 1 PROVE a[j] <= a[0]
    OBVIOUS
  <2>1. CASE j <= k
    BY <1>3, <2>1
  <2>2. CASE j = k + 1
    <3>1. parent(j) \in 0..k /\ parent(j) \in 0..(n - 1) /\ j \in 1..(n - 1)
      BY <2>2, ParentIs
    <3>2. a[parent(j)] <= a[0]
      BY <1>3, <3>1
    <3>3. a[j] <= a[parent(j)]
      BY <3>1 DEF Heap
    <3>4. a[j] \in Nat /\ a[parent(j)] \in Nat /\ a[0] \in Nat
      BY <1>1, <3>1
    <3> HIDE DEF T
    <3> QED
      BY <3>2, <3>3, <3>4
  <2> QED
    BY <2>1, <2>2
<1>4. Nat \subseteq T
  <2> HIDE DEF T
  <2> QED
    BY <1>2, <1>3, SetInduction
<1>5. p \in T
  BY <1>4
<1> QED
  BY <1>5

-----------------------------------------------------------------------------
(* The operations. *)

TypeInv ==
  /\ maxSize \in Sizes /\ method \in {"add", "add2"}
  /\ heapified \in BOOLEAN /\ polled \in BOOLEAN
  /\ length \in 0..maxSize /\ size \in 0..length
  /\ array \in [0..(length - 1) -> Values]

LEMMA TypeFacts ==
  ASSUME TypeInv
  PROVE  /\ maxSize \in Nat \ {0} /\ length \in Nat /\ size \in Nat
         /\ size \in 0..length /\ length <= maxSize /\ length \in 0..maxSize
         /\ array \in [0..(length - 1) -> Values]
BY PriorityQueueAssumption DEF TypeInv

LEMMA LengthIs ==
  ASSUME NEW m \in Nat, NEW a \in [0..(m - 1) -> Values]
  PROVE  Cardinality(DOMAIN a) = m
BY FS_Interval

LEMMA HeapIs ==
  ASSUME NEW m \in Nat, NEW n \in 0..m, NEW a \in [0..(m - 1) -> Values]
  PROVE  Heap(a, n) <=> \A j \in 1..(n - 1) : ~compare(a[j], a[parent(j)])
<1>1. ASSUME NEW j \in 1..(n - 1) PROVE a[j] <= a[parent(j)] <=> ~compare(a[j], a[parent(j)])
  <2>1. j \in 0..(m - 1) /\ parent(j) \in 0..(m - 1)
    BY ParentIs
  <2>2. a[j] \in Nat /\ a[parent(j)] \in Nat
    BY <2>1, ValuesAreNat
  <2> QED
    BY <2>2 DEF compare
<1> QED
  BY <1>1 DEF Heap

LEMMA OrderIs ==
  ASSUME TypeInv
  PROVE  /\ IsHeap <=> Heap(array, size)
         /\ HeapOrder <=> (method = "add" \/ size = maxSize => Heap(array, size))
BY TypeFacts, HeapIs DEF IsHeap, HeapOrder

LEMMA OrderIsNext ==
  ASSUME TypeInv'
  PROVE  HeapOrder' <=> (method' = "add" \/ size' = maxSize' => Heap(array', size'))
<1>1. length' \in Nat /\ size' \in 0..length' /\ array' \in [0..(length' - 1) -> Values]
  <2>1. /\ maxSize' \in Sizes /\ length' \in 0..maxSize' /\ size' \in 0..length'
        /\ array' \in [0..(length' - 1) -> Values]
    BY DEF TypeInv
  <2>2. maxSize' \in Nat
    BY <2>1, PriorityQueueAssumption
  <2>3. length' \in Nat
    BY <2>1, <2>2
  <2> QED
    BY <2>1, <2>3
<1> QED
  BY <1>1, HeapIs DEF IsHeap, HeapOrder

Fits(a, n) == \E m \in Nat : m <= maxSize /\ n \in 0..m /\ a \in [0..(m - 1) -> Values]

LEMMA TypeKept ==
  ASSUME TypeInv, Fits(array', size'), UNCHANGED maxSize, UNCHANGED method,
         heapified' \in BOOLEAN, polled' \in BOOLEAN
  PROVE  TypeInv'
<1>1. PICK m \in Nat : m <= maxSize /\ size' \in 0..m /\ array' \in [0..(m - 1) -> Values]
  BY DEF Fits
<1>2. length' = m
  BY <1>1, LengthIs DEF length
<1>3. length' \in 0..maxSize' /\ size' \in 0..length' /\ array' \in [0..(length' - 1) -> Values]
  BY <1>1, <1>2, TypeFacts
<1>4. maxSize' \in Sizes /\ method' \in {"add", "add2"}
  BY DEF TypeInv
<1> QED
  BY <1>3, <1>4 DEF TypeInv

\* v is put behind the first i values.
LEMMA PlaceNumber ==
  ASSUME NEW n \in Nat, NEW a \in [0..(n - 1) -> Values], NEW i \in 0..n, NEW v, NEW x
  PROVE  Number(Put(a, i, v), i + 1, x) = Number(a, i, x) + Bit(v, x)
<1> DEFINE f == Put(a, i, v)
<1>1. f[i] = v /\ i \in Nat
  BY PutThere
<1>2. \A j \in 0..(i - 1) : f[j] = a[j]
  <2>1. ASSUME NEW j \in 0..(i - 1) PROVE f[j] = a[j]
    <3>1. j \in DOMAIN a /\ j # i
      OBVIOUS
    <3> QED
      BY <3>1, PutElsewhere
  <2> QED
    BY <2>1
<1> HIDE DEF f
<1>3. Number(f, i, x) = Number(a, i, x)
  BY <1>1, <1>2, NumberOfSame
<1>4. Number(f, i + 1, x) = Number(f, i, x) + Bit(f[i], x)
  BY <1>1, NumberOfNext
<1> QED
  BY <1>1, <1>3, <1>4 DEF f

LEMMA PlaceFits ==
  ASSUME NEW n \in Nat, NEW a \in [0..(n - 1) -> Values], NEW i \in 0..n, NEW v \in Values
  PROVE  \E m \in Nat : m \in n..(n + 1) /\ i + 1 \in 0..m /\ (m = n + 1 => i = n)
                        /\ Put(a, i, v) \in [0..(m - 1) -> Values]
<1>1. CASE i = n
  <2>1. Put(a, n, v) \in [0..n -> Values]
    BY PutAppends
  <2>2. (n + 1) - 1 = n /\ n + 1 \in Nat
    OBVIOUS
  <2> QED
    BY <1>1, <2>1, <2>2
<1>2. CASE i < n
  <2>1. i \in 0..(n - 1)
    BY <1>2
  <2>2. Put(a, i, v) \in [0..(n - 1) -> Values]
    BY <2>1, PutIs
  <2> QED
    BY <1>2, <2>2
<1> QED
  BY <1>1, <1>2

\* What the loops do to a queue.
LEMMA AddFits ==
  ASSUME TypeInv, Heap(array, size), size < maxSize, NEW v \in Values
  PROVE  /\ Fits(percolateUp(array, size, v), size + 1)
         /\ Heap(percolateUp(array, size, v), size + 1)
         /\ \A x : Number(percolateUp(array, size, v), size + 1, x) = Number(array, size, x) + Bit(v, x)
<1> DEFINE n == length
           i == size
           m == IF i = n THEN n + 1 ELSE n
           f == Put(array, i, v)
           r == percolateUp(array, i, v)
<1>1. n \in Nat /\ i \in 0..n /\ i \in Nat /\ array \in [0..(n - 1) -> Values] /\ n <= maxSize
      /\ maxSize \in Nat
  BY TypeFacts
<1>2. \A j \in 1..(i - 1) : array[j] <= array[parent(j)]
  BY DEF Heap
<1> HIDE DEF n
<1>3. /\ r \in [0..((IF i = n THEN n + 1 ELSE n) - 1) -> Values]
      /\ \A x : Number(r, i + 1, x) = Number(f, i + 1, x)
      /\ \A j \in 1..i : r[j] <= r[parent(j)]
  <2> HIDE DEF i
  <2> QED
    BY <1>1, <1>2, PercolateUp
<1>4. \A x : Number(f, i + 1, x) = Number(array, i, x) + Bit(v, x)
  <2> HIDE DEF i
  <2> QED
    BY <1>1, PlaceNumber
<1>5. m \in Nat /\ m <= maxSize /\ i + 1 \in 0..m
  BY <1>1
<1> HIDE DEF r, f
<1>6. Fits(r, i + 1)
  <2> HIDE DEF i
  <2> QED
    BY <1>3, <1>5 DEF Fits
<1>7. Heap(r, i + 1)
  BY <1>1, <1>3 DEF Heap
<1> QED
  BY <1>3, <1>4, <1>6, <1>7 DEF r

LEMMA TopNumber ==
  ASSUME NEW m \in Nat, NEW n \in 0..m, 0 < n, NEW a \in [0..(m - 1) -> Values], NEW v, NEW x
  PROVE  Number(Put(a, 0, v), n, x) = Number(a, n, x) - Bit(a[0], x) + Bit(v, x)
<1> DEFINE f == Put(a, 0, v)
<1>1. f[0] = v
  BY PutThere
<1>2. \A j \in 0..(n - 1) : j # 0 => f[j] = a[j]
  <2>1. ASSUME NEW j \in 0..(n - 1), j # 0 PROVE f[j] = a[j]
    <3>1. j \in DOMAIN a
      OBVIOUS
    <3> QED
      BY <2>1, <3>1, PutElsewhere
  <2> QED
    BY <2>1
<1>3. n \in Nat /\ 0 \in 0..(n - 1)
  OBVIOUS
<1> HIDE DEF f
<1>4. Number(f, n, x) = Number(a, n, x) - Bit(a[0], x) + Bit(f[0], x)
  BY <1>2, <1>3, NumberOfPut
<1> QED
  BY <1>1, <1>4 DEF f

\* v takes the place of the top of the first n values.
LEMMA TopFits ==
  ASSUME NEW m \in Nat, m <= maxSize, NEW n \in 1..m, NEW a \in [0..(m - 1) -> Values],
         NEW v \in Values
  PROVE  /\ Fits(percolateDown(a, n, 0, v), n)
         /\ OrderedAfter(a, n, 0) => Heap(percolateDown(a, n, 0, v), n)
         /\ \A x : Number(percolateDown(a, n, 0, v), n, x) = Number(a, n, x) - Bit(a[0], x) + Bit(v, x)
<1> DEFINE f == Put(a, 0, v)
           r == percolateDown(a, n, 0, v)
<1>1. n \in 0..m /\ n \in Nat /\ 0 < n /\ 0 \in 0..(n - 1)
  OBVIOUS
<1>2. /\ r \in [0..(m - 1) -> Values]
      /\ \A x : Number(r, n, x) = Number(f, n, x)
      /\ OrderedAfter(a, n, 0) => \A j \in 1..(n - 1) : parent(j) >= 0 => r[j] <= r[parent(j)]
  BY <1>1, PercolateDown
<1>3. \A x : Number(f, n, x) = Number(a, n, x) - Bit(a[0], x) + Bit(v, x)
  BY <1>1, TopNumber
<1> HIDE DEF r, f
<1>4. Fits(r, n)
  BY <1>1, <1>2 DEF Fits
<1>5. OrderedAfter(a, n, 0) => Heap(r, n)
  <2>1. \A j \in 1..(n - 1) : parent(j) >= 0
    BY ParentIs
  <2> QED
    BY <1>2, <2>1 DEF Heap
<1> QED
  BY <1>2, <1>3, <1>4, <1>5 DEF r

\* The whole array is made a heap, whatever it was.
LEMMA HeapifyFits ==
  ASSUME NEW n \in Nat \ {0}, n <= maxSize, NEW a \in [0..(n - 1) -> Values]
  PROVE  /\ Fits(heapify(a), n) /\ Heap(heapify(a), n)
         /\ \A x : Number(heapify(a), n, x) = Number(a, n, x)
<1> DEFINE r == heapify(a)
<1>1. /\ r \in [0..(n - 1) -> Values]
      /\ \A x : Number(r, n, x) = Number(a, n, x)
      /\ \A j \in 1..(n - 1) : r[j] <= r[parent(j)]
  BY HeapifyIs
<1> HIDE DEF r
<1>2. n \in 0..n
  OBVIOUS
<1> QED
  BY <1>1, <1>2 DEF Fits, Heap, r

\* v takes the place of the top, which moves behind the first i values.
LEMMA TopMoves ==
  ASSUME NEW n \in Nat, 0 < n, NEW a \in [0..(n - 1) -> Values], NEW i \in 0..n, NEW v \in Values
  PROVE  /\ \E m \in Nat : m \in n..(n + 1) /\ i + 1 \in 0..m /\ (m = n + 1 => i = n)
                           /\ Put(Put(a, i, a[0]), 0, v) \in [0..(m - 1) -> Values]
         /\ \A x : Number(Put(Put(a, i, a[0]), 0, v), i + 1, x) = Number(a, i, x) + Bit(v, x)
<1> DEFINE u == a[0]
           c == Put(a, i, u)
           b == Put(c, 0, v)
<1>1. u \in Values /\ 0 \in DOMAIN a
  OBVIOUS
<1>2. c[0] = u
  <2> HIDE DEF u
  <2>1. CASE i = 0
    BY <2>1, PutThere
  <2>2. CASE i # 0
    <3>1. c[0] = a[0]
      BY <1>1, <2>2, PutElsewhere
    <3> QED
      BY <3>1 DEF u
  <2> QED
    BY <2>1, <2>2
<1> HIDE DEF u
<1>3. PICK m \in Nat : m \in n..(n + 1) /\ i + 1 \in 0..m /\ (m = n + 1 => i = n)
                       /\ c \in [0..(m - 1) -> Values]
  BY <1>1, PlaceFits
<1>4. \A x : Number(c, i + 1, x) = Number(a, i, x) + Bit(u, x)
  BY <1>1, PlaceNumber
<1> HIDE DEF c
<1>5. \A x : Number(b, i + 1, x) = Number(c, i + 1, x) - Bit(c[0], x) + Bit(v, x)
  <2>1. 0 < i + 1
    OBVIOUS
  <2> QED
    BY <1>3, <2>1, TopNumber
<1>6. b \in [0..(m - 1) -> Values]
  <2>1. 0 \in 0..(m - 1)
    BY <1>3
  <2> QED
    BY <1>3, <2>1, PutIs
<1> HIDE DEF b
<1>7. \A x : Number(b, i + 1, x) = Number(a, i, x) + Bit(v, x)
  <2> SUFFICES ASSUME NEW x PROVE Number(b, i + 1, x) = Number(a, i, x) + Bit(v, x)
    OBVIOUS
  <2>1. /\ Number(b, i + 1, x) = Number(c, i + 1, x) - Bit(u, x) + Bit(v, x)
        /\ Number(c, i + 1, x) = Number(a, i, x) + Bit(u, x)
    BY <1>2, <1>4, <1>5
  <2>2. Number(a, i, x) \in Nat /\ Bit(u, x) \in Nat /\ Bit(v, x) \in Nat
    <3>1. i \in Nat
      OBVIOUS
    <3> QED
      BY <3>1, NumberIsNat DEF Bit
  <2> QED
    BY <2>1, <2>2
<1> QED
  BY <1>3, <1>6, <1>7 DEF b, c, u

LEMMA StackedFits ==
  ASSUME TypeInv, size < maxSize, NEW v \in Values
  PROVE  /\ \E m \in Nat : m <= maxSize /\ size + 1 \in 0..m /\ Stacked(v) \in [0..(m - 1) -> Values]
         /\ \A x : Number(Stacked(v), size + 1, x) = Number(array, size, x) + Bit(v, x)
<1>1. PICK n \in Nat : n = length
  BY TypeFacts
<1>2. PICK i \in 0..n : i = size
  BY <1>1, TypeFacts
<1>3. PICK a \in [0..(n - 1) -> Values] : a = array
  BY <1>1, TypeFacts
<1>4. maxSize \in Nat /\ n <= maxSize /\ i < maxSize
  BY <1>1, <1>2, TypeFacts
<1>5. CASE array # [k \in {} |-> 0] /\ compare(v, array[0])
  <2>1. 0 < n
    <3>1. n = 0 => a = [k \in {} |-> 0]
      OBVIOUS
    <3> QED
      BY <1>3, <1>5, <3>1
  <2>2. Stacked(v) = Put(Put(a, i, a[0]), 0, v)
    BY <1>2, <1>3, <1>5 DEF Stacked
  <2>3. PICK m \in Nat : m \in n..(n + 1) /\ i + 1 \in 0..m /\ (m = n + 1 => i = n)
                         /\ Put(Put(a, i, a[0]), 0, v) \in [0..(m - 1) -> Values]
    BY <2>1, TopMoves
  <2>4. \A x : Number(Put(Put(a, i, a[0]), 0, v), i + 1, x) = Number(a, i, x) + Bit(v, x)
    BY <2>1, TopMoves
  <2>5. m <= maxSize
    BY <1>4, <2>3
  <2> QED
    BY <1>2, <1>3, <2>2, <2>3, <2>4, <2>5
<1>6. CASE ~(array # [k \in {} |-> 0] /\ compare(v, array[0]))
  <2>1. Stacked(v) = Put(a, i, v)
    BY <1>2, <1>3, <1>6 DEF Stacked
  <2>2. PICK m \in Nat : m \in n..(n + 1) /\ i + 1 \in 0..m /\ (m = n + 1 => i = n)
                         /\ Put(a, i, v) \in [0..(m - 1) -> Values]
    BY PlaceFits
  <2>3. \A x : Number(Put(a, i, v), i + 1, x) = Number(a, i, x) + Bit(v, x)
    BY PlaceNumber
  <2>4. m <= maxSize
    BY <1>4, <2>2
  <2> QED
    BY <1>2, <1>3, <2>1, <2>2, <2>3, <2>4
<1> QED
  BY <1>5, <1>6

-----------------------------------------------------------------------------
(* The invariant of the array, and what each operation does to the bag. *)

QueueInv == TypeInv /\ HeapOrder

LEMMA QueueKept ==
  ASSUME TypeInv, Fits(array', size'), UNCHANGED maxSize, UNCHANGED method,
         heapified' \in BOOLEAN, polled' \in BOOLEAN,
         method = "add" \/ size' = maxSize => Heap(array', size')
  PROVE  QueueInv'
<1>1. TypeInv'
  BY TypeKept
<1>2. HeapOrder'
  BY <1>1, OrderIsNext
<1> QED
  BY <1>1, <1>2 DEF QueueInv

\* A queue that is not full.
LEMMA GrowStep ==
  ASSUME QueueInv, NEW v \in Values, add(v) \/ add2(v), size < maxSize
  PROVE  QueueInv' /\ size' = size + 1 /\ Held' = Held (+) SetToBag({v})
<1> DEFINE Grown == \A x : Number(array', size', x) = Number(array, size, x) + Bit(v, x)
           Good  == /\ Fits(array', size') /\ Grown
                    /\ method = "add" \/ size' = maxSize => Heap(array', size')
<1>1. TypeInv /\ HeapOrder
  BY DEF QueueInv
<1>2. /\ maxSize \in Nat \ {0} /\ length \in Nat /\ size \in Nat
      /\ size \in 0..length /\ length <= maxSize
  BY <1>1, TypeFacts
<1>3. size # maxSize
  BY <1>2
<1>4. maxSize' = maxSize /\ method' = method /\ polled' = polled
  BY DEF add, add2, client
<1>5. size' = size + 1 /\ heapified' \in BOOLEAN /\ Good
  <2>1. CASE add(v)
    <3>1. method = "add" /\ array' = percolateUp(array, size, v) /\ heapified' = heapified
          /\ size' = size + 1
      BY <1>3, <2>1 DEF add, Replace
    <3>2. Heap(array, size)
      BY <1>1, <3>1, OrderIs
    <3>3. Fits(array', size') /\ Heap(array', size') /\ Grown
      BY <1>1, <3>1, <3>2, AddFits
    <3> QED
      BY <1>1, <3>1, <3>3 DEF TypeInv
  <2>2. CASE add2(v)
    <3>1. method = "add2" /\ size' = size + 1
      BY <1>3, <2>2 DEF add2, Replace
    <3>2. PICK m \in Nat : m <= maxSize /\ size + 1 \in 0..m /\ Stacked(v) \in [0..(m - 1) -> Values]
      BY <1>1, StackedFits
    <3>3. \A x : Number(Stacked(v), size + 1, x) = Number(array, size, x) + Bit(v, x)
      BY <1>1, StackedFits
    <3>4. CASE size + 1 = maxSize
      <4>1. array' = heapify(Stacked(v)) /\ heapified' = TRUE
        BY <1>3, <2>2, <3>4 DEF add2, Replace
      <4>2. m = maxSize
        BY <1>2, <3>2, <3>4
      <4>3. /\ Fits(heapify(Stacked(v)), m) /\ Heap(heapify(Stacked(v)), m)
            /\ \A x : Number(heapify(Stacked(v)), m, x) = Number(Stacked(v), m, x)
        BY <1>2, <3>2, <4>2, HeapifyFits
      <4>4. size' = m
        BY <3>1, <3>4, <4>2
      <4>5. Grown
        BY <3>1, <3>3, <4>1, <4>3, <4>4
      <4> HIDE DEF Grown
      <4> QED
        BY <3>1, <4>1, <4>3, <4>4, <4>5
    <3>5. CASE size + 1 # maxSize
      <4>1. array' = Stacked(v) /\ heapified' = heapified
        BY <1>3, <2>2, <3>5 DEF add2, Replace
      <4>2. Fits(array', size')
        BY <3>1, <3>2, <4>1 DEF Fits
      <4>3. Grown
        BY <3>1, <3>3, <4>1
      <4> HIDE DEF Grown
      <4> QED
        BY <1>1, <3>1, <3>5, <4>1, <4>2, <4>3 DEF TypeInv
    <3> QED
      BY <3>4, <3>5
  <2> QED
    BY <2>1, <2>2
<1>6. QueueInv'
  <2>1. polled' \in BOOLEAN
    BY <1>1, <1>4 DEF TypeInv
  <2> HIDE DEF Grown
  <2> QED
    BY <1>1, <1>4, <1>5, <2>1, QueueKept
<1>7. HeldOf(array', size') = HeldOf(array, size) (+) SetToBag({v})
  <2>1. size' \in Nat
    BY <1>2, <1>5
  <2> QED
    BY <1>2, <1>5, <2>1, HeldMore
<1> QED
  BY <1>5, <1>6, <1>7, HeldIs

\* A full queue.
LEMMA ReplaceStep ==
  ASSUME QueueInv, NEW v \in Values, add(v) \/ add2(v), size = maxSize
  PROVE  /\ QueueInv' /\ size' = size
         /\ IF v > array[0] THEN Held' = Held
            ELSE Held' = (Held (+) SetToBag({v})) (-) SetToBag({array[0]})
<1>1. TypeInv /\ HeapOrder
  BY DEF QueueInv
<1>2. /\ maxSize \in Nat \ {0} /\ length \in Nat /\ size \in Nat
      /\ size \in 0..length /\ length <= maxSize /\ array \in [0..(length - 1) -> Values]
  BY <1>1, TypeFacts
<1>3. ~(size < maxSize)
  BY <1>2
<1>4. /\ maxSize' = maxSize /\ method' = method /\ polled' = polled
      /\ size' = size /\ heapified' = heapified
      /\ array' = IF ~compare(v, array[0]) THEN percolateDown(array, size, 0, v) ELSE array
  BY <1>3 DEF add, add2, client, Replace
<1>5. Heap(array, size)
  BY <1>1, OrderIs
<1>6. heapified' \in BOOLEAN /\ polled' \in BOOLEAN
  BY <1>1, <1>4 DEF TypeInv
<1>7. CASE v > array[0]
  <2>1. array' = array
    BY <1>4, <1>7 DEF compare
  <2>2. Fits(array', size')
    BY <1>2, <1>4, <2>1 DEF Fits
  <2>3. QueueInv'
    BY <1>1, <1>4, <1>5, <1>6, <2>1, <2>2, QueueKept
  <2> QED
    BY <1>4, <1>7, <2>1, <2>3, HeldIs
<1>8. CASE ~(v > array[0])
  <2>1. array' = percolateDown(array, size, 0, v)
    BY <1>4, <1>8 DEF compare
  <2>2. PICK m \in Nat : m = length
    BY <1>2
  <2>3. OrderedAfter(array, size, 0)
    BY <1>5 DEF Heap, OrderedAfter
  <2>4. m <= maxSize /\ size \in 1..m /\ array \in [0..(m - 1) -> Values]
    BY <1>2, <2>2
  <2>5. /\ Fits(array', size) /\ Heap(array', size)
        /\ \A x : Number(array', size, x) = Number(array, size, x) - Bit(array[0], x) + Bit(v, x)
    BY <2>1, <2>3, <2>4, TopFits
  <2>6. QueueInv'
    BY <1>1, <1>4, <1>6, <2>5, QueueKept
  <2>7. 0 \in 0..(size - 1)
    BY <1>2
  <2>8. HeldOf(array', size) = (HeldOf(array, size) (+) SetToBag({v})) (-) SetToBag({array[0]})
    BY <1>2, <2>5, <2>7, HeldExchange
  <2> QED
    BY <1>4, <1>8, <2>6, <2>8, HeldIs
<1> QED
  BY <1>7, <1>8

LEMMA TrimStep ==
  ASSUME QueueInv, trim
  PROVE  QueueInv' /\ size' = size /\ Held' = Held
<1>1. TypeInv /\ HeapOrder
  BY DEF QueueInv
<1>2. /\ maxSize \in Nat \ {0} /\ length \in Nat /\ size \in Nat
      /\ size \in 0..length /\ length <= maxSize /\ array \in [0..(length - 1) -> Values]
  BY <1>1, TypeFacts
<1>3. /\ maxSize' = maxSize /\ method' = method /\ polled' = polled
      /\ size' = size /\ heapified' = heapified
      /\ array' = [i \in 0..(size - 1) |-> array[i]]
  BY DEF trim, client
<1>4. heapified' \in BOOLEAN /\ polled' \in BOOLEAN
  BY <1>1, <1>3 DEF TypeInv
<1>5. \A j \in 0..(size - 1) : array'[j] = array[j] /\ array[j] \in Values
  BY <1>2, <1>3
<1>6. array' \in [0..(size - 1) -> Values]
  BY <1>3, <1>5
<1>7. Fits(array', size')
  BY <1>2, <1>3, <1>6 DEF Fits
<1>8. Heap(array, size) => Heap(array', size')
  <2>1. \A j \in 1..(size - 1) : j \in 0..(size - 1) /\ parent(j) \in 0..(size - 1)
    BY <1>2, ParentIs
  <2> QED
    BY <1>3, <1>5, <2>1 DEF Heap
<1>9. QueueInv'
  BY <1>1, <1>3, <1>4, <1>7, <1>8, OrderIs, QueueKept
<1>10. HeldOf(array', size) = HeldOf(array, size)
  <2>1. /\ IsABag(HeldOf(array, size))
        /\ \A x : Amount(HeldOf(array, size), x) = Number(array, size, x)
    BY <1>2, HeldAmount
  <2>2. /\ IsABag(HeldOf(array', size))
        /\ \A x : Amount(HeldOf(array', size), x) = Number(array', size, x)
    BY <1>2, HeldAmount
  <2>3. ASSUME NEW x PROVE Number(array', size, x) = Number(array, size, x)
    <3>1. size \in Nat /\ \A j \in 0..(size - 1) : array'[j] = array[j]
      BY <1>2, <1>5
    <3> QED
      BY <3>1, NumberOfSame
  <2> QED
    BY <2>1, <2>2, <2>3, SameBag
<1> QED
  BY <1>3, <1>9, <1>10, HeldIs

\* A poll of one value empties the queue.
LEMMA PollOneStep ==
  ASSUME QueueInv, poll, size = 1
  PROVE  /\ QueueInv' /\ size' = 0
         /\ Held' = Held (-) SetToBag({array[0]})
<1>1. TypeInv /\ HeapOrder
  BY DEF QueueInv
<1>2. /\ maxSize \in Nat \ {0} /\ length \in Nat
      /\ size \in 0..length /\ length <= maxSize /\ array \in [0..(length - 1) -> Values]
  BY <1>1, TypeFacts
<1>3. /\ maxSize' = maxSize /\ method' = method /\ polled' = TRUE
      /\ size' = 0 /\ heapified' = heapified /\ array' = array
  BY DEF poll, pollOne, pollMany
<1>4. heapified' \in BOOLEAN /\ polled' \in BOOLEAN
  BY <1>1, <1>3 DEF TypeInv
<1>5. Fits(array', size')
  BY <1>2, <1>3 DEF Fits
<1>6. Heap(array', size')
  BY <1>3 DEF Heap
<1>7. QueueInv'
  BY <1>1, <1>3, <1>4, <1>5, <1>6, QueueKept
<1>8. ASSUME NEW x PROVE Number(array, 0, x) = Number(array, 1, x) - Bit(array[0], x)
  <2>1. Number(array, 0 + 1, x) = Number(array, 0, x) + Bit(array[0], x)
    BY NumberOfNext
  <2>2. Number(array, 0, x) \in Nat /\ Bit(array[0], x) \in Nat
    BY NumberIsNat DEF Bit
  <2> QED
    BY <2>1, <2>2
<1>9. HeldOf(array, 0) = HeldOf(array, 1) (-) SetToBag({array[0]})
  <2>1. 0 \in 0..(1 - 1)
    OBVIOUS
  <2> QED
    BY <1>8, <2>1, HeldLess
<1> QED
  BY <1>3, <1>7, <1>9, HeldIs

\* A poll that finds the heap its flag promises.
LEMMA PollHeapifiedStep ==
  ASSUME QueueInv, poll, size > 1, heapified
  PROVE  /\ QueueInv' /\ size' = size - 1
         /\ Held' = Held (-) SetToBag({array[0]})
<1>1. TypeInv /\ HeapOrder
  BY DEF QueueInv
<1>2. PICK m \in Nat : m = length
  BY <1>1, TypeFacts
<1>3. PICK a \in [0..(m - 1) -> Values] : a = array
  BY <1>1, <1>2, TypeFacts
<1>4. PICK n \in Nat : n = size
  BY <1>1, TypeFacts
<1>5. n > 1 /\ n <= m /\ m <= maxSize /\ maxSize \in Nat
  BY <1>1, <1>2, <1>4, TypeFacts
<1> DEFINE b == Put(a, 0, a[n - 1])
           r == percolateDown(b, n - 1, 0, b[0])
<1>6. b \in [0..(m - 1) -> Values] /\ b[0] = a[n - 1] /\ b[0] \in Values
  <2>1. 0 \in 0..(m - 1) /\ n - 1 \in 0..(m - 1)
    BY <1>5
  <2>2. a[n - 1] \in Values
    BY <2>1
  <2> QED
    BY <2>1, <2>2, PutIs, PutThere
<1>7. array' = r /\ size' = n - 1 /\ heapified' = heapified /\ polled' = TRUE
      /\ maxSize' = maxSize /\ method' = method
  <2>1. /\ array' = percolateDown(Put(array, 0, array[size - 1]), size - 1, 0,
                                Put(array, 0, array[size - 1])[0])
        /\ size' = size - 1 /\ heapified' = heapified
    <3>1. pollMany
      <4>1. size # 1
        BY <1>4, <1>5
      <4> QED
        BY <4>1 DEF poll, pollOne
    <3> QED
      BY <3>1 DEF pollMany
  <2>2. polled' = TRUE /\ maxSize' = maxSize /\ method' = method
    BY DEF poll
  <2> QED
    BY <1>3, <1>4, <2>1, <2>2
<1>8. \A j \in 1..(n - 1) : b[j] = a[j]
  <2>1. ASSUME NEW j \in 1..(n - 1) PROVE b[j] = a[j]
    <3>1. j \in DOMAIN a /\ j # 0
      BY <1>5
    <3> QED
      BY <3>1, PutElsewhere
  <2> QED
    BY <2>1
<1>9. Heap(a, n) => OrderedAfter(b, n - 1, 0)
  <2> SUFFICES ASSUME Heap(a, n), NEW j \in 1..(n - 2), parent(j) > 0
               PROVE  b[j] <= b[parent(j)]
    BY <1>5 DEF OrderedAfter
  <2>1. j \in 1..(n - 1) /\ parent(j) \in 1..(n - 1)
    <3>1. j \in Nat \ {0} /\ j <= n - 2
      BY <1>5
    <3>2. parent(j) \in 0..(j - 1)
      BY <3>1, ParentIs
    <3> QED
      BY <1>5, <3>1, <3>2
  <2>2. a[j] <= a[parent(j)]
    BY <2>1 DEF Heap
  <2> QED
    BY <1>8, <2>1, <2>2
<1> HIDE DEF b
<1>10. n - 1 \in 1..m
  BY <1>5
<1>11. /\ Fits(r, n - 1)
       /\ OrderedAfter(b, n - 1, 0) => Heap(r, n - 1)
       /\ \A x : Number(r, n - 1, x) = Number(b, n - 1, x) - Bit(b[0], x) + Bit(b[0], x)
  BY <1>5, <1>6, <1>10, TopFits
<1> HIDE DEF r
<1>12. QueueInv'
  <2>1. ASSUME method = "add" \/ n - 1 = maxSize PROVE Heap(r, n - 1)
    <3>1. method = "add"
      BY <1>5, <2>1
    <3>2. Heap(a, n)
      BY <1>1, <1>3, <1>4, <3>1, OrderIs
    <3> QED
      BY <1>9, <1>11, <3>2
  <2>2. heapified' \in BOOLEAN /\ polled' \in BOOLEAN
    BY <1>1, <1>7 DEF TypeInv
  <2> QED
    BY <1>1, <1>7, <1>11, <2>1, <2>2, QueueKept
<1>13. ASSUME NEW x PROVE Number(r, n - 1, x) = Number(a, n, x) - Bit(a[0], x)
  <2>1. Number(b, n, x) = Number(a, n, x) - Bit(a[0], x) + Bit(a[n - 1], x)
    <3>1. n \in 0..m /\ 0 < n
      BY <1>5
    <3> QED
      BY <3>1, TopNumber DEF b
  <2>2. Number(b, (n - 1) + 1, x) = Number(b, n - 1, x) + Bit(b[n - 1], x)
    <3>1. n - 1 \in Nat
      BY <1>5
    <3> QED
      BY <3>1, NumberOfNext
  <2>3. b[n - 1] = a[n - 1] /\ (n - 1) + 1 = n
    BY <1>5, <1>8
  <2>4. Number(r, n - 1, x) = Number(b, n - 1, x) - Bit(b[0], x) + Bit(b[0], x)
    BY <1>11
  <2>5. Number(b, n - 1, x) \in Nat /\ Number(a, n, x) \in Nat
    <3>1. n - 1 \in Nat
      BY <1>5
    <3> QED
      BY <3>1, NumberIsNat
  <2>6. Bit(b[0], x) \in Nat /\ Bit(a[0], x) \in Nat /\ Bit(a[n - 1], x) \in Nat
    BY DEF Bit
  <2>7. Number(r, n - 1, x) = Number(b, n - 1, x)
    BY <2>4, <2>5, <2>6
  <2>8. Number(b, n, x) = Number(b, n - 1, x) + Bit(a[n - 1], x)
    BY <2>2, <2>3
  <2> QED
    BY <2>1, <2>5, <2>6, <2>7, <2>8
<1>14. HeldOf(r, n - 1) = HeldOf(a, n) (-) SetToBag({a[0]})
  <2>1. 0 \in 0..(n - 1) /\ n - 1 \in Nat
    BY <1>5
  <2> QED
    BY <1>13, <2>1, HeldLess
<1> QED
  BY <1>3, <1>4, <1>7, <1>12, <1>14, HeldIs

\* A poll that heapifies first, and so keeps the last value in two places.
LEMMA PollPlainStep ==
  ASSUME QueueInv, poll, size > 1, ~heapified
  PROVE  /\ QueueInv' /\ size' = length
         /\ length = size =>
              Held' = (Held (-) SetToBag({array[0]})) (+) SetToBag({array[size - 1]})
<1>1. TypeInv /\ HeapOrder
  BY DEF QueueInv
<1>2. PICK m \in Nat : m = length
  BY <1>1, TypeFacts
<1>3. PICK a : a = array /\ a \in [0..(m - 1) -> Values]
  BY <1>1, <1>2, TypeFacts
<1>4. PICK n \in Nat : n = size
  BY <1>1, TypeFacts
<1>5. n > 1 /\ n <= m /\ m <= maxSize /\ maxSize \in Nat
  BY <1>1, <1>2, <1>4, TypeFacts
<1> DEFINE b == Put(a, 0, a[n - 1])
           r == heapify(b)
<1>6. b \in [0..(m - 1) -> Values]
  <2>1. 0 \in 0..(m - 1) /\ n - 1 \in 0..(m - 1)
    BY <1>5
  <2>2. a[n - 1] \in Values
    BY <1>3, <2>1
  <2> QED
    BY <1>3, <2>1, <2>2, PutIs
<1>7. array' = r /\ size' = m /\ heapified' = TRUE /\ polled' = TRUE
      /\ maxSize' = maxSize /\ method' = method
  BY <1>2, <1>3, <1>4 DEF poll, pollMany, pollOne
<1> HIDE DEF b
<1>8. /\ Fits(r, m) /\ Heap(r, m)
      /\ \A x : Number(r, m, x) = Number(b, m, x)
  <2>1. m \in Nat \ {0}
    BY <1>5
  <2> QED
    BY <1>5, <1>6, <2>1, HeapifyFits
<1> HIDE DEF r
<1>9. QueueInv'
  <2>1. heapified' \in BOOLEAN /\ polled' \in BOOLEAN
    BY <1>7
  <2> QED
    BY <1>1, <1>7, <1>8, <2>1, QueueKept
<1>10. ASSUME NEW x PROVE Number(r, m, x) = Number(a, m, x) - Bit(a[0], x) + Bit(a[n - 1], x)
  <2>1. m \in 0..m /\ 0 < m
    BY <1>5
  <2>2. Number(b, m, x) = Number(a, m, x) - Bit(a[0], x) + Bit(a[n - 1], x)
    BY <1>3, <2>1, TopNumber DEF b
  <2> QED
    BY <1>8, <2>2
<1>11. HeldOf(r, m) = (HeldOf(a, m) (-) SetToBag({a[0]})) (+) SetToBag({a[n - 1]})
  <2>1. 0 < m
    BY <1>5
  <2> QED
    BY <1>10, <2>1, HeldSwapped
<1> QED
  BY <1>2, <1>3, <1>4, <1>7, <1>9, <1>11, HeldIs

LEMMA Start ==
  ASSUME Init
  PROVE  QueueInv /\ Held = EmptyBag
<1>1. size = 0 /\ maxSize \in Sizes /\ maxSize \in Nat
  BY PriorityQueueAssumption DEF Init
<1>2. array = [i \in {} |-> 0]
  BY DEF Init
<1>3. array \in [0..(0 - 1) -> Values]
  BY <1>2
<1>4. length = 0
  BY <1>3, LengthIs DEF length
<1>5. TypeInv
  <2>1. length \in 0..maxSize /\ size \in 0..length /\ array \in [0..(length - 1) -> Values]
    BY <1>1, <1>3, <1>4
  <2>2. heapified \in BOOLEAN /\ polled \in BOOLEAN /\ method \in {"add", "add2"}
    BY DEF Init
  <2> QED
    BY <1>1, <2>1, <2>2 DEF TypeInv
<1>6. HeapOrder
  BY <1>1 DEF HeapOrder, IsHeap
<1>7. HeldOf(array, 0) = EmptyBag
  <2>1. IsABag(HeldOf(array, 0)) /\ \A x : Amount(HeldOf(array, 0), x) = Number(array, 0, x)
    BY HeldAmount
  <2>2. IsABag(EmptyBag) /\ \A x : Amount(EmptyBag, x) = 0
    BY DEF EmptyBag, SetToBag, IsABag, Amount
  <2>3. ASSUME NEW x PROVE Number(array, 0, x) = 0
    <3>1. Number(array, 0, x) \in Nat
      BY NumberIsNat
    <3>2. Number(array, 0, x) > 0 <=> \E j \in 0..(0 - 1) : array[j] = x
      BY NumberIsNat
    <3> QED
      BY <3>1, <3>2
  <2> QED
    BY <2>1, <2>2, <2>3, SameBag
<1> QED
  BY <1>1, <1>5, <1>6, <1>7, HeldIs DEF QueueInv

LEMMA QueueStep ==
  ASSUME QueueInv, [Next]_vars
  PROVE  QueueInv'
<1>1. size \in Nat /\ maxSize \in Nat /\ size <= maxSize
  BY TypeFacts DEF QueueInv
<1>2. ASSUME NEW v \in Values, add(v) \/ add2(v) PROVE QueueInv'
  <2>1. CASE size < maxSize
    BY <1>2, <2>1, GrowStep
  <2>2. CASE size = maxSize
    BY <1>2, <2>2, ReplaceStep
  <2> QED
    BY <1>1, <2>1, <2>2
<1>3. CASE poll
  <2>1. size > 1 \/ size = 1
    BY <1>3 DEF poll, pollMany, pollOne
  <2>2. heapified \in BOOLEAN
    BY DEF QueueInv, TypeInv
  <2> QED
    BY <1>3, <2>1, <2>2, PollOneStep, PollHeapifiedStep, PollPlainStep
<1>4. CASE trim
  BY <1>4, TrimStep
<1>5. CASE UNCHANGED vars
  BY <1>5 DEF vars, client, QueueInv, TypeInv, HeapOrder, IsHeap, length
<1> QED
  BY <1>2, <1>3, <1>4, <1>5 DEF Next

LEMMA AlwaysQueueInv == Spec => []QueueInv
BY Start, QueueStep, PTL DEF Spec

\* HeapOrder: the array is a heap at every place where the choice of the value to
\* give up rests on it, whatever was added, polled and trimmed before.
THEOREM AlwaysHeapOrder == Spec => []HeapOrder
<1>1. QueueInv => HeapOrder
  BY DEF QueueInv
<1> QED
  BY <1>1, AlwaysQueueInv, PTL

\* PollDoubles: a poll of a queue that is not yet heapified takes the greatest value
\* out and puts the last one in a second time.
THEOREM AlwaysPollDoubles == Spec => PollDoubles
<1>1. ASSUME QueueInv, [Next]_vars
      PROVE  [poll /\ size > 1 /\ ~heapified /\ length = size
                => Held' = (Held (-) SetToBag({array[0]})) (+) SetToBag({array[size - 1]})]_vars
  BY <1>1, PollPlainStep
<1> QED
  BY <1>1, AlwaysQueueInv, PTL DEF Spec, PollDoubles

-----------------------------------------------------------------------------
(* The smallest values of the stream. *)

\* H holds values of B, and none of them is greater than one that it leaves out.
Smallest(H, B) ==
  /\ \A x : Amount(H, x) <= Amount(B, x)
  /\ \A x, y : Amount(H, x) > 0 /\ Amount(B, y) > Amount(H, y) => x <= y

LEMMA AllAreSmallest ==
  ASSUME NEW B, IsABag(B)
  PROVE  Smallest(B, B)
BY AmountIs DEF Smallest

LEMMA SmallestKept ==
  ASSUME NEW H, IsABag(H), NEW B, IsABag(B), Smallest(H, B), NEW v,
         \A x : Amount(H, x) > 0 => x <= v
  PROVE  Smallest(H, B (+) SetToBag({v}))
<1> DEFINE C == B (+) SetToBag({v})
<1>1. \A x : Amount(C, x) = Amount(B, x) + Bit(v, x)
  BY OneMore
<1> HIDE DEF C
<1>2. \A x : /\ Amount(H, x) \in Nat /\ Amount(B, x) \in Nat
             /\ (x = v => Bit(v, x) = 1) /\ (x # v => Bit(v, x) = 0)
  BY AmountIs DEF Bit
<1>3. ASSUME NEW x PROVE Amount(H, x) <= Amount(C, x)
  <2>1. Amount(H, x) <= Amount(B, x) /\ Amount(C, x) = Amount(B, x) + Bit(v, x)
    BY <1>1 DEF Smallest
  <2>2. Amount(H, x) \in Nat /\ Amount(B, x) \in Nat /\ Bit(v, x) \in Nat
    BY <1>2
  <2> QED
    BY <2>1, <2>2
<1>4. ASSUME NEW x, NEW y, Amount(H, x) > 0, Amount(C, y) > Amount(H, y) PROVE x <= y
  <2>1. CASE y = v
    BY <1>4, <2>1
  <2>2. CASE y # v
    <3>1. Amount(C, y) = Amount(B, y)
      <4>1. Amount(C, y) = Amount(B, y) + 0
        BY <1>1, <1>2, <2>2
      <4> QED
        BY <1>2, <4>1
    <3> QED
      BY <1>4, <3>1 DEF Smallest
  <2> QED
    BY <2>1, <2>2
<1>5. Smallest(H, C)
  BY <1>3, <1>4 DEF Smallest
<1> QED
  BY <1>5 DEF C

LEMMA SmallestExchanged ==
  ASSUME NEW H, IsABag(H), NEW B, IsABag(B), Smallest(H, B),
         \A x : Amount(B, x) > 0 => x \in Nat,
         NEW u \in Nat, Amount(H, u) > 0, \A x : Amount(H, x) > 0 => x <= u,
         NEW v \in Nat, v <= u
  PROVE  Smallest((H (+) SetToBag({v})) (-) SetToBag({u}), B (+) SetToBag({v}))
<1> DEFINE C == B (+) SetToBag({v})
           D == H (+) SetToBag({v})
           E == D (-) SetToBag({u})
<1>1. \A x : Amount(C, x) = Amount(B, x) + Bit(v, x)
  BY OneMore
<1>2. IsABag(D) /\ \A x : Amount(D, x) = Amount(H, x) + Bit(v, x)
  BY OneMore
<1> HIDE DEF C, D
<1>3. \A x : /\ Amount(H, x) \in Nat /\ Amount(B, x) \in Nat /\ Amount(H, x) <= Amount(B, x)
             /\ (x = v => Bit(v, x) = 1) /\ (x # v => Bit(v, x) = 0)
             /\ (x = u => Bit(u, x) = 1) /\ (x # u => Bit(u, x) = 0)
  BY AmountIs DEF Bit, Smallest
<1>4. Amount(D, u) > 0
  <2>1. Amount(D, u) = Amount(H, u) + Bit(v, u) /\ Amount(H, u) \in Nat /\ Bit(v, u) \in Nat
    BY <1>2, <1>3 DEF Bit
  <2> QED
    BY <2>1
<1>5. \A x : Amount(E, x) = Amount(D, x) - Bit(u, x)
  BY <1>2, <1>4, OneLess
<1> HIDE DEF E
<1>6. ASSUME NEW x
      PROVE  /\ Amount(E, x) = Amount(H, x) + Bit(v, x) - Bit(u, x)
             /\ Amount(C, x) = Amount(B, x) + Bit(v, x)
             /\ Amount(H, x) \in Nat /\ Amount(B, x) \in Nat /\ Amount(H, x) <= Amount(B, x)
             /\ Bit(v, x) = (IF x = v THEN 1 ELSE 0) /\ Bit(u, x) = (IF x = u THEN 1 ELSE 0)
  <2>1. Amount(E, x) = Amount(D, x) - Bit(u, x) /\ Amount(D, x) = Amount(H, x) + Bit(v, x)
    BY <1>2, <1>5
  <2>2. Amount(H, x) \in Nat /\ Bit(v, x) \in Nat /\ Bit(u, x) \in Nat
    BY <1>3 DEF Bit
  <2>3. Amount(E, x) = Amount(H, x) + Bit(v, x) - Bit(u, x)
    BY <2>1, <2>2
  <2> QED
    BY <1>1, <1>3, <2>3
<1>7. ASSUME NEW x PROVE Amount(E, x) <= Amount(C, x)
  BY <1>6
<1>8. ASSUME NEW x, Amount(E, x) > 0 PROVE x <= u
  <2>1. Amount(H, x) > 0 \/ x = v
    BY <1>6, <1>8
  <2> QED
    BY <2>1
<1>9. ASSUME NEW x, NEW y, Amount(E, x) > 0, Amount(C, y) > Amount(E, y) PROVE x <= y
  <2>1. CASE y = u
    BY <1>8, <1>9, <2>1
  <2>2. CASE y # u
    <3>1. Amount(B, y) > Amount(H, y)
      BY <1>6, <1>9, <2>2
    <3>2. \A z : Amount(H, z) > 0 => z <= y
      BY <3>1 DEF Smallest
    <3>3. y \in Nat
      BY <1>3, <3>1
    <3>4. v <= y
      BY <3>2, <3>3
    <3>5. Amount(H, x) > 0 \/ x = v
      BY <1>6, <1>9
    <3> QED
      BY <3>2, <3>4, <3>5
  <2> QED
    BY <2>1, <2>2
<1>10. Smallest(E, C)
  BY <1>7, <1>9 DEF Smallest
<1> QED
  BY <1>10 DEF C, D, E

\* What was added, and what is kept of it until the first poll.
StreamInv ==
  /\ IsABag(added) /\ IsFiniteSet(Copies(added))
  /\ \A x : Amount(added, x) > 0 => x \in Values
  /\ ~polled => (size < maxSize => Held = added) /\ Smallest(Held, added)

LEMMA HeldFacts ==
  ASSUME TypeInv
  PROVE  /\ IsABag(Held) /\ BagSize(Held) = size
         /\ \A x : Amount(Held, x) > 0 <=> \E p \in 0..(size - 1) : array[p] = x
<1>1. size \in Nat
  BY TypeFacts
<1>2. IsABag(Held) /\ \A x : Amount(Held, x) = Number(array, size, x)
  BY <1>1, HeldIs, HeldAmount
<1>3. BagSize(Held) = size
  BY <1>1, HeldIs, HeldSize
<1>4. ASSUME NEW x PROVE Amount(Held, x) > 0 <=> \E p \in 0..(size - 1) : array[p] = x
  <2>1. Number(array, size, x) > 0 <=> \E p \in 0..(size - 1) : array[p] = x
    BY <1>1, NumberIsNat
  <2> QED
    BY <1>2, <2>1
<1> QED
  BY <1>2, <1>3, <1>4

\* The top of a heap that is not empty.
LEMMA TopFacts ==
  ASSUME TypeInv, Heap(array, size), 0 < size
  PROVE  /\ array[0] \in Nat /\ Amount(Held, array[0]) > 0
         /\ \A x : Amount(Held, x) > 0 => x \in Nat /\ x <= array[0]
<1>1. PICK m \in Nat : m = length
  BY TypeFacts
<1>2. PICK n \in 0..m : n = size
  BY <1>1, TypeFacts
<1>3. array \in [0..(m - 1) -> Values] /\ Heap(array, n) /\ 0 < n
  BY <1>1, <1>2, TypeFacts
<1>4. ASSUME NEW p \in 0..(n - 1) PROVE array[p] \in Nat /\ array[p] <= array[0]
  <2>1. array[p] \in Values
    BY <1>3
  <2> QED
    BY <1>3, <2>1, TopIsGreatest, PriorityQueueAssumption
<1>5. 0 \in 0..(n - 1)
  BY <1>3
<1>6. array[0] \in Nat
  BY <1>4, <1>5
<1>7. \A x : Amount(Held, x) > 0 <=> \E p \in 0..(n - 1) : array[p] = x
  BY <1>2, HeldFacts
<1> QED
  BY <1>4, <1>5, <1>6, <1>7

LEMMA AddedGrows ==
  ASSUME StreamInv, NEW v \in Values, added' = added (+) SetToBag({v})
  PROVE  /\ IsABag(added') /\ IsFiniteSet(Copies(added'))
         /\ \A x : Amount(added', x) > 0 => x \in Values
<1>1. IsABag(added) /\ IsFiniteSet(Copies(added)) /\ \A x : Amount(added, x) > 0 => x \in Values
  BY DEF StreamInv
<1>2. IsABag(added') /\ \A x : Amount(added', x) = Amount(added, x) + Bit(v, x)
  BY <1>1, OneMore
<1>3. IsFiniteSet(Copies(added'))
  BY <1>1, SizeOfMore
<1>4. ASSUME NEW x, Amount(added', x) > 0 PROVE x \in Values
  <2>1. CASE x = v
    BY <2>1
  <2>2. CASE x # v
    <3>1. Amount(added', x) = Amount(added, x) + 0
      BY <1>2, <2>2 DEF Bit
    <3>2. Amount(added, x) \in Nat
      BY <1>1, AmountIs
    <3> QED
      BY <1>1, <1>4, <3>1, <3>2
  <2> QED
    BY <2>1, <2>2
<1> QED
  BY <1>2, <1>3, <1>4

LEMMA StreamStart ==
  ASSUME Init
  PROVE  StreamInv
<1>1. Held = EmptyBag /\ added = EmptyBag
  BY Start DEF Init
<1>2. IsABag(EmptyBag) /\ \A x : Amount(EmptyBag, x) = 0
  BY DEF EmptyBag, SetToBag, IsABag, Amount
<1>3. Copies(EmptyBag) = {}
  BY DEF Copies, BagToSet, EmptyBag, SetToBag
<1>4. IsFiniteSet(Copies(EmptyBag))
  BY <1>3, FS_EmptySet
<1>5. Smallest(EmptyBag, EmptyBag)
  BY <1>2, AllAreSmallest
<1> QED
  BY <1>1, <1>2, <1>4, <1>5 DEF StreamInv

LEMMA StreamStep ==
  ASSUME QueueInv, StreamInv, [Next]_vars
  PROVE  StreamInv'
<1>1. TypeInv /\ HeapOrder
  BY DEF QueueInv
<1>2. /\ size \in Nat /\ maxSize \in Nat \ {0} /\ size <= maxSize
      /\ Values \subseteq Nat
  BY <1>1, TypeFacts, PriorityQueueAssumption
<1>3. IsABag(added) /\ IsABag(Held) /\ \A x : Amount(added, x) > 0 => x \in Values
  BY <1>1, HeldFacts DEF StreamInv
<1>4. ASSUME added' = added,
             \/ polled' = TRUE
             \/ polled' = polled /\ size' = size /\ Held' = Held /\ maxSize' = maxSize
      PROVE  StreamInv'
  BY <1>4 DEF StreamInv
<1>5. ASSUME NEW v \in Values, add(v) \/ add2(v) PROVE StreamInv'
  <2>1. /\ polled' = polled /\ maxSize' = maxSize
        /\ added' = IF polled THEN added ELSE added (+) SetToBag({v})
    BY <1>5 DEF add, add2, client, Record
  <2>2. CASE polled
    BY <2>1, <2>2 DEF StreamInv
  <2>3. CASE ~polled
    <3>1. added' = added (+) SetToBag({v})
      BY <2>1, <2>3
    <3>2. /\ IsABag(added') /\ IsFiniteSet(Copies(added'))
          /\ \A x : Amount(added', x) > 0 => x \in Values
      BY <3>1, AddedGrows
    <3>3. (size < maxSize => Held = added) /\ Smallest(Held, added)
      BY <2>3 DEF StreamInv
    <3>4. (size' < maxSize' => Held' = added') /\ Smallest(Held', added')
      <4>1. CASE size < maxSize
        <5>1. Held' = added'
          BY <1>5, <3>1, <3>3, <4>1, GrowStep
        <5> QED
          BY <3>2, <5>1, AllAreSmallest
      <4>2. CASE size = maxSize
        <5>1. /\ size' = size
              /\ IF v > array[0] THEN Held' = Held
                 ELSE Held' = (Held (+) SetToBag({v})) (-) SetToBag({array[0]})
          BY <1>5, <4>2, ReplaceStep
        <5>2. Heap(array, size) /\ 0 < size
          BY <1>1, <1>2, <4>2, OrderIs
        <5>3. /\ array[0] \in Nat /\ Amount(Held, array[0]) > 0
              /\ \A x : Amount(Held, x) > 0 => x \in Nat /\ x <= array[0]
          BY <1>1, <5>2, TopFacts
        <5>4. v \in Nat
          BY <1>2
        <5>5. CASE v > array[0]
          <6>1. \A x : Amount(Held, x) > 0 => x <= v
            BY <5>3, <5>4, <5>5
          <6>2. Smallest(Held, added (+) SetToBag({v}))
            BY <1>3, <3>3, <6>1, SmallestKept
          <6>3. ~(size' < maxSize')
            BY <1>2, <2>1, <4>2, <5>1
          <6> QED
            BY <3>1, <5>1, <5>5, <6>2, <6>3
        <5>6. CASE ~(v > array[0])
          <6>1. v <= array[0]
            BY <5>3, <5>4, <5>6
          <6>2. \A x : Amount(added, x) > 0 => x \in Nat
            BY <1>2, <1>3
          <6>3. PICK u \in Nat : u = array[0]
            BY <5>3
          <6>4. Smallest((Held (+) SetToBag({v})) (-) SetToBag({u}), added (+) SetToBag({v}))
            BY <1>3, <3>3, <5>3, <5>4, <6>1, <6>2, <6>3, SmallestExchanged
          <6>5. ~(size' < maxSize')
            BY <1>2, <2>1, <4>2, <5>1
          <6> QED
            BY <3>1, <5>1, <5>6, <6>3, <6>4, <6>5
        <5> QED
          BY <5>5, <5>6
      <4> QED
        BY <1>2, <4>1, <4>2
    <3> QED
      BY <3>2, <3>4 DEF StreamInv
  <2> QED
    BY <2>2, <2>3
<1>6. CASE poll
  <2>1. added' = added /\ polled' = TRUE
    BY <1>6 DEF poll
  <2> QED
    BY <1>4, <2>1
<1>7. CASE trim
  <2>1. size' = size /\ Held' = Held
    BY <1>7, TrimStep
  <2> QED
    BY <1>4, <1>7, <2>1 DEF trim, client
<1>8. CASE UNCHANGED vars
  <2>1. size' = size /\ array' = array /\ added' = added /\ polled' = polled /\ maxSize' = maxSize
    BY <1>8 DEF vars, client
  <2>2. Held' = Held
    BY <2>1, HeldIs
  <2> QED
    BY <1>4, <2>1, <2>2
<1> QED
  BY <1>5, <1>6, <1>7, <1>8 DEF Next

LEMMA SmallestAreKept ==
  ASSUME QueueInv, StreamInv
  PROVE  KeepsTheSmallest
<1> SUFFICES ASSUME ~polled
             PROVE  /\ Held \sqsubseteq added
                    /\ BagSize(Held) = IF BagSize(added) < maxSize THEN BagSize(added) ELSE maxSize
                    /\ \A kept \in BagToSet(Held) : \A gone \in BagToSet(added (-) Held) :
                         kept <= gone
  BY DEF KeepsTheSmallest
<1>1. TypeInv
  BY DEF QueueInv
<1>2. /\ size \in Nat /\ maxSize \in Nat /\ size <= maxSize
  BY <1>1, TypeFacts
<1>3. IsABag(Held) /\ BagSize(Held) = size
  BY <1>1, HeldFacts
<1>4. IsABag(added) /\ IsFiniteSet(Copies(added))
      /\ (size < maxSize => Held = added) /\ Smallest(Held, added)
  BY DEF StreamInv
<1>5. Held \sqsubseteq added
  BY <1>3, <1>4, PartOf DEF Smallest
<1>6. BagSize(added) \in Nat /\ BagSize(Held) <= BagSize(added)
  BY <1>3, <1>4, <1>5, SizeOfPart
<1>7. BagSize(Held) = IF BagSize(added) < maxSize THEN BagSize(added) ELSE maxSize
  <2>1. CASE size < maxSize
    BY <1>2, <1>3, <1>4, <2>1
  <2>2. CASE size = maxSize
    BY <1>2, <1>3, <1>6, <2>2
  <2> QED
    BY <1>2, <2>1, <2>2
<1>8. ASSUME NEW kept \in BagToSet(Held), NEW gone \in BagToSet(added (-) Held)
      PROVE  kept <= gone
  <2>1. Amount(Held, kept) > 0
    BY <1>3, AmountIs DEF BagToSet
  <2>2. Amount(added, gone) > Amount(Held, gone)
    BY <1>3, <1>4, WhatIsGone
  <2> QED
    BY <1>4, <2>1, <2>2 DEF Smallest
<1> QED
  BY <1>5, <1>7, <1>8

\* KeepsTheSmallest: until the first poll the queue holds as many values of the
\* stream as fit, and none that is greater than one it gave up, by add and by add2.
THEOREM AlwaysKeepsTheSmallest == Spec => []KeepsTheSmallest
<1>1. Init => StreamInv
  BY StreamStart
<1>2. QueueInv /\ StreamInv /\ [Next]_vars => StreamInv'
  BY StreamStep
<1>3. QueueInv /\ StreamInv => KeepsTheSmallest
  BY SmallestAreKept
<1> QED
  BY <1>1, <1>2, <1>3, AlwaysQueueInv, PTL DEF Spec

-----------------------------------------------------------------------------
(* The operations are those of an ideal queue. *)

\* How TopK sees the queue.
LEMMA AbstractRoom ==
  ASSUME TypeInv
  PROVE  Abstract!Room <=> size < maxSize
<1>1. BagSize(Held) = size
  BY HeldFacts
<1> QED
  BY <1>1 DEF Abstract!Room, Abstract!Size, BagSize, Copies,
           Abstract!BagToSet, BagToSet, Abstract!Cardinality, Cardinality

LEMMA AbstractGreatest ==
  ASSUME TypeInv, Heap(array, size), 0 < size
  PROVE  Abstract!Greatest = array[0] /\ Held # EmptyBag
<1>1. /\ array[0] \in Nat /\ Amount(Held, array[0]) > 0
      /\ \A x : Amount(Held, x) > 0 => x \in Nat /\ x <= array[0]
  BY TopFacts
<1>2. \A x : x \in BagToSet(Held) <=> Amount(Held, x) > 0
  BY HeldFacts, AmountIs DEF BagToSet
<1>3. array[0] \in BagToSet(Held) /\ \A x \in BagToSet(Held) : x \in Nat /\ x <= array[0]
  BY <1>1, <1>2
<1>4. Abstract!Greatest = array[0]
  BY <1>3 DEF Abstract!Greatest, Abstract!BagToSet, BagToSet
<1>5. BagToSet(EmptyBag) = {}
  BY DEF BagToSet, EmptyBag, SetToBag
<1> QED
  BY <1>3, <1>4, <1>5

LEMMA TopKStep ==
  ASSUME QueueInv, [Next]_vars, poll /\ size > 1 => Ordered
  PROVE  [Abstract!Next]_Held
<1>1. TypeInv /\ HeapOrder
  BY DEF QueueInv
<1>2. size \in Nat /\ maxSize \in Nat \ {0} /\ size <= maxSize /\ Values \subseteq Nat
  BY <1>1, TypeFacts, PriorityQueueAssumption
<1>3. ASSUME NEW v \in Values, add(v) \/ add2(v) PROVE Abstract!Next
  <2>1. CASE size < maxSize
    <3>1. Held' = Held (+) SetToBag({v})
      BY <1>3, <2>1, GrowStep
    <3>2. Abstract!Room
      BY <1>1, <2>1, AbstractRoom
    <3> QED
      BY <3>1, <3>2 DEF Abstract!Next, Abstract!Offer, Abstract!(+), Abstract!SetToBag,
         (+), SetToBag
  <2>2. CASE size = maxSize
    <3>1. IF v > array[0] THEN Held' = Held
          ELSE Held' = (Held (+) SetToBag({v})) (-) SetToBag({array[0]})
      BY <1>3, <2>2, ReplaceStep
    <3>2. ~Abstract!Room
      BY <1>1, <1>2, <2>2, AbstractRoom
    <3>3. Heap(array, size) /\ 0 < size
      BY <1>1, <1>2, <2>2, OrderIs
    <3>4. Abstract!Greatest = array[0] /\ array[0] \in Nat
      BY <1>1, <3>3, AbstractGreatest, TopFacts
    <3>5. v \in Nat
      BY <1>2
    <3>6. CASE v > array[0]
      BY <3>1, <3>2, <3>4, <3>6 DEF Abstract!Next, Abstract!Offer
    <3>7. CASE ~(v > array[0])
      <4>1. v <= array[0]
        BY <3>4, <3>5, <3>7
      <4>2. Held' = Abstract!(-)(Abstract!(+)(Held, Abstract!SetToBag({v})),
                                 Abstract!SetToBag({array[0]}))
        BY <3>1, <3>7 DEF Abstract!(+), Abstract!(-), Abstract!SetToBag, (+), (-), SetToBag
      <4> QED
        BY <4>1, <4>2, <3>2, <3>4 DEF Abstract!Next, Abstract!Offer
    <3> QED
      BY <3>6, <3>7
  <2> QED
    BY <1>2, <2>1, <2>2
<1>4. CASE poll
  <2>1. size > 1 \/ size = 1
    BY <1>4 DEF poll, pollMany, pollOne
  <2>2. Held' = Held (-) SetToBag({array[0]})
    <3>1. size > 1 => heapified
      BY <1>4 DEF Ordered
    <3> QED
      BY <1>4, <2>1, <3>1, PollOneStep, PollHeapifiedStep
  <2>3. Heap(array, size)
    <3>1. CASE size > 1
      BY <1>1, <1>4, <3>1, OrderIs DEF Ordered
    <3>2. CASE size = 1
      BY <3>2 DEF Heap
    <3> QED
      BY <2>1, <3>1, <3>2
  <2>4. 0 < size
    BY <1>2, <2>1
  <2>5. Abstract!Greatest = array[0] /\ Held # EmptyBag
    BY <1>1, <2>3, <2>4, AbstractGreatest
  <2> QED
    BY <2>2, <2>5 DEF Abstract!Next, Abstract!Take, Abstract!(-), Abstract!SetToBag,
       Abstract!EmptyBag, (-), SetToBag, EmptyBag
<1>5. CASE trim
  BY <1>5, TrimStep
<1>6. CASE UNCHANGED vars
  BY <1>6, HeldIs DEF vars
<1> QED
  BY <1>3, <1>4, <1>5, <1>6 DEF Next

\* ServesAsTopK: every operation is one of the ideal queue on the bag of the values
\* held, except a poll of two values or more that does not find the heap made.
THEOREM AlwaysServesAsTopK == Spec => ServesAsTopK
<1>1. Init => Abstract!Init
  BY Start DEF Abstract!Init, Abstract!EmptyBag, Abstract!SetToBag, EmptyBag, SetToBag
<1>2. QueueInv /\ [Next]_vars => [(poll /\ size > 1 => Ordered) => [Abstract!Next]_Held]_vars
  BY TopKStep
<1> QED
  BY <1>1, <1>2, AlwaysQueueInv, PTL DEF Spec, ServesAsTopK

-----------------------------------------------------------------------------
(* FastaText: a text in lines, byte by byte. *)

LEMMA TextConstants ==
  /\ Width \in Nat \ {0} /\ Width + 1 \in Nat \ {0}
  /\ \A l \in StringLengths : l \in Nat \ {0} /\ Width <= l
  /\ BufferSize \in Nat /\ BufferSize > Width + 1
BY TextAssumption

LEMMA SmallNumber ==
  ASSUME NEW m \in Nat \ {0}, NEW x \in 0..(m - 1)
  PROVE  x \div m = 0 /\ x % m = x
<1>1. /\ x \div m \in Nat /\ x % m \in 0..(m - 1)
      /\ x = (x \div m) * m + (x % m)
  <2>1. x \in Nat
    OBVIOUS
  <2> QED
    BY <2>1, DivMod
<1>2. 0 \in Nat /\ 0 * m + x = x
  OBVIOUS
<1> DEFINE q == x \div m
           r == x % m
<1> HIDE DEF q, r
<1>3. q = 0 /\ r = x
  BY <1>1, <1>2, OneRemainder DEF q, r
<1> QED
  BY <1>3 DEF q, r

Congruent(a, b, m) == a % m = b % m

\* What is added to two numbers with the same remainder.
LEMMA SameRemainder ==
  ASSUME NEW m \in Nat \ {0}, NEW a \in Nat, NEW b \in Nat, Congruent(a, b, m), NEW x \in Nat
  PROVE  Congruent(a + x, b + x, m)
<1>1. ASSUME NEW c \in Nat PROVE (c + x) % m = ((c % m) + x) % m
  <2> DEFINE q == c \div m
             r == c % m
  <2>1. q \in Nat /\ r \in Nat /\ c = q * m + r
    <3>1. q \in Nat /\ r \in 0..(m - 1) /\ c = q * m + r
      BY DivMod
    <3> QED
      BY <3>1
  <2> HIDE DEF q, r
  <2> DEFINE y == r + x
  <2>2. y \in Nat
    BY <2>1
  <2>3. q * m + y = c + x
    BY <2>1, Multiples
  <2> HIDE DEF y
  <2>4. (q * m + y) % m = y % m
    BY <2>1, <2>2, AddMultiple
  <2> QED
    BY <2>3, <2>4 DEF r, y
<1>2. (a + x) % m = ((a % m) + x) % m /\ (b + x) % m = ((b % m) + x) % m
  BY <1>1
<1>3. a % m = b % m
  BY DEF Congruent
<1> QED
  BY <1>2, <1>3 DEF Congruent

\* The letters L in lines of Width, without an end.
Byte(L, p) == IF p % (Width + 1) = 0 THEN 0 ELSE L[p - (p \div (Width + 1))]

\* The first m bytes of it.
Lined(s, L, m) == s \in Seq(Int) /\ Len(s) = m /\ \A p \in 1..m : s[p] = Byte(L, p)

Letterings == [Nat \ {0} -> Int]

LEMMA ByteIs ==
  ASSUME NEW L, NEW q \in Nat
  PROVE  /\ \A c \in 1..Width : Byte(L, q * (Width + 1) + c) = L[q * Width + c]
         /\ Byte(L, (q + 1) * (Width + 1)) = 0
<1> DEFINE m == Width + 1
<1>1. Width \in Nat \ {0} /\ m \in Nat \ {0} /\ q * m \in Nat /\ q * Width \in Nat
      /\ q * m = q * Width + q
  BY TextConstants, Multiples
<1>2. ASSUME NEW c \in 1..Width PROVE Byte(L, q * m + c) = L[q * Width + c]
  <2>1. c \in 0..(m - 1) /\ c \in Nat
    BY <1>1
  <2>2. (q * m + c) - q = q * Width + c
    BY <1>1
  <2> HIDE DEF m
  <2>3. c \div m = 0 /\ c % m = c
    BY <1>1, <2>1, SmallNumber
  <2>4. (q * m + c) \div m = q + (c \div m) /\ (q * m + c) % m = c % m
    BY <1>1, <2>1, AddMultiple
  <2>5. (q * m + c) \div m = q /\ (q * m + c) % m # 0
    BY <2>3, <2>4
  <2> QED
    BY <2>2, <2>5 DEF Byte, m
<1>3. Byte(L, (q + 1) * m) = 0
  <2>1. q + 1 \in Nat /\ (q + 1) * m \in Nat
    BY <1>1
  <2>2. 0 % m = 0
    BY <1>1, SmallNumber
  <2>3. ((q + 1) * m + 0) % m = 0
    BY <1>1, <2>1, <2>2, AddMultiple
  <2>4. ((q + 1) * m) % m = 0
    BY <2>1, <2>3
  <2> HIDE DEF m
  <2> QED
    BY <2>4 DEF Byte, m
<1> QED
  BY <1>2, <1>3

\* Every byte is a letter of a line or its end.
LEMMA PlaceOf ==
  ASSUME NEW p \in Nat \ {0}
  PROVE  \E q \in Nat : \/ \E c \in 1..Width : p = q * (Width + 1) + c
                        \/ p = (q + 1) * (Width + 1)
<1> DEFINE m == Width + 1
           q == (p - 1) \div m
           r == (p - 1) % m
<1>1. Width \in Nat \ {0} /\ m \in Nat \ {0} /\ p - 1 \in Nat
  BY TextConstants
<1>2. q \in Nat /\ r \in 0..(m - 1) /\ p - 1 = q * m + r
  BY <1>1, DivMod
<1> HIDE DEF q, r
<1>3. q * m \in Nat /\ (q + 1) * m = q * m + m
  BY <1>1, <1>2, Multiples
<1>4. CASE r < Width
  <2>1. r + 1 \in 1..Width /\ p = q * m + (r + 1)
    BY <1>1, <1>2, <1>3, <1>4
  <2> QED
    BY <1>2, <2>1
<1>5. CASE r = Width
  <2>1. p = (q + 1) * m
    BY <1>1, <1>2, <1>3, <1>5
  <2> QED
    BY <1>2, <2>1
<1> QED
  BY <1>1, <1>2, <1>4, <1>5

LEMMA ByteType ==
  ASSUME NEW L \in Letterings, NEW p \in Nat \ {0}
  PROVE  Byte(L, p) \in Int
<1>1. PICK q \in Nat : \/ \E c \in 1..Width : p = q * (Width + 1) + c
                       \/ p = (q + 1) * (Width + 1)
  BY PlaceOf
<1>2. CASE p = (q + 1) * (Width + 1)
  <2>1. Byte(L, (q + 1) * (Width + 1)) = 0
    BY ByteIs
  <2> QED
    BY <1>2, <2>1
<1>3. ASSUME NEW c \in 1..Width, p = q * (Width + 1) + c PROVE Byte(L, p) \in Int
  <2>1. Byte(L, q * (Width + 1) + c) = L[q * Width + c]
    BY ByteIs
  <2>2. Width \in Nat /\ q * Width \in Nat
    BY TextConstants, Multiples
  <2>3. q * Width + c \in Nat \ {0}
    BY <2>2
  <2> QED
    BY <1>3, <2>1, <2>3 DEF Letterings
<1> QED
  BY <1>1, <1>2, <1>3

-----------------------------------------------------------------------------
LEMMA Glued ==
  ASSUME NEW s \in Seq(Int), NEW t \in Seq(Int)
  PROVE  /\ s \o t \in Seq(Int) /\ Len(s \o t) = Len(s) + Len(t) /\ Len(s) \in Nat
<1>1. s \o t \in Seq(Int)
  OBVIOUS
<1>2. Len(s \o t) = Len(s) + Len(t) /\ Len(s) \in Nat
  OBVIOUS
<1> QED
  BY <1>1, <1>2

LEMMA Regrouped ==
  ASSUME NEW s \in Seq(Int), NEW t \in Seq(Int), NEW u \in Seq(Int)
  PROVE  (s \o t) \o u = s \o (t \o u)
OBVIOUS

LEMMA LinedFirst ==
  ASSUME NEW L, NEW s, NEW m \in Nat, Lined(s, L, m), NEW k \in 0..m
  PROVE  Lined(SubSeq(s, 1, k), L, k)
<1>1. s \in Seq(Int) /\ Len(s) = m /\ \A p \in 1..m : s[p] = Byte(L, p)
  BY DEF Lined
<1>2. SubSeq(s, 1, k) \in Seq(Int) /\ Len(SubSeq(s, 1, k)) = k
      /\ \A p \in 1..k : SubSeq(s, 1, k)[p] = s[p]
  BY <1>1
<1> QED
  BY <1>1, <1>2 DEF Lined

\* t follows s.
LEMMA LinedMore ==
  ASSUME NEW L, NEW s, NEW m \in Nat, Lined(s, L, m), NEW t \in Seq(Int),
         \A i \in 1..Len(t) : t[i] = Byte(L, m + i)
  PROVE  Lined(s \o t, L, m + Len(t))
<1>1. s \in Seq(Int) /\ Len(s) = m /\ \A p \in 1..m : s[p] = Byte(L, p)
  BY DEF Lined
<1>0. Len(t) \in Nat
  OBVIOUS
<1>2. s \o t \in Seq(Int) /\ Len(s \o t) = m + Len(t) /\ Len(t) \in Nat
  <2>1. s \o t \in Seq(Int)
    BY <1>1
  <2>2. Len(s \o t) = Len(s) + Len(t)
    BY <1>1
  <2> QED
    BY <1>0, <1>1, <2>1, <2>2
<1>3. ASSUME NEW p \in 1..(m + Len(t)) PROVE (s \o t)[p] = Byte(L, p)
  <2>1. CASE p <= m
    <3>1. (s \o t)[p] = s[p]
      BY <1>1, <2>1
    <3> QED
      BY <1>1, <2>1, <3>1
  <2>2. CASE p > m
    <3>1. p - m \in 1..Len(t) /\ m + (p - m) = p
      BY <2>2
    <3>2. (s \o t)[p] = t[p - m]
      BY <1>1, <2>2
    <3> QED
      BY <3>1, <3>2
  <2> QED
    BY <1>2, <2>1, <2>2
<1> QED
  BY <1>2, <1>3 DEF Lined

\* A line, and its end if it is full.
LEMMA LineAdded ==
  ASSUME NEW L, NEW s, NEW q \in Nat, Lined(s, L, q * (Width + 1)), NEW t \in Seq(Int),
         Len(t) <= Width, \A i \in 1..Len(t) : t[i] = L[q * Width + i]
  PROVE  /\ Lined(s \o t, L, q * (Width + 1) + Len(t))
         /\ Len(t) = Width => Lined(s \o t \o <<0>>, L, (q + 1) * (Width + 1))
<1> DEFINE b == q * (Width + 1)
<1>1. b \in Nat /\ Width \in Nat /\ (q + 1) * (Width + 1) = b + Width + 1 /\ Len(t) \in Nat
  BY TextConstants, Multiples
<1>2. ASSUME NEW i \in 1..Len(t) PROVE t[i] = Byte(L, b + i)
  <2>1. i \in 1..Width
    BY <1>1
  <2> QED
    BY <2>1, ByteIs
<1>3. Byte(L, (q + 1) * (Width + 1)) = 0
  BY ByteIs
<1> HIDE DEF b
<1>4. Lined(s, L, b)
  BY DEF b
<1>5. Lined(s \o t, L, b + Len(t))
  BY <1>1, <1>2, <1>4, LinedMore
<1>6. ASSUME Len(t) = Width PROVE Lined(s \o t \o <<0>>, L, (q + 1) * (Width + 1))
  <2> DEFINE z == <<0>>
             m == b + Width
  <2>1. z \in Seq(Int) /\ Len(z) = 1 /\ m \in Nat
    BY <1>1
  <2>2. \A i \in 1..Len(z) : z[i] = Byte(L, m + i)
    <3>1. m + 1 = (q + 1) * (Width + 1)
      BY <1>1
    <3> QED
      BY <1>3, <2>1, <3>1
  <2>3. Lined(s \o t, L, m)
    BY <1>5, <1>6
  <2> HIDE DEF z, m
  <2>4. Lined((s \o t) \o z, L, m + Len(z))
    BY <2>1, <2>2, <2>3, LinedMore
  <2>5. m + Len(z) = (q + 1) * (Width + 1)
    BY <1>1, <2>1 DEF m
  <2> QED
    BY <2>4, <2>5 DEF z
<1> QED
  BY <1>5, <1>6 DEF b
-----------------------------------------------------------------------------
(* Copies of a text whose letters repeat. *)

\* What repeats after R lines, letter by letter, does so byte by byte.
LEMMA BytesRepeat ==
  ASSUME NEW L, NEW R \in Nat, \A k \in Nat \ {0} : L[R * Width + k] = L[k],
         NEW p \in Nat \ {0}
  PROVE  Byte(L, R * (Width + 1) + p) = Byte(L, p)
<1> DEFINE m == Width + 1
<1>1. Width \in Nat \ {0} /\ m \in Nat
  BY TextConstants
<1>2. PICK q \in Nat : (\E c \in 1..Width : p = q * m + c) \/ p = (q + 1) * m
  BY PlaceOf
<1> DEFINE Q == R + q
<1>3. /\ Q \in Nat /\ Q * m = R * m + q * m /\ Q * Width = R * Width + q * Width
      /\ (Q + 1) * m = R * m + (q + 1) * m
      /\ R * m \in Nat /\ q * m \in Nat /\ R * Width \in Nat /\ q * Width \in Nat
      /\ (q + 1) * m \in Nat
  BY <1>1
<1> HIDE DEF Q, m
<1>4. /\ \A c \in 1..Width : /\ Byte(L, q * m + c) = L[q * Width + c]
                             /\ Byte(L, Q * m + c) = L[Q * Width + c]
      /\ Byte(L, (q + 1) * m) = 0 /\ Byte(L, (Q + 1) * m) = 0
  BY <1>3, ByteIs DEF m
<1>5. CASE p = (q + 1) * m
  <2>1. (Q + 1) * m = R * m + p
    BY <1>3, <1>5
  <2> QED
    BY <1>4, <1>5, <2>1 DEF m
<1>6. ASSUME NEW c \in 1..Width, p = q * m + c PROVE Byte(L, R * m + p) = Byte(L, p)
  <2> DEFINE k == q * Width + c
  <2>1. k \in Nat \ {0} /\ R * m + p = Q * m + c /\ R * Width + k = Q * Width + c
    BY <1>1, <1>3, <1>6
  <2>2. Byte(L, p) = L[k] /\ Byte(L, R * m + p) = L[R * Width + k]
    BY <1>4, <1>6, <2>1
  <2> HIDE DEF k
  <2> QED
    BY <2>1, <2>2
<1> QED
  BY <1>2, <1>5, <1>6 DEF m

\* b follows R lines that repeat.
LEMMA CopyAdded ==
  ASSUME NEW L, NEW R \in Nat, \A k \in Nat \ {0} : L[R * Width + k] = L[k],
         NEW s, Lined(s, L, R * (Width + 1)), NEW b, NEW k \in Nat, Lined(b, L, k)
  PROVE  Lined(s \o b, L, R * (Width + 1) + k)
<1> DEFINE m == R * (Width + 1)
<1>1. m \in Nat
  BY TextConstants, Multiples
<1>2. b \in Seq(Int) /\ Len(b) = k /\ \A p \in 1..k : b[p] = Byte(L, p)
  BY DEF Lined
<1>3. \A i \in 1..Len(b) : b[i] = Byte(L, m + i)
  BY <1>2, BytesRepeat
<1>4. Lined(s, L, m)
  OBVIOUS
<1> HIDE DEF m
<1>5. Lined(s \o b, L, m + Len(b))
  BY <1>1, <1>2, <1>3, <1>4, LinedMore
<1> QED
  BY <1>2, <1>5 DEF m

\* The letters of a string of n, again and again.
Cycles(L, n) == \A k \in Nat \ {0} : L[k] = ((k - 1) % n) + 1

\* A string of n letters in lines of Width repeats after n lines.
LEMMA StringRepeats ==
  ASSUME NEW n \in Nat \ {0}, NEW L, Cycles(L, n), NEW r \in Nat, NEW R, R = r * n, NEW k \in Nat \ {0}
  PROVE  L[R * Width + k] = L[k]
<1> DEFINE q == r * Width
           x == k - 1
           y == R * Width
<1>1. Width \in Nat
  BY TextConstants
<1>2. R \in Nat
  BY Multiples
<1>3. q \in Nat /\ x \in Nat /\ y \in Nat
  BY <1>1, <1>2, Multiples
<1>4. y = q * n
  BY <1>1
<1>5. y + k \in Nat \ {0} /\ (y + k) - 1 = y + x
  BY <1>3
<1> HIDE DEF q, y
<1>6. (q * n + x) % n = x % n
  BY <1>3, AddMultiple
<1>7. L[y + k] = (((y + k) - 1) % n) + 1 /\ L[k] = (x % n) + 1
  BY <1>5 DEF Cycles, x
<1> QED
  BY <1>4, <1>5, <1>6, <1>7 DEF y

-----------------------------------------------------------------------------
(* FastaText: the invariant. *)

TheLetters ==
  [k \in Nat \ {0} |-> CASE port = "random" -> k
                         [] port = "lemire" -> Repeated(k + LineOf(k))
                         [] OTHER -> Repeated(k)]

\* The letters up to number, a line that is not full ended too.
Text ==
  LET bytes == number + (number + Width - 1) \div Width
  IN  [p \in 1..bytes |-> IF p = bytes THEN 0 ELSE Byte(TheLetters, p)]

TextTypes ==
  /\ port \in {"c", "ganszky", "lemire", "random"} /\ len \in StringLengths
  /\ number \in Nat /\ pc \in {"fill", "repeat", "rest", "done"}
  /\ offset \in Nat /\ left \in Nat
  /\ buffer \in Seq(Int) /\ output \in Seq(Int)

\* The length of the block of len lines.
Block == len * (Width + 1)

\* offset is that of letter k + 1.
Placed(k) == offset <= len /\ offset % len = k % len

FillsC == port = "c" /\ pc = "fill" =>
  /\ output = <<>>
  /\ \E j \in 0..len : /\ left = (len - j) * Width /\ Placed(j * Width)
                       /\ Lined(buffer, TheLetters, j * (Width + 1))

FillsG == port = "ganszky" /\ pc = "fill" =>
  /\ output = <<>>
  /\ \E j \in 0..len :
       /\ left = len - j /\ offset = j * Width
       /\ Lined(buffer, TheLetters, IF j = len THEN Block - 1 ELSE j * (Width + 1))

\* Once the block is there: r copies of it are printed.
Repeats == pc \in {"repeat", "rest"} =>
  /\ port \in {"c", "ganszky"}
  /\ Lined(buffer, TheLetters, IF port = "c" THEN Block ELSE Block - 1)
  /\ pc = "rest" => left <= Block
  /\ \E r \in Nat : left + r * Block = Bytes /\ Lined(output, TheLetters, r * Block)

FillsL == Lemire /\ pc = "fill" =>
  /\ left <= number
  /\ port = "lemire" => Placed(number - left)
  /\ IF left = 0 THEN output \o buffer = Text
     ELSE \E j \in Nat : /\ number - left = j * Width
                         /\ Lined(output \o buffer, TheLetters, j * (Width + 1))

TextInv == TextTypes /\ FillsC /\ FillsG /\ Repeats /\ FillsL /\ InBounds /\ PrintsTheLetters

-----------------------------------------------------------------------------
(* The letters and the text of a state. *)

LEMMA TextFacts ==
  ASSUME TextTypes
  PROVE  /\ Width \in Nat \ {0} /\ Width + 1 \in Nat \ {0}
         /\ len \in Nat \ {0} /\ Width <= len /\ number \in Nat
         /\ Block \in Nat /\ Block >= len /\ Block = len * Width + len
         /\ BufferSize \in Nat /\ BufferSize > Width + 1
<1>1. len \in Nat \ {0} /\ Width <= len /\ Width \in Nat \ {0}
  BY TextConstants DEF TextTypes
<1>2. len * Width \in Nat /\ len * (Width + 1) = len * Width + len
  BY <1>1
<1> QED
  BY <1>1, <1>2, TextConstants DEF TextTypes, Block

LEMMA RepeatedIs ==
  ASSUME TextTypes, NEW k \in Nat \ {0}
  PROVE  Repeated(k) = ((k - 1) % len) + 1 /\ Repeated(k) \in Nat
<1>1. k - 1 \in Nat /\ len \in Nat \ {0}
  BY TextFacts
<1>2. (k - 1) % len \in 0..(len - 1)
  BY <1>1, DivMod
<1> QED
  BY <1>1, <1>2 DEF Repeated

LEMMA LettersType ==
  ASSUME TextTypes
  PROVE  TheLetters \in Letterings
<1>1. ASSUME NEW k \in Nat \ {0} PROVE TheLetters[k] \in Int
  <2>1. CASE port = "random"
    BY <2>1 DEF TheLetters
  <2>2. CASE port = "lemire"
    <3> DEFINE x == k + LineOf(k)
    <3>1. number % Width \in Nat
      <4>1. number \in Nat /\ Width \in Nat \ {0}
        BY TextFacts
      <4>2. number % Width \in 0..(Width - 1)
        BY <4>1, DivMod
      <4> QED
        BY <4>1, <4>2
    <3>2. LineOf(k) \in Nat
      BY <3>1, TextFacts DEF LineOf
    <3>3. x \in Nat \ {0}
      BY <3>2
    <3>4. TheLetters[k] = Repeated(x)
      BY <2>2 DEF TheLetters
    <3> HIDE DEF x
    <3> QED
      BY <3>3, <3>4, RepeatedIs
  <2>3. CASE port \notin {"random", "lemire"}
    <3>1. TheLetters[k] = Repeated(k)
      BY <2>3 DEF TheLetters
    <3> QED
      BY <3>1, RepeatedIs
  <2> QED
    BY <2>1, <2>2, <2>3
<1> QED
  BY <1>1 DEF TheLetters, Letterings

\* Two programs repeat the string as it is.
LEMMA LettersRepeat ==
  ASSUME TextTypes, port \in {"c", "ganszky"}
  PROVE  \A k \in Nat \ {0} : TheLetters[k] = ((k - 1) % len) + 1
BY RepeatedIs DEF TheLetters

\* number is b letters after a lines.
LEMMA NumberOf ==
  ASSUME TextTypes
  PROVE  \E a \in Nat, b \in 0..(Width - 1) :
           /\ number \div Width = a /\ number % Width = b
           /\ number = a * Width + b /\ Bytes = a * (Width + 1) + b
           /\ a * Width \in Nat /\ a * (Width + 1) \in Nat
           /\ number + (number + Width - 1) \div Width = IF b = 0 THEN Bytes ELSE Bytes + 1
<1> DEFINE a == number \div Width
           b == number % Width
<1>1. Width \in Nat \ {0} /\ number \in Nat
  BY TextFacts
<1>2. a \in Nat /\ b \in 0..(Width - 1) /\ number = a * Width + b /\ Bytes = number + a
  BY <1>1, DivMod DEF Bytes
<1> HIDE DEF a, b
<1>3. a * Width \in Nat /\ a * (Width + 1) \in Nat /\ a * (Width + 1) = a * Width + a
  BY <1>1, <1>2
<1>4. (number + Width - 1) \div Width = IF b = 0 THEN a ELSE a + 1
  <2> DEFINE x == b + (Width - 1)
  <2>1. x \in Nat /\ number + Width - 1 = a * Width + x
    BY <1>1, <1>2, <1>3
  <2>2. CASE b = 0
    <3>1. x \in 0..(Width - 1)
      BY <1>1, <2>2
    <3> HIDE DEF x
    <3>2. x \div Width = 0
      BY <1>1, <3>1, SmallNumber
    <3>3. (a * Width + x) \div Width = a + (x \div Width)
      BY <1>1, <1>2, <2>1, AddMultiple
    <3> QED
      BY <1>2, <2>1, <2>2, <3>2, <3>3
  <2>3. CASE b # 0
    <3> DEFINE y == b - 1
               c == a + 1
    <3>1. y \in 0..(Width - 1) /\ y \in Nat /\ c \in Nat
      BY <1>1, <1>2, <2>3
    <3>2. c * Width = a * Width + Width
      BY <1>1, <1>2
    <3>3. number + Width - 1 = c * Width + y
      BY <1>1, <1>2, <1>3, <2>1, <3>2
    <3> HIDE DEF x, y, c
    <3>4. y \div Width = 0
      BY <1>1, <3>1, SmallNumber
    <3>5. (c * Width + y) \div Width = c + (y \div Width)
      BY <1>1, <3>1, AddMultiple
    <3> QED
      BY <1>2, <2>3, <3>1, <3>3, <3>4, <3>5 DEF c
  <2> QED
    BY <2>2, <2>3
<1>5. number + (number + Width - 1) \div Width = IF b = 0 THEN Bytes ELSE Bytes + 1
  BY <1>1, <1>2, <1>4
<1> QED
  BY <1>2, <1>3, <1>5 DEF a, b

\* What is printed once all letters are there.
LEMMA TextIs ==
  ASSUME TextTypes, NEW s, Lined(s, TheLetters, Bytes)
  PROVE  IF number % Width = 0 THEN s = Text ELSE s \o <<0>> = Text
<1> DEFINE L == TheLetters
<1>1. PICK a \in Nat, b \in 0..(Width - 1) :
        /\ number \div Width = a /\ number % Width = b
        /\ number = a * Width + b /\ Bytes = a * (Width + 1) + b
        /\ a * Width \in Nat /\ a * (Width + 1) \in Nat
        /\ number + (number + Width - 1) \div Width = IF b = 0 THEN Bytes ELSE Bytes + 1
  BY NumberOf
<1> HIDE DEF L
<1>2. s \in Seq(Int) /\ Len(s) = Bytes /\ \A p \in 1..Bytes : s[p] = Byte(L, p)
  BY DEF Lined, L
<1>3. Bytes \in Nat /\ Width \in Nat
  <2>1. Width \in Nat
    BY TextFacts
  <2> QED
    BY <1>1, <2>1
<1>4. CASE b = 0
  <2>1. Text = [p \in 1..Bytes |-> IF p = Bytes THEN 0 ELSE Byte(L, p)]
    BY <1>1, <1>4 DEF Text, L
  <2>2. ASSUME Bytes # 0 PROVE Byte(L, Bytes) = 0
    <3>1. a # 0
      BY <1>1, <1>3, <1>4, <2>2
    <3> DEFINE q == a - 1
    <3>2. q \in Nat /\ a = q + 1
      BY <3>1
    <3>3. Bytes = (q + 1) * (Width + 1)
      BY <1>1, <1>3, <1>4, <3>2
    <3> HIDE DEF q
    <3> QED
      BY <3>2, <3>3, ByteIs
  <2>3. \A p \in 1..Bytes : s[p] = IF p = Bytes THEN 0 ELSE Byte(L, p)
    BY <1>2, <1>3, <2>2
  <2>4. s = [p \in 1..Bytes |-> s[p]]
    BY <1>2
  <2> QED
    BY <1>1, <1>4, <2>1, <2>3, <2>4
<1>5. CASE b # 0
  <2> DEFINE t == s \o <<0>>
             n == Bytes + 1
  <2>1. Text = [p \in 1..n |-> IF p = n THEN 0 ELSE Byte(L, p)]
    BY <1>1, <1>5 DEF Text, L
  <2>2. t \in Seq(Int) /\ Len(t) = n
    BY <1>2
  <2>3. \A p \in 1..n : t[p] = IF p = n THEN 0 ELSE Byte(L, p)
    BY <1>2, <1>3
  <2> HIDE DEF t, n
  <2>4. t = [p \in 1..n |-> t[p]]
    BY <2>2
  <2> QED
    BY <1>1, <1>5, <2>1, <2>3, <2>4 DEF t
<1> QED
  BY <1>4, <1>5

-----------------------------------------------------------------------------
(* What a step needs of them. *)

LEMMA SameText ==
  ASSUME UNCHANGED input
  PROVE  TheLetters' = TheLetters /\ Text' = Text /\ Block' = Block /\ Bytes' = Bytes
<1>1. port' = port /\ len' = len /\ number' = number
  BY DEF input
<1>2. TheLetters' = TheLetters
  BY <1>1 DEF TheLetters, Repeated, LineOf
<1> QED
  BY <1>1, <1>2 DEF Text, Block, Bytes

LEMMA WrappedIs ==
  ASSUME TextTypes
  PROVE  /\ port \in {"c", "ganszky"} => Wrapped(Repeated) = Text
         /\ port = "random" => Wrapped(LAMBDA k : k) = Text
         /\ port = "lemire" => Wrapped(LAMBDA k : Repeated(k + LineOf(k))) = Text
<1> DEFINE bytes == number + (number + Width - 1) \div Width
           L == TheLetters
<1>1. Text = [p \in 1..bytes |-> IF p = bytes \/ p % (Width + 1) = 0 THEN 0
                                 ELSE L[p - (p \div (Width + 1))]]
  BY DEF Text, Byte
<1>2. ASSUME NEW p \in 1..bytes, p % (Width + 1) # 0
      PROVE  p - (p \div (Width + 1)) \in Nat \ {0}
  <2> DEFINE m == Width + 1
             q == p \div m
             c == p % m
  <2>1. p \in Nat /\ m \in Nat \ {0} /\ Width \in Nat
    BY TextFacts
  <2>2. q \in Nat /\ c \in 0..(m - 1) /\ p = q * m + c
    BY <2>1, DivMod
  <2>3. c # 0
    BY <1>2
  <2> HIDE DEF q, c
  <2>4. q * Width \in Nat /\ q * m = q * Width + q
    BY <2>1, <2>2
  <2>5. p - q = q * Width + c
    BY <2>1, <2>2, <2>4
  <2>6. p - q \in Nat \ {0}
    BY <2>1, <2>2, <2>3, <2>4, <2>5
  <2> QED
    BY <2>6 DEF q
<1> HIDE DEF bytes
<1>3. CASE port \in {"c", "ganszky"}
  <2>1. \A k \in Nat \ {0} : L[k] = Repeated(k)
    BY <1>3 DEF TheLetters
  <2>2. Wrapped(Repeated) =
          [p \in 1..bytes |-> IF p = bytes \/ p % (Width + 1) = 0 THEN 0
                              ELSE Repeated(p - (p \div (Width + 1)))]
    BY DEF Wrapped, bytes
  <2> HIDE DEF L
  <2> QED
    BY <1>1, <1>2, <1>3, <2>1, <2>2
<1>4. CASE port = "random"
  <2>1. \A k \in Nat \ {0} : L[k] = k
    BY <1>4 DEF TheLetters
  <2>2. Wrapped(LAMBDA k : k) =
          [p \in 1..bytes |-> IF p = bytes \/ p % (Width + 1) = 0 THEN 0
                              ELSE p - (p \div (Width + 1))]
    BY DEF Wrapped, bytes
  <2> HIDE DEF L
  <2> QED
    BY <1>1, <1>2, <1>4, <2>1, <2>2
<1>5. CASE port = "lemire"
  <2> DEFINE F(k) == Repeated(k + LineOf(k))
  <2>1. \A k \in Nat \ {0} : L[k] = F(k)
    BY <1>5 DEF TheLetters
  <2>2. Wrapped(LAMBDA k : Repeated(k + LineOf(k))) =
          [p \in 1..bytes |-> IF p = bytes \/ p % (Width + 1) = 0 THEN 0
                              ELSE F(p - (p \div (Width + 1)))]
    BY DEF Wrapped, bytes
  <2> HIDE DEF L, F
  <2> QED
    BY <1>1, <1>2, <1>5, <2>1, <2>2
<1> QED
  BY <1>3, <1>4, <1>5

\* A copy is of the letters that follow the first x, if it starts where they end.
LEMMA CopyIs ==
  ASSUME TextTypes, NEW from \in Nat, NEW x \in Nat, from % len = x % len, NEW n \in Nat
  PROVE  /\ Copy(from, n) \in Seq(Int) /\ Len(Copy(from, n)) = n
         /\ \A i \in 1..n : Copy(from, n)[i] = (((x + i) - 1) % len) + 1
<1> DEFINE t == Copy(from, n)
<1>0. len \in Nat \ {0}
  BY TextFacts
<1>1. ASSUME NEW i \in 1..n
      PROVE  ((from + i) - 1) % len = ((x + i) - 1) % len /\ ((from + i) - 1) % len \in Nat
  <2> DEFINE k == i - 1
  <2>0. k \in Nat
    OBVIOUS
  <2>1. (from + i) - 1 = from + k /\ (x + i) - 1 = x + k /\ from + k \in Nat
    OBVIOUS
  <2> HIDE DEF k
  <2>2. (from + k) % len = (x + k) % len
    <3>1. Congruent(from, x, len)
      BY DEF Congruent
    <3>2. Congruent(from + k, x + k, len)
      BY <1>0, <2>0, <3>1, SameRemainder
    <3> QED
      BY <3>2 DEF Congruent
  <2>3. (from + k) % len \in 0..(len - 1)
    BY <1>0, <2>1, DivMod
  <2> QED
    BY <1>0, <2>1, <2>2, <2>3
<1>2. t = [i \in 1..n |-> (((from + i) - 1) % len) + 1]
  BY DEF Copy, Extended
<1>3. \A i \in 1..n : t[i] = (((x + i) - 1) % len) + 1 /\ t[i] \in Int
  BY <1>1, <1>2
<1> HIDE DEF t
<1>4. t \in Seq(Int) /\ Len(t) = n
  <2>1. t \in [1..n -> Int]
    BY <1>2, <1>3
  <2> QED
    BY <2>1
<1> QED
  BY <1>3, <1>4 DEF t

\* offset moves on with the letters.
LEMMA AdvanceIs ==
  ASSUME TextTypes, NEW x \in Nat, Placed(x), NEW n \in Nat, n <= len
  PROVE  Advance(n) \in Nat /\ Advance(n) <= len /\ Advance(n) % len = (x + n) % len
<1>1. len \in Nat \ {0} /\ offset \in Nat /\ offset <= len /\ offset % len = x % len
  BY TextFacts DEF TextTypes, Placed
<1>2. (offset + n) % len = (x + n) % len
  <2>1. Congruent(offset, x, len)
    BY <1>1 DEF Congruent
  <2>2. len \in Nat \ {0} /\ offset \in Nat
    BY <1>1
  <2>3. Congruent(offset + n, x + n, len)
    BY <2>1, <2>2, SameRemainder
  <2> QED
    BY <2>3 DEF Congruent
<1>3. CASE offset + n <= len
  <2>1. Advance(n) = offset + n
    BY <1>1, <1>3 DEF Advance
  <2> QED
    BY <1>1, <1>2, <1>3, <2>1
<1>4. CASE offset + n > len
  <2> DEFINE y == (offset + n) - len
  <2>1. y \in Nat /\ y <= len /\ 1 * len + y = offset + n /\ 1 \in Nat
    BY <1>1, <1>4
  <2>2. Advance(n) = y
    BY <1>1, <1>4 DEF Advance
  <2> HIDE DEF y
  <2>3. (1 * len + y) % len = y % len
    BY <1>1, <2>1, AddMultiple
  <2> QED
    BY <1>2, <2>1, <2>2, <2>3
<1> QED
  BY <1>1, <1>3, <1>4

\* What follows r blocks.
LEMMA BlockAdded ==
  ASSUME TextTypes, port \in {"c", "ganszky"}, NEW r \in Nat, NEW s,
         Lined(s, TheLetters, r * Block), NEW b, NEW k \in Nat, Lined(b, TheLetters, k)
  PROVE  Lined(s \o b, TheLetters, r * Block + k)
<1> DEFINE R == r * len
<1>1. len \in Nat \ {0} /\ Width \in Nat
  BY TextFacts
<1>2. R \in Nat /\ R * (Width + 1) = r * Block /\ R = r * len
  BY <1>1 DEF Block
<1> HIDE DEF R
<1>3. PICK L : L = TheLetters
  OBVIOUS
<1>4. Cycles(L, len)
  BY <1>3, LettersRepeat DEF Cycles
<1>5. ASSUME NEW i \in Nat \ {0} PROVE L[R * Width + i] = L[i]
  <2>1. len \in Nat \ {0}
    BY <1>1
  <2> QED
    BY <1>2, <1>4, <2>1, StringRepeats
<1>6. Lined(s, L, R * (Width + 1)) /\ Lined(b, L, k)
  BY <1>2, <1>3
<1>7. Lined(s \o b, L, R * (Width + 1) + k)
  BY <1>2, <1>5, <1>6, CopyAdded
<1> QED
  BY <1>2, <1>3, <1>7

\* What is left once r blocks are printed.
LEMMA LeftIs ==
  ASSUME TextTypes, NEW r \in Nat, left + r * Block = Bytes
  PROVE  /\ left % (Width + 1) = number % Width
         /\ number % Width = 0 /\ left < Block =>
              (left = 0 <=> (number \div Width) % len = 0)
<1> DEFINE m == Width + 1
<1>1. len \in Nat \ {0} /\ Width \in Nat \ {0} /\ m \in Nat \ {0} /\ left \in Nat
  BY TextFacts DEF TextTypes
<1>2. PICK a \in Nat, b \in 0..(Width - 1) :
        /\ number \div Width = a /\ number % Width = b
        /\ number = a * Width + b /\ Bytes = a * (Width + 1) + b
        /\ a * Width \in Nat /\ a * (Width + 1) \in Nat
        /\ number + (number + Width - 1) \div Width = IF b = 0 THEN Bytes ELSE Bytes + 1
  BY NumberOf
<1> DEFINE R == r * len
<1>3. R \in Nat /\ R * m = r * Block /\ r * Block \in Nat /\ Block \in Nat \ {0}
      /\ Block = len * m
  BY <1>1 DEF Block
<1>4. left % m = b
  <2>1. b \in Nat /\ b \in 0..(m - 1) /\ R * m + left = a * m + b
    BY <1>1, <1>2, <1>3
  <2> HIDE DEF m, R
  <2>2. b % m = b
    BY <1>1, <2>1, SmallNumber
  <2>3. (a * m + b) % m = b % m /\ (R * m + left) % m = left % m
    BY <1>1, <1>3, <2>1, AddMultiple
  <2> QED
    BY <2>1, <2>2, <2>3
<1>5. ASSUME b = 0, left < Block PROVE left = 0 <=> a % len = 0
  <2> DEFINE x == a \div len
             y == a % len
             z == y * m
  <2>1. x \in Nat /\ y \in 0..(len - 1) /\ y \in Nat /\ a = x * len + y
    <3>1. a \in Nat /\ len \in Nat \ {0}
      BY <1>1
    <3>2. x \in Nat /\ y \in 0..(len - 1) /\ a = x * len + y
      BY <3>1, DivMod
    <3> QED
      BY <1>1, <3>2
  <2> HIDE DEF x, y
  <2>2. y * m \in Nat /\ (y * m = 0 <=> y = 0) /\ y * m + m <= len * m
    <3>1. y * m \in Nat /\ y * m + m <= len * m
      BY <1>1, <2>1, Multiples
    <3>2. y # 0 => 1 * m <= y * m
      BY <1>1, <2>1, Multiples
    <3>3. 0 * m = 0 /\ 1 * m = m
      BY <1>1
    <3> QED
      BY <1>1, <2>1, <3>1, <3>2, <3>3
  <2>3. a * m = x * Block + y * m
    <3>1. x * len \in Nat /\ a * m = (x * len) * m + y * m
      BY <1>1, <2>1
    <3>2. (x * len) * m = x * (len * m)
      BY <1>1, <2>1
    <3> QED
      BY <1>3, <3>1, <3>2
  <2>4. x * Block \in Nat
    BY <1>3, <2>1
  <2>5. r * Block + left = x * Block + z
    BY <1>1, <1>2, <1>3, <1>5, <2>2, <2>3, <2>4
  <2>6. left \in 0..(Block - 1) /\ z \in 0..(Block - 1)
    BY <1>1, <1>3, <1>5, <2>2
  <2> HIDE DEF z, m
  <2>7. r = x /\ left = z
    <3>1. Block \in Nat \ {0} /\ r \in Nat /\ x \in Nat
      BY <1>3, <2>1
    <3> QED
      BY <2>5, <2>6, <3>1, OneRemainder
  <2> QED
    BY <2>2, <2>7 DEF z, y
<1> QED
  BY <1>2, <1>4, <1>5

-----------------------------------------------------------------------------
(* The steps. *)

LEMMA CLineKeeps ==
  ASSUME TextInv, CLine
  PROVE  TextInv'
<1> DEFINE n == line_Length
           t == Copy(offset, n)
<1>0. TextTypes /\ port = "c" /\ pc = "fill" /\ left > 0 /\ left \in Nat /\ offset \in Nat
      /\ UNCHANGED <<input, pc, output>> /\ buffer' = buffer \o t \o <<0>>
      /\ offset' = Advance(n) /\ left' = left - n
  BY DEF TextInv, TextTypes, CLine
<1>1. port' = port /\ len' = len /\ number' = number /\ pc' = pc /\ output' = output
  BY <1>0 DEF input
<1>2. PICK j \in 0..len : /\ left = (len - j) * Width /\ Placed(j * Width)
                          /\ Lined(buffer, TheLetters, j * (Width + 1))
  BY <1>0 DEF TextInv, FillsC
<1>3. PICK L : L = TheLetters
  OBVIOUS
<1>4. L' = L /\ TheLetters' = L /\ Text' = Text /\ Block' = Block /\ Bytes' = Bytes
  BY <1>0, <1>3, SameText
<1>5. len \in Nat \ {0} /\ Width \in Nat \ {0} /\ Width <= len /\ j \in Nat /\ j <= len
      /\ Block = len * (Width + 1) /\ Block = len * Width + len
  BY <1>0, TextFacts DEF Block
<1>6. j < len /\ left >= Width /\ left - Width = (len - (j + 1)) * Width
  <2>1. j # len
    BY <1>0, <1>2, <1>5
  <2> DEFINE k == len - (j + 1)
  <2>2. k \in Nat /\ len - j = k + 1
    BY <1>5, <2>1
  <2>3. k * Width \in Nat /\ (k + 1) * Width = k * Width + Width
    BY <1>5, <2>2, Multiples
  <2> QED
    BY <1>2, <1>5, <2>1, <2>2, <2>3
<1>7. n = Width
  BY <1>0, <1>5, <1>6 DEF line_Length
<1> HIDE DEF n, t
<1> DEFINE x == j * Width
<1>8. x \in Nat /\ (j + 1) * Width = x + n
  BY <1>5, <1>7, Multiples
<1>9. offset' \in Nat /\ offset' <= len /\ offset' % len = (x + n) % len
  <2>1. Placed(x)
    BY <1>2
  <2> HIDE DEF x
  <2> QED
    BY <1>0, <1>5, <1>7, <1>8, <2>1, AdvanceIs
<1>10. Placed((j + 1) * Width)'
  BY <1>1, <1>8, <1>9 DEF Placed
<1>11. t \in Seq(Int) /\ Len(t) = Width /\ \A i \in 1..Len(t) : t[i] = L[j * Width + i]
  <2>1. offset % len = x % len
    BY <1>2 DEF Placed
  <2>2. x \in Nat /\ n \in Nat
    BY <1>5, <1>7, <1>8
  <2> HIDE DEF x
  <2>3. t \in Seq(Int) /\ Len(t) = n /\ \A i \in 1..n : t[i] = (((x + i) - 1) % len) + 1
    BY <1>0, <2>1, <2>2, CopyIs DEF t
  <2>4. \A k \in Nat \ {0} : L[k] = ((k - 1) % len) + 1
    BY <1>0, <1>3, LettersRepeat
  <2>5. ASSUME NEW i \in 1..n PROVE t[i] = L[x + i]
    <3>1. x + i \in Nat \ {0}
      BY <2>2
    <3> QED
      BY <2>3, <2>4, <3>1
  <2> QED
    BY <1>7, <2>3, <2>5 DEF x
<1>12. Lined(buffer \o t \o <<0>>, L, (j + 1) * (Width + 1))
  <2>1. Lined(buffer, L, j * (Width + 1)) /\ Len(t) <= Width /\ j \in Nat
    BY <1>2, <1>3, <1>5, <1>11
  <2> QED
    BY <1>11, <2>1, LineAdded
<1>13. j + 1 \in 0..len /\ (j + 1) * (Width + 1) <= Block /\ (j + 1) * (Width + 1) \in Nat
  BY <1>5, <1>6, Multiples
<1>14. FillsC'
  <2>1. left' = (len - (j + 1)) * Width
    BY <1>0, <1>6, <1>7
  <2>2. output' = <<>>
    BY <1>0, <1>1 DEF TextInv, FillsC
  <2>3. Lined(buffer, TheLetters, (j + 1) * (Width + 1))'
    BY <1>0, <1>4, <1>12 DEF Lined
  <2> QED
    BY <1>1, <1>10, <1>13, <2>1, <2>2, <2>3 DEF FillsC
<1>15. buffer' \in Seq(Int) /\ Len(buffer') = (j + 1) * (Width + 1)
  BY <1>0, <1>12 DEF Lined
<1>16. TextTypes'
  <2>1. left' \in Nat
    BY <1>0, <1>5, <1>6, <1>7
  <2> QED
    BY <1>0, <1>1, <1>9, <1>15, <2>1 DEF TextTypes
<1>17. InBounds'
  BY <1>0, <1>1, <1>5, <1>9, <1>13, <1>15 DEF InBounds, Lemire
<1>18. FillsG' /\ Repeats' /\ FillsL' /\ PrintsTheLetters'
  BY <1>0, <1>1 DEF FillsG, Repeats, FillsL, PrintsTheLetters, Lemire
<1> QED
  BY <1>14, <1>16, <1>17, <1>18 DEF TextInv

LEMMA CFilledKeeps ==
  ASSUME TextInv, CFilled
  PROVE  TextInv'
<1>0. TextTypes /\ port = "c" /\ pc = "fill" /\ left = 0 /\ left' = Bytes /\ pc' = "repeat"
      /\ UNCHANGED <<input, offset, buffer, output>>
  BY DEF TextInv, CFilled
<1>1. port' = port /\ len' = len /\ number' = number
  BY <1>0 DEF input
<1>2. PICK j \in 0..len : /\ left = (len - j) * Width
                          /\ Lined(buffer, TheLetters, j * (Width + 1))
  BY <1>0 DEF TextInv, FillsC
<1>3. TheLetters' = TheLetters /\ Block' = Block /\ Bytes' = Bytes
  BY <1>0, SameText
<1>4. len \in Nat /\ Width \in Nat \ {0} /\ Block \in Nat
  BY <1>0, TextFacts
<1>5. j = len
  <2> DEFINE k == len - j
  <2>1. k \in Nat /\ k * Width = 0
    BY <1>0, <1>2, <1>4
  <2>2. k # 0 => 1 * Width <= k * Width
    BY <1>4, <2>1, Multiples
  <2> HIDE DEF k
  <2>3. k = 0
    BY <1>4, <2>1, <2>2
  <2> QED
    BY <1>4, <2>3 DEF k
<1>6. Lined(buffer, TheLetters, Block)'
  BY <1>0, <1>2, <1>3, <1>5 DEF Lined, Block
<1>7. Bytes \in Nat
  <2>1. number \in Nat /\ Width \in Nat \ {0}
    BY <1>0, TextFacts
  <2> QED
    BY <2>1, DivMod DEF Bytes
<1>8. 0 \in Nat /\ left' + 0 * Block' = Bytes' /\ Lined(output, TheLetters, 0 * Block)'
  <2>1. output' = <<>>
    BY <1>0 DEF TextInv, FillsC
  <2> QED
    BY <1>0, <1>3, <1>4, <1>7, <2>1 DEF Lined
<1>9. Repeats'
  BY <1>0, <1>1, <1>6, <1>8 DEF Repeats
<1>10. TextTypes'
  BY <1>0, <1>1, <1>7 DEF TextTypes
<1>11. InBounds'
  BY <1>0, <1>1 DEF TextInv, InBounds, Lemire
<1>12. FillsC' /\ FillsG' /\ FillsL' /\ PrintsTheLetters'
  BY <1>0, <1>1 DEF FillsC, FillsG, FillsL, PrintsTheLetters, Lemire
<1> QED
  BY <1>9, <1>10, <1>11, <1>12 DEF TextInv

\* Another copy of the block.
LEMMA Printed ==
  ASSUME TextTypes, port \in {"c", "ganszky"}, NEW r \in Nat, left + r * Block = Bytes,
         Lined(output, TheLetters, r * Block), left >= Block,
         NEW b, Lined(b, TheLetters, Block)
  PROVE  /\ r + 1 \in Nat /\ (left - Block) + (r + 1) * Block = Bytes
         /\ Lined(output \o b, TheLetters, (r + 1) * Block)
<1>1. Block \in Nat /\ left \in Nat
  BY TextFacts DEF TextTypes
<1>2. r * Block \in Nat /\ (r + 1) * Block = r * Block + Block
  BY <1>1, Multiples
<1>3. Lined(output \o b, TheLetters, r * Block + Block)
  BY <1>1, BlockAdded
<1> QED
  BY <1>1, <1>2, <1>3

LEMMA CRepeatKeeps ==
  ASSUME TextInv, CRepeat
  PROVE  TextInv'
<1>0. TextTypes /\ port = "c" /\ pc = "repeat" /\ left >= Len(buffer)
      /\ output' = output \o buffer /\ left' = left - Len(buffer)
      /\ UNCHANGED <<input, pc, offset, buffer>>
  BY DEF TextInv, CRepeat
<1>1. port' = port /\ len' = len /\ number' = number
  BY <1>0 DEF input
<1>2. PICK r \in Nat : left + r * Block = Bytes /\ Lined(output, TheLetters, r * Block)
  BY <1>0 DEF TextInv, Repeats
<1>3. TheLetters' = TheLetters /\ Block' = Block /\ Bytes' = Bytes
  BY <1>0, SameText
<1>4. Lined(buffer, TheLetters, Block) /\ Len(buffer) = Block /\ Block \in Nat
  BY <1>0, TextFacts DEF TextInv, Repeats, Lined
<1>5. /\ r + 1 \in Nat /\ (left - Block) + (r + 1) * Block = Bytes
      /\ Lined(output \o buffer, TheLetters, (r + 1) * Block)
  BY <1>0, <1>2, <1>4, Printed
<1>6. Repeats'
  <2>1. Lined(buffer, TheLetters, Block)'
    BY <1>0, <1>3, <1>4 DEF Lined
  <2>2. left' + (r + 1) * Block' = Bytes' /\ Lined(output, TheLetters, (r + 1) * Block)'
    BY <1>0, <1>3, <1>4, <1>5 DEF Lined
  <2> QED
    BY <1>0, <1>1, <1>5, <2>1, <2>2 DEF Repeats
<1>7. TextTypes'
  <2>1. left' \in Nat
    BY <1>0, <1>4 DEF TextTypes
  <2>2. output' \in Seq(Int)
    BY <1>0, <1>5 DEF Lined
  <2> QED
    BY <1>0, <1>1, <2>1, <2>2 DEF TextTypes
<1>8. InBounds'
  BY <1>0, <1>1 DEF TextInv, InBounds, Lemire
<1>9. FillsC' /\ FillsG' /\ FillsL' /\ PrintsTheLetters'
  BY <1>0, <1>1 DEF FillsC, FillsG, FillsL, PrintsTheLetters, Lemire
<1> QED
  BY <1>6, <1>7, <1>8, <1>9 DEF TextInv

LEMMA CRestKeeps ==
  ASSUME TextInv, CRest
  PROVE  TextInv'
<1> DEFINE t == SubSeq(buffer, 1, left)
<1>0. TextTypes /\ port = "c" /\ pc = "repeat" /\ left < Len(buffer) /\ left \in Nat
      /\ buffer \in Seq(Int) /\ output \in Seq(Int)
      /\ output' = (IF left > 0 THEN output \o t \o <<0>> ELSE output)
      /\ pc' = "done" /\ UNCHANGED <<input, offset, left, buffer>>
  BY DEF TextInv, TextTypes, CRest
<1>1. port' = port /\ len' = len /\ number' = number
  BY <1>0 DEF input
<1>2. PICK r \in Nat : left + r * Block = Bytes /\ Lined(output, TheLetters, r * Block)
  BY <1>0 DEF TextInv, Repeats
<1>3. Lined(buffer, TheLetters, Block) /\ Len(buffer) = Block /\ Block \in Nat
  BY <1>0, TextFacts DEF TextInv, Repeats, Lined
<1>4. Width \in Nat \ {0} /\ Width + 1 \in Nat \ {0} /\ r * Block \in Nat
  BY <1>0, <1>3, TextFacts
<1>5. /\ left % (Width + 1) = number % Width
      /\ number % Width = 0 => (left = 0 <=> (number \div Width) % len = 0)
  BY <1>0, <1>2, <1>3, LeftIs
<1>6. left = 0 => number % Width = 0
  BY <1>4, <1>5, SmallNumber
<1>7. ASSUME left > 0 PROVE Lined(output \o t, TheLetters, Bytes)
  <2>1. Lined(t, TheLetters, left)
    BY <1>0, <1>3, LinedFirst
  <2>2. Lined(output \o t, TheLetters, r * Block + left)
    BY <1>0, <1>2, <2>1, BlockAdded
  <2> QED
    BY <1>0, <1>2, <1>4, <2>2
<1>8. ASSUME left = 0 PROVE Lined(output, TheLetters, Bytes)
  BY <1>0, <1>2, <1>4, <1>8
<1>9. output' = Text \o (IF number % Width = 0 /\ (number \div Width) % len # 0
                         THEN <<0>> ELSE <<>>)
  <2>1. CASE left = 0
    <3>1. output = Text
      BY <1>0, <1>6, <1>8, <2>1, TextIs
    <3>2. output \o <<>> = output
      BY <1>0
    <3> QED
      BY <1>0, <1>5, <1>6, <2>1, <3>1, <3>2
  <2>2. CASE left > 0 /\ number % Width = 0
    <3>1. output \o t = Text
      BY <1>0, <1>7, <2>2, TextIs
    <3>2. output' = Text \o <<0>>
      BY <1>0, <2>2, <3>1
    <3>3. (number \div Width) % len # 0
      BY <1>0, <1>5, <2>2
    <3> QED
      BY <2>2, <3>2, <3>3
  <2>3. CASE left > 0 /\ number % Width # 0
    <3>1. (output \o t) \o <<0>> = Text
      BY <1>0, <1>7, <2>3, TextIs
    <3>2. output' = Text /\ output' \in Seq(Int)
      <4>1. t \in Seq(Int)
        BY <1>0, <1>3
      <4> HIDE DEF t
      <4>2. (output \o t) \o <<0>> \in Seq(Int)
        BY <1>0, <4>1
      <4> QED
        BY <1>0, <2>3, <3>1, <4>2
    <3>3. output' \o <<>> = output'
      BY <3>2
    <3> QED
      BY <2>3, <3>2, <3>3
  <2>4. left = 0 \/ left > 0
    BY <1>0
  <2> QED
    BY <2>1, <2>2, <2>3, <2>4
<1>10. PrintsTheLetters'
  <2>1. Wrapped(Repeated) = Text
    BY <1>0, WrappedIs
  <2>2. Wrapped(Repeated)' = Wrapped(Repeated)
    BY <1>1 DEF Wrapped, Repeated
  <2> QED
    BY <1>0, <1>1, <1>9, <2>1, <2>2 DEF PrintsTheLetters
<1>11. TextTypes'
  <2>1. output' \in Seq(Int)
    <3>1. t \in Seq(Int)
      BY <1>0, <1>3
    <3> HIDE DEF t
    <3>2. output \o t \o <<0>> \in Seq(Int)
      BY <1>0, <3>1
    <3> QED
      BY <1>0, <3>2
  <2> QED
    BY <1>0, <1>1, <2>1 DEF TextTypes
<1>12. InBounds'
  BY <1>0, <1>1 DEF TextInv, InBounds, Lemire
<1>13. FillsC' /\ FillsG' /\ FillsL' /\ Repeats'
  BY <1>0, <1>1 DEF FillsC, FillsG, FillsL, Repeats
<1> QED
  BY <1>10, <1>11, <1>12, <1>13 DEF TextInv

LEMMA GLineKeeps ==
  ASSUME TextInv, GLine
  PROVE  TextInv'
<1> DEFINE t == Copy(offset, Width)
           e == IF left > 1 THEN <<0>> ELSE <<>>
<1>0. TextTypes /\ port = "ganszky" /\ pc = "fill" /\ left > 0 /\ left \in Nat
      /\ offset \in Nat /\ UNCHANGED <<input, pc, output>> /\ buffer' = buffer \o t \o e
      /\ offset' = offset + Width /\ left' = left - 1
  BY DEF TextInv, TextTypes, GLine
<1>1. port' = port /\ len' = len /\ number' = number /\ pc' = pc /\ output' = output
  BY <1>0 DEF input
<1>2. PICK j \in 0..len :
        /\ left = len - j /\ offset = j * Width
        /\ Lined(buffer, TheLetters, IF j = len THEN Block - 1 ELSE j * (Width + 1))
  BY <1>0 DEF TextInv, FillsG
<1>3. PICK L : L = TheLetters
  OBVIOUS
<1>4. TheLetters' = L /\ Block' = Block
  BY <1>0, <1>3, SameText
<1>5. len \in Nat \ {0} /\ Width \in Nat \ {0} /\ j \in Nat /\ j < len
      /\ Block = len * (Width + 1) /\ Block = len * Width + len /\ offset \in Nat
  <2>1. len \in Nat \ {0} /\ Width \in Nat \ {0} /\ Block = len * Width + len
    BY <1>0, TextFacts
  <2>2. j \in Nat /\ j < len
    BY <1>0, <1>2, <2>1
  <2> QED
    BY <1>0, <2>1, <2>2 DEF Block
<1>6. t \in Seq(Int) /\ Len(t) = Width /\ \A i \in 1..Len(t) : t[i] = L[j * Width + i]
  <2>1. t \in Seq(Int) /\ Len(t) = Width
        /\ \A i \in 1..Width : t[i] = (((offset + i) - 1) % len) + 1
    BY <1>0, <1>5, CopyIs
  <2>2. \A k \in Nat \ {0} : L[k] = ((k - 1) % len) + 1
    BY <1>0, <1>3, LettersRepeat
  <2> HIDE DEF t
  <2>3. ASSUME NEW i \in 1..Width PROVE t[i] = L[offset + i]
    <3>1. offset + i \in Nat \ {0}
      BY <1>5
    <3> QED
      BY <2>1, <2>2, <3>1
  <2> QED
    BY <1>2, <2>1, <2>3
<1> HIDE DEF t
<1>7. /\ Lined(buffer \o t, L, j * (Width + 1) + Width)
      /\ Lined(buffer \o t \o <<0>>, L, (j + 1) * (Width + 1))
  <2>1. Lined(buffer, L, j * (Width + 1)) /\ Len(t) <= Width /\ j \in Nat
    BY <1>2, <1>3, <1>5, <1>6
  <2> QED
    BY <1>6, <2>1, LineAdded
<1>8. /\ (j + 1) * (Width + 1) = j * (Width + 1) + (Width + 1) /\ j * (Width + 1) \in Nat
      /\ (j + 1) * Width = j * Width + Width
  BY <1>5, Multiples
<1>9. Lined(buffer', L, IF j + 1 = len THEN Block - 1 ELSE (j + 1) * (Width + 1))
  <2>1. CASE j + 1 = len
    <3>1. left = 1 /\ Block - 1 = j * (Width + 1) + Width
      BY <1>2, <1>5, <1>8, <2>1
    <3>2. buffer \o t \in Seq(Int)
      BY <1>7 DEF Lined
    <3>3. (buffer \o t) \o <<>> = buffer \o t
      BY <3>2
    <3> QED
      BY <1>0, <1>7, <2>1, <3>1, <3>3
  <2>2. CASE j + 1 # len
    <3>1. left > 1
      BY <1>2, <1>5, <2>2
    <3> QED
      BY <1>0, <1>7, <2>2, <3>1
  <2> QED
    BY <2>1, <2>2
<1>10. FillsG'
  <2>1. j + 1 \in 0..len /\ left' = len - (j + 1) /\ offset' = (j + 1) * Width
    BY <1>0, <1>2, <1>5, <1>8
  <2>2. output' = <<>>
    BY <1>0, <1>1 DEF TextInv, FillsG
  <2>3. Lined(buffer, TheLetters, IF j + 1 = len THEN Block - 1
                                  ELSE (j + 1) * (Width + 1))'
    BY <1>1, <1>4, <1>9 DEF Lined
  <2> QED
    BY <1>1, <2>1, <2>2, <2>3 DEF FillsG
<1>11. TextTypes'
  <2>1. left' \in Nat /\ offset' \in Nat /\ buffer' \in Seq(Int)
    BY <1>0, <1>5, <1>9 DEF Lined
  <2> QED
    BY <1>0, <1>1, <2>1 DEF TextTypes
<1>12. FillsC' /\ Repeats' /\ FillsL' /\ PrintsTheLetters' /\ InBounds'
  BY <1>0, <1>1 DEF FillsC, Repeats, FillsL, PrintsTheLetters, Lemire, InBounds
<1> QED
  BY <1>10, <1>11, <1>12 DEF TextInv

LEMMA GFilledKeeps ==
  ASSUME TextInv, GFilled
  PROVE  TextInv'
<1>0. TextTypes /\ port = "ganszky" /\ pc = "fill" /\ left = 0 /\ left' = Bytes
      /\ pc' = (IF Bytes > aluSize THEN "repeat" ELSE "rest")
      /\ UNCHANGED <<input, offset, buffer, output>>
  BY DEF TextInv, GFilled
<1>1. port' = port /\ len' = len /\ number' = number
  BY <1>0 DEF input
<1>2. PICK j \in 0..len :
        /\ left = len - j
        /\ Lined(buffer, TheLetters, IF j = len THEN Block - 1 ELSE j * (Width + 1))
  BY <1>0 DEF TextInv, FillsG
<1>3. TheLetters' = TheLetters /\ Block' = Block /\ Bytes' = Bytes
  BY <1>0, SameText
<1>4. len \in Nat /\ Block \in Nat
  BY <1>0, TextFacts
<1>5. j = len /\ Lined(buffer, TheLetters, Block - 1)
  BY <1>0, <1>2, <1>4
<1>6. aluSize = Block
  BY <1>4, <1>5 DEF Lined, aluSize
<1>7. Bytes \in Nat
  <2>1. number \in Nat /\ Width \in Nat \ {0}
    BY <1>0, TextFacts
  <2> QED
    BY <2>1, DivMod DEF Bytes
<1>8. 0 \in Nat /\ left' + 0 * Block' = Bytes' /\ Lined(output, TheLetters, 0 * Block)'
  <2>1. output' = <<>>
    BY <1>0 DEF TextInv, FillsG
  <2> QED
    BY <1>0, <1>3, <1>4, <1>7, <2>1 DEF Lined
<1>9. Repeats'
  <2>1. Lined(buffer, TheLetters, Block - 1)'
    BY <1>0, <1>3, <1>5 DEF Lined
  <2>2. pc' = "rest" => left' <= Block'
    BY <1>0, <1>3, <1>4, <1>6, <1>7
  <2> QED
    BY <1>0, <1>1, <1>8, <2>1, <2>2 DEF Repeats
<1>10. TextTypes'
  BY <1>0, <1>1, <1>7 DEF TextTypes
<1>11. FillsC' /\ FillsG' /\ FillsL' /\ PrintsTheLetters' /\ InBounds'
  BY <1>0, <1>1 DEF FillsC, FillsG, FillsL, PrintsTheLetters, Lemire, InBounds
<1> QED
  BY <1>9, <1>10, <1>11 DEF TextInv

LEMMA GRepeatKeeps ==
  ASSUME TextInv, GRepeat
  PROVE  TextInv'
<1> DEFINE b == buffer \o <<0>>
<1>0. /\ TextTypes /\ port = "ganszky" /\ pc = "repeat" /\ left \in Nat /\ output \in Seq(Int)
      /\ left >= aluSize =>
           output' = output \o buffer \o <<0>> /\ left' = left - aluSize /\ pc' = pc
      /\ ~(left >= aluSize) => pc' = "rest" /\ output' = output /\ left' = left
      /\ UNCHANGED <<input, offset, buffer>>
  BY DEF TextInv, TextTypes, GRepeat
<1>1. port' = port /\ len' = len /\ number' = number
  BY <1>0 DEF input
<1>2. PICK r \in Nat : left + r * Block = Bytes /\ Lined(output, TheLetters, r * Block)
  BY <1>0 DEF TextInv, Repeats
<1>3. TheLetters' = TheLetters /\ Block' = Block /\ Bytes' = Bytes
  BY <1>0, SameText
<1>4. Lined(buffer, TheLetters, Block - 1)
  BY <1>0 DEF TextInv, Repeats
<1>5. Block \in Nat \ {0} /\ Width \in Nat
  BY <1>0, TextFacts
<1>6. aluSize = Block /\ buffer \in Seq(Int)
  BY <1>4, <1>5 DEF Lined, aluSize
<1>7. Lined(b, TheLetters, Block)
  <2> DEFINE m == Block - 1
             z == <<0>>
             j == len - 1
  <2>1. m \in Nat /\ z \in Seq(Int) /\ Len(z) = 1 /\ z[1] = 0
    BY <1>5
  <2>2. j \in Nat /\ len = j + 1
    <3>1. len \in Nat \ {0}
      BY <1>0, TextFacts
    <3> QED
      BY <3>1
  <2>3. Byte(TheLetters, Block) = 0
    <3> HIDE DEF j
    <3>1. Block = (j + 1) * (Width + 1)
      BY <2>2 DEF Block
    <3> QED
      BY <2>2, <3>1, ByteIs
  <2>4. \A i \in 1..Len(z) : z[i] = Byte(TheLetters, m + i)
    BY <1>5, <2>1, <2>3
  <2> HIDE DEF z
  <2>5. Lined(buffer \o z, TheLetters, m + Len(z))
    <3> HIDE DEF m
    <3>1. Lined(buffer, TheLetters, m)
      BY <1>4 DEF m
    <3> QED
      BY <2>1, <2>4, <3>1, LinedMore
  <2>6. m + Len(z) = Block
    BY <1>5, <2>1
  <2> QED
    BY <2>5, <2>6 DEF z
<1> HIDE DEF b
<1>8. ASSUME left >= Block PROVE Repeats' /\ TextTypes' /\ pc' \in {"repeat", "rest"}
  <2>1. /\ r + 1 \in Nat /\ (left - Block) + (r + 1) * Block = Bytes
        /\ Lined(output \o b, TheLetters, (r + 1) * Block)
    BY <1>0, <1>2, <1>7, <1>8, Printed
  <2>2. output' = output \o b /\ left' = left - Block /\ pc' = "repeat"
    <3>1. (output \o buffer) \o <<0>> = output \o b
      <4>1. <<0>> \in Seq(Int)
        OBVIOUS
      <4> QED
        BY <1>0, <1>6, <4>1, Regrouped DEF b
    <3> QED
      BY <1>0, <1>6, <1>8, <3>1
  <2>3. Repeats'
    <3>1. Lined(buffer, TheLetters, Block - 1)'
      BY <1>0, <1>3, <1>4 DEF Lined
    <3>2. left' + (r + 1) * Block' = Bytes' /\ Lined(output, TheLetters, (r + 1) * Block)'
      BY <1>3, <2>1, <2>2 DEF Lined
    <3> QED
      BY <1>0, <1>1, <2>1, <2>2, <3>1, <3>2 DEF Repeats
  <2>4. left' \in Nat /\ output' \in Seq(Int)
    BY <1>0, <1>5, <1>8, <2>1, <2>2 DEF Lined
  <2>5. TextTypes'
    BY <1>0, <1>1, <2>2, <2>4 DEF TextTypes
  <2> QED
    BY <2>2, <2>3, <2>5
<1>9. ASSUME left < Block PROVE Repeats' /\ TextTypes' /\ pc' \in {"repeat", "rest"}
  <2>1. output' = output /\ left' = left /\ pc' = "rest"
    BY <1>0, <1>5, <1>6, <1>9
  <2>2. Repeats'
    <3>1. Lined(buffer, TheLetters, Block - 1)'
      BY <1>0, <1>3, <1>4 DEF Lined
    <3>2. left' + r * Block' = Bytes' /\ Lined(output, TheLetters, r * Block)'
      BY <1>2, <1>3, <2>1 DEF Lined
    <3>3. left' <= Block'
      BY <1>0, <1>3, <1>5, <1>9, <2>1
    <3> QED
      BY <1>0, <1>1, <1>2, <2>1, <3>1, <3>2, <3>3 DEF Repeats
  <2>3. TextTypes'
    BY <1>0, <1>1, <2>1 DEF TextTypes
  <2> QED
    BY <2>1, <2>2, <2>3
<1>10. Repeats' /\ TextTypes' /\ pc' \in {"repeat", "rest"}
  BY <1>0, <1>5, <1>8, <1>9
<1>11. FillsC' /\ FillsG' /\ FillsL' /\ PrintsTheLetters' /\ InBounds'
  BY <1>0, <1>1, <1>10 DEF FillsC, FillsG, FillsL, PrintsTheLetters, Lemire, InBounds
<1> QED
  BY <1>10, <1>11 DEF TextInv

LEMMA GRestKeeps ==
  ASSUME TextInv, GRest
  PROVE  TextInv'
<1> DEFINE k == IF number % Width = 0 THEN left - 1 ELSE left
           t == SubSeq(buffer, 1, k)
<1>0. TextTypes /\ port = "ganszky" /\ pc = "rest" /\ left \in Nat
      /\ buffer \in Seq(Int) /\ output \in Seq(Int)
      /\ output' = (IF k > 0 THEN output \o t \o <<0>> ELSE output)
      /\ pc' = "done" /\ UNCHANGED <<input, offset, left, buffer>>
  BY DEF TextInv, TextTypes, GRest
<1>1. port' = port /\ len' = len /\ number' = number
  BY <1>0 DEF input
<1>2. PICK r \in Nat : left + r * Block = Bytes /\ Lined(output, TheLetters, r * Block)
  BY <1>0 DEF TextInv, Repeats
<1>3. Lined(buffer, TheLetters, Block - 1) /\ left <= Block
  BY <1>0 DEF TextInv, Repeats
<1>4. /\ Width \in Nat \ {0} /\ Width + 1 \in Nat \ {0} /\ r * Block \in Nat
      /\ Block \in Nat \ {0} /\ len \in Nat \ {0} /\ Block = len * (Width + 1)
  <2>1. Width \in Nat \ {0} /\ Width + 1 \in Nat \ {0} /\ Block \in Nat \ {0}
        /\ len \in Nat \ {0}
    BY <1>0, TextFacts
  <2> QED
    BY <2>1 DEF Block
<1>5. left % (Width + 1) = number % Width
  BY <1>0, <1>2, LeftIs
<1>6. /\ left = 0 => number % Width = 0
      /\ left = 1 => number % Width # 0
      /\ left = Block => number % Width = 0
  <2>1. 0 % (Width + 1) = 0 /\ 1 % (Width + 1) = 1
    BY <1>4, SmallNumber
  <2>2. Block % (Width + 1) = 0
    <3> DEFINE m == Width + 1
    <3>1. m \in Nat \ {0} /\ Block = len * m + 0
      BY <1>4
    <3> HIDE DEF m
    <3>2. (len * m + 0) % m = 0 % m
      BY <1>4, <3>1, AddMultiple
    <3> QED
      BY <2>1, <3>1, <3>2 DEF m
  <2> QED
    BY <1>5, <2>1, <2>2
<1>7. ASSUME k > 0
      PROVE  k \in Nat /\ k <= Block - 1
             /\ Lined(output \o t, TheLetters, r * Block + k) /\ t \in Seq(Int)
  <2>1. k \in Nat /\ k <= Block - 1
    BY <1>0, <1>3, <1>4, <1>6, <1>7
  <2> HIDE DEF k
  <2>2. Lined(t, TheLetters, k)
    <3> DEFINE m == Block - 1
    <3>1. m \in Nat /\ k \in 0..m /\ Lined(buffer, TheLetters, m)
      BY <1>3, <1>4, <2>1
    <3> HIDE DEF m
    <3> QED
      BY <3>1, LinedFirst
  <2>3. Lined(output \o t, TheLetters, r * Block + k)
    BY <1>0, <1>2, <2>1, <2>2, BlockAdded
  <2> QED
    BY <2>1, <2>2, <2>3 DEF Lined
<1>8. output' = Text /\ output' \in Seq(Int)
  <2>1. CASE left = 0
    <3>1. Lined(output, TheLetters, Bytes) /\ ~(k > 0)
      BY <1>2, <1>4, <1>6, <2>1
    <3>2. output = Text
      BY <1>0, <1>6, <2>1, <3>1, TextIs
    <3> QED
      BY <1>0, <3>1, <3>2
  <2>2. CASE left # 0 /\ number % Width # 0
    <3>1. k = left /\ k > 0
      BY <1>0, <2>2
    <3>2. Lined(output \o t, TheLetters, r * Block + k) /\ t \in Seq(Int)
      BY <1>7, <3>1
    <3> HIDE DEF t, k
    <3>3. Lined(output \o t, TheLetters, Bytes)
      BY <1>0, <1>2, <1>4, <3>1, <3>2
    <3>4. (output \o t) \o <<0>> = Text
      BY <1>0, <2>2, <3>3, TextIs
    <3>5. (output \o t) \o <<0>> \in Seq(Int)
      BY <1>0, <3>2
    <3> QED
      BY <1>0, <3>1, <3>4, <3>5
  <2>3. CASE left # 0 /\ number % Width = 0
    <3>1. k = left - 1 /\ k > 0
      BY <1>0, <1>6, <2>3
    <3>2. Lined(output \o t, TheLetters, r * Block + k) /\ t \in Seq(Int)
      BY <1>7, <3>1
    <3>3. PICK a \in Nat : Bytes = a * (Width + 1) /\ a * (Width + 1) \in Nat
      <4>1. PICK a \in Nat, b \in 0..(Width - 1) :
              /\ number \div Width = a /\ number % Width = b
              /\ number = a * Width + b /\ Bytes = a * (Width + 1) + b
              /\ a * Width \in Nat /\ a * (Width + 1) \in Nat
              /\ number + (number + Width - 1) \div Width =
                   IF b = 0 THEN Bytes ELSE Bytes + 1
        BY <1>0, NumberOf
      <4> QED
        BY <2>3, <4>1
    <3> HIDE DEF t, k
    <3> DEFINE s == output \o t
               m == r * Block + k
               z == <<0>>
    <3>4. m \in Nat /\ Bytes = m + 1 /\ z \in Seq(Int) /\ Len(z) = 1 /\ z[1] = 0
      <4> DEFINE d == r * Block
      <4>1. left \in Nat /\ d \in Nat /\ left + d = Bytes /\ m = d + k
        BY <1>0, <1>2, <1>4
      <4> HIDE DEF d, m
      <4>2. m \in Nat /\ Bytes = m + 1
        BY <3>1, <4>1
      <4> QED
        BY <4>2
    <3>5. Byte(TheLetters, Bytes) = 0
      <4> DEFINE c == a - 1
      <4>1. a # 0
        BY <1>4, <3>3, <3>4
      <4>2. c \in Nat /\ a = c + 1
        BY <4>1
      <4> HIDE DEF c
      <4> QED
        BY <3>3, <4>2, ByteIs
    <3>6. \A i \in 1..Len(z) : z[i] = Byte(TheLetters, m + i)
      BY <3>4, <3>5
    <3>7. Lined(s, TheLetters, m)
      BY <3>2
    <3> HIDE DEF s, m, z
    <3>8. Lined(s \o z, TheLetters, m + Len(z))
      BY <3>4, <3>6, <3>7, LinedMore
    <3>9. Lined(s \o z, TheLetters, Bytes)
      BY <3>4, <3>8
    <3>10. s \o z = Text
      BY <1>0, <2>3, <3>9, TextIs
    <3> QED
      BY <1>0, <3>1, <3>9, <3>10 DEF s, z, Lined
  <2> QED
    BY <2>1, <2>2, <2>3
<1>9. PrintsTheLetters'
  <2>1. Wrapped(Repeated) = Text
    BY <1>0, WrappedIs
  <2>2. Wrapped(Repeated)' = Wrapped(Repeated)
    BY <1>1 DEF Wrapped, Repeated
  <2> QED
    BY <1>0, <1>1, <1>8, <2>1, <2>2 DEF PrintsTheLetters
<1>10. TextTypes'
  BY <1>0, <1>1, <1>8 DEF TextTypes
<1>11. FillsC' /\ FillsG' /\ FillsL' /\ Repeats' /\ InBounds'
  BY <1>0, <1>1 DEF FillsC, FillsG, FillsL, Repeats, InBounds, Lemire
<1> QED
  BY <1>9, <1>10, <1>11 DEF TextInv

\* The line of fasta-lemire: its letters are those that follow.
LEMMA LettersAre ==
  ASSUME TextTypes, Lemire, left > 0, left <= number,
         port = "lemire" => Placed(number - left),
         NEW j \in Nat, number - left = j * Width
  PROVE  /\ line_Length \in 1..Width /\ line_Length <= left
         /\ Letters \in Seq(Int) /\ Len(Letters) = line_Length
         /\ \A i \in 1..line_Length : Letters[i] = TheLetters[j * Width + i]
         /\ left >= Width => line_Length = Width
         /\ left < Width => line_Length = left /\ Bytes = j * (Width + 1) + left
                            /\ number % Width = left
<1> DEFINE n == line_Length
           x == j * Width
<1>1. Width \in Nat \ {0} /\ len \in Nat \ {0} /\ Width <= len
      /\ left \in Nat /\ number \in Nat /\ offset \in Nat
  BY TextFacts DEF TextTypes
<1>2. x \in Nat /\ number = x + left
  BY <1>1
<1>3. /\ n \in 1..Width /\ n <= left /\ n \in Nat
      /\ left >= Width => n = Width
      /\ left < Width => n = left
  BY <1>1 DEF line_Length
<1>4. PICK a \in Nat, b \in 0..(Width - 1) :
        /\ number \div Width = a /\ number % Width = b
        /\ number = a * Width + b /\ Bytes = a * (Width + 1) + b
        /\ a * Width \in Nat /\ a * (Width + 1) \in Nat
        /\ number + (number + Width - 1) \div Width = IF b = 0 THEN Bytes ELSE Bytes + 1
  BY NumberOf
<1>5. ASSUME left < Width PROVE a = j /\ b = left
  <2>1. left \in 0..(Width - 1) /\ a * Width + b = j * Width + left
    BY <1>1, <1>2, <1>4, <1>5
  <2> HIDE DEF x, n
  <2> QED
    BY <1>1, <1>4, <2>1, OneRemainder
<1>6. ASSUME left >= Width PROVE x + Width <= a * Width
  <2>1. ~(a <= j)
    <3>1. a <= j => a * Width <= j * Width
      BY <1>1, Multiples
    <3> QED
      BY <1>1, <1>2, <1>4, <1>6, <3>1
  <2>2. j < a
    BY <2>1
  <2> QED
    BY <1>1, <2>2, Multiples
<1> HIDE DEF n, x
<1>7. ASSUME NEW i \in 1..n PROVE LineOf(x + i) = n /\ x + i \in Nat \ {0}
  <2>1. x + i \in Nat \ {0} /\ LineOf(x + i) = IF x + i > a * Width THEN b ELSE Width
    <3>1. number - (number % Width) = a * Width
      BY <1>1, <1>4
    <3> QED
      BY <1>2, <1>4, <3>1 DEF LineOf
  <2>2. CASE left < Width
    <3>1. x + i > a * Width
      BY <1>2, <1>5, <2>2 DEF x
    <3> QED
      BY <1>3, <1>5, <2>1, <2>2, <3>1
  <2>3. CASE left >= Width
    <3>1. ~(x + i > a * Width)
      BY <1>1, <1>2, <1>3, <1>4, <1>6, <2>3
    <3> QED
      BY <1>3, <2>1, <2>3, <3>1
  <2> QED
    BY <1>1, <2>2, <2>3
<1>8. CASE port = "random"
  <2>1. Letters = [i \in 1..n |-> x + i]
    <3>1. Letters = [i \in 1..n |-> (number - left) + i]
      BY <1>8 DEF Letters, n
    <3>2. number - left = x
      BY <1>1, <1>2
    <3> QED
      BY <3>1, <3>2
  <2>2. Letters \in Seq(Int) /\ Len(Letters) = n
    <3>1. \A i \in 1..n : x + i \in Int
      BY <1>7
    <3>2. Letters \in [1..n -> Int]
      BY <2>1, <3>1
    <3> QED
      BY <1>3, <2>1, <3>2
  <2>3. \A i \in 1..n : Letters[i] = TheLetters[x + i]
    BY <1>7, <1>8, <2>1 DEF TheLetters
  <2> QED
    BY <1>3, <1>4, <1>5, <2>2, <2>3 DEF n, x
<1>9. CASE port = "lemire"
  <2> DEFINE from == Advance(n)
             y == x + n
  <2>1. Placed(x) /\ y \in Nat
    <3>1. number - left = x
      BY <1>1, <1>2
    <3> QED
      BY <1>2, <1>3, <1>9, <3>1
  <2>2. from \in Nat /\ from % len = y % len
    <3>1. n <= len
      BY <1>1, <1>3
    <3> QED
      BY <1>2, <1>3, <2>1, <3>1, AdvanceIs
  <2>3. Letters = Copy(from, n)
    BY <1>9 DEF Letters, n
  <2> HIDE DEF from, y
  <2>4. /\ Copy(from, n) \in Seq(Int) /\ Len(Copy(from, n)) = n
        /\ \A i \in 1..n : Copy(from, n)[i] = (((y + i) - 1) % len) + 1
    BY <1>3, <2>1, <2>2, CopyIs
  <2>5. ASSUME NEW i \in 1..n PROVE Letters[i] = TheLetters[x + i]
    <3> DEFINE k == x + i
               z == k + n
    <3>1. k \in Nat \ {0} /\ LineOf(k) = n
      BY <1>7
    <3>2. z \in Nat \ {0} /\ z = y + i
      BY <1>2, <1>3, <3>1 DEF y
    <3> HIDE DEF k
    <3>3. TheLetters[k] = Repeated(z)
      BY <1>9, <3>1 DEF TheLetters
    <3> HIDE DEF z
    <3>4. Repeated(z) = ((z - 1) % len) + 1
      BY <3>2, RepeatedIs
    <3> QED
      BY <2>3, <2>4, <3>2, <3>3, <3>4 DEF k
  <2> QED
    BY <1>3, <1>4, <1>5, <2>3, <2>4, <2>5 DEF n, x
<1> QED
  BY <1>8, <1>9 DEF Lemire

LEMMA LLineKeeps ==
  ASSUME TextInv, LLine
  PROVE  TextInv'
<1> DEFINE n == line_Length
           t == Letters
           z == <<0>>
           old == IF Full THEN <<>> ELSE buffer
           all == output \o buffer
<1>0. /\ TextTypes /\ Lemire /\ pc = "fill" /\ left > 0 /\ left \in Nat
      /\ buffer \in Seq(Int) /\ output \in Seq(Int) /\ offset \in Nat
      /\ output' = IF Full THEN output \o buffer ELSE output
      /\ buffer' = old \o t \o z
      /\ offset' = IF port = "lemire" THEN Advance(n) ELSE offset
      /\ left' = left - n
      /\ UNCHANGED <<input, pc>>
  BY DEF TextInv, TextTypes, LLine
<1>1. port' = port /\ len' = len /\ number' = number /\ pc' = pc
  BY <1>0 DEF input
<1>2. left <= number /\ (port = "lemire" => Placed(number - left))
  BY <1>0 DEF TextInv, FillsL
<1>3. PICK j \in Nat : number - left = j * Width
                       /\ Lined(all, TheLetters, j * (Width + 1))
  BY <1>0 DEF TextInv, FillsL
<1>4. /\ n \in 1..Width /\ n <= left
      /\ t \in Seq(Int) /\ Len(t) = n
      /\ \A i \in 1..n : t[i] = TheLetters[j * Width + i]
      /\ left >= Width => n = Width
      /\ left < Width => n = left /\ Bytes = j * (Width + 1) + left /\ number % Width = left
  BY <1>0, <1>2, <1>3, LettersAre
<1>5. PICK L : L = TheLetters
  OBVIOUS
<1>6. TheLetters' = L /\ Text' = Text /\ Bytes' = Bytes
  BY <1>0, <1>5, SameText
<1>7. /\ Width \in Nat \ {0} /\ len \in Nat \ {0} /\ Width <= len /\ number \in Nat
      /\ BufferSize \in Nat /\ BufferSize > Width + 1
  BY <1>0, TextFacts
<1> HIDE DEF n, t, z
<1>8. old \in Seq(Int) /\ z \in Seq(Int) /\ Len(z) = 1
  BY <1>0 DEF z
<1>9. output' \in Seq(Int) /\ buffer' \in Seq(Int) /\ Len(buffer') = Len(old) + n + 1
  <2>1. output' \in Seq(Int)
    BY <1>0
  <2> HIDE DEF old
  <2>2. old \o t \in Seq(Int) /\ Len(old \o t) = Len(old) + Len(t) /\ Len(old) \in Nat
    BY <1>4, <1>8, Glued
  <2> DEFINE u == old \o t
  <2>3. u \in Seq(Int)
    BY <2>2
  <2> HIDE DEF u
  <2>4. u \o z \in Seq(Int) /\ Len(u \o z) = Len(u) + Len(z)
    BY <1>8, <2>3, Glued
  <2>5. buffer' = u \o z
    BY <1>0 DEF u
  <2> QED
    BY <1>4, <1>8, <2>1, <2>2, <2>4, <2>5 DEF u
<1>10. output' \o buffer' = (all \o t) \o z
  <2>1. all \in Seq(Int) /\ t \in Seq(Int) /\ z \in Seq(Int)
    BY <1>0, <1>4, <1>8
  <2>2. (all \o t) \o z = all \o (t \o z)
    <3> HIDE DEF all
    <3> QED
      BY <2>1, Regrouped
  <2>3. CASE Full
    <3>1. output' = all /\ buffer' = (<<>> \o t) \o z
      BY <1>0, <2>3
    <3>2. <<>> \o t = t
      BY <2>1, ConcatEmptySeq
    <3> QED
      BY <2>2, <3>1, <3>2
  <2>4. CASE ~Full
    <3>1. output' = output /\ buffer' = (buffer \o t) \o z
      BY <1>0, <2>4
    <3> DEFINE u == buffer \o t
    <3>2. u \in Seq(Int) /\ output \o u = all \o t
      <4>1. buffer \in Seq(Int) /\ output \in Seq(Int)
        BY <1>0
      <4>2. u \in Seq(Int)
        BY <2>1, <4>1, Glued
      <4>3. t \in Seq(Int)
        BY <2>1
      <4>4. (output \o buffer) \o t = output \o u
        BY <4>1, <4>3, Regrouped
      <4> QED
        BY <4>2, <4>4
    <3> HIDE DEF u
    <3>3. output \o (u \o z) = (output \o u) \o z
      <4>1. output \in Seq(Int) /\ z \in Seq(Int) /\ u \in Seq(Int)
        BY <1>0, <2>1, <3>2
      <4> QED
        BY <4>1, Regrouped
    <3>4. output' \o buffer' = output \o (u \o z)
      BY <3>1 DEF u
    <3> HIDE DEF all
    <3> QED
      BY <3>2, <3>3, <3>4
  <2> QED
    BY <2>3, <2>4
<1>11. Lined(all, L, j * (Width + 1)) /\ Len(t) <= Width /\ j * Width \in Nat
       /\ \A i \in 1..Len(t) : t[i] = L[j * Width + i]
  BY <1>3, <1>4, <1>5, <1>7
<1> HIDE DEF all
<1>12. /\ Lined(all \o t, L, j * (Width + 1) + n)
       /\ n = Width => Lined((all \o t) \o z, L, (j + 1) * (Width + 1))
  BY <1>4, <1>11, LineAdded DEF z
<1>13. left' \in Nat /\ left' <= number
  BY <1>0, <1>2, <1>4, <1>7
<1>14. port = "lemire" => Placed(number - left)'
  <2> SUFFICES ASSUME port = "lemire" PROVE Placed(number - left)'
    OBVIOUS
  <2> DEFINE x == number - left
  <2>1. Placed(x) /\ x \in Nat /\ n \in Nat /\ n <= len
    <3>1. Placed(x)
      BY <1>2
    <3>2. x \in Nat /\ n \in Nat /\ n <= len
      <4>1. left \in Nat /\ left <= number
        BY <1>0, <1>2
      <4>2. n \in 1..Width
        BY <1>4
      <4> QED
        BY <1>7, <4>1, <4>2
    <3> QED
      BY <3>1, <3>2
  <2>2. (number - left)' = x + n
    BY <1>0, <1>1, <1>2, <1>4, <1>7
  <2> HIDE DEF x
  <2>3. Advance(n) \in Nat /\ Advance(n) <= len /\ Advance(n) % len = (x + n) % len
    BY <1>0, <2>1, AdvanceIs
  <2> QED
    BY <1>0, <1>1, <2>2, <2>3 DEF Placed
<1>15. IF left' = 0 THEN output' \o buffer' = Text
       ELSE \E k \in Nat : /\ number - left' = k * Width
                           /\ Lined(output' \o buffer', L, k * (Width + 1))
  <2>1. CASE left < Width
    <3>1. left' = 0 /\ n = left /\ number % Width # 0
      BY <1>0, <1>4, <2>1
    <3>2. Lined(all \o t, TheLetters, Bytes)
      BY <1>4, <1>5, <1>12, <2>1
    <3>3. (all \o t) \o <<0>> = Text
      BY <1>0, <3>1, <3>2, TextIs
    <3> QED
      BY <1>10, <3>1, <3>3 DEF z
  <2>2. CASE left >= Width
    <3> DEFINE k == j + 1
    <3>1. k \in Nat /\ k * Width = j * Width + Width
      BY <1>7, Multiples
    <3>2. number - left' = k * Width /\ n = Width
      BY <1>0, <1>2, <1>3, <1>4, <1>7, <1>11, <2>2, <3>1
    <3>3. Lined(output' \o buffer', L, k * (Width + 1))
      BY <1>10, <1>12, <3>2
    <3>4. CASE left' = 0
      <4>1. PICK a \in Nat, b \in 0..(Width - 1) :
              /\ number \div Width = a /\ number % Width = b
              /\ number = a * Width + b /\ Bytes = a * (Width + 1) + b
              /\ a * Width \in Nat /\ a * (Width + 1) \in Nat
              /\ number + (number + Width - 1) \div Width =
                   IF b = 0 THEN Bytes ELSE Bytes + 1
        BY <1>0, NumberOf
      <4>2. k * Width + 0 = a * Width + b /\ 0 \in 0..(Width - 1) /\ k * Width \in Nat
        BY <1>7, <3>1, <3>2, <3>4, <4>1
      <4> HIDE DEF k
      <4>3. k = a /\ 0 = b
        BY <1>7, <3>1, <4>1, <4>2, OneRemainder
      <4>4. Bytes = k * (Width + 1) /\ number % Width = 0
        BY <4>1, <4>3
      <4> DEFINE s == output' \o buffer'
      <4>5. Lined(s, TheLetters, Bytes)
        BY <1>5, <3>3, <4>4
      <4> HIDE DEF s
      <4>6. s = Text
        BY <1>0, <4>4, <4>5, TextIs
      <4> QED
        BY <3>4, <4>6 DEF s
    <3>5. CASE left' # 0
      BY <3>1, <3>2, <3>3, <3>5
    <3> QED
      BY <3>4, <3>5
  <2>3. left < Width \/ left >= Width
    BY <1>0, <1>7
  <2> QED
    BY <2>1, <2>2, <2>3
<1>16. FillsL'
  <2>1. ASSUME left' # 0
        PROVE  (\E k \in Nat : /\ number - left = k * Width
                               /\ Lined(output \o buffer, TheLetters, k * (Width + 1)))'
    BY <1>1, <1>6, <1>15, <2>1 DEF Lined
  <2>2. left' = 0 => (output \o buffer = Text)'
    BY <1>6, <1>15
  <2> QED
    BY <1>1, <1>13, <1>14, <2>1, <2>2 DEF FillsL
<1>17. offset' \in Nat /\ (port = "lemire" => offset' <= len)
  <2>1. CASE port = "lemire"
    <3> DEFINE x == number - left
    <3>1. Placed(x)
      BY <1>2, <2>1
    <3>2. x \in Nat /\ n \in Nat /\ n <= len
      <4>1. left \in Nat /\ left <= number
        BY <1>0, <1>2
      <4>2. n \in 1..Width
        BY <1>4
      <4> QED
        BY <1>7, <4>1, <4>2
    <3> HIDE DEF x
    <3>3. Advance(n) \in Nat /\ Advance(n) <= len
      BY <1>0, <3>1, <3>2, AdvanceIs
    <3> QED
      BY <1>0, <2>1, <3>3
  <2> QED
    BY <1>0, <2>1
<1>18. TextTypes'
  BY <1>0, <1>1, <1>9, <1>13, <1>17 DEF TextTypes
<1>19. InBounds'
  <2>1. Len(buffer') <= BufferSize
    <3>1. CASE Full
      BY <1>0, <1>4, <1>7, <1>9, <3>1
    <3>2. CASE ~Full
      <4>1. old = buffer /\ Len(buffer) \in Nat
        BY <1>0, <3>2
      <4>2. ~(Len(buffer) + n + 1 >= BufferSize)
        BY <3>2 DEF Full, n
      <4> QED
        BY <1>4, <1>7, <1>9, <4>1, <4>2
    <3> QED
      BY <3>1, <3>2
  <2> QED
    BY <1>0, <1>1, <1>17, <2>1 DEF InBounds, Lemire
<1>20. FillsC' /\ FillsG' /\ Repeats' /\ PrintsTheLetters'
  BY <1>0, <1>1 DEF FillsC, FillsG, Repeats, PrintsTheLetters, Lemire
<1> QED
  BY <1>16, <1>18, <1>19, <1>20 DEF TextInv

LEMMA LEndKeeps ==
  ASSUME TextInv, LEnd
  PROVE  TextInv'
<1>0. /\ TextTypes /\ Lemire /\ pc = "fill" /\ left = 0
      /\ output' = output \o buffer /\ pc' = "done"
      /\ UNCHANGED <<input, offset, left, buffer>>
      /\ output \o buffer \in Seq(Int)
  BY DEF TextInv, TextTypes, LEnd
<1>1. port' = port /\ len' = len /\ number' = number
  BY <1>0 DEF input
<1>2. output' = Text
  BY <1>0 DEF TextInv, FillsL
<1>3. PrintsTheLetters'
  <2>1. CASE port = "random"
    <3>1. Wrapped(LAMBDA k : k) = Text
      BY <1>0, <2>1, WrappedIs
    <3>2. Wrapped(LAMBDA k : k)' = Wrapped(LAMBDA k : k)
      BY <1>1 DEF Wrapped
    <3> QED
      BY <1>1, <1>2, <2>1, <3>1, <3>2 DEF PrintsTheLetters
  <2>2. CASE port = "lemire"
    <3>1. Wrapped(LAMBDA k : Repeated(k + LineOf(k))) = Text
      BY <1>0, <2>2, WrappedIs
    <3>2. Wrapped(LAMBDA k : Repeated(k + LineOf(k)))' =
            Wrapped(LAMBDA k : Repeated(k + LineOf(k)))
      BY <1>1 DEF Wrapped, Repeated, LineOf
    <3> QED
      BY <1>1, <1>2, <2>2, <3>1, <3>2 DEF PrintsTheLetters
  <2> QED
    BY <1>0, <2>1, <2>2 DEF Lemire
<1>4. TextTypes'
  BY <1>0, <1>1 DEF TextTypes
<1>5. InBounds'
  BY <1>0, <1>1 DEF TextInv, InBounds, Lemire
<1>6. FillsC' /\ FillsG' /\ FillsL' /\ Repeats'
  BY <1>0, <1>1 DEF FillsC, FillsG, FillsL, Repeats
<1> QED
  BY <1>3, <1>4, <1>5, <1>6 DEF TextInv

-----------------------------------------------------------------------------
LEMMA TextStarts ==
  ASSUME TextInit
  PROVE  TextInv
<1>0. /\ Width \in Nat \ {0} /\ MaxLetters \in Nat /\ BufferSize \in Nat
      /\ \A l \in StringLengths : l \in Nat \ {0}
  BY TextAssumption
<1>1. len \in Nat \ {0}
  BY <1>0 DEF TextInit
<1>2. number \in Nat
  BY <1>0 DEF TextInit
<1>3. /\ port = "c" => left = len * Width
      /\ port = "ganszky" => left = len
      /\ port \notin {"c", "ganszky"} => left = number
  BY DEF TextInit
<1>4. left \in Nat
  BY <1>0, <1>1, <1>2, <1>3
<1>5. TextTypes
  BY <1>2, <1>4 DEF TextInit, TextTypes
<1>6. offset = 0 /\ buffer = <<>> /\ output = <<>> /\ pc = "fill"
  BY DEF TextInit
<1>7. Lined(<<>>, TheLetters, 0)
  BY DEF Lined
<1>8. 0 * Width = 0 /\ 0 * (Width + 1) = 0 /\ (len - 0) * Width = len * Width
  BY <1>0, <1>1
<1>9. Placed(0 * Width) /\ Placed(0)
  BY <1>1, <1>6, <1>8 DEF Placed
<1>10. FillsC
  BY <1>1, <1>3, <1>6, <1>7, <1>8, <1>9 DEF FillsC
<1>11. FillsG
  BY <1>1, <1>3, <1>6, <1>7, <1>8 DEF FillsG
<1>12. FillsL
  <2> SUFFICES ASSUME Lemire PROVE FillsL
    BY DEF FillsL
  <2>1. left = number /\ number - left = 0
    BY <1>2, <1>3 DEF Lemire
  <2>2. output \o buffer = <<>>
    BY <1>6
  <2>3. ASSUME left = 0 PROVE <<>> = Text
    <3>1. 0 % Width = 0 /\ 0 \div Width = 0
      BY <1>0, SmallNumber
    <3>2. Bytes = 0 /\ number % Width = 0
      BY <2>1, <2>3, <3>1 DEF Bytes
    <3> QED
      BY <1>5, <1>7, <3>2, TextIs
  <2> QED
    BY <1>2, <1>6, <1>7, <1>8, <1>9, <2>1, <2>2, <2>3 DEF FillsL
<1>13. Repeats /\ PrintsTheLetters
  BY <1>6 DEF Repeats, PrintsTheLetters
<1>14. InBounds
  <2>1. len * Width \in Nat /\ Len(<<>>) = 0
    BY <1>0, <1>1
  <2>2. 0 + 1 <= len * Width + len + 1
    BY <1>1, <2>1
  <2>3. offset <= len
    <3>1. 0 <= len
      BY <1>1
    <3> QED
      BY <1>6, <3>1
  <2>4. Len(buffer) = 0
    BY <1>6, <2>1
  <2>5. Len(buffer) + 1 <= len * Width + len + 1
    BY <2>2, <2>4
  <2>6. Len(buffer) <= BufferSize
    <3>1. 0 <= BufferSize
      BY <1>0
    <3> QED
      BY <2>4, <3>1
  <2> QED
    BY <2>3, <2>5, <2>6 DEF InBounds
<1> QED
  BY <1>5, <1>10, <1>11, <1>12, <1>13, <1>14 DEF TextInv

LEMMA TextStutters ==
  ASSUME TextInv, UNCHANGED TextVars
  PROVE  TextInv'
<1>1. UNCHANGED <<input, pc, offset, left, buffer, output>>
  BY DEF TextVars
<1>2. port' = port /\ len' = len /\ number' = number
  BY <1>1 DEF input
<1>3. TheLetters' = TheLetters /\ Text' = Text /\ Block' = Block /\ Bytes' = Bytes
  BY <1>1, SameText
<1>4. TextTypes' /\ InBounds'
  BY <1>1, <1>2 DEF TextInv, TextTypes, InBounds, Lemire
<1>5. PrintsTheLetters'
  BY <1>1, <1>2 DEF TextInv, PrintsTheLetters, Wrapped, Repeated, LineOf
<1>6. FillsC' /\ FillsG'
  BY <1>1, <1>2, <1>3 DEF TextInv, FillsC, FillsG, Placed, Lined
<1>7. Repeats'
  BY <1>1, <1>2, <1>3 DEF TextInv, Repeats, Lined
<1>8. FillsL'
  BY <1>1, <1>2, <1>3 DEF TextInv, FillsL, Lemire, Placed, Lined
<1> QED
  BY <1>4, <1>5, <1>6, <1>7, <1>8 DEF TextInv

\* The buffer and the output hold the text as far as it is made, at every turn of
\* the loops of the four programs.
THEOREM TextInvariant == TextSpec => []TextInv
<1>1. TextInit => TextInv
  BY TextStarts
<1>2. TextInv /\ [TextNext]_TextVars => TextInv'
  BY CLineKeeps, CFilledKeeps, CRepeatKeeps, CRestKeeps, GLineKeeps, GFilledKeeps,
     GRepeatKeeps, GRestKeeps, LLineKeeps, LEndKeeps, TextStutters DEF TextNext
<1> QED
  BY <1>1, <1>2, PTL DEF TextSpec

\* Each program prints its letters in lines of Width, for every number of them:
\* repeat_And_Wrap_String, repeatFasta and the generator with its buffer.
THEOREM AlwaysPrintsTheLetters == TextSpec => []PrintsTheLetters
<1>1. TextInv => PrintsTheLetters
  BY DEF TextInv
<1> QED
  BY <1>1, TextInvariant, PTL

\* No copy passes the end of the extended string and no line that of the buffer:
\* make_Sequence_Buffer fills what it allocated, and a line that does not fit in
\* fasta-lemire's buffer comes after a fwrite.
THEOREM AlwaysInBounds == TextSpec => []InBounds
<1>1. TextInv => InBounds
  BY DEF TextInv
<1> QED
  BY <1>1, TextInvariant, PTL

================================================================================
