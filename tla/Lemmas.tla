------------------------------- MODULE Lemmas -------------------------------
(***************************************************************************)
(* Facts about numbers that the proofs of several components need: the     *)
(* products of two variables in quotients and remainders, which the solver *)
(* leaves to Multiples, and induction on the natural numbers, in a form    *)
(* without operators as parameters.                                        *)
(***************************************************************************)
EXTENDS Integers, Sequences, SequenceTheorems, WellFoundedInduction, TLAPS

LEMMA Multiples ==
  ASSUME NEW a \in Nat, NEW b \in Nat, NEW m \in Nat
  PROVE  /\ a * m \in Nat /\ b * m \in Nat
         /\ (a + 1) * m = a * m + m
         /\ a <= b => a * m <= b * m
         /\ a < b => a * m + m <= b * m
<1>1. ASSUME NEW c \in Nat, NEW d \in Nat, c <= d PROVE c * m <= d * m
  BY <1>1
<1>2. a < b => (a + 1) * m <= b * m
  BY <1>1
<1> QED
  BY <1>1, <1>2

LEMMA DivMod ==
  ASSUME NEW a \in Nat, NEW m \in Nat \ {0}
  PROVE  /\ a \div m \in Nat /\ a % m \in 0..(m - 1)
         /\ a = (a \div m) * m + (a % m)
OBVIOUS

\* A number has one quotient and one remainder.
LEMMA OneRemainder ==
  ASSUME NEW m \in Nat \ {0}, NEW p \in Nat, NEW q \in Nat,
         NEW r \in 0..(m - 1), NEW s \in 0..(m - 1), p * m + r = q * m + s
  PROVE  p = q /\ r = s
<1>1. /\ p < q => p * m + m <= q * m
      /\ q < p => q * m + m <= p * m
      /\ p * m \in Nat /\ q * m \in Nat
  BY Multiples
<1>2. p = q
  BY <1>1
<1> QED
  BY <1>1, <1>2

\* Among m numbers in a row no two have the same remainder.
LEMMA RemaindersDiffer ==
  ASSUME NEW m \in Nat \ {0}, NEW a \in Nat, NEW b \in Nat,
         a <= b, b < a + m, a % m = b % m
  PROVE  a = b
<1> DEFINE x == a \div m
           y == b \div m
           r == a % m
<1>1. /\ x \in Nat /\ r \in 0..(m - 1) /\ a = x * m + r
      /\ y \in Nat /\ b = y * m + r
  BY DivMod
<1> HIDE DEF x, y, r
<1>2. /\ x < y => x * m + m <= y * m
      /\ y < x => y * m + m <= x * m
      /\ x * m \in Nat /\ y * m \in Nat
  BY <1>1, Multiples
<1>3. x = y
  BY <1>1, <1>2
<1> QED
  BY <1>1, <1>3

LEMMA AddMultiple ==
  ASSUME NEW m \in Nat \ {0}, NEW q \in Nat, NEW x \in Nat
  PROVE  (q * m + x) \div m = q + (x \div m) /\ (q * m + x) % m = x % m
<1> DEFINE y == q * m + x
           a == x \div m
           r == x % m
           b == y \div m
           s == y % m
           c == q + a
<1>1. a \in Nat /\ r \in 0..(m - 1) /\ x = a * m + r
  BY DivMod
<1>2. y \in Nat
  BY Multiples
<1> HIDE DEF y
<1>3. b \in Nat /\ s \in 0..(m - 1) /\ y = b * m + s
  BY <1>2, DivMod
<1> HIDE DEF a, b, r, s
<1>4. c \in Nat /\ y = c * m + r
  <2>1. c * m = q * m + a * m
    BY <1>1
  <2>2. q * m \in Nat /\ a * m \in Nat
    BY <1>1, Multiples
  <2> QED
    BY <1>1, <2>1, <2>2 DEF y, c
<1> HIDE DEF c
<1>5. b = c /\ s = r
  BY <1>1, <1>3, <1>4, OneRemainder
<1> QED
  BY <1>5 DEF a, b, c, r, s, y

LEMMA NextRemainder ==
  ASSUME NEW a \in Nat, NEW m \in Nat \ {0}
  PROVE  (a + 1) % m = ((a % m) + 1) % m
<1> DEFINE b == a + 1
           q == a \div m
           r == a % m
           p == b \div m
           s == b % m
<1>1. q \in Nat /\ r \in 0..(m - 1) /\ a = q * m + r
  BY DivMod
<1>2. b \in Nat
  OBVIOUS
<1> HIDE DEF b
<1>3. p \in Nat /\ s \in 0..(m - 1) /\ b = p * m + s
  BY <1>2, DivMod
<1>4. b = q * m + (r + 1) /\ (q + 1) * m = q * m + m /\ q * m \in Nat
  BY <1>1, Multiples DEF b
<1> HIDE DEF q, r, p, s
<1>5. CASE r + 1 < m
  <2>1. r + 1 \in 0..(m - 1) /\ q * m + (r + 1) = p * m + s
    BY <1>1, <1>3, <1>4, <1>5
  <2>2. s = r + 1
    BY <1>1, <1>3, <2>1, OneRemainder
  <2>3. (r + 1) % m = r + 1
    BY <1>1, <1>5
  <2> QED
    BY <2>2, <2>3 DEF b, r, s
<1>6. CASE r + 1 = m
  <2>1. (q + 1) * m + 0 = p * m + s
    BY <1>1, <1>3, <1>4, <1>6
  <2>2. s = 0
    BY <1>1, <1>3, <2>1, OneRemainder
  <2>3. (r + 1) % m = 0
    BY <1>6
  <2> QED
    BY <2>2, <2>3 DEF b, r, s
<1> QED
  BY <1>1, <1>5, <1>6

-----------------------------------------------------------------------------
(* Induction. *)

LEMMA LeastElement ==
  ASSUME NEW T, T \subseteq Nat, T # {}
  PROVE  \E x \in T : \A y \in T : x <= y
<1> DEFINE R == OpToRel(<, Nat)
<1>1. IsWellFoundedOn(R, Nat)
  BY NatLessThanWellFounded
<1> HIDE DEF R
<1>2. PICK x \in T : \A y \in T : ~(<<y, x>> \in R)
  BY <1>1, WFMin
<1>3. \A y \in T : ~(y < x)
  BY <1>2 DEF R, OpToRel
<1> QED
  BY <1>3

LEMMA SetInduction ==
  ASSUME NEW T, 0 \in T, \A k \in Nat : k \in T => k + 1 \in T
  PROVE  Nat \subseteq T
<1> SUFFICES ASSUME Nat \ T # {} PROVE FALSE
  OBVIOUS
<1>1. PICK x \in Nat \ T : \A y \in Nat \ T : x <= y
  BY LeastElement
<1>2. x # 0 /\ x - 1 \in Nat
  BY <1>1
<1>3. x - 1 \in T
  BY <1>1, <1>2
<1> QED
  BY <1>1, <1>2, <1>3

\* A function can be defined by recursion on an interval: step[k] makes its value
\* at k from its value at k - 1.
Recursive(f, m, zero, step) == f[0] = zero /\ \A k \in 1..m : f[k] = step[k][f[k - 1]]

LEMMA Recursion ==
  ASSUME NEW V, NEW zero \in V, NEW m \in Nat, NEW step \in [1..m -> [V -> V]]
  PROVE  \E f \in [0..m -> V] : Recursive(f, m, zero, step)
<1> DEFINE Solution(k) ==
             \E f \in [0..k -> V] :
               f[0] = zero /\ \A j \in 1..k : f[j] = step[j][f[j - 1]]
           T == {k \in Nat : k <= m => Solution(k)}
<1>1. 0 \in T
  <2> DEFINE f == [k \in 0..0 |-> zero]
  <2>1. f \in [0..0 -> V] /\ f[0] = zero /\ \A j \in 1..0 : f[j] = step[j][f[j - 1]]
    OBVIOUS
  <2> QED
    BY <2>1
<1>2. ASSUME NEW k \in Nat, k \in T, k + 1 <= m
      PROVE  Solution(k + 1)
  <2>1. PICK f \in [0..k -> V] : f[0] = zero /\ \A j \in 1..k : f[j] = step[j][f[j - 1]]
    BY <1>2
  <2> DEFINE g == [j \in 0..(k + 1) |-> IF j <= k THEN f[j] ELSE step[k + 1][f[k]]]
  <2>2. k + 1 \in 1..m /\ f[k] \in V
    BY <1>2
  <2>3. step[k + 1][f[k]] \in V
    BY <2>2
  <2>4. g \in [0..(k + 1) -> V]
    BY <2>3
  <2>5. g[0] = zero
    BY <2>1
  <2>6. \A j \in 1..(k + 1) : g[j] = step[j][g[j - 1]]
    BY <2>1
  <2> HIDE DEF g
  <2> QED
    BY <2>4, <2>5, <2>6
<1>3. Nat \subseteq T
  <2>1. \A k \in Nat : k \in T => k + 1 \in T
    BY <1>2
  <2> HIDE DEF T
  <2> QED
    BY <1>1, <2>1, SetInduction
<1> QED
  BY <1>3 DEF Recursive

\* The sums and the concatenations of the parts of a list exist, as functions.
LEMMA Summing ==
  ASSUME NEW m \in Nat, NEW part \in [1..m -> Nat]
  PROVE  \E f \in [0..m -> Nat] :
           f[0] = 0 /\ \A k \in 1..m : f[k] = f[k - 1] + part[k]
<1> DEFINE step == [k \in 1..m |-> [v \in Nat |-> v + part[k]]]
           zero == 0
<1>1. step \in [1..m -> [Nat -> Nat]] /\ zero \in Nat
  OBVIOUS
<1>2. PICK f \in [0..m -> Nat] : f[0] = zero /\ \A k \in 1..m : f[k] = step[k][f[k - 1]]
  <2> HIDE DEF step, zero
  <2>1. \E f \in [0..m -> Nat] : Recursive(f, m, zero, step)
    BY <1>1, Recursion, Zenon
  <2> QED
    BY <2>1 DEF Recursive
<1>3. ASSUME NEW k \in 1..m PROVE f[k] = f[k - 1] + part[k]
  <2>1. f[k - 1] \in Nat
    OBVIOUS
  <2> QED
    BY <1>2, <2>1
<1> QED
  BY <1>2, <1>3

LEMMA Gluing ==
  ASSUME NEW m \in Nat, NEW part \in [1..m -> Seq(Int)]
  PROVE  \E f \in [0..m -> Seq(Int)] :
           f[0] = <<>> /\ \A k \in 1..m : f[k] = f[k - 1] \o part[k]
<1> DEFINE V == Seq(Int)
           step == [k \in 1..m |-> [v \in V |-> v \o part[k]]]
           zero == <<>>
<1>1. step \in [1..m -> [V -> V]] /\ zero \in V
  <2>1. ASSUME NEW k \in 1..m, NEW v \in V PROVE v \o part[k] \in V
    <3>1. part[k] \in Seq(Int)
      OBVIOUS
    <3> QED
      BY <3>1, ConcatProperties
  <2> QED
    BY <2>1
<1>2. PICK f \in [0..m -> V] : f[0] = zero /\ \A k \in 1..m : f[k] = step[k][f[k - 1]]
  <2> HIDE DEF step, zero, V
  <2>1. \E f \in [0..m -> V] : Recursive(f, m, zero, step)
    BY <1>1, Recursion, Zenon
  <2> QED
    BY <2>1 DEF Recursive
<1>3. ASSUME NEW k \in 1..m PROVE f[k] = f[k - 1] \o part[k]
  <2>1. f[k - 1] \in V
    OBVIOUS
  <2> HIDE DEF V
  <2> QED
    BY <1>2, <2>1
<1> QED
  BY <1>2, <1>3
=============================================================================
