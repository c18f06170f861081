-------------------------- MODULE KNucleotide_proofs --------------------------
(***************************************************************************)
(* Proofs about KNucleotide: what is read is the sequence of the input,    *)
(* and a call of getSequenceHash returns the number of occurrences of each *)
(* string, for every input, every number of tasks and every line width.    *)
(***************************************************************************)
EXTENDS KNucleotide, Lemmas, FiniteSetTheorems

-----------------------------------------------------------------------------
(* Keys: the number of the string at a position, and of the one after it. *)

\* The prefixes of the string of m nucleotides at position i of s, as numbers,
\* and the powers of four.
Digits(s, m, i) ==
  CHOOSE f : f = [d \in 0..m |-> IF d = 0 THEN 0 ELSE f[d - 1] * 4 + s[i + d - 1 + 1]]
Powers(m) == CHOOSE f : f = [d \in 0..m |-> IF d = 0 THEN 1 ELSE f[d - 1] * 4]

Key(s, m, i) == Digits(s, m, i)[m]

HoldsDigits(f, s, m, i) ==
  /\ f \in [0..m -> Nat]
  /\ f[0] = 0
  /\ \A d \in 0..(m - 1) : f[d + 1] = f[d] * 4 + s[i + d + 1] /\ s[i + d + 1] \in 0..3

LEMMA DigitsAre ==
  ASSUME NEW m \in Nat, NEW s \in Seq(0..3), NEW i \in Nat, i + m <= Len(s)
  PROVE  HoldsDigits(Digits(s, m, i), s, m, i)
<1> DEFINE P(d) == s[i + d - 1 + 1]
           step == [d \in 1..m |-> [v \in Nat |-> v * 4 + P(d)]]
           zero == 0
           Solves(f) == f = [d \in 0..m |-> IF d = 0 THEN 0 ELSE f[d - 1] * 4 + P(d)]
           X == Digits(s, m, i)
<1>1. \A d \in 1..m : P(d) \in 0..3 /\ P(d) = s[i + d]
  BY LenProperties, ElementOfSeq
<1>2. step \in [1..m -> [Nat -> Nat]] /\ zero \in Nat
  <2>1. \A d \in 1..m : P(d) \in Nat
    BY <1>1
  <2> HIDE DEF P
  <2>2. ASSUME NEW d \in 1..m PROVE [v \in Nat |-> v * 4 + P(d)] \in [Nat -> Nat]
    BY <2>1
  <2> QED
    BY <2>2
<1>3. PICK f \in [0..m -> Nat] : f[0] = zero /\ \A d \in 1..m : f[d] = step[d][f[d - 1]]
  <2> HIDE DEF step, zero
  <2>1. \E f \in [0..m -> Nat] : Recursive(f, m, zero, step)
    BY <1>2, Recursion, Zenon
  <2> QED
    BY <2>1 DEF Recursive
<1> HIDE DEF P
<1>4. ASSUME NEW d \in 1..m PROVE f[d] = f[d - 1] * 4 + P(d)
  <2>1. f[d - 1] \in Nat
    OBVIOUS
  <2> QED
    BY <1>3, <2>1
<1>5. Solves(f)
  <2> DEFINE g == [d \in 0..m |-> IF d = 0 THEN 0 ELSE f[d - 1] * 4 + P(d)]
  <2>1. ASSUME NEW d \in 0..m PROVE f[d] = g[d]
    <3>1. d # 0 => d \in 1..m
      OBVIOUS
    <3> QED
      BY <1>3, <1>4, <3>1
  <2>2. f = g
    BY <2>1
  <2> QED
    BY <2>2
<1>6. X = CHOOSE g : Solves(g)
  BY DEF Digits, P
<1>7. Solves(X)
  <2> HIDE DEF Solves, X
  <2> QED
    BY <1>5, <1>6
<1> HIDE DEF X
<1>8. X[0] = 0 /\ \A d \in 1..m : X[d] = X[d - 1] * 4 + P(d)
  <2>1. \A d \in 1..m : d \in 0..m /\ d # 0
    OBVIOUS
  <2> QED
    BY <1>7, <2>1
<1>9. \A d \in 0..m : X[d] = f[d]
  <2> DEFINE T == {d \in Nat : d <= m => X[d] = f[d]}
  <2>1. 0 \in T
    BY <1>3, <1>8
  <2>2. ASSUME NEW d \in Nat, d \in T PROVE d + 1 \in T
    <3> SUFFICES ASSUME d + 1 <= m PROVE X[d + 1] = f[d + 1]
      OBVIOUS
    <3>1. d + 1 \in 1..m /\ (d + 1) - 1 = d /\ X[d] = f[d]
      BY <2>2
    <3> HIDE DEF T
    <3> QED
      BY <1>4, <1>8, <3>1
  <2>3. Nat \subseteq T
    <3> HIDE DEF T
    <3> QED
      BY <2>1, <2>2, SetInduction
  <2> QED
    BY <2>3
<1>10. X \in [0..m -> Nat]
  BY <1>7, <1>9
<1>11. \A d \in 0..(m - 1) : X[d + 1] = X[d] * 4 + s[i + d + 1] /\ s[i + d + 1] \in 0..3
  <2> SUFFICES ASSUME NEW d \in 0..(m - 1)
               PROVE  X[d + 1] = X[d] * 4 + s[i + d + 1] /\ s[i + d + 1] \in 0..3
    OBVIOUS
  <2>1. d + 1 \in 1..m /\ (d + 1) - 1 = d
    OBVIOUS
  <2>2. P(d + 1) \in 0..3 /\ P(d + 1) = s[i + (d + 1)] /\ i + (d + 1) = i + d + 1
    BY <1>1, <2>1
  <2> QED
    BY <1>8, <2>1, <2>2
<1>12. HoldsDigits(X, s, m, i)
  BY <1>8, <1>10, <1>11 DEF HoldsDigits
<1> QED
  BY <1>12 DEF X

LEMMA PowersAre ==
  ASSUME NEW m \in Nat
  PROVE  LET p == Powers(m)
         IN  /\ p \in [0..m -> Nat] /\ p[0] = 1
             /\ \A d \in 0..(m - 1) : p[d + 1] = p[d] * 4
             /\ \A d \in 0..m : p[d] >= 1
<1> DEFINE step == [d \in 1..m |-> [v \in Nat |-> v * 4]]
           zero == 1
           Solves(f) == f = [d \in 0..m |-> IF d = 0 THEN 1 ELSE f[d - 1] * 4]
           X == Powers(m)
<1>2. step \in [1..m -> [Nat -> Nat]] /\ zero \in Nat
  OBVIOUS
<1>3. PICK f \in [0..m -> Nat] : f[0] = zero /\ \A d \in 1..m : f[d] = step[d][f[d - 1]]
  <2> HIDE DEF step, zero
  <2>1. \E f \in [0..m -> Nat] : Recursive(f, m, zero, step)
    BY <1>2, Recursion, Zenon
  <2> QED
    BY <2>1 DEF Recursive
<1>4. ASSUME NEW d \in 1..m PROVE f[d] = f[d - 1] * 4
  <2>1. f[d - 1] \in Nat
    OBVIOUS
  <2> QED
    BY <1>3, <2>1
<1>5. Solves(f)
  <2> DEFINE g == [d \in 0..m |-> IF d = 0 THEN 1 ELSE f[d - 1] * 4]
  <2>1. ASSUME NEW d \in 0..m PROVE f[d] = g[d]
    <3>1. d # 0 => d \in 1..m
      OBVIOUS
    <3> QED
      BY <1>3, <1>4, <3>1
  <2>2. f = g
    BY <2>1
  <2> QED
    BY <2>2
<1>6. X = CHOOSE g : Solves(g)
  BY DEF Powers
<1>7. Solves(X)
  <2> HIDE DEF Solves, X
  <2> QED
    BY <1>5, <1>6
<1> HIDE DEF X
<1>8. X[0] = 1 /\ \A d \in 0..(m - 1) : X[d + 1] = X[d] * 4
  <2>1. \A d \in 0..(m - 1) : d + 1 \in 0..m /\ d + 1 # 0 /\ (d + 1) - 1 = d
    OBVIOUS
  <2> QED
    BY <1>7, <2>1
<1>9. \A d \in 0..m : X[d] \in Nat /\ X[d] >= 1
  <2> DEFINE T == {d \in Nat : d <= m => X[d] \in Nat /\ X[d] >= 1}
  <2>1. 0 \in T
    BY <1>8
  <2>2. ASSUME NEW d \in Nat, d \in T PROVE d + 1 \in T
    <3> SUFFICES ASSUME d + 1 <= m PROVE X[d + 1] \in Nat /\ X[d + 1] >= 1
      OBVIOUS
    <3>1. d \in 0..(m - 1) /\ X[d] \in Nat /\ X[d] >= 1
      BY <2>2
    <3>2. X[d + 1] = X[d] * 4
      BY <1>8, <3>1
    <3> QED
      BY <3>1, <3>2
  <2>3. Nat \subseteq T
    <3> HIDE DEF T
    <3> QED
      BY <2>1, <2>2, SetInduction
  <2> QED
    BY <2>3
<1>10. X \in [0..m -> Nat]
  BY <1>7, <1>9
<1> QED
  BY <1>8, <1>9, <1>10 DEF X

\* The string at the next position: the first nucleotide is masked out, one comes in.
LEMMA KeyShifts ==
  ASSUME NEW m \in Nat \ {0}, NEW s \in Seq(0..3), NEW i \in Nat, i + 1 + m <= Len(s)
  PROVE  Key(s, m, i + 1) = ((Key(s, m, i) * 4) % Powers(m)[m]) + s[i + m + 1]
<1> DEFINE j == i + 1
           f == Digits(s, m, i)
           g == Digits(s, m, j)
           p == Powers(m)
           b == s[i + 1]
<1>1. /\ f \in [0..m -> Nat] /\ f[0] = 0
      /\ \A d \in 0..(m - 1) : f[d + 1] = f[d] * 4 + s[i + d + 1]
      /\ b \in 0..3
  <2>1. Len(s) \in Nat
    BY LenProperties
  <2>2. i + m <= Len(s)
    BY <2>1
  <2>3. HoldsDigits(f, s, m, i)
    BY <2>2, DigitsAre
  <2>4. 0 \in 0..(m - 1) /\ i + 0 + 1 = i + 1
    OBVIOUS
  <2> HIDE DEF f
  <2> QED
    BY <2>3, <2>4 DEF HoldsDigits
<1>2. /\ g \in [0..m -> Nat] /\ g[0] = 0
      /\ \A d \in 0..(m - 1) : g[d + 1] = g[d] * 4 + s[j + d + 1] /\ s[j + d + 1] \in 0..3
  <2>1. j \in Nat /\ j + m <= Len(s)
    BY LenProperties
  <2> HIDE DEF j
  <2>2. HoldsDigits(g, s, m, j)
    BY <2>1, DigitsAre
  <2> QED
    BY <2>2 DEF HoldsDigits
<1>3. /\ p \in [0..m -> Nat] /\ p[0] = 1
      /\ \A d \in 0..(m - 1) : p[d + 1] = p[d] * 4
      /\ \A d \in 0..m : p[d] >= 1
  BY PowersAre
<1> HIDE DEF f, g, p
<1>4. \A d \in 0..m : g[d] < p[d]
  <2> DEFINE T == {d \in Nat : d <= m => g[d] < p[d]}
  <2>1. 0 \in T
    BY <1>2, <1>3
  <2>2. ASSUME NEW d \in Nat, d \in T PROVE d + 1 \in T
    <3> SUFFICES ASSUME d + 1 <= m PROVE g[d + 1] < p[d + 1]
      OBVIOUS
    <3>1. d \in 0..(m - 1) /\ d \in 0..m /\ g[d] < p[d]
      BY <2>2
    <3>2. g[d] \in Nat /\ p[d] \in Nat
      BY <1>2, <1>3, <3>1
    <3>3. PICK a \in 0..3 : g[d + 1] = g[d] * 4 + a
      BY <1>2, <3>1
    <3>4. p[d + 1] = p[d] * 4
      BY <1>3, <3>1
    <3> QED
      BY <3>1, <3>2, <3>3, <3>4
  <2>3. Nat \subseteq T
    <3> HIDE DEF T
    <3> QED
      BY <2>1, <2>2, SetInduction
  <2> QED
    BY <2>3
<1>5. \A d \in 0..(m - 1) : f[d + 1] = b * p[d] + g[d]
  <2> DEFINE T == {d \in Nat : d <= m - 1 => f[d + 1] = b * p[d] + g[d]}
  <2>1. 0 \in T
    <3>1. 0 \in 0..(m - 1) /\ i + 0 + 1 = i + 1
      OBVIOUS
    <3>2. f[0 + 1] = f[0] * 4 + b
      BY <1>1, <3>1
    <3>3. f[0] = 0 /\ g[0] = 0 /\ p[0] = 1
      BY <1>1, <1>2, <1>3
    <3>4. PICK c \in 0..3 : b = c
      BY <1>1
    <3>5. c = c * 1 + 0 /\ 0 * 4 + c = c /\ 0 + 1 = 1
      OBVIOUS
    <3>6. f[0 + 1] = c * p[0] + g[0]
      BY <3>2, <3>3, <3>4, <3>5
    <3> HIDE DEF b
    <3> QED
      BY <3>4, <3>6
  <2>2. ASSUME NEW d \in Nat, d \in T PROVE d + 1 \in T
    <3> SUFFICES ASSUME d + 1 <= m - 1
                 PROVE  f[(d + 1) + 1] = b * p[d + 1] + g[d + 1]
      OBVIOUS
    <3> DEFINE e == d + 1
    <3>1. d \in 0..(m - 1) /\ e \in 0..(m - 1) /\ f[d + 1] = b * p[d] + g[d]
      BY <2>2
    <3>2. f[e + 1] = f[e] * 4 + s[i + e + 1] /\ i + e + 1 = j + d + 1
      BY <1>1, <3>1
    <3>3. g[d + 1] = g[d] * 4 + s[j + d + 1] /\ s[j + d + 1] \in 0..3
      BY <1>2, <3>1
    <3>4. p[d + 1] = p[d] * 4 /\ p[d] \in Nat /\ g[d] \in Nat
      BY <1>2, <1>3, <3>1
    <3>5. PICK x \in Nat, y \in Nat, a \in 0..3 : x = p[d] /\ y = g[d] /\ a = s[j + d + 1]
      BY <3>3, <3>4
    <3> HIDE DEF b
    <3>6. f[e + 1] = (b * x + y) * 4 + a
      BY <3>1, <3>2, <3>5
    <3>7. (b * x + y) * 4 + a = b * (x * 4) + (y * 4 + a)
      <4>1. PICK c \in 0..3 : b = c
        BY <1>1
      <4>2. (c * x + y) * 4 + a = c * (x * 4) + (y * 4 + a)
        OBVIOUS
      <4> QED
        BY <4>1, <4>2
    <3> QED
      BY <3>3, <3>4, <3>5, <3>6, <3>7
  <2>3. Nat \subseteq T
    <3> HIDE DEF T
    <3> QED
      BY <2>1, <2>2, SetInduction
  <2> QED
    BY <2>3
<1> DEFINE e == m - 1
<1>6. e \in 0..(m - 1) /\ e + 1 = m /\ e \in 0..m /\ m \in 0..m
  OBVIOUS
<1>7. f[m] = b * p[e] + g[e] /\ p[m] = p[e] * 4 /\ g[m] = g[e] * 4 + s[j + e + 1] /\ g[e] < p[e]
  BY <1>2, <1>3, <1>4, <1>5, <1>6
<1>8. j + e + 1 = i + m + 1
  OBVIOUS
<1>9. p[e] \in Nat /\ g[e] \in Nat /\ p[e] >= 1
  BY <1>2, <1>3, <1>6
<1>10. PICK x \in Nat, y \in Nat : x = p[e] /\ y = g[e]
  BY <1>9
<1>11. (f[m] * 4) % p[m] = y * 4
  <2> DEFINE q == x * 4
             r == y * 4
  <2>0. y < x
    BY <1>7, <1>10
  <2>1. q \in Nat \ {0} /\ r \in Nat /\ r < q
    BY <2>0
  <2>2. f[m] * 4 = b * q + r /\ p[m] = q
    <3>1. f[m] = b * x + y
      BY <1>7, <1>10
    <3>2. (b * x + y) * 4 = b * (x * 4) + y * 4
      <4>1. PICK c \in 0..3 : b = c
        BY <1>1
      <4>2. (c * x + y) * 4 = c * (x * 4) + y * 4
        OBVIOUS
      <4> QED
        BY <4>1, <4>2
    <3> QED
      BY <1>7, <1>10, <3>1, <3>2
  <2>3. b \in Nat
    BY <1>1
  <2> HIDE DEF q, r, b
  <2>4. (b * q + r) % q = r % q
    BY <2>1, <2>3, AddMultiple
  <2>5. r % q = r
    BY <2>1
  <2> QED
    BY <2>2, <2>4, <2>5 DEF r
<1>12. g[m] = ((f[m] * 4) % p[m]) + s[i + m + 1]
  BY <1>7, <1>8, <1>10, <1>11
<1> QED
  BY <1>12 DEF Key, f, g, p

-----------------------------------------------------------------------------
(* Counts. *)

\* The positions of A where the string with number k stands.
Places(key, A, k) == {i \in A : key[i] = k}

\* counter holds the number of occurrences of each string at the positions of A.
Exact(key, counter, A) ==
  /\ DOMAIN counter = {key[i] : i \in A}
  /\ \A k \in DOMAIN counter : counter[k] = Cardinality(Places(key, A, k))

LEMMA PlacesAdd ==
  ASSUME NEW key, NEW A, NEW B, NEW k, IsFiniteSet(A), IsFiniteSet(B), A \cap B = {}
  PROVE  /\ Cardinality(Places(key, A, k)) \in Nat
         /\ Cardinality(Places(key, A \cup B, k)) =
              Cardinality(Places(key, A, k)) + Cardinality(Places(key, B, k))
<1> DEFINE P == Places(key, A, k)
           Q == Places(key, B, k)
<1>1. P \subseteq A /\ Q \subseteq B /\ P \cap Q = {} /\ Places(key, A \cup B, k) = P \cup Q
  BY DEF Places
<1> HIDE DEF P, Q
<1>2. IsFiniteSet(P) /\ IsFiniteSet(Q)
  BY <1>1, FS_Subset
<1>3. Cardinality(P) \in Nat /\ Cardinality(Q) \in Nat
  BY <1>2, FS_CardinalityType
<1>4. Cardinality(P \cup Q) = Cardinality(P) + Cardinality(Q) - Cardinality(P \cap Q)
  BY <1>2, FS_Union
<1>5. Cardinality(P \cup Q) = Cardinality(P) + Cardinality(Q)
  BY <1>1, <1>3, <1>4, FS_EmptySet
<1> QED
  BY <1>1, <1>3, <1>5 DEF P, Q

\* Counting more places of one string keeps the counts exact.
LEMMA AddKey ==
  ASSUME NEW key, NEW c, NEW d, NEW A, NEW B, NEW k,
         IsFiniteSet(A), IsFiniteSet(B), A \cap B = {}, B # {},
         \A i \in B : key[i] = k,
         Exact(key, c, A),
         DOMAIN d = DOMAIN c \cup {k},
         \A q \in DOMAIN c : q # k => d[q] = c[q],
         d[k] = Get(c, k) + Cardinality(B)
  PROVE  Exact(key, d, A \cup B)
<1>1. DOMAIN d = {key[i] : i \in A \cup B}
  BY DEF Exact
<1>2. ASSUME NEW q \in DOMAIN d
      PROVE  d[q] = Cardinality(Places(key, A \cup B, q))
  <2>1. CASE q = k
    <3>1. Places(key, B, k) = B
      BY DEF Places
    <3>2. Get(c, k) = Cardinality(Places(key, A, k))
      <4>1. CASE k \in DOMAIN c
        BY <4>1 DEF Get, Exact
      <4>2. CASE k \notin DOMAIN c
        <5>1. Places(key, A, k) = {}
          BY <4>2 DEF Places, Exact
        <5> QED
          BY <4>2, <5>1, FS_EmptySet DEF Get
      <4> QED
        BY <4>1, <4>2
    <3> QED
      BY <2>1, <3>1, <3>2, PlacesAdd
  <2>2. CASE q # k
    <3>1. q \in DOMAIN c /\ d[q] = c[q]
      BY <2>2
    <3>2. Places(key, B, q) = {}
      BY <2>2 DEF Places
    <3>3. Places(key, A \cup B, q) = Places(key, A, q)
      BY <2>2 DEF Places
    <3> QED
      BY <3>1, <3>3 DEF Exact
  <2> QED
    BY <2>1, <2>2
<1> QED
  BY <1>1, <1>2 DEF Exact

\* One more position.
LEMMA AddPlace ==
  ASSUME NEW key, NEW c, NEW A, NEW i, IsFiniteSet(A), i \notin A, Exact(key, c, A)
  PROVE  Exact(key, Plus(c, key[i], 1), A \cup {i})
<1> DEFINE k == key[i]
           d == Plus(c, k, 1)
           B == {i}
<1>1. IsFiniteSet(B) /\ Cardinality(B) = 1
  BY FS_Singleton
<1>2. A \cap B = {} /\ B # {} /\ \A j \in B : key[j] = k
  OBVIOUS
<1>3. DOMAIN d = DOMAIN c \cup {k}
  BY DEF Plus
<1>4. \A q : Cardinality(Places(key, A, q)) \in Nat
  BY PlacesAdd, <1>1, <1>2
<1>5. \A q \in DOMAIN c : c[q] \in Nat
  <2> SUFFICES ASSUME NEW q \in DOMAIN c PROVE c[q] \in Nat
    OBVIOUS
  <2>1. c[q] = Cardinality(Places(key, A, q))
    BY DEF Exact
  <2> QED
    BY <1>4, <2>1
<1>6. \A q \in DOMAIN c : q # k => d[q] = c[q]
  BY <1>5 DEF Plus, Get
<1>7. d[k] = Get(c, k) + Cardinality(B)
  BY <1>1 DEF Plus
<1> HIDE DEF d, B, k
<1>8. Exact(key, d, A \cup B)
  BY <1>1, <1>2, <1>3, <1>6, <1>7, AddKey
<1> QED
  BY <1>8 DEF d, B, k

\* One more key, with all its places.
LEMMA AddSum ==
  ASSUME NEW key, NEW c, NEW A, NEW B, NEW k,
         IsFiniteSet(A), IsFiniteSet(B), A \cap B = {}, B # {},
         \A i \in B : key[i] = k,
         Exact(key, c, A)
  PROVE  Exact(key, Plus(Restrict(c, DOMAIN c \ {k}), k, Get(c, k) + Cardinality(B)), A \cup B)
<1> DEFINE v == Get(c, k) + Cardinality(B)
           r == Restrict(c, DOMAIN c \ {k})
           d == Plus(r, k, v)
<1>1. DOMAIN r = DOMAIN c \ {k} /\ \A q \in DOMAIN c \ {k} : r[q] = c[q]
  BY DEF Restrict
<1>2. \A q : Cardinality(Places(key, A, q)) \in Nat
  BY PlacesAdd
<1>3. \A q \in DOMAIN c : c[q] \in Nat
  <2> SUFFICES ASSUME NEW q \in DOMAIN c PROVE c[q] \in Nat
    OBVIOUS
  <2>1. c[q] = Cardinality(Places(key, A, q))
    BY DEF Exact
  <2> QED
    BY <1>2, <2>1
<1>4. Get(c, k) \in Nat /\ Cardinality(B) \in Nat
  BY <1>3, FS_CardinalityType DEF Get
<1>5. v \in Nat
  BY <1>4
<1> HIDE DEF r, v
<1>6. DOMAIN d = DOMAIN c \cup {k}
  BY <1>1 DEF Plus
<1>7. \A q \in DOMAIN c : q # k => d[q] = c[q]
  BY <1>1, <1>3 DEF Plus, Get
<1>8. d[k] = v
  BY <1>1, <1>5 DEF Plus, Get
<1> HIDE DEF d
<1>9. Exact(key, d, A \cup B)
  BY <1>6, <1>7, <1>8, AddKey DEF v
<1> QED
  BY <1>9 DEF d, r, v

-----------------------------------------------------------------------------
(* A call of getSequenceHash. *)

\* The call has a sequence with a position for each task at least.
Ready == seq \in Seq(0..3) /\ frame \in DOMAIN Frames /\ Positions >= ntasks

\* The number of the string at each position.
keys == [i \in 0..(Positions - 1) |-> compress(i)]

\* The positions of task t, and how many the tasks have in all.
Slice(t) == (t * slice)..((t + 1) * slice - 1)
Total    == ntasks * slice

LEMMA LengthIs ==
  ASSUME NucleotideAssumption, Ready
  PROVE  n \in Nat \ {0} /\ Positions \in Nat \ {0} /\ Len(seq) = Positions + (n - 1)
<1>1. n \in Nat \ {0}
  <2>1. Frames \in Seq(Nat \ {0}) /\ frame \in 1..Len(Frames)
    BY LenProperties DEF NucleotideAssumption, Ready
  <2> QED
    BY <2>1, ElementOfSeq DEF n
<1>2. Len(seq) \in Nat
  BY LenProperties DEF Ready
<1> QED
  BY <1>1, <1>2 DEF Positions, Ready, NucleotideAssumption

LEMMA CompressIsKey ==
  ASSUME NEW i PROVE compress(i) = Key(seq, n, i)
BY DEF compress, Key, Digits, Base

LEMMA StringsIsPowers == Strings = Powers(n)
BY DEF Strings, Powers

\* A task finds the key of a position from the key of the one before.
LEMMA NextKey ==
  ASSUME NucleotideAssumption, Ready, NEW l \in 1..(Positions - 1)
  PROVE  compress(l) = Shift(compress(l - 1), Base(l + n - 1))
<1> DEFINE i == l - 1
<1>1. n \in Nat \ {0} /\ Len(seq) = Positions + (n - 1) /\ seq \in Seq(0..3) /\ Positions \in Nat
  BY LengthIs DEF Ready
<1>2. i \in Nat /\ i + 1 = l /\ i + 1 + n <= Len(seq)
  BY <1>1
<1> HIDE DEF i
<1>3. Key(seq, n, i + 1) = ((Key(seq, n, i) * 4) % Powers(n)[n]) + seq[i + n + 1]
  BY <1>1, <1>2, KeyShifts
<1>4. (l + n - 1) + 1 = i + n + 1
  BY <1>1, <1>2
<1>5. Base(l + n - 1) = seq[i + n + 1]
  BY <1>4 DEF Base
<1>6. compress(l) = Key(seq, n, i + 1) /\ compress(i) = Key(seq, n, i)
  BY <1>2, CompressIsKey
<1> QED
  BY <1>3, <1>5, <1>6, StringsIsPowers DEF Shift, i

\* The slices cut the positions into disjoint intervals, but for the remainder.
LEMMA SlicesAre ==
  ASSUME NucleotideAssumption, Ready
  PROVE  /\ slice \in Nat \ {0} /\ remainder \in Nat /\ Total \in Nat \ {0}
         /\ Positions = Total + remainder
         /\ \A t \in Tasks : /\ Slice(t) \subseteq 0..(Total - 1)
                             /\ t * slice \in Nat /\ (t + 1) * slice = t * slice + slice
         /\ \A i \in 0..(Total - 1) : \E t \in Tasks : i \in Slice(t)
         /\ \A t, u \in Tasks : \A i \in Slice(t) : i \in Slice(u) => t = u
<1> DEFINE w == ntasks
           a == Positions
           q == slice
           r == remainder
<1>1. w \in Nat \ {0} /\ a \in Nat \ {0} /\ a >= w
  BY LengthIs DEF NucleotideAssumption, Ready
<1>2. q = a \div w /\ r = a % w /\ Total = w * q
  BY DEF slice, remainder, Total
<1> HIDE DEF w, a, q, r
<1>3. q \in Nat /\ r \in 0..(w - 1) /\ a = q * w + r
  BY <1>1, <1>2, DivMod
<1>4. q * w = w * q
  BY <1>1, <1>3
<1>5. q # 0
  <2>1. q = 0 => q * w = 0
    BY <1>1
  <2> QED
    BY <1>1, <1>3, <2>1
<1>6. Total \in Nat \ {0}
  <2>1. q * w = (q - 1) * w + w /\ (q - 1) * w \in Nat
    <3> DEFINE p == q - 1
    <3>1. p \in Nat /\ p + 1 = q
      BY <1>3, <1>5
    <3> HIDE DEF p
    <3>2. (p + 1) * w = p * w + w /\ p * w \in Nat
      BY <1>1, <3>1, Multiples
    <3> QED
      BY <3>1, <3>2 DEF p
  <2> QED
    BY <1>1, <1>2, <1>4, <2>1
<1>7. a = Total + r
  BY <1>2, <1>3, <1>4
<1>8. ASSUME NEW t \in Tasks
      PROVE  /\ t \in Nat /\ t * q \in Nat /\ (t + 1) * q = t * q + q
             /\ t * q + q <= Total
             /\ Slice(t) = (t * q)..(t * q + q - 1)
  <2>1. t \in Nat /\ t < w
    BY <1>1 DEF Tasks, w
  <2>2. t * q \in Nat /\ (t + 1) * q = t * q + q /\ t * q + q <= w * q
    BY <1>1, <1>3, <2>1, Multiples
  <2>3. Slice(t) = (t * q)..((t + 1) * q - 1)
    BY DEF Slice, q
  <2> QED
    BY <1>2, <2>1, <2>2, <2>3
<1>9. ASSUME NEW t \in Tasks PROVE Slice(t) \subseteq 0..(Total - 1)
  <2>1. PICK x \in Nat : x = t * q
    BY <1>8
  <2>2. x + q <= Total /\ Slice(t) = x..(x + q - 1)
    BY <1>8, <2>1
  <2> QED
    BY <1>3, <1>6, <2>2
<1>10. ASSUME NEW i \in 0..(Total - 1) PROVE \E t \in Tasks : i \in Slice(t)
  <2> DEFINE t == i \div q
             e == i % q
  <2>0. i \in Nat /\ i < Total /\ q \in Nat \ {0}
    BY <1>3, <1>5, <1>6
  <2>1. t \in Nat /\ e \in 0..(q - 1) /\ i = t * q + e
    BY <2>0, DivMod
  <2> HIDE DEF t, e
  <2>2. t < w
    <3>1. SUFFICES ASSUME w <= t PROVE FALSE
      BY <1>1, <2>1
    <3>2. w * q <= t * q /\ t * q \in Nat /\ w * q \in Nat
      BY <1>1, <1>3, <2>1, <3>1, Multiples
    <3>3. PICK x \in Nat, y \in Nat : x = w * q /\ y = t * q
      BY <3>2
    <3>4. x <= y /\ i < x /\ i = y + e
      BY <1>2, <2>0, <2>1, <3>2, <3>3
    <3> QED
      BY <2>0, <2>1, <3>4
  <2>3. t \in Tasks
    BY <1>1, <2>1, <2>2 DEF Tasks, w
  <2>4. i \in Slice(t)
    <3>1. PICK x \in Nat : x = t * q
      BY <1>8, <2>3
    <3> QED
      BY <1>3, <1>8, <2>1, <2>3, <3>1
  <2> QED
    BY <2>3, <2>4
<1>11. ASSUME NEW t \in Tasks, NEW u \in Tasks, NEW i \in Slice(t), i \in Slice(u)
       PROVE  t = u
  <2>1. PICK x \in Nat, y \in Nat : x = t * q /\ y = u * q
    BY <1>8
  <2>2. i \in x..(x + q - 1) /\ i \in y..(y + q - 1)
    BY <1>8, <1>11, <2>1
  <2>3. t \in Nat /\ u \in Nat
    BY <1>8
  <2>4. (t < u => x + q <= y) /\ (u < t => y + q <= x)
    BY <1>3, <2>1, <2>3, Multiples
  <2> QED
    BY <1>3, <2>2, <2>3, <2>4
<1>12. /\ q \in Nat \ {0} /\ r \in Nat
       /\ \A t \in Tasks : /\ Slice(t) \subseteq 0..(Total - 1)
                           /\ t * q \in Nat /\ (t + 1) * q = t * q + q
  BY <1>3, <1>5, <1>8, <1>9
<1>13. \A t, u \in Tasks : \A i \in Slice(t) : i \in Slice(u) => t = u
  BY <1>11
<1> QED
  BY <1>6, <1>7, <1>10, <1>12, <1>13 DEF a, q, r

LEMMA SliceFacts ==
  ASSUME NucleotideAssumption, Ready, NEW t \in Tasks
  PROVE  /\ Slice(t) \subseteq DOMAIN keys
         /\ IsFiniteSet(Slice(t))
         /\ t * slice \in Slice(t)
<1>1. PICK x \in Nat, w \in Nat \ {0} : /\ x = t * slice /\ w = slice
                                        /\ (t + 1) * slice = x + w
  BY SlicesAre
<1>2. Slice(t) = x..(x + w - 1)
  BY <1>1 DEF Slice
<1>3. IsFiniteSet(Slice(t)) /\ x \in Slice(t)
  BY <1>2, FS_Interval
<1>4. Total \in Nat /\ remainder \in Nat /\ Positions = Total + remainder /\ Slice(t) \subseteq 0..(Total - 1)
  BY SlicesAre
<1>5. 0..(Total - 1) \subseteq 0..(Positions - 1)
  BY <1>4
<1> QED
  BY <1>1, <1>3, <1>4, <1>5 DEF keys

\* What a task finds by shifting is what compress gives at each position.
LEMMA IndexIsKeys ==
  ASSUME NucleotideAssumption, Ready, NEW t \in Tasks
  PROVE  Index(t) = [l \in Slice(t) |-> keys[l]]
<1> DEFINE Solves(f) ==
             f = [l \in (t * slice)..((t + 1) * slice - 1) |->
                   IF l = t * slice THEN compress(l) ELSE Shift(f[l - 1], Base(l + n - 1))]
           X == Index(t)
           g == [l \in Slice(t) |-> keys[l]]
<1>1. PICK x \in Nat, w \in Nat \ {0} : /\ x = t * slice /\ w = slice
                                        /\ (t + 1) * slice = x + w
  BY SlicesAre
<1>2. Slice(t) = x..(x + w - 1) /\ x \in Slice(t)
  BY <1>1 DEF Slice
<1>3. \A l \in Slice(t) : l \in 0..(Positions - 1) /\ keys[l] = compress(l)
  BY SliceFacts DEF keys
<1>4. \A l \in Slice(t) : l # x => l \in 1..(Positions - 1) /\ l - 1 \in Slice(t)
  <2>1. Positions \in Nat
    BY LengthIs
  <2> QED
    BY <1>2, <1>3, <2>1
<1>5. \A l \in Slice(t) : l # x => compress(l) = Shift(compress(l - 1), Base(l + n - 1))
  BY <1>4, NextKey
<1>6. Solves(g)
  <2> DEFINE h == [l \in Slice(t) |->
                     IF l = x THEN compress(l) ELSE Shift(g[l - 1], Base(l + n - 1))]
  <2>1. ASSUME NEW l \in Slice(t) PROVE g[l] = h[l]
    <3>1. g[l] = compress(l)
      BY <1>3
    <3>2. l # x => g[l - 1] = compress(l - 1)
      BY <1>3, <1>4
    <3> HIDE DEF g
    <3> QED
      BY <1>5, <3>1, <3>2
  <2>2. g = h
    <3> HIDE DEF g, h
    <3>1. g = [l \in Slice(t) |-> g[l]] /\ h = [l \in Slice(t) |-> h[l]]
      BY DEF g, h
    <3> QED
      BY <2>1, <3>1
  <2> QED
    BY <1>1, <2>2 DEF Slice
<1>7. X = CHOOSE f : Solves(f)
  BY DEF Index
<1>8. Solves(X)
  <2> HIDE DEF Solves, X, g
  <2> QED
    BY <1>6, <1>7
<1> HIDE DEF X, g
<1>9. /\ X = [l \in Slice(t) |-> X[l]]
      /\ X[x] = compress(x)
      /\ \A l \in Slice(t) : l # x => X[l] = Shift(X[l - 1], Base(l + n - 1))
  <2>1. X = [l \in Slice(t) |-> IF l = x THEN compress(l) ELSE Shift(X[l - 1], Base(l + n - 1))]
    BY <1>1, <1>8 DEF Slice
  <2> HIDE DEF Solves
  <2>2. DOMAIN X = Slice(t)
    BY <2>1
  <2>3. X = [l \in Slice(t) |-> X[l]]
    BY <2>1
  <2>4. ASSUME NEW l \in Slice(t) 
        PROVE  X[l] = IF l = x THEN compress(l) ELSE Shift(X[l - 1], Base(l + n - 1))
    BY <2>1
  <2> QED
    BY <1>2, <2>3, <2>4
<1> HIDE DEF Solves
<1>10. \A l \in Slice(t) : X[l] = compress(l)
  <2> DEFINE T == {d \in Nat : x + d \in Slice(t) => X[x + d] = compress(x + d)}
  <2>1. 0 \in T
    BY <1>9
  <2>2. ASSUME NEW d \in Nat, d \in T PROVE d + 1 \in T
    <3> DEFINE l == x + (d + 1)
    <3> SUFFICES ASSUME l \in Slice(t) PROVE X[l] = compress(l)
      OBVIOUS
    <3>1. l # x /\ l - 1 = x + d
      OBVIOUS
    <3> HIDE DEF l
    <3>2. l - 1 \in Slice(t)
      BY <1>4, <3>1
    <3>3. X[l - 1] = compress(l - 1)
      BY <2>2, <3>1, <3>2
    <3> QED
      BY <1>5, <1>9, <3>1, <3>3
  <2>3. Nat \subseteq T
    <3> HIDE DEF T
    <3> QED
      BY <2>1, <2>2, SetInduction
  <2>4. ASSUME NEW l \in Slice(t) PROVE X[l] = compress(l)
    <3>1. l - x \in Nat /\ x + (l - x) = l
      BY <1>2
    <3>2. l - x \in T
      BY <2>3, <3>1
    <3> QED
      BY <3>1, <3>2
  <2> QED
    BY <2>4
<1>11. \A l \in Slice(t) : X[l] = keys[l]
  BY <1>3, <1>10
<1> QED
  BY <1>9, <1>11 DEF X

LEMMA TallyIsExact ==
  ASSUME NucleotideAssumption, Ready, NEW t \in Tasks
  PROVE  Exact(keys, Tally(Index(t)), Slice(t))
<1> DEFINE idx == Index(t)
<1>1. idx = [l \in Slice(t) |-> keys[l]]
  BY IndexIsKeys
<1>2. DOMAIN idx = Slice(t) /\ \A l \in Slice(t) : idx[l] = keys[l]
  BY <1>1
<1> HIDE DEF idx
<1>3. \A k : {l \in DOMAIN idx : idx[l] = k} = Places(keys, Slice(t), k)
  BY <1>2 DEF Places
<1>4. {idx[l] : l \in DOMAIN idx} = {keys[l] : l \in Slice(t)}
  BY <1>2
<1>5. Exact(keys, Tally(idx), Slice(t))
  BY <1>3, <1>4 DEF Tally, Exact
<1> QED
  BY <1>5 DEF idx

\* The rest of the positions, one after the other.
LEMMA RestIsExact ==
  ASSUME NucleotideAssumption, Ready, Exact(keys, hash, 0..(Total - 1)), CountRest
  PROVE  Exact(keys, hash', 0..(Positions - 1))
<1> DEFINE start == Len(seq) - remainder - (n - 1)
           Solves(f) ==
             f = [i \in 0..remainder |->
                   IF i = 0 THEN hash ELSE Plus(f[i - 1], compress(start + i - 1), 1)]
           X == CHOOSE f : Solves(f)
<1>1. PICK a \in Nat, r \in Nat :
        a = Total /\ r = remainder /\ Positions = a + r
  BY SlicesAre
<1>2. start = a
  BY <1>1, LengthIs
<1>3. \A i \in 1..r : keys[a + i - 1] = compress(start + i - 1)
  <2> HIDE DEF start
  <2>1. \A i \in 1..r : a + i - 1 \in 0..(Positions - 1)
    BY <1>1
  <2> QED
    BY <1>2, <2>1 DEF keys
<1>4. hash' = X[r]
  BY <1>1 DEF CountRest
<1> DEFINE Counts(A) == [k \in {keys[i] : i \in A} |-> Cardinality(Places(keys, A, k))]
           g == [i \in 0..r |-> IF i = 0 THEN hash ELSE Counts(0..(a + i - 1))]
<1>5. \A A : Exact(keys, Counts(A), A)
  BY DEF Exact
<1>6. \A i \in 0..r : Exact(keys, g[i], 0..(a + i - 1))
  <2>1. 0..(a + 0 - 1) = 0..(Total - 1)
    BY <1>1
  <2>2. g[0] = hash
    OBVIOUS
  <2>3. \A i \in 1..r : g[i] = Counts(0..(a + i - 1))
    OBVIOUS
  <2> HIDE DEF g, Counts
  <2> QED
    BY <1>5, <2>1, <2>2, <2>3
<1>7. ASSUME NEW i \in 1..r
      PROVE  g[i] = Plus(g[i - 1], compress(start + i - 1), 1)
  <2> DEFINE A == 0..(a + (i - 1) - 1)
             B == 0..(a + i - 1)
             j == a + i - 1
             c == g[i - 1]
             d == Plus(c, keys[j], 1)
  <2>1. IsFiniteSet(A) /\ j \notin A /\ B = A \cup {j} /\ i - 1 \in 0..r
    <3>1. a + (i - 1) - 1 \in Int
      BY <1>1
    <3>2. IsFiniteSet(A)
      BY <3>1, FS_Interval
    <3> QED
      BY <1>1, <3>2
  <2>2. Exact(keys, c, A)
    <3> HIDE DEF g
    <3> QED
      BY <1>6, <2>1
  <2> HIDE DEF c, g
  <2>3. Exact(keys, d, A \cup {j})
    <3> HIDE DEF A, j
    <3> QED
      BY <2>1, <2>2, AddPlace
  <2>4. d = [k \in DOMAIN d |-> d[k]]
    BY DEF Plus
  <2>5. d = Counts(B)
    <3> HIDE DEF d, A, B, j
    <3> QED
      BY <2>1, <2>3, <2>4 DEF Exact
  <2>6. g[i] = Counts(B)
    BY DEF g
  <2>7. keys[j] = compress(start + i - 1)
    BY <1>3
  <2> HIDE DEF start, Counts, B, j
  <2> QED
    BY <2>5, <2>6, <2>7 DEF c, d
<1>8. Solves(g)
  <2>1. \A i \in 0..r : g[i] = IF i = 0 THEN hash ELSE Plus(g[i - 1], compress(start + i - 1), 1)
    <3>1. g[0] = hash
      OBVIOUS
    <3>2. \A i \in 0..r : i # 0 => i \in 1..r
      OBVIOUS
    <3> HIDE DEF g, start
    <3> QED
      BY <1>7, <3>1, <3>2
  <2>2. g = [i \in 0..r |-> g[i]]
    <3> HIDE DEF Counts
    <3> QED
      OBVIOUS
  <2> HIDE DEF g, start
  <2> QED
    BY <1>1, <2>1, <2>2
<1>9. Solves(X)
  <2> HIDE DEF Solves, g
  <2> QED
    BY <1>8
<1> HIDE DEF X
<1>10. /\ X[0] = hash
       /\ \A i \in 1..r : X[i] = Plus(X[i - 1], compress(start + i - 1), 1)
  <2> HIDE DEF start
  <2>1. \A i \in 1..r : i \in 0..r /\ i # 0
    OBVIOUS
  <2>2. X = [i \in 0..r |-> IF i = 0 THEN hash ELSE Plus(X[i - 1], compress(start + i - 1), 1)]
    BY <1>1, <1>9
  <2> HIDE DEF Solves
  <2>3. \A i \in 0..r : X[i] = IF i = 0 THEN hash ELSE Plus(X[i - 1], compress(start + i - 1), 1)
    BY <2>2
  <2> QED
    BY <2>1, <2>3
<1> HIDE DEF Solves, start
<1>11. \A i \in 0..r : X[i] = g[i]
  <2> DEFINE T == {i \in Nat : i <= r => X[i] = g[i]}
  <2>1. 0 \in T
    <3>1. g[0] = hash
      OBVIOUS
    <3> HIDE DEF g
    <3> QED
      BY <1>10, <3>1
  <2>2. ASSUME NEW i \in Nat, i \in T PROVE i + 1 \in T
    <3> SUFFICES ASSUME i + 1 <= r PROVE X[i + 1] = g[i + 1]
      OBVIOUS
    <3> DEFINE e == i + 1
    <3>1. e \in 1..r /\ e - 1 = i /\ X[i] = g[i]
      BY <2>2
    <3> HIDE DEF e, g, T
    <3> QED
      BY <1>7, <1>10, <3>1 DEF e
  <2>3. Nat \subseteq T
    <3> HIDE DEF T
    <3> QED
      BY <2>1, <2>2, SetInduction
  <2> HIDE DEF g
  <2> QED
    BY <2>3
<1>12. X[r] = g[r] /\ r \in 0..r
  <2> HIDE DEF g
  <2> QED
    BY <1>11
<1>13. Exact(keys, hash', 0..(a + r - 1))
  <2> HIDE DEF g
  <2> QED
    BY <1>4, <1>6, <1>12
<1> QED
  BY <1>1, <1>13

-----------------------------------------------------------------------------
(* The invariant of the counting. *)

TypeInv ==
  /\ mpc \in {"skip", "read", "call", "trap", "perform", "rest", "return"}
  /\ frame \in Nat \ {0}
  /\ tpc \in [Tasks -> {"off", "count", "merge", "look", "store"}]
  /\ DOMAIN lHash = Tasks /\ DOMAIN found = Tasks
  /\ mQueue \in Tasks \cup {Nobody}

\* Main waits for the tasks, which run for a call that has work for each.
CallInv ==
  /\ mpc # "read" => seq \in Seq(0..3)
  /\ mpc \in {"perform", "rest", "return"} => Ready
  /\ mpc # "perform" => \A t \in Tasks : tpc[t] = "off"

\* The task that merges is the one on the serial queue.
QueueInv == \A t \in Tasks : mQueue = t <=> tpc[t] \in {"look", "store"}

\* A task merges the exact counts of its slice, and what it found is still there.
LocalOf(t) ==
  /\ tpc[t] = "merge" => Exact(keys, lHash[t], Slice(t))
  /\ tpc[t] \in {"look", "store"} =>
       /\ DOMAIN lHash[t] \subseteq {keys[i] : i \in Slice(t)}
       /\ \A k \in DOMAIN lHash[t] : lHash[t][k] = Cardinality(Places(keys, Slice(t), k))
  /\ tpc[t] = "store" => /\ found[t][1] \in DOMAIN lHash[t]
                         /\ found[t][2] = Get(hash, found[t][1])
LocalInv == \A t \in Tasks : LocalOf(t)

\* Task t has merged its count of key k.
IsMerged(t, k) ==
  \/ tpc[t] = "off"
  \/ tpc[t] \in {"look", "store"} /\ k \notin DOMAIN lHash[t]

\* The positions whose string has been merged by the task that counted it.
Merged == {i \in 0..(Total - 1) : \E t \in Tasks : i \in Slice(t) /\ IsMerged(t, keys[i])}

\* What hash counts, at each point of a call.
HashInv ==
  /\ mpc = "perform" => Exact(keys, hash, Merged)
  /\ mpc = "rest"    => Exact(keys, hash, 0..(Total - 1))
  /\ mpc = "return"  => Exact(keys, hash, 0..(Positions - 1))

IInv == TypeInv /\ CallInv /\ QueueInv /\ LocalInv /\ HashInv

-----------------------------------------------------------------------------

LEMMA CallUnchanged ==
  ASSUME seq' = seq, frame' = frame
  PROVE  /\ keys' = keys /\ Positions' = Positions /\ Total' = Total
         /\ Ready' = Ready
         /\ \A t \in Tasks : Slice(t)' = Slice(t)
<1>1. Positions' = Positions /\ n' = n
  BY DEF Positions, n
<1>2. slice' = slice /\ Total' = Total
  BY <1>1 DEF slice, Total
<1>3. \A i : compress(i)' = compress(i)
  BY DEF compress, n, Base
<1>4. keys' = keys
  BY <1>1, <1>3 DEF keys
<1>5. Ready' = Ready
  BY <1>1 DEF Ready
<1>6. \A t \in Tasks : Slice(t)' = Slice(t)
  BY <1>2 DEF Slice
<1> QED
  BY <1>1, <1>2, <1>4, <1>5, <1>6

LEMMA MergedIsFinite ==
  ASSUME NucleotideAssumption, Ready
  PROVE  IsFiniteSet(Merged) /\ IsFiniteSet(0..(Total - 1))
<1>1. Total - 1 \in Int
  BY SlicesAre
<1>2. IsFiniteSet(0..(Total - 1))
  BY <1>1, FS_Interval
<1>3. Merged \in SUBSET (0..(Total - 1))
  BY DEF Merged
<1> QED
  BY <1>2, <1>3, FS_Subset

\* The positions of one key of a slice.
LEMMA StoreAdds ==
  ASSUME NucleotideAssumption, IInv, mpc = "perform", NEW t \in Tasks, Store(t)
  PROVE  Exact(keys, hash', Merged') /\ Merged' = Merged \cup Places(keys, Slice(t), found[t][1])
<1> DEFINE k == found[t][1]
           B == Places(keys, Slice(t), k)
<1>1. Ready /\ tpc[t] = "store"
  BY DEF IInv, CallInv, Store
<1>2. /\ k \in DOMAIN lHash[t] /\ found[t][2] = Get(hash, k)
      /\ k \in {keys[i] : i \in Slice(t)}
      /\ lHash[t][k] = Cardinality(B)
  BY <1>1 DEF IInv, LocalInv, LocalOf
<1>3. /\ hash' = Plus(Restrict(hash, DOMAIN hash \ {k}), k, found[t][2] + lHash[t][k])
      /\ lHash' = [lHash EXCEPT ![t] = Restrict(@, DOMAIN @ \ {k})]
      /\ tpc' = [tpc EXCEPT ![t] = "look"]
      /\ seq' = seq /\ frame' = frame /\ mpc' = mpc
  BY DEF Store
<1> HIDE DEF k
<1>4. B # {} /\ B \subseteq Slice(t) /\ \A i \in B : keys[i] = k
  BY <1>2 DEF Places
<1>5. IsFiniteSet(B)
  BY <1>1, <1>4, SliceFacts, FS_Subset
<1>6. B \cap Merged = {}
  <2> SUFFICES ASSUME NEW i \in B, i \in Merged PROVE FALSE
    OBVIOUS
  <2>1. PICK u \in Tasks : i \in Slice(u) /\ IsMerged(u, keys[i])
    BY DEF Merged
  <2>2. u = t
    BY <1>1, <1>4, <2>1, SlicesAre
  <2> QED
    BY <1>1, <1>2, <1>4, <2>1, <2>2 DEF IsMerged
<1>7. /\ keys' = keys /\ Total' = Total
      /\ \A u \in Tasks : Slice(u)' = Slice(u)
  BY <1>3, CallUnchanged
<1>8. /\ tpc' \in [Tasks -> {"off", "count", "merge", "look", "store"}]
      /\ DOMAIN lHash' = Tasks
      /\ tpc'[t] = "look" /\ DOMAIN lHash'[t] = DOMAIN lHash[t] \ {k}
      /\ \A u \in Tasks : u # t => tpc'[u] = tpc[u] /\ lHash'[u] = lHash[u]
  BY <1>3 DEF IInv, TypeInv, Restrict
<1>9. ASSUME NEW u \in Tasks, NEW x
      PROVE  IsMerged(u, x)' <=> IsMerged(u, x) \/ (u = t /\ x = k)
  BY <1>1, <1>2, <1>8 DEF IsMerged
<1>10. Merged' = {i \in 0..(Total - 1) : \E u \in Tasks :
                    i \in Slice(u) /\ (IsMerged(u, keys[i]) \/ (u = t /\ keys[i] = k))}
  BY <1>7, <1>9 DEF Merged
<1>11. B \subseteq 0..(Total - 1)
  BY <1>1, <1>4, SlicesAre
<1>12. Merged' = Merged \cup B
  BY <1>4, <1>10, <1>11 DEF Merged, Places
<1>13. Exact(keys, hash, Merged) /\ IsFiniteSet(Merged)
  BY <1>1, MergedIsFinite DEF IInv, HashInv
<1> DEFINE d == Plus(Restrict(hash, DOMAIN hash \ {k}), k, Get(hash, k) + Cardinality(B))
<1>14. hash' = d
  BY <1>2, <1>3
<1> HIDE DEF B
<1>15. Exact(keys, d, Merged \cup B)
  <2> DEFINE A == Merged
  <2>1. A \cap B = {} /\ IsFiniteSet(A) /\ Exact(keys, hash, A)
    BY <1>6, <1>13
  <2> HIDE DEF A, d
  <2>2. Exact(keys, d, A \cup B)
    BY <1>4, <1>5, <2>1, AddSum DEF d
  <2> QED
    BY <2>2 DEF A
<1> QED
  BY <1>12, <1>14, <1>15 DEF B, k

-----------------------------------------------------------------------------
(* Reading. *)

Bytes == 0..3 \cup {NL, NUL}

\* Byte p of what was read: the sequence, the newline and the zero that end it,
\* and what the buffer held.
Byte(p) ==
  /\ p <= Len(text) => seq[p] = text[p]
  /\ p = Len(text) + 1 => seq[p] = NL
  /\ p = Len(text) + 2 => seq[p] = NUL
  /\ p > Len(text) + 2 => IF lines = 1 THEN seq[p] = left[p] ELSE seq[p] \in 0..3

ReadInv ==
  /\ text \in Texts
  /\ left \in [1..(linewidth + 2) -> Bytes]
  /\ mpc = "skip" => earlier \in Seq(Seq(0..3)) /\ earlier # <<>> /\ lines = 0
  /\ mpc \in {"skip", "read"} =>
       /\ lines \in Nat /\ (lines > 0 => (lines - 1) * linewidth < Len(text))
       /\ seq \in Seq(Bytes) /\ Len(seq) = lines * linewidth
       /\ buf \in [1..(linewidth + 2) -> Bytes]
       /\ lines = 0 => buf = left
       /\ lines > 0 /\ lines * linewidth <= Len(text) =>
            \A p \in 1..linewidth : buf[p] \in 0..3
       /\ \A p \in 1..Len(seq) : Byte(p)

LEMMA BytesAre == NL \in Bytes /\ NUL \in Bytes /\ 0..3 \subseteq Bytes /\ 0..3 \subseteq Int
                  /\ NL \notin 0..3 /\ NUL \notin 0..3 /\ NL # NUL
BY DEF Bytes, NL, NUL

\* A part of a sequence.
LEMMA PartIs ==
  ASSUME NEW D, NEW s \in Seq(D), NEW a \in Nat, NEW b \in Nat, a <= b, b <= Len(s)
  PROVE  /\ SubSeq(s, a + 1, b) \in Seq(D) /\ Len(SubSeq(s, a + 1, b)) = b - a
         /\ \A p \in 1..(b - a) : SubSeq(s, a + 1, b)[p] = s[a + p] /\ s[a + p] \in D
<1> DEFINE e == a + 1
           part == SubSeq(s, e, b)
<1>1. \A p \in e..b : s[p] \in D
  <2>1. \A p \in e..b : p \in 1..Len(s)
    BY LenProperties
  <2> HIDE DEF e
  <2> QED
    BY <2>1, ElementOfSeq
<1>2. e \in Int /\ b \in Int
  OBVIOUS
<1>3. b - e + 1 = b - a /\ (IF e <= b THEN b - e + 1 ELSE 0) = b - a
  OBVIOUS
<1>4. \A p \in 1..(b - a) : e + p - 1 = a + p /\ a + p \in e..b
  OBVIOUS
<1> HIDE DEF e
<1>5. /\ part \in Seq(D)
      /\ Len(part) = IF e <= b THEN b - e + 1 ELSE 0
      /\ \A p \in 1..(b - e + 1) : part[p] = s[e + p - 1]
  BY <1>1, <1>2, SubSeqProperties
<1> HIDE DEF part
<1>6. part \in Seq(D) /\ Len(part) = b - a /\ \A p \in 1..(b - a) : part[p] = s[a + p] /\ s[a + p] \in D
  BY <1>1, <1>3, <1>4, <1>5
<1> QED
  BY <1>6 DEF part, e

\* Buffer c holds a line s, its end, and the rest of buffer b.
Buffers(w) == [1..(w + 2) -> Bytes]
Stored(c, b, s, w) ==
  /\ c \in Buffers(w)
  /\ \A p \in 1..(w + 2) :
       /\ p <= Len(s) => c[p] = s[p]
       /\ p = Len(s) + 1 => c[p] = NL
       /\ p = Len(s) + 2 => c[p] = NUL
       /\ p > Len(s) + 2 => c[p] = b[p]

LEMMA FgetsStores ==
  ASSUME NEW w \in Nat, NEW b \in Buffers(w), NEW s \in Seq(0..3)
  PROVE  Stored(fgets(b, s), b, s, w)
<1> DEFINE z == <<NL, NUL>>
           line == s \o z
           c == fgets(b, s)
<1>1. /\ Len(s) \in Nat /\ s \in Seq(Bytes) /\ z \in Seq(Bytes)
      /\ Len(z) = 2 /\ z[1] = NL /\ z[2] = NUL
  <2>1. Len(s) \in Nat
    BY LenProperties
  <2>2. s \in Seq(Bytes)
    BY BytesAre, SeqMonotonic
  <2>3. z \in Seq(Bytes)
    BY BytesAre
  <2> QED
    BY <2>1, <2>2, <2>3
<1> HIDE DEF z
<1>2. /\ line \in Seq(Bytes) /\ Len(line) = Len(s) + 2
      /\ \A p \in 1..(Len(s) + 2) : line[p] = IF p <= Len(s) THEN s[p] ELSE z[p - Len(s)]
  <2> DEFINE A == Bytes
  <2>1. s \in Seq(A) /\ z \in Seq(A)
    BY <1>1
  <2> HIDE DEF A
  <2>2. /\ line \in Seq(A) /\ Len(line) = Len(s) + Len(z)
        /\ \A p \in 1..(Len(s) + Len(z)) : line[p] = IF p <= Len(s) THEN s[p] ELSE z[p - Len(s)]
    BY <2>1, ConcatProperties
  <2> HIDE DEF line
  <2> QED
    BY <1>1, <2>2 DEF A
<1>3. c = [p \in 1..(w + 2) |-> IF p <= Len(line) THEN line[p] ELSE b[p]]
  BY DEF fgets, z, Buffers
<1> HIDE DEF line, c
<1>4. ASSUME NEW p \in 1..(w + 2)
      PROVE  /\ p <= Len(s) => c[p] = s[p]
             /\ p = Len(s) + 1 => c[p] = NL
             /\ p = Len(s) + 2 => c[p] = NUL
             /\ p > Len(s) + 2 => c[p] = b[p]
             /\ c[p] \in Bytes
  <2>1. c[p] = IF p <= Len(s) + 2 THEN line[p] ELSE b[p]
    BY <1>2, <1>3
  <2>2. p <= Len(s) => c[p] = s[p] /\ s[p] \in Bytes
    BY <1>1, <1>2, <2>1, ElementOfSeq
  <2>3. p = Len(s) + 1 => c[p] = NL
    <3>1. p = Len(s) + 1 => p - Len(s) = 1 /\ ~(p <= Len(s)) /\ p \in 1..(Len(s) + 2)
      BY <1>1
    <3> QED
      BY <1>1, <1>2, <2>1, <3>1
  <2>4. p = Len(s) + 2 => c[p] = NUL
    <3>1. p = Len(s) + 2 => p - Len(s) = 2 /\ ~(p <= Len(s)) /\ p \in 1..(Len(s) + 2)
      BY <1>1
    <3> QED
      BY <1>1, <1>2, <2>1, <3>1
  <2>5. p > Len(s) + 2 => c[p] = b[p] /\ b[p] \in Bytes
    BY <1>1, <2>1 DEF Buffers
  <2>6. p <= Len(s) \/ p = Len(s) + 1 \/ p = Len(s) + 2 \/ p > Len(s) + 2
    BY <1>1
  <2> QED
    BY <2>2, <2>3, <2>4, <2>5, <2>6, BytesAre
<1>5. c \in Buffers(w)
  BY <1>3, <1>4 DEF Buffers
<1>6. Stored(c, b, s, w)
  BY <1>4, <1>5 DEF Stored
<1> QED
  BY <1>6 DEF c

LEMMA InputIs ==
  ASSUME NucleotideAssumption, text \in Texts
  PROVE  /\ text \in Seq(0..3) /\ Len(text) \in Nat \ {0}
         /\ linewidth \in Nat \ {0}
<1>1. text \in Seq(0..3) /\ text # <<>> /\ linewidth \in Nat \ {0}
  BY DEF NucleotideAssumption
<1> QED
  BY <1>1, LenProperties, EmptySeq

\* A line before the sequence leaves bytes, whatever its length.
LEMMA SkipStep ==
  ASSUME NucleotideAssumption, ReadInv, SkipLine
  PROVE  ReadInv'
<1> DEFINE s == Head(earlier)
           w == linewidth
           L == Seq(0..3)
<1>1. /\ text \in Texts /\ mpc = "skip" /\ lines = 0
      /\ seq \in Seq(Bytes) /\ Len(seq) = lines * linewidth
      /\ buf \in Buffers(w) /\ earlier \in Seq(L) /\ earlier # <<>>
  BY DEF ReadInv, SkipLine, Buffers
<1>2. w \in Nat
  BY <1>1, InputIs
<1>3. s \in L /\ Tail(earlier) \in Seq(L)
  <2> HIDE DEF L
  <2> QED
    BY <1>1
<1>4. fgets(buf, s) \in Buffers(w)
  <2>1. Stored(fgets(buf, s), buf, s, w)
    <3> HIDE DEF s, w
    <3> QED
      BY <1>1, <1>2, <1>3, FgetsStores
  <2> QED
    BY <2>1 DEF Stored
<1>5. /\ buf' = fgets(buf, s) /\ left' = buf' /\ earlier' = Tail(earlier)
      /\ text' = text /\ lines' = lines /\ seq' = seq
      /\ mpc' = "skip" => earlier' # <<>>
  BY DEF SkipLine
<1>6. left' \in [1..(linewidth + 2) -> Bytes] /\ buf' \in [1..(linewidth + 2) -> Bytes]
  BY <1>4, <1>5 DEF Buffers
<1>7. lines * linewidth = 0
  BY <1>1, <1>2
<1>8. \A p \in 1..Len(seq') : Byte(p)'
  BY <1>1, <1>5, <1>7
<1>9. lines' = 0 /\ lines' \in Nat /\ ~(lines' > 0)
  BY <1>1, <1>5
<1>10. seq' \in Seq(Bytes) /\ Len(seq') = lines' * linewidth
  BY <1>1, <1>5
<1>11. mpc' = "skip" => earlier' \in Seq(Seq(0..3)) /\ earlier' # <<>>
  BY <1>3, <1>5
<1> QED
  BY <1>1, <1>5, <1>6, <1>8, <1>9, <1>10, <1>11 DEF ReadInv

LEMMA ReadStep ==
  ASSUME NucleotideAssumption, ReadInv, ReadLine
  PROVE  ReadInv'
<1> DEFINE w == linewidth
           len == Len(text)
           had == lines * linewidth
           end == LineEnd(lines + 1)
           s == SubSeq(text, had + 1, end)
           k == end - had
           c == fgets(buf, s)
           part == SubSeq(c, 1, w)
<1>1. /\ text \in Texts /\ lines \in Nat /\ mpc = "read" /\ had < len
      /\ seq \in Seq(Bytes) /\ Len(seq) = had
      /\ buf \in [1..(w + 2) -> Bytes]
      /\ lines = 0 => buf = left
      /\ lines > 0 /\ had <= len => \A p \in 1..w : buf[p] \in 0..3
      /\ \A p \in 1..Len(seq) : Byte(p)
  BY DEF ReadInv, ReadLine
<1>2. /\ text \in Seq(0..3) /\ len \in Nat \ {0} /\ w \in Nat \ {0}
  BY <1>1, InputIs
<1>3. had \in Nat /\ (lines + 1) * linewidth = had + w
  BY <1>1, <1>2, Multiples
<1>4. end = IF had + w < len THEN had + w ELSE len
  BY <1>3 DEF LineEnd
<1>5. /\ buf' = c /\ seq' = seq \o part /\ lines' = lines + 1
      /\ text' = text /\ mpc' = mpc
  BY DEF ReadLine
<1> HIDE DEF w, len, had, end
<1>6. k \in 1..w /\ had + k <= len /\ (k < w => had + k = len) /\ end = had + k
  BY <1>1, <1>2, <1>3, <1>4
<1>7. s \in Seq(0..3) /\ Len(s) = k /\ \A p \in 1..k : s[p] = text[had + p]
  <2>1. had \in Nat /\ end \in Nat /\ had <= end /\ end <= Len(text)
    BY <1>2, <1>3, <1>6 DEF len
  <2> QED
    BY <1>2, <2>1, PartIs
<1> HIDE DEF s, k
<1>8. /\ c \in [1..(w + 2) -> Bytes]
      /\ \A p \in 1..(w + 2) :
           /\ p <= k => c[p] = s[p]
           /\ p = k + 1 => c[p] = NL
           /\ p = k + 2 => c[p] = NUL
           /\ p > k + 2 => c[p] = buf[p]
  <2>1. w \in Nat /\ buf \in Buffers(w) /\ s \in Seq(0..3) /\ Len(s) <= w
    BY <1>1, <1>2, <1>6, <1>7 DEF Buffers
  <2>2. Stored(c, buf, s, w)
    BY <2>1, FgetsStores
  <2> HIDE DEF c
  <2> QED
    BY <1>7, <2>2 DEF Stored, Buffers
<1> HIDE DEF c
<1>9. part \in Seq(Bytes) /\ Len(part) = w /\ \A p \in 1..w : part[p] = c[p]
  <2>1. \A p \in 1..w : c[p] \in Bytes
    BY <1>2, <1>8
  <2>2. 1 \in Int /\ w \in Int /\ 1 <= w
    BY <1>2
  <2>3. /\ part \in Seq(Bytes)
        /\ Len(part) = IF 1 <= w THEN w - 1 + 1 ELSE 0
        /\ \A p \in 1..(w - 1 + 1) : part[p] = c[1 + p - 1]
    BY <2>1, <2>2, SubSeqProperties
  <2>4. w - 1 + 1 = w /\ \A p \in 1..w : 1 + p - 1 = p
    BY <1>2
  <2> HIDE DEF part
  <2> QED
    BY <2>2, <2>3, <2>4
<1> HIDE DEF part
<1>10. /\ seq' \in Seq(Bytes) /\ Len(seq') = had + w
       /\ \A p \in 1..(had + w) : seq'[p] = IF p <= had THEN seq[p] ELSE c[p - had]
  <2>1. /\ seq \o part \in Seq(Bytes) /\ Len(seq \o part) = Len(seq) + Len(part)
        /\ \A p \in 1..(Len(seq) + Len(part)) :
             (seq \o part)[p] = IF p <= Len(seq) THEN seq[p] ELSE part[p - Len(seq)]
    BY <1>1, <1>9, ConcatProperties, ZenonT(60)
  <2>2. \A p \in 1..(had + w) : ~(p <= had) => p - had \in 1..w
    BY <1>2, <1>3
  <2> QED
    BY <1>1, <1>5, <1>9, <2>1, <2>2
<1>11. /\ lines' \in Nat /\ lines' > 0 /\ (lines' - 1) * linewidth = had
       /\ lines' * linewidth = had + w
  BY <1>1, <1>3, <1>5 DEF had
<1>12. buf' \in [1..(w + 2) -> Bytes] /\ lines' # 0
  BY <1>1, <1>5, <1>8
<1>13. ASSUME had + w <= len, NEW p \in 1..w PROVE buf'[p] \in 0..3
  <2>1. k = w
    BY <1>2, <1>3, <1>6, <1>13
  <2>2. c[p] = s[p] /\ p \in 1..Len(s)
    BY <1>2, <1>7, <1>8, <2>1
  <2> QED
    BY <1>5, <1>7, <2>2, ElementOfSeq
<1>14. ASSUME NEW p \in 1..(had + w)
       PROVE  /\ p <= len => seq'[p] = text[p]
              /\ p = len + 1 => seq'[p] = NL
              /\ p = len + 2 => seq'[p] = NUL
              /\ p > len + 2 => IF lines' = 1 THEN seq'[p] = left[p] ELSE seq'[p] \in 0..3
  <2>1. CASE p <= had
    <3>1. seq'[p] = seq[p] /\ p \in 1..Len(seq) /\ p <= len /\ p < len + 1
      BY <1>1, <1>2, <1>3, <1>10, <2>1
    <3>2. seq[p] = text[p]
      BY <1>1, <3>1 DEF Byte, len
    <3> QED
      BY <1>2, <3>1, <3>2
  <2>2. CASE p > had
    <3> DEFINE q == p - had
    <3>1. q \in 1..w /\ p = had + q /\ q \in 1..(w + 2) /\ seq'[p] = c[q]
      BY <1>2, <1>3, <1>10, <2>2
    <3> HIDE DEF q
    <3>2. CASE q <= k
      <4>1. c[q] = s[q] /\ s[q] = text[had + q]
        BY <1>6, <1>7, <1>8, <3>1, <3>2
      <4>2. p <= len
        BY <1>2, <1>3, <1>6, <3>1, <3>2
      <4> QED
        BY <1>2, <3>1, <4>1, <4>2
    <3>3. CASE q > k
      <4>1. had + k = len /\ had \in Nat
        BY <1>2, <1>3, <1>6, <3>1, <3>3
      <4>2. /\ p = len + 1 => q = k + 1
            /\ p = len + 2 => q = k + 2
            /\ p > len + 2 => q > k + 2
            /\ p > len
        BY <1>2, <1>6, <3>1, <3>3, <4>1
      <4>3. p > len + 2 => c[q] = buf[q]
        BY <1>8, <3>1, <4>2
      <4>4. lines = 0 => had = 0 /\ buf = left /\ p = q
        <5>1. lines = 0 => had = 0
          BY <1>2 DEF had, w
        <5> QED
          BY <1>1, <3>1, <5>1
      <4>5. lines # 0 => buf[q] \in 0..3
        BY <1>1, <1>2, <1>3, <3>1
      <4>6. lines' = 1 <=> lines = 0
        BY <1>1, <1>5
      <4> QED
        BY <1>2, <1>8, <3>1, <4>2, <4>3, <4>4, <4>5, <4>6
    <3> QED
      BY <1>6, <3>1, <3>2, <3>3
  <2> QED
    BY <1>3, <2>1, <2>2
<1>15. left' = left
  BY DEF ReadLine
<1>16. \A p \in 1..Len(seq') : Byte(p)'
  <2> SUFFICES ASSUME NEW p \in 1..Len(seq') PROVE Byte(p)'
    OBVIOUS
  <2>1. p \in 1..(had + w) /\ Len(text') = len
    BY <1>5, <1>10 DEF len
  <2> QED
    BY <1>5, <1>14, <1>15, <2>1 DEF Byte, len
<1>17. /\ text' \in Texts
       /\ lines' \in Nat /\ (lines' - 1) * linewidth < Len(text')
       /\ seq' \in Seq(Bytes) /\ Len(seq') = lines' * linewidth
       /\ buf' \in [1..(linewidth + 2) -> Bytes]
       /\ lines' = 0 => buf' = left'
       /\ left' \in [1..(linewidth + 2) -> Bytes] /\ mpc' # "skip"
       /\ lines' > 0 /\ lines' * linewidth <= Len(text') => \A p \in 1..linewidth : buf'[p] \in 0..3
  <2>1. Len(text') = len /\ linewidth = w
    BY <1>5 DEF len, w
  <2> QED
    BY <1>1, <1>5, <1>10, <1>11, <1>12, <1>13, <1>15, <2>1 DEF ReadInv
<1> QED
  BY <1>16, <1>17 DEF ReadInv

\* The index the rewriting stops at, if there is a newline to be found.
LEMMA LastIs ==
  ASSUME NEW m \in Int, NEW a \in Int, a = Len(seq), m \in (a - linewidth + 1)..(a - 1),
         linewidth \in Nat, seq[m + 1] = NL,
         \A p \in (a - linewidth + 1)..(a - 1) : seq[p + 1] = NL => p <= m
  PROVE  LastNewline = m
<1> DEFINE A == {p \in (a - linewidth + 1)..(a - 1) : seq[p + 1] = NL}
           Last(p) == \A q \in A : q <= p
           v == CHOOSE p \in A : Last(p)
<1>1. m \in A /\ Last(m) /\ A \subseteq Int
  OBVIOUS
<1>2. LastNewline = IF A = {} THEN a - 1 ELSE v
  BY DEF LastNewline
<1> HIDE DEF A
<1>3. v \in A /\ Last(v)
  <2> HIDE DEF Last
  <2> QED
    BY <1>1
<1>4. v = m
  <2> HIDE DEF v
  <2> QED
    BY <1>1, <1>3
<1> HIDE DEF v
<1> QED
  BY <1>1, <1>2, <1>4

LEMMA NoLast ==
  ASSUME \A p \in (Len(seq) - linewidth + 1)..(Len(seq) - 1) : seq[p + 1] # NL
  PROVE  LastNewline = Len(seq) - 1
BY DEF LastNewline

LEMMA BitsKeep == \A x \in 0..3 : bits(x) = x
BY BytesAre DEF bits

LEMMA RewrittenIs ==
  ASSUME NEW m \in Nat, NEW u \in Seq(0..3), Len(u) = m, LastNewline = m,
         \A p \in 1..m : bits(seq[p]) = u[p], Rewrite
  PROVE  seq' = u
<1>1. seq' = [p \in 1..m |-> bits(seq[p])]
  BY DEF Rewrite
<1>2. u = [p \in 1..m |-> u[p]]
  BY LenProperties
<1> QED
  BY <1>1, <1>2

\* A sequence ends a line if the bytes that were read are as many.
LEMMA FullLines ==
  ASSUME NEW w \in Nat \ {0}, NEW a \in Nat \ {0}, NEW k \in Nat \ {0},
         (k - 1) * w < a, a <= k * w
  PROVE  a % w = 0 <=> a = k * w
<1> DEFINE j == k - 1
           r == a - j * w
           o == 0
<1>1. j \in Nat /\ k = j + 1 /\ o \in Nat
  OBVIOUS
<1>2. j * w \in Nat /\ k * w = j * w + w
  <2> HIDE DEF j
  <2> QED
    BY <1>1, Multiples
<1>3. r \in 1..w /\ a = j * w + r /\ (r = w <=> a = k * w)
  <2>1. PICK x \in Nat : x = j * w
    BY <1>2
  <2> QED
    BY <1>2, <2>1
<1> HIDE DEF r, o
<1>4. CASE r = w
  <2>1. (k * w + o) % w = o % w
    BY <1>1, AddMultiple
  <2>2. o % w = 0 /\ k * w + o = k * w
    BY <1>2 DEF o
  <2> QED
    BY <1>3, <1>4, <2>1, <2>2
<1>5. CASE r # w
  <2> HIDE DEF j
  <2>0. r \in Nat
    BY <1>3
  <2>1. (j * w + r) % w = r % w
    BY <1>1, <2>0, AddMultiple
  <2>2. r % w = r
    BY <1>3, <1>5
  <2> QED
    BY <1>3, <1>5, <2>1, <2>2
<1> QED
  BY <1>4, <1>5

\* A set of numbers up to w has a greatest one.
LEMMA GreatestElement ==
  ASSUME NEW w \in Nat, NEW A, A \subseteq 1..w, A # {}
  PROVE  \E m \in A : \A q \in A : q <= m
<1> DEFINE B == {w - p : p \in A}
<1>1. B \subseteq Nat /\ B # {}
  <2>1. \A p \in A : w - p \in Nat
    <3> SUFFICES ASSUME NEW p \in A PROVE w - p \in Nat
      OBVIOUS
    <3>1. p \in 1..w
      OBVIOUS
    <3> QED
      BY <3>1
  <2>2. PICK x : x \in A
    OBVIOUS
  <2> QED
    BY <2>1, <2>2
<1>2. PICK d \in B : \A e \in B : d <= e
  <2> HIDE DEF B
  <2> QED
    BY <1>1, LeastElement
<1>3. PICK m \in A : d = w - m
  BY <1>2
<1>4. ASSUME NEW q \in A PROVE q <= m
  <2>1. w - m <= w - q /\ q \in 1..w /\ m \in 1..w
    BY <1>2, <1>3
  <2> QED
    BY <2>1
<1> QED
  BY <1>4

\* A sequence shorter than a line, and what was left behind it before place m.
LEMMA LeftoverIs ==
  ASSUME NucleotideAssumption, text \in Texts, left \in [1..(linewidth + 2) -> Bytes],
         NEW m \in OldNewlines, \A q \in OldNewlines : q <= m
  PROVE  /\ text \o Leftover \in Seq(0..3) /\ Len(text \o Leftover) = m - 1
         /\ \A p \in 1..(m - 1) :
              (text \o Leftover)[p] = IF p <= Len(text) THEN text[p]
                                      ELSE IF p = Len(text) + 1 THEN 1
                                      ELSE IF p = Len(text) + 2 THEN 0 ELSE bits(left[p])
<1> DEFINE D == 0..3
           Last(p) == \A q \in OldNewlines : q <= p
           v == CHOOSE p \in OldNewlines : Last(p)
           c == m - (Len(text) + 1)
           h == [p \in 1..c |-> IF p = 1 THEN bits(NL) ELSE IF p = 2 THEN bits(NUL)
                                 ELSE bits(left[Len(text) + p])]
<1>1. PICK a \in Nat, w \in Nat : a = Len(text) /\ w = linewidth
  BY InputIs
<1>2. text \in Seq(D)
  BY InputIs
<1>3. m \in (a + 3)..w /\ OldNewlines \subseteq Int
  BY <1>1 DEF OldNewlines
<1>4. v = m
  <2>1. v \in OldNewlines /\ Last(v)
    <3>1. m \in OldNewlines /\ Last(m)
      OBVIOUS
    <3> HIDE DEF Last
    <3> QED
      BY <3>1
  <2> HIDE DEF v
  <2> QED
    BY <1>3, <2>1
<1>5. Leftover = h
  <2>1. Leftover = [p \in 1..(v - (Len(text) + 1)) |->
                      IF p = 1 THEN bits(NL) ELSE IF p = 2 THEN bits(NUL)
                      ELSE bits(left[Len(text) + p])]
    BY DEF Leftover
  <2> HIDE DEF v
  <2> QED
    BY <1>4, <2>1
<1>6. c = m - (a + 1) /\ c \in Nat
  BY <1>1, <1>3
<1>7. bits(NL) = 1 /\ bits(NUL) = 0 /\ \A x \in Bytes : bits(x) \in D
  <2>1. bits(NL) = 1 /\ bits(NUL) = 0
    BY BytesAre DEF bits
  <2>2. \A x \in 0..3 : bits(x) \in D
    BY BitsKeep
  <2> QED
    BY <2>1, <2>2 DEF Bytes
<1>8. \A p \in 1..c : p # 1 /\ p # 2 => left[a + p] \in Bytes
  <2>1. \A p \in 1..c : a + p \in 1..(linewidth + 2)
    BY <1>1, <1>3, <1>6
  <2> QED
    BY <2>1
<1> HIDE DEF c, D
<1>9. /\ h \in Seq(D) /\ Len(h) = c
      /\ \A p \in 1..c : h[p] = IF p = 1 THEN 1 ELSE IF p = 2 THEN 0 ELSE bits(left[a + p])
  <2>1. \A p \in 1..c : h[p] = IF p = 1 THEN 1 ELSE IF p = 2 THEN 0 ELSE bits(left[a + p])
    BY <1>1, <1>7
  <2>2. \A p \in 1..c : h[p] \in D
    <3>1. 1 \in D /\ 0 \in D
      BY DEF D
    <3> QED
      BY <1>7, <1>8, <2>1, <3>1
  <2>3. h \in [1..c -> D]
    <3>1. h = [p \in 1..c |-> h[p]]
      OBVIOUS
    <3> HIDE DEF h
    <3> QED
      BY <2>2, <3>1
  <2>4. PICK e \in Nat : e = c
    BY <1>6
  <2> HIDE DEF h
  <2>5. h \in [1..e -> D]
    BY <2>3, <2>4
  <2>6. h \in Seq(D) /\ Len(h) = e
    BY <2>5
  <2> QED
    BY <2>1, <2>4, <2>6
<1> HIDE DEF h
<1>10. /\ text \o h \in Seq(D) /\ Len(text \o h) = a + c
       /\ \A p \in 1..(a + c) : (text \o h)[p] = IF p <= a THEN text[p] ELSE h[p - a]
  <2>1. /\ text \o h \in Seq(D) /\ Len(text \o h) = Len(text) + Len(h)
        /\ \A p \in 1..(Len(text) + Len(h)) :
             (text \o h)[p] = IF p <= Len(text) THEN text[p] ELSE h[p - Len(text)]
    BY <1>2, <1>9, ConcatProperties, ZenonT(60)
  <2> QED
    BY <1>1, <1>9, <2>1
<1>11. a + c = m - 1
  BY <1>3, <1>6
<1>12. ASSUME NEW p \in 1..(m - 1)
       PROVE  (text \o h)[p] = IF p <= a THEN text[p] ELSE IF p = a + 1 THEN 1
                              ELSE IF p = a + 2 THEN 0 ELSE bits(left[p])
  <2>1. CASE p <= a
    BY <1>10, <1>11, <2>1
  <2>2. CASE ~(p <= a)
    <3> DEFINE q == p - a
    <3>1. /\ q \in 1..c /\ a + q = p /\ (q = 1 <=> p = a + 1) /\ (q = 2 <=> p = a + 2)
      BY <1>3, <1>11, <1>6, <2>2
    <3>2. (text \o h)[p] = h[q]
      BY <1>10, <1>11, <2>2
    <3> HIDE DEF q
    <3>3. h[q] = IF q = 1 THEN 1 ELSE IF q = 2 THEN 0 ELSE bits(left[a + q])
      BY <1>9, <3>1
    <3> QED
      BY <2>2, <3>1, <3>2, <3>3
  <2> QED
    BY <2>1, <2>2
<1> QED
  BY <1>1, <1>5, <1>10, <1>11, <1>12 DEF D

\* The rewriting cuts the bytes that were read to the sequence.
LEMMA RewriteReads ==
  ASSUME NucleotideAssumption, ReadInv, Rewrite
  PROVE  ReadInv' /\ ReadsTheSequence' /\ seq' \in Seq(0..3)
<1>1. /\ text \in Texts /\ mpc = "read" /\ lines \in Nat
      /\ lines > 0 => (lines - 1) * linewidth < Len(text)
      /\ Len(text) <= lines * linewidth /\ Len(seq) = lines * linewidth
      /\ \A p \in 1..Len(seq) : Byte(p)
      /\ text' = text /\ mpc' = "call"
  <2>1. text \in Texts /\ mpc = "read" /\ text' = text /\ mpc' = "call"
    BY DEF ReadInv, Rewrite, input
  <2>2. lines * linewidth >= Len(text)
    BY DEF Rewrite
  <2>3. lines \in Nat /\ lines * linewidth \in Nat /\ Len(text) \in Nat
    BY <2>1, InputIs, Multiples DEF ReadInv
  <2>4. Len(text) <= lines * linewidth
    BY <2>2, <2>3
  <2>5. /\ lines > 0 => (lines - 1) * linewidth < Len(text)
        /\ Len(seq) = lines * linewidth
        /\ \A p \in 1..Len(seq) : Byte(p)
    BY <2>1 DEF ReadInv
  <2> QED
    BY <2>1, <2>3, <2>4, <2>5
<1>2. PICK w \in Nat \ {0}, len \in Nat \ {0}, k \in Nat, had \in Nat :
        /\ w = linewidth /\ len = Len(text) /\ k = lines /\ had = lines * linewidth
  <2>1. lines * linewidth \in Nat
    BY <1>1, InputIs, Multiples
  <2> QED
    BY <1>1, <2>1, InputIs
<1>3. text \in Seq(0..3)
  BY <1>1, InputIs
<1>4. k # 0
  <2>1. k = 0 => k * w = 0
    BY <1>2
  <2> QED
    BY <1>1, <1>2, <2>1
<1>5. (k - 1) * w < len /\ len <= k * w /\ had = k * w
  BY <1>1, <1>2, <1>4
<1>6. had < len + w /\ len <= had /\ w <= had
  <2> DEFINE j == k - 1
  <2>1. j \in Nat /\ k = j + 1
    BY <1>4
  <2> HIDE DEF j
  <2>2. j * w \in Nat /\ k * w = j * w + w
    BY <2>1, Multiples
  <2>3. j * w < len
    BY <1>5 DEF j
  <2> QED
    BY <1>2, <1>5, <2>2, <2>3
<1>7. len % w = 0 <=> len = had
  BY <1>4, <1>5, FullLines
<1>8. Len(seq) = had /\ \A p \in 1..had : Byte(p)
  BY <1>1, <1>2
<1>9. \A p \in 1..len : seq[p] = text[p] /\ text[p] \in 0..3 /\ seq[p] # NL /\ bits(seq[p]) = text[p]
  <2> SUFFICES ASSUME NEW p \in 1..len
               PROVE  seq[p] = text[p] /\ text[p] \in 0..3
    BY BytesAre, BitsKeep
  <2>1. p \in 1..had /\ p <= len /\ p \in 1..Len(text)
    BY <1>2, <1>6
  <2> QED
    BY <1>2, <1>3, <1>8, <2>1, ElementOfSeq DEF Byte
<1>10. /\ len + 1 <= had => seq[len + 1] = NL
       /\ len + 2 <= had => seq[len + 2] = NUL
  <2>1. /\ len + 1 <= had => len + 1 \in 1..had
        /\ len + 2 <= had => len + 2 \in 1..had
    OBVIOUS
  <2> QED
    BY <1>2, <1>8, <2>1 DEF Byte
\* The line that the rest of the buffer comes from.
<1>11. \A p \in (len + 3)..had : IF k = 1 THEN seq[p] = left[p] ELSE seq[p] \in 0..3
  <2> SUFFICES ASSUME NEW p \in (len + 3)..had
               PROVE  IF k = 1 THEN seq[p] = left[p] ELSE seq[p] \in 0..3
    OBVIOUS
  <2>1. p \in 1..had /\ p > len + 2
    BY <1>2
  <2> QED
    BY <1>2, <1>8, <2>1 DEF Byte
<1>12. k = 1 <=> had = w
  <2>1. k = 1 => k * w = w
    BY <1>2
  <2>2. 1 < k => 1 * w + w <= k * w
    BY <1>2, Multiples
  <2> QED
    BY <1>2, <1>4, <1>5, <2>1, <2>2
<1>13. left \in [1..(linewidth + 2) -> Bytes]
       /\ OldNewlines = {p \in (len + 3)..w : len < w /\ left[p] = NL}
  BY <1>2 DEF ReadInv, OldNewlines
<1>14. SUFFICES /\ seq' \in Seq(0..3)
                /\ seq' = CASE len % w = 0 -> SubSeq(text, 1, len - 1)
                            [] OldNewlines # {} -> text \o Leftover
                            [] OTHER -> text
  <2>1. ReadInv'
    BY <1>1, <1>13 DEF ReadInv, Rewrite, input
  <2>2. OldNewlines' = OldNewlines /\ Leftover' = Leftover
    BY <1>1 DEF OldNewlines, Leftover, Rewrite, input
  <2> QED
    BY <1>1, <1>2, <2>1, <2>2 DEF ReadsTheSequence
<1>15. CASE len = had
  <2> DEFINE m == len - 1
             u == SubSeq(text, 1, m)
  <2>1. LastNewline = m
    <3>1. \A p \in (had - linewidth + 1)..(had - 1) : p + 1 \in 1..len
      <4>1. linewidth = w
        BY <1>2
      <4> QED
        BY <1>6, <1>15, <4>1
    <3>2. \A p \in (had - linewidth + 1)..(had - 1) : seq[p + 1] # NL
      BY <1>9, <3>1
    <3>3. \A p \in (Len(seq) - linewidth + 1)..(Len(seq) - 1) : seq[p + 1] # NL
      BY <1>8, <3>2
    <3>4. LastNewline = Len(seq) - 1
      BY <3>3, NoLast
    <3> QED
      BY <1>8, <1>15, <3>4
  <2>2. m \in Nat /\ u \in Seq(0..3) /\ Len(u) = m /\ \A p \in 1..m : u[p] = text[p]
    <3>1. \A p \in 1..m : text[p] \in 0..3
      BY <1>9
    <3>2. m \in Nat
      OBVIOUS
    <3> HIDE DEF m
    <3>3. /\ u \in Seq(0..3) /\ Len(u) = IF 1 <= m THEN m - 1 + 1 ELSE 0
          /\ \A p \in 1..(m - 1 + 1) : u[p] = text[1 + p - 1]
      <4>1. 1 \in Int /\ m \in Int
        BY <3>2
      <4> QED
        BY <3>1, <4>1, SubSeqProperties
    <3>4. m - 1 + 1 = m /\ \A p \in 1..m : 1 + p - 1 = p
      BY <3>2
    <3> HIDE DEF u
    <3> QED
      BY <3>2, <3>3, <3>4
  <2>3. \A p \in 1..m : bits(seq[p]) = u[p]
    <3>1. \A p \in 1..m : p \in 1..len
      BY <1>2
    <3> HIDE DEF m, u
    <3> QED
      BY <1>9, <2>2, <3>1
  <2>4. seq' = u
    <3> HIDE DEF m, u
    <3> QED
      BY <2>1, <2>2, <2>3, RewrittenIs
  <2>5. OldNewlines = {}
    BY <1>6, <1>13, <1>15
  <2> HIDE DEF m, u
  <2>6. len % w = 0 /\ u = SubSeq(text, 1, len - 1)
    BY <1>7, <1>15 DEF u, m
  <2> QED
    BY <2>2, <2>4, <2>5, <2>6
<1>16. CASE len < had /\ OldNewlines # {}
  <2>1. k = 1 /\ had = w /\ len < w
    <3>1. len < w
      BY <1>13, <1>16
    <3>2. k # 1 => 1 * w + w <= k * w
      BY <1>2, <1>4, Multiples
    <3>3. k # 1 => w + w <= had
      BY <1>2, <1>5, <3>2
    <3> QED
      BY <1>2, <1>6, <1>12, <3>1, <3>3
  <2>2. PICK m \in OldNewlines : \A q \in OldNewlines : q <= m
    <3>1. OldNewlines \subseteq 1..w
      BY <1>2, <1>13
    <3> QED
      BY <1>2, <1>16, <3>1, GreatestElement
  <2>3. m \in (len + 3)..had /\ left[m] = NL /\ \A p \in (m + 1)..had : left[p] # NL
    <3>1. m \in (len + 3)..had /\ left[m] = NL
      BY <1>13, <2>1
    <3>2. ASSUME NEW p \in (m + 1)..had, left[p] = NL PROVE FALSE
      <4>1. p \in OldNewlines
        BY <1>2, <1>13, <2>1, <3>1, <3>2
      <4>2. p <= m
        BY <2>2, <4>1
      <4> QED
        BY <3>1, <3>2, <4>2
    <3> QED
      BY <3>1, <3>2
  <2>4. seq[m] = NL /\ \A p \in (m + 1)..had : seq[p] # NL
    <3>1. \A p \in (len + 3)..had : seq[p] = left[p]
      BY <1>11, <2>1
    <3>2. \A p \in (m + 1)..had : p \in (len + 3)..had
      BY <2>3
    <3> QED
      BY <2>3, <3>1, <3>2
  <2> DEFINE l == m - 1
             u == text \o Leftover
  <2>5. l \in Nat /\ l + 1 = m /\ l < had /\ len + 2 <= l
    BY <1>2, <2>3
  <2>6. /\ u \in Seq(0..3) /\ Len(u) = l
        /\ \A p \in 1..l :
             u[p] = IF p <= len THEN text[p] ELSE IF p = len + 1 THEN 1
                    ELSE IF p = len + 2 THEN 0 ELSE bits(left[p])
    BY <1>1, <1>2, <1>13, <2>2, LeftoverIs
  <2> HIDE DEF l, u
  <2>7. LastNewline = l
    <3>1. had \in Int /\ l \in Int /\ had = Len(seq) /\ linewidth \in Nat
          /\ l \in (had - linewidth + 1)..(had - 1)
      BY <1>2, <1>8, <2>1, <2>5
    <3>2. \A p \in (had - linewidth + 1)..(had - 1) : seq[p + 1] = NL => p <= l
      <4> SUFFICES ASSUME NEW p \in (had - linewidth + 1)..(had - 1), ~(p <= l)
                   PROVE  seq[p + 1] # NL
        OBVIOUS
      <4>1. p + 1 \in (m + 1)..had
        BY <1>2, <2>5
      <4> QED
        BY <2>4, <4>1
    <3>3. seq[l + 1] = NL
      BY <2>4, <2>5
    <3> QED
      BY <3>1, <3>2, <3>3, LastIs
  <2>8. ASSUME NEW p \in 1..l PROVE bits(seq[p]) = u[p]
    <3>1. CASE p <= len
      <4>1. p \in 1..len
        BY <1>2, <3>1
      <4> QED
        BY <1>9, <2>6, <3>1, <4>1
    <3>2. CASE p = len + 1
      <4>1. seq[p] = NL /\ ~(p <= len)
        BY <1>2, <1>10, <2>5, <3>2
      <4>2. bits(seq[p]) = 1
        BY <4>1, BytesAre DEF bits
      <4> QED
        BY <2>6, <3>2, <4>1, <4>2
    <3>3. CASE p = len + 2
      <4>1. seq[p] = NUL /\ ~(p <= len) /\ p # len + 1
        BY <1>2, <1>10, <2>5, <3>3
      <4>2. bits(seq[p]) = 0
        BY <4>1, BytesAre DEF bits
      <4> QED
        BY <2>6, <3>3, <4>1, <4>2
    <3>4. CASE p > len + 2
      <4>1. p \in (len + 3)..had
        BY <1>2, <2>5, <3>4
      <4>2. seq[p] = left[p]
        BY <1>11, <2>1, <4>1
      <4>3. ~(p <= len) /\ p # len + 1 /\ p # len + 2
        BY <1>2, <3>4
      <4> QED
        BY <2>6, <4>2, <4>3
    <3>5. p <= len \/ p = len + 1 \/ p = len + 2 \/ p > len + 2
      BY <1>2, <2>5
    <3> QED
      BY <3>1, <3>2, <3>3, <3>4, <3>5
  <2>9. seq' = u
    BY <2>5, <2>6, <2>7, <2>8, RewrittenIs
  <2>10. len # had /\ len % w # 0
    BY <1>7, <1>16
  <2> QED
    BY <1>16, <2>6, <2>9, <2>10 DEF u
<1>17. CASE len < had /\ OldNewlines = {}
  <2>1. \A p \in (len + 2)..had : seq[p] # NL
    <3> SUFFICES ASSUME NEW p \in (len + 2)..had PROVE seq[p] # NL
      OBVIOUS
    <3>1. CASE p = len + 2
      BY <1>2, <1>10, <3>1, BytesAre
    <3>2. CASE p # len + 2
      <4>1. p \in (len + 3)..had
        BY <1>2, <3>2
      <4>2. CASE k = 1
        <5>1. p \in (len + 3)..w /\ len < w
          BY <1>2, <1>12, <1>17, <4>1, <4>2
        <5>2. left[p] # NL
          BY <1>13, <1>17, <5>1
        <5> QED
          BY <1>11, <4>1, <4>2, <5>2
      <4>3. CASE k # 1
        BY <1>11, <4>1, <4>3, BytesAre
      <4> QED
        BY <4>2, <4>3
    <3> QED
      BY <3>1, <3>2
  <2>2. LastNewline = len
    <3>1. had \in Int /\ len \in Int /\ had = Len(seq) /\ linewidth \in Nat
          /\ len \in (had - linewidth + 1)..(had - 1)
      BY <1>2, <1>6, <1>8, <1>17
    <3>2. \A p \in (had - linewidth + 1)..(had - 1) : seq[p + 1] = NL => p <= len
      <4> SUFFICES ASSUME NEW p \in (had - linewidth + 1)..(had - 1), ~(p <= len)
                   PROVE  seq[p + 1] # NL
        OBVIOUS
      <4>1. p + 1 \in (len + 2)..had
        BY <1>2
      <4> QED
        BY <2>1, <4>1
    <3>3. seq[len + 1] = NL
      BY <1>2, <1>10, <1>17
    <3> QED
      BY <3>1, <3>2, <3>3, LastIs
  <2>3. seq' = text
    BY <1>2, <1>3, <1>9, <2>2, RewrittenIs
  <2> QED
    BY <1>3, <1>7, <1>17, <2>3
<1>18. len = had \/ (len < had /\ (OldNewlines # {} \/ OldNewlines = {}))
  BY <1>6
<1> QED
  BY <1>15, <1>16, <1>17, <1>18, Zenon

-----------------------------------------------------------------------------
(* The steps. *)

\* A step of a task leaves the call as it is.
TaskFrame(t) ==
  /\ seq' = seq /\ frame' = frame /\ mpc' = mpc /\ text' = text /\ left' = left
  /\ \A u \in Tasks \ {t} : tpc'[u] = tpc[u] /\ lHash'[u] = lHash[u] /\ found'[u] = found[u]

LEMMA TaskSteps ==
  ASSUME TypeInv, NEW t \in Tasks, Task(t)
  PROVE  TypeInv' /\ TaskFrame(t)
<1> USE DEF TypeInv, TaskFrame, input
<1>1. CASE Count(t)
  BY <1>1 DEF Count
<1>2. CASE EnterQueue(t)
  BY <1>2 DEF EnterQueue
<1>3. CASE LookUp(t)
  BY <1>3 DEF LookUp
<1>4. CASE Store(t)
  BY <1>4 DEF Store
<1>5. CASE LeaveQueue(t)
  BY <1>5 DEF LeaveQueue
<1> QED
  BY <1>1, <1>2, <1>3, <1>4, <1>5 DEF Task

LEMMA TaskInductive ==
  ASSUME NucleotideAssumption, IInv, NEW t \in Tasks, Task(t)
  PROVE  IInv'
<1>1. TypeInv' /\ TaskFrame(t)
  BY TaskSteps DEF IInv
<1>2. mpc = "perform"
  BY DEF IInv, CallInv, Task, Count, EnterQueue, LookUp, Store, LeaveQueue
<1>3. Ready /\ Exact(keys, hash, Merged)
  BY <1>2 DEF IInv, CallInv, HashInv
<1>4. /\ keys' = keys /\ Positions' = Positions /\ Total' = Total /\ Ready' = Ready
      /\ \A u \in Tasks : Slice(u)' = Slice(u)
  BY <1>1, CallUnchanged DEF TaskFrame
<1>5. CallInv'
  BY <1>1, <1>2, <1>4 DEF TaskFrame, IInv, CallInv
<1>6. QueueInv' /\ (mQueue' = mQueue \/ mQueue = t \/ (mQueue = Nobody /\ mQueue' = t))
  <2> USE DEF IInv, TypeInv, QueueInv, TaskFrame
  <2>0. Nobody \notin Tasks
    BY DEF Nobody, Tasks
  <2>1. CASE Count(t)
    BY <1>1, <2>1 DEF Count
  <2>2. CASE EnterQueue(t)
    BY <1>1, <2>0, <2>2 DEF EnterQueue
  <2>3. CASE LookUp(t)
    BY <1>1, <2>3 DEF LookUp
  <2>4. CASE Store(t)
    BY <1>1, <2>4 DEF Store
  <2>5. CASE LeaveQueue(t)
    BY <1>1, <2>0, <2>5 DEF LeaveQueue
  <2> QED
    BY <2>1, <2>2, <2>3, <2>4, <2>5 DEF Task
<1>7. \A u \in Tasks \ {t} : tpc'[u] = "store" => hash' = hash
  <2>1. Store(t) => tpc[t] = "store"
    BY DEF Store
  <2>2. Store(t) => mQueue = t
    BY <2>1 DEF IInv, QueueInv
  <2>3. \A u \in Tasks \ {t} : tpc'[u] = "store" => mQueue = u
    BY <1>1 DEF IInv, QueueInv, TaskFrame
  <2>4. Store(t) \/ hash' = hash
    BY DEF Task, Count, EnterQueue, LookUp, LeaveQueue
  <2> QED
    BY <2>2, <2>3, <2>4
<1>8. \A u \in Tasks : LocalOf(u)
  BY DEF IInv, LocalInv
<1> USE DEF LocalOf
<1>9. ASSUME NEW u \in Tasks \ {t} PROVE LocalOf(u)'
  <2>1. /\ keys' = keys /\ Slice(u)' = Slice(u) /\ tpc'[u] = tpc[u]
        /\ lHash'[u] = lHash[u] /\ found'[u] = found[u]
        /\ tpc'[u] = "store" => hash' = hash
    BY <1>1, <1>4, <1>7 DEF TaskFrame
  <2> QED
    BY <1>8, <2>1 DEF Exact, Places, Get
<1>10. LocalOf(t)'
  <2>0. t \in DOMAIN tpc /\ t \in DOMAIN lHash /\ t \in DOMAIN found
    BY DEF IInv, TypeInv
  <2>1. CASE Count(t)
    <3>1. lHash'[t] = Tally(Index(t)) /\ tpc'[t] = "merge"
      BY <2>0, <2>1 DEF Count
    <3>2. Exact(keys, Tally(Index(t)), Slice(t))
      BY <1>3, TallyIsExact
    <3> QED
      BY <1>4, <3>1, <3>2 DEF Exact, Places
  <2>2. CASE EnterQueue(t)
    <3>1. lHash' = lHash /\ tpc'[t] = "look" /\ tpc[t] = "merge"
      BY <2>0, <2>2 DEF EnterQueue
    <3>2. Exact(keys, lHash[t], Slice(t))
      BY <1>8, <3>1
    <3> QED
      BY <1>4, <3>1, <3>2 DEF Exact, Places
  <2>3. CASE LookUp(t)
    <3>1. /\ lHash' = lHash /\ hash' = hash /\ tpc'[t] = "store" /\ tpc[t] = "look"
          /\ found'[t][1] \in DOMAIN lHash[t] /\ found'[t][2] = Get(hash, found'[t][1])
      <4>1. PICK k \in DOMAIN lHash[t] : found' = [found EXCEPT ![t] = <<k, Get(hash, k)>>]
        BY <2>3 DEF LookUp
      <4>2. found'[t] = <<k, Get(hash, k)>>
        BY <2>0, <4>1
      <4>3. found'[t][1] = k /\ found'[t][2] = Get(hash, k)
        BY <4>2
      <4> QED
        BY <2>0, <2>3, <4>3 DEF LookUp
    <3>2. LocalOf(t)
      BY <1>8
    <3>3. tpc[t] = "look" /\ lHash'[t] = lHash[t]
      BY <3>1
    <3>4. /\ DOMAIN lHash[t] \subseteq {keys[i] : i \in Slice(t)}
          /\ \A x \in DOMAIN lHash[t] : lHash[t][x] = Cardinality(Places(keys, Slice(t), x))
      BY <3>2, <3>3
    <3>5. Slice(t)' = Slice(t) /\ keys' = keys
      BY <1>4
    <3>6. /\ DOMAIN lHash'[t] \subseteq {keys'[i] : i \in Slice(t)'}
          /\ \A x \in DOMAIN lHash'[t] : lHash'[t][x] = Cardinality(Places(keys', Slice(t)', x))
      <4>1. {keys'[i] : i \in Slice(t)'} = {keys[i] : i \in Slice(t)}
        BY <3>5
      <4>2. \A x : Places(keys', Slice(t)', x) = Places(keys, Slice(t), x)
        BY <3>5
      <4> QED
        BY <3>3, <3>4, <4>1, <4>2
    <3>7. /\ found'[t][1] \in DOMAIN lHash'[t] /\ found'[t][2] = Get(hash', found'[t][1])
          /\ tpc'[t] = "store"
      BY <3>1
    <3> QED
      BY <3>6, <3>7 DEF Places, Get
  <2>4. CASE Store(t)
    <3> DEFINE k == found[t][1]
    <3>1. /\ lHash'[t] = Restrict(lHash[t], DOMAIN lHash[t] \ {k})
          /\ tpc'[t] = "look" /\ tpc[t] = "store"
      BY <2>0, <2>4 DEF Store
    <3>2. LocalOf(t)
      BY <1>8
    <3> HIDE DEF k
    <3>3. /\ DOMAIN lHash'[t] = DOMAIN lHash[t] \ {k}
          /\ \A x \in DOMAIN lHash[t] \ {k} : lHash'[t][x] = lHash[t][x]
      BY <3>1 DEF Restrict
    <3>4. /\ DOMAIN lHash'[t] \subseteq {keys[i] : i \in Slice(t)}
          /\ \A x \in DOMAIN lHash'[t] : lHash'[t][x] = Cardinality(Places(keys, Slice(t), x))
      <4>1. /\ DOMAIN lHash[t] \subseteq {keys[i] : i \in Slice(t)}
            /\ \A x \in DOMAIN lHash[t] : lHash[t][x] = Cardinality(Places(keys, Slice(t), x))
        BY <3>1, <3>2
      <4> HIDE DEF LocalOf
      <4> QED
        BY <3>3, <4>1
    <3>5. Slice(t)' = Slice(t) /\ keys' = keys
      BY <1>4
    <3>6. tpc'[t] = "look"
      BY <3>1
    <3> HIDE DEF k
    <3>7. /\ DOMAIN lHash'[t] \subseteq {keys'[i] : i \in Slice(t)'}
          /\ \A x \in DOMAIN lHash'[t] : lHash'[t][x] = Cardinality(Places(keys', Slice(t)', x))
      BY <3>4, <3>5, Zenon
    <3> QED
      BY <3>6, <3>7 DEF Places
  <2>5. CASE LeaveQueue(t)
    <3>1. tpc'[t] = "off"
      BY <2>0, <2>5 DEF LeaveQueue
    <3> QED
      BY <3>1
  <2> QED
    BY <2>1, <2>2, <2>3, <2>4, <2>5 DEF Task
<1>11. LocalInv'
  <2> HIDE DEF LocalOf
  <2>1. \A u \in Tasks : LocalOf(u)'
    BY <1>9, <1>10
  <2> QED
    BY <2>1 DEF LocalOf, LocalInv
<1>12. Exact(keys, hash', Merged')
  <2>1. CASE Store(t)
    BY <1>2, <2>1, StoreAdds
  <2>2. CASE ~Store(t)
    <3>1. hash' = hash
      BY <2>2 DEF Task, Count, EnterQueue, LookUp, LeaveQueue
    <3>2. \A u \in Tasks : \A i \in Slice(u) : IsMerged(u, keys[i])' <=> IsMerged(u, keys[i])
      <4> SUFFICES ASSUME NEW u \in Tasks, NEW i \in Slice(u)
                   PROVE  IsMerged(u, keys[i])' <=> IsMerged(u, keys[i])
        OBVIOUS
      <4>1. CASE u # t
        BY <1>1, <1>4, <4>1 DEF TaskFrame, IsMerged
      <4>2. CASE u = t
        <5>0. t \in DOMAIN tpc /\ t \in DOMAIN lHash
          BY DEF IInv, TypeInv
        <5>1. CASE Count(t)
          <6>1. tpc[t] = "count" /\ tpc'[t] = "merge"
            BY <5>0, <5>1 DEF Count
          <6> QED
            BY <4>2, <6>1 DEF IsMerged
        <5>2. CASE EnterQueue(t)
          <6>1. tpc[t] = "merge" /\ tpc'[t] = "look" /\ lHash' = lHash
            BY <5>0, <5>2 DEF EnterQueue
          <6>2. keys[i] \in DOMAIN lHash[t]
            BY <1>8, <4>2, <6>1 DEF Exact
          <6> QED
            BY <1>4, <4>2, <6>1, <6>2 DEF IsMerged
        <5>3. CASE LookUp(t)
          <6>1. tpc[t] = "look" /\ tpc'[t] = "store" /\ lHash' = lHash
            BY <5>0, <5>3 DEF LookUp
          <6> QED
            BY <1>4, <4>2, <6>1 DEF IsMerged
        <5>4. CASE LeaveQueue(t)
          <6>1. tpc[t] = "look" /\ tpc'[t] = "off" /\ lHash[t] = Empty
            BY <5>0, <5>4 DEF LeaveQueue
          <6>2. DOMAIN lHash[t] = {}
            BY <6>1 DEF Empty
          <6> QED
            BY <4>2, <6>1, <6>2 DEF IsMerged
        <5> QED
          BY <2>2, <5>1, <5>2, <5>3, <5>4 DEF Task
      <4> QED
        BY <4>1, <4>2
    <3>3. Merged' = {i \in 0..(Total - 1) :
                       \E u \in Tasks : i \in Slice(u) /\ IsMerged(u, keys[i])'}
      BY <1>4 DEF Merged
    <3>4. Merged' = Merged
      BY <3>2, <3>3 DEF Merged
    <3> QED
      BY <1>3, <3>1, <3>4
  <2> QED
    BY <2>1, <2>2
<1>13. HashInv'
  BY <1>1, <1>2, <1>4, <1>12 DEF TaskFrame, HashInv, Exact, Places
<1> QED
  BY <1>1, <1>5, <1>6, <1>11, <1>13 DEF IInv

\* A call counts the positions of the slices and the remainder.
LEMMA JoinExact ==
  ASSUME NucleotideAssumption, IInv, mpc = "perform", \A t \in Tasks : tpc[t] = "off"
  PROVE  Merged = 0..(Total - 1)
<1>1. Ready
  BY DEF IInv, CallInv
<1>2. \A t \in Tasks : \A k : IsMerged(t, k)
  BY DEF IsMerged
<1> QED
  BY <1>1, <1>2, SlicesAre DEF Merged

LEMMA MainInductive ==
  ASSUME NucleotideAssumption, IInv, Call \/ JoinAll \/ CountRest \/ Return
  PROVE  IInv'
<1>1. seq' = seq /\ mpc # "read" /\ mQueue' = mQueue /\ found' = found /\ lHash' = lHash
  BY DEF Call, JoinAll, CountRest, Return, counts
<1>2. TypeInv'
  BY <1>1 DEF IInv, TypeInv, Call, JoinAll, CountRest, Return, counts
<1>3. CASE Call
  <2>1. /\ frame' = frame /\ frame \in DOMAIN Frames
        /\ \/ mpc' = "trap" /\ tpc' = tpc
           \/ mpc' = "perform" /\ Positions >= ntasks /\ tpc' = [t \in Tasks |-> "count"]
        /\ hash' = Empty /\ mpc = "call"
    <3>1. Positions >= ntasks \/ Positions < ntasks
      <4>1. Positions \in Int /\ ntasks \in Int
        <5>1. Frames \in Seq(Nat \ {0}) /\ frame \in 1..Len(Frames) /\ seq \in Seq(0..3)
          BY <1>1, <1>3, LenProperties DEF Call, NucleotideAssumption, IInv, CallInv
        <5>2. n \in Nat \ {0}
          BY <5>1, ElementOfSeq DEF n
        <5>3. Len(seq) \in Nat
          BY <5>1, LenProperties
        <5> QED
          BY <5>2, <5>3 DEF Positions, NucleotideAssumption
      <4> QED
        BY <4>1
    <3> QED
      BY <1>3, <3>1 DEF Call
  <2>2. \A t \in Tasks : tpc[t] = "off"
    BY <2>1 DEF IInv, CallInv
  <2>3. mpc' = "perform" => Ready'
    <3>1. seq \in Seq(0..3)
      BY <2>1 DEF IInv, CallInv
    <3>2. Ready' = Ready
      BY <1>1, <2>1, CallUnchanged
    <3> QED
      BY <2>1, <3>1, <3>2 DEF Ready
  <2>4. \A t \in Tasks : tpc'[t] \notin {"merge", "look", "store"}
    BY <2>1, <2>2
  <2>5. CallInv'
    BY <1>1, <2>1, <2>2, <2>3 DEF IInv, CallInv
  <2>6. QueueInv'
    BY <1>1, <2>1, <2>2, <2>4 DEF IInv, QueueInv
  <2>7. LocalInv'
    BY <2>4 DEF LocalInv, LocalOf
  <2>8. mpc' = "perform" => Merged' = {}
    BY <2>1 DEF Merged, IsMerged
  <2>9. Exact(keys', hash', {})
    <3>1. DOMAIN hash' = {}
      BY <2>1 DEF Empty
    <3> QED
      BY <3>1 DEF Exact
  <2>10. HashInv'
    BY <2>1, <2>8, <2>9 DEF HashInv, Exact, Places
  <2> QED
    BY <1>2, <2>5, <2>6, <2>7, <2>10 DEF IInv
<1>4. ASSUME tpc' = tpc, \A t \in Tasks : tpc[t] = "off", mpc' # "perform"
      PROVE  QueueInv' /\ LocalInv' /\ \A t \in Tasks : tpc'[t] = "off"
  BY <1>1, <1>4 DEF IInv, QueueInv, LocalInv, LocalOf
<1>5. CASE JoinAll
  <2>1. /\ mpc = "perform" /\ mpc' = "rest" /\ hash' = hash /\ frame' = frame /\ tpc' = tpc
        /\ \A t \in Tasks : tpc[t] = "off"
    BY <1>5 DEF JoinAll, counts
  <2>2. Ready /\ Exact(keys, hash, 0..(Total - 1))
    BY <2>1, JoinExact DEF IInv, CallInv, HashInv
  <2>3. keys' = keys /\ Total' = Total /\ Ready' = Ready
    BY <1>1, <2>1, CallUnchanged
  <2>4. CallInv'
    BY <1>1, <2>1, <2>2, <2>3 DEF IInv, CallInv
  <2>5. HashInv'
    BY <2>1, <2>2, <2>3 DEF HashInv, Exact, Places
  <2> QED
    BY <1>2, <1>4, <2>1, <2>4, <2>5 DEF IInv
<1>6. CASE CountRest
  <2>1. mpc = "rest" /\ mpc' = "return" /\ frame' = frame /\ tpc' = tpc
    BY <1>6 DEF CountRest
  <2>2. Ready /\ Exact(keys, hash, 0..(Total - 1)) /\ \A t \in Tasks : tpc[t] = "off"
    BY <2>1 DEF IInv, CallInv, HashInv
  <2>3. keys' = keys /\ Positions' = Positions /\ Ready' = Ready
    BY <1>1, <2>1, CallUnchanged
  <2>4. Exact(keys, hash', 0..(Positions - 1))
    BY <1>6, <2>2, RestIsExact
  <2>5. CallInv'
    BY <1>1, <2>1, <2>2, <2>3 DEF IInv, CallInv
  <2>6. HashInv'
    BY <2>1, <2>3, <2>4 DEF HashInv, Exact, Places
  <2> QED
    BY <1>2, <1>4, <2>1, <2>2, <2>5, <2>6 DEF IInv
<1>7. CASE Return
  <2>1. mpc = "return" /\ mpc' = "call" /\ tpc' = tpc
    BY <1>7 DEF Return, counts
  <2>2. \A t \in Tasks : tpc[t] = "off"
    BY <2>1 DEF IInv, CallInv
  <2>3. CallInv'
    BY <1>1, <2>1, <2>2 DEF IInv, CallInv
  <2>4. HashInv'
    BY <2>1 DEF HashInv
  <2> QED
    BY <1>2, <1>4, <2>1, <2>2, <2>3, <2>4 DEF IInv
<1> QED
  BY <1>3, <1>5, <1>6, <1>7

LEMMA InputInductive ==
  ASSUME NucleotideAssumption, IInv,
         SkipLine \/ ReadLine \/ (Rewrite /\ seq' \in Seq(0..3))
  PROVE  IInv'
<1>1. /\ mpc \in {"skip", "read"} /\ mpc' \in {"skip", "read", "call"}
      /\ UNCHANGED <<frame, counts>>
      /\ mpc' # "read" => seq' \in Seq(0..3)
  BY DEF SkipLine, ReadLine, Rewrite, IInv, CallInv
<1>2. TypeInv'
  BY <1>1 DEF IInv, TypeInv, counts
<1>3. \A t \in Tasks : tpc'[t] = "off"
  BY <1>1 DEF IInv, CallInv, counts
<1>4. CallInv'
  BY <1>1, <1>3 DEF CallInv
<1>5. QueueInv' /\ LocalInv'
  BY <1>1, <1>3 DEF IInv, QueueInv, LocalInv, LocalOf, counts
<1>6. HashInv'
  BY <1>1 DEF HashInv
<1> QED
  BY <1>2, <1>4, <1>5, <1>6 DEF IInv

\* The whole invariant: what is read, and what is counted.
NucleotideInv == ReadInv /\ ReadsTheSequence /\ IInv

LEMMA InitNucleotideInv ==
  ASSUME NucleotideAssumption, Init
  PROVE  NucleotideInv
<1>1. ReadInv
  <2>1. /\ text \in Texts /\ mpc = "skip" /\ lines = 0 /\ seq = <<>>
        /\ earlier \in Before /\ buf \in Memory /\ left = buf
    BY DEF Init
  <2>2. seq \in Seq(Bytes) /\ Len(seq) = 0
    BY <2>1, EmptySeq
  <2>3. lines * linewidth = 0 /\ lines \in Nat /\ ~(lines > 0)
    BY <2>1, InputIs
  <2>4. buf \in [1..(linewidth + 2) -> Bytes]
    BY <2>1 DEF NucleotideAssumption, Bytes
  <2>5. \A p \in 1..Len(seq) : FALSE
    BY <2>2
  <2>6. earlier \in Seq(Seq(0..3)) /\ earlier # <<>>
    BY <2>1 DEF NucleotideAssumption
  <2> QED
    BY <2>1, <2>2, <2>3, <2>4, <2>5, <2>6 DEF ReadInv
<1>2. ReadsTheSequence
  BY DEF Init, ReadsTheSequence
<1>3. /\ TypeInv /\ CallInv /\ \A t \in Tasks : tpc[t] = "off"
      /\ mpc = "skip" /\ mQueue = Nobody
  BY EmptySeq DEF Init, TypeInv, CallInv
<1>4. QueueInv /\ LocalInv /\ HashInv
  <2>1. Nobody \notin Tasks
    BY DEF Nobody, Tasks
  <2> QED
    BY <1>3, <2>1 DEF QueueInv, LocalInv, LocalOf, HashInv
<1> QED
  BY <1>1, <1>2, <1>3, <1>4 DEF NucleotideInv, IInv

LEMMA StutterKeeps ==
  ASSUME NucleotideInv, UNCHANGED vars
  PROVE  NucleotideInv'
<1>1. /\ seq' = seq /\ frame' = frame /\ mpc' = mpc /\ text' = text /\ lines' = lines
      /\ buf' = buf /\ left' = left /\ earlier' = earlier
      /\ hash' = hash /\ lHash' = lHash /\ tpc' = tpc /\ found' = found /\ mQueue' = mQueue
  BY DEF vars, input, counts
<1>2. ReadInv' /\ ReadsTheSequence'
  <2>1. OldNewlines' = OldNewlines /\ Leftover' = Leftover
    BY <1>1 DEF OldNewlines, Leftover
  <2>2. ReadInv'
    BY <1>1 DEF NucleotideInv, ReadInv, Byte
  <2> QED
    BY <1>1, <2>1, <2>2 DEF NucleotideInv, ReadsTheSequence
<1>3. /\ keys' = keys /\ Positions' = Positions /\ Total' = Total /\ Ready' = Ready
      /\ \A t \in Tasks : Slice(t)' = Slice(t)
  BY <1>1, CallUnchanged
<1>4. TypeInv' /\ CallInv' /\ QueueInv'
  BY <1>1, <1>3 DEF NucleotideInv, IInv, TypeInv, CallInv, QueueInv
<1>5. ASSUME NEW t \in Tasks PROVE LocalOf(t)'
  <2>1. /\ keys' = keys /\ Slice(t)' = Slice(t) /\ tpc'[t] = tpc[t]
        /\ lHash'[t] = lHash[t] /\ found'[t] = found[t] /\ hash' = hash
    BY <1>1, <1>3
  <2>2. LocalOf(t)
    BY DEF NucleotideInv, IInv, LocalInv
  <2> QED
    BY <2>1, <2>2 DEF LocalOf, Exact, Places, Get
<1>6. Merged' = Merged
  BY <1>1, <1>3 DEF Merged, IsMerged
<1>7. HashInv'
  BY <1>1, <1>3, <1>6 DEF NucleotideInv, IInv, HashInv, Exact, Places
<1> QED
  BY <1>2, <1>4, <1>5, <1>7 DEF NucleotideInv, IInv, LocalInv, Tasks

LEMMA NucleotideInductive ==
  ASSUME NucleotideAssumption, NucleotideInv, [Next]_vars
  PROVE  NucleotideInv'
<1>1. ReadInv /\ ReadsTheSequence /\ IInv
  BY DEF NucleotideInv
<1>2. CASE SkipLine \/ ReadLine
  <2>1. ReadInv'
    BY <1>1, <1>2, SkipStep, ReadStep
  <2>2. ReadsTheSequence'
    BY <1>2 DEF SkipLine, ReadLine, ReadsTheSequence
  <2>3. IInv'
    BY <1>1, <1>2, InputInductive
  <2> QED
    BY <2>1, <2>2, <2>3 DEF NucleotideInv
<1>3. CASE Rewrite
  <2>1. ReadInv' /\ ReadsTheSequence' /\ seq' \in Seq(0..3)
    BY <1>1, <1>3, RewriteReads
  <2>2. IInv'
    BY <1>1, <1>3, <2>1, InputInductive
  <2> QED
    BY <2>1, <2>2 DEF NucleotideInv
<1>4. ASSUME text' = text, left' = left, seq' = seq,
             mpc \notin {"skip", "read"}, mpc' \notin {"skip", "read"}
      PROVE  ReadInv' /\ ReadsTheSequence'
  <2>1. OldNewlines' = OldNewlines /\ Leftover' = Leftover
    BY <1>4 DEF OldNewlines, Leftover
  <2>2. ReadInv'
    BY <1>1, <1>4 DEF ReadInv
  <2> QED
    BY <1>1, <1>4, <2>1, <2>2 DEF ReadsTheSequence
<1>5. CASE Call \/ JoinAll \/ CountRest \/ Return
  <2>1. /\ text' = text /\ left' = left /\ seq' = seq
        /\ mpc \notin {"skip", "read"} /\ mpc' \notin {"skip", "read"}
    BY <1>5 DEF Call, JoinAll, CountRest, Return, input
  <2>2. IInv'
    BY <1>1, <1>5, MainInductive
  <2> QED
    BY <1>4, <2>1, <2>2 DEF NucleotideInv
<1>6. ASSUME NEW t \in Tasks, Task(t) PROVE NucleotideInv'
  <2>1. IInv'
    BY <1>1, <1>6, TaskInductive
  <2>2. TaskFrame(t) /\ mpc = "perform"
    <3>1. mpc = "perform"
      BY <1>1, <1>6 DEF IInv, CallInv, Task, Count, EnterQueue, LookUp, Store, LeaveQueue
    <3> QED
      BY <1>1, <1>6, <3>1, TaskSteps DEF IInv
  <2> QED
    BY <1>4, <2>1, <2>2 DEF TaskFrame, NucleotideInv
<1>7. CASE UNCHANGED vars
  BY <1>7, StutterKeeps
<1> QED
  BY <1>2, <1>3, <1>5, <1>6, <1>7 DEF Next

THEOREM AlwaysNucleotideInv == Spec => []NucleotideInv
<1>1. Init => NucleotideInv
  BY InitNucleotideInv, NucleotideAssumption
<1>2. NucleotideInv /\ [Next]_vars => NucleotideInv'
  BY NucleotideInductive, NucleotideAssumption
<1> QED
  BY <1>1, <1>2, PTL DEF Spec

THEOREM NothingElseIsRead == Spec => []ReadsTheSequence
<1>1. NucleotideInv => ReadsTheSequence
  BY DEF NucleotideInv
<1> QED
  BY <1>1, AlwaysNucleotideInv, PTL

\* getSequenceHash returns what a count of all positions at once gives.
THEOREM SlicesCountAll == Spec => []CountsAreExact
<1>1. ASSUME NucleotideInv PROVE CountsAreExact
  <2> SUFFICES ASSUME mpc = "return"
               PROVE  /\ DOMAIN hash = {compress(i) : i \in 0..(Positions - 1)}
                      /\ \A k \in DOMAIN hash : hash[k] = Occurrences(k)
    BY DEF CountsAreExact
  <2>1. Exact(keys, hash, 0..(Positions - 1))
    BY <1>1 DEF NucleotideInv, IInv, HashInv
  <2>2. \A i \in 0..(Positions - 1) : keys[i] = compress(i)
    BY DEF keys
  <2>3. \A k : Places(keys, 0..(Positions - 1), k) = {i \in 0..(Positions - 1) : compress(i) = k}
    BY <2>2 DEF Places
  <2> QED
    BY <2>1, <2>2, <2>3 DEF Exact, Occurrences
<1> QED
  BY <1>1, AlwaysNucleotideInv, PTL
===============================================================================
