------------------------ MODULE MulticoreFasta_proofs ------------------------
(***************************************************************************)
(* Theorems about MulticoreFasta, for every size of the team and of the    *)
(* blocks and every list of lengths.                                       *)
(***************************************************************************)
EXTENDS MulticoreFasta, Lemmas

\* A block may be empty: it then begins one letter after its end.
Interval == {b \in [from : Nat \ {0}, to : Nat] : b.from <= b.to + 1}

-----------------------------------------------------------------------------
(* The text, and the recursive functions that make it. *)

LEMMA WidthIsPositive == Width \in Nat \ {0}
BY MulticoreAssumption

\* How many characters m letters take.
Size(m) == m + ((m + Width - 1) \div Width)
At(first, size, p) == IF p = size \/ p % (Width + 1) = 0 THEN 0
                      ELSE first - 1 + p - (p \div (Width + 1))

LEMMA LinesAre ==
  ASSUME NEW a \in Nat \ {0}, NEW b \in Nat, a <= b + 1
  PROVE  LET size == Size((b + 1) - a)
         IN  /\ size \in Nat
             /\ Lines(a, b) \in Seq(Int)
             /\ Len(Lines(a, b)) = size
             /\ \A p \in 1..size : Lines(a, b)[p] = At(a, size, p)
<1> USE WidthIsPositive
<1> DEFINE m == b - a + 1
           size == Size(m)
           L == [p \in 1..size |-> At(a, size, p)]
<1>1. m \in Nat /\ m = (b + 1) - a
  OBVIOUS
<1>2. size \in Nat
  <2> DEFINE x == m + Width - 1
  <2>1. x \in Nat
    BY <1>1
  <2> HIDE DEF x
  <2>2. x \div Width \in Nat
    BY <2>1, DivMod
  <2> QED
    BY <1>1, <2>2 DEF Size, x
<1>3. Lines(a, b) = L
  BY DEF Lines, At, Size
<1> HIDE DEF m, size
<1>4. \A p \in 1..size : At(a, size, p) \in Int
  <2> SUFFICES ASSUME NEW p \in 1..size PROVE At(a, size, p) \in Int
    OBVIOUS
  <2>1. p \div (Width + 1) \in Int
    BY <1>2
  <2> QED
    BY <1>2, <2>1 DEF At
<1>5. L \in Seq(Int) /\ Len(L) = size /\ \A p \in 1..size : L[p] = At(a, size, p)
  BY <1>2, <1>4
<1> QED
  BY <1>1, <1>2, <1>3, <1>5 DEF size

LEMMA WholeLines ==
  ASSUME NEW q \in Nat, NEW m \in Nat
  PROVE  /\ q * Width \in Nat /\ q * (Width + 1) \in Nat
         /\ Size(q * Width) = q * (Width + 1)
         /\ Size(q * Width + m) = q * (Width + 1) + Size(m)
         /\ Size(m) \in Nat
<1> USE WidthIsPositive
<1> DEFINE x == m + Width - 1
           k == q * Width
<1>1. k \in Nat /\ q * (Width + 1) \in Nat /\ q * (Width + 1) = k + q
  BY Multiples
<1>2. ASSUME NEW y \in Nat
      PROVE  (k + y) \div Width = q + (y \div Width)
  BY AddMultiple
<1>3. (k + (Width - 1)) \div Width = q
  <2> DEFINE v == Width - 1
  <2>1. v \in Nat /\ v \div Width = 0
    OBVIOUS
  <2>2. k + (Width - 1) = k + v
    OBVIOUS
  <2> HIDE DEF k, v
  <2>3. (k + v) \div Width = q + (v \div Width)
    BY <1>2, <2>1, Zenon
  <2>4. (k + v) \div Width = q
    BY <2>1, <2>3
  <2> QED
    BY <2>2, <2>4
<1>4. x \in Nat /\ (k + x) \div Width = q + (x \div Width) /\ x \div Width \in Nat
  <2>1. x \in Nat
    OBVIOUS
  <2> HIDE DEF k, x
  <2> QED
    BY <1>2, <2>1, DivMod
<1>5. k + Width - 1 = k + (Width - 1) /\ (k + m) + Width - 1 = k + x
  BY <1>1
<1>6. Size(k) = k + q
  BY <1>3, <1>5 DEF Size
<1>7. Size(k + m) = (k + m) + (q + (x \div Width))
  BY <1>4, <1>5 DEF Size
<1>8. Size(m) = m + (x \div Width)
  BY DEF Size
<1> HIDE DEF k, x
<1>9. Size(k + m) = (k + q) + Size(m) /\ Size(m) \in Nat
  BY <1>1, <1>4, <1>7, <1>8
<1> QED
  BY <1>1, <1>6, <1>9 DEF k

LEMMA LinesJoin ==
  ASSUME NEW a \in Nat \ {0}, NEW b \in Nat, NEW c \in Nat,
         a <= b + 1, b <= c, ((b + 1) - a) % Width = 0
  PROVE  Lines(a, b) \o Lines(b + 1, c) = Lines(a, c)
<1> USE WidthIsPositive
<1> DEFINE m == (b + 1) - a
           q == m \div Width
           w == Width + 1
           n == (c + 1) - (b + 1)
           d == b + 1
           k == (c + 1) - a
<1>1. m \in Nat /\ n \in Nat /\ k = m + n /\ d \in Nat \ {0} /\ d <= c + 1 /\ a <= c + 1
  OBVIOUS
<1>2. q \in Nat /\ m = q * Width
  <2> HIDE DEF m
  <2>1. q \in Nat /\ m = q * Width + (m % Width)
    BY <1>1, DivMod
  <2>2. m % Width = 0
    BY DEF m
  <2> QED
    BY <1>1, <2>1, <2>2, Multiples
<1> DEFINE x == q * w
           y == Size(n)
           z == Size(k)
           L == Lines(a, b)
           M == Lines(d, c)
           N == Lines(a, c)
<1>3. Size(m) = x /\ z = x + y /\ x \in Nat /\ y \in Nat
  <2> HIDE DEF m, n, q, k
  <2> QED
    BY <1>1, <1>2, WholeLines
<1>4. L \in Seq(Int) /\ Len(L) = x /\ \A p \in 1..x : L[p] = At(a, x, p)
  BY <1>3, LinesAre
<1>5. M \in Seq(Int) /\ Len(M) = y /\ \A p \in 1..y : M[p] = At(d, y, p)
  <2> HIDE DEF d
  <2>1. Size((c + 1) - d) = y
    BY DEF d
  <2> HIDE DEF y, n
  <2> QED
    BY <1>1, <2>1, LinesAre
<1>6. N \in Seq(Int) /\ Len(N) = z /\ \A p \in 1..z : N[p] = At(a, z, p)
  BY <1>1, LinesAre
<1>7. ASSUME NEW p \in Nat
      PROVE  (x + p) \div w = q + (p \div w) /\ (x + p) % w = p % w
  <2>1. w \in Nat \ {0}
    OBVIOUS
  <2> HIDE DEF q, w
  <2> QED
    BY <1>2, <2>1, AddMultiple
<1>8. x % w = 0
  <2>1. 0 % w = 0
    OBVIOUS
  <2>2. x + 0 = x
    BY <1>3
  <2> HIDE DEF w, x
  <2>3. (x + 0) % w = 0 % w
    BY <1>7
  <2> QED
    BY <2>1, <2>2, <2>3
<1>9. d - 1 = a - 1 + m /\ x = m + q /\ w \in Nat \ {0}
  <2>1. x = m + q
    BY <1>2
  <2> QED
    BY <2>1
<1> HIDE DEF m, n, q, w, x, y, z, L, M, N, d, k
<1>10. ASSUME NEW p \in 1..x PROVE At(a, x, p) = At(a, z, p)
  <2>1. p = x => p % w = 0
    BY <1>8
  <2>2. p = z => p = x
    BY <1>3
  <2>3. (p = x \/ p % w = 0) <=> (p = z \/ p % w = 0)
    BY <2>1, <2>2
  <2> QED
    BY <2>3 DEF At, w
<1>11. ASSUME NEW p \in 1..y PROVE At(d, y, p) = At(a, z, x + p)
  <2>1. /\ (x + p) \div w = q + (p \div w) /\ (x + p) % w = p % w
        /\ p \div w \in Int
    BY <1>7, <1>9
  <2>2. p = y <=> x + p = z
    BY <1>3
  <2>3. d - 1 + p - (p \div w) = a - 1 + (x + p) - (q + (p \div w))
    <3> DEFINE e == p \div w
    <3>1. e \in Int
      BY <2>1
    <3> HIDE DEF e
    <3>2. (d - 1) + (p - e) = (a - 1) + ((x + p) - (q + e))
      BY <1>1, <1>2, <1>3, <1>9, <3>1
    <3> QED
      BY <3>2 DEF e
  <2> QED
    BY <2>1, <2>2, <2>3 DEF At, w
<1>12. L \in Seq(Int) /\ M \in Seq(Int) /\ N \in Seq(Int)
  BY <1>4, <1>5, <1>6
<1> DEFINE K == L \o M
<1>13. /\ K \in Seq(Int) /\ Len(K) = Len(L) + Len(M)
       /\ \A p \in 1..(Len(L) + Len(M)) :
            K[p] = IF p <= Len(L) THEN L[p] ELSE M[p - Len(L)]
  BY <1>12, ConcatProperties
<1> HIDE DEF K
<1>14. /\ Len(K) = z
       /\ \A p \in 1..x : K[p] = L[p]
       /\ \A p \in 1..y : K[x + p] = M[p]
  BY <1>3, <1>4, <1>5, <1>13
<1>15. ASSUME NEW p \in 1..z PROVE K[p] = N[p]
  <2>1. CASE p <= x
    <3>1. p \in 1..x
      BY <1>3, <2>1
    <3> QED
      BY <1>4, <1>6, <1>10, <1>14, <3>1
  <2>2. CASE ~(p <= x)
    <3> DEFINE j == p - x
    <3>1. j \in 1..y /\ p = x + j
      BY <1>3, <2>2
    <3> HIDE DEF j
    <3>2. K[x + j] = M[j] /\ M[j] = At(a, z, x + j)
      BY <1>5, <1>11, <1>14, <3>1
    <3> QED
      BY <1>6, <3>1, <3>2
  <2> QED
    BY <2>1, <2>2
<1>16. K = N
  BY <1>6, <1>12, <1>13, <1>14, <1>15, SeqEqual
<1> QED
  BY <1>16 DEF K, L, M, N, d

LEMMA LengthsAre == Len(Lengths) \in Nat /\ Lengths \in [1..Len(Lengths) -> Nat]
<1>1. Lengths \in Seq(Nat)
  BY MulticoreAssumption
<1> QED
  BY <1>1, LenProperties

LEMMA UptoIsSum ==
  /\ Upto \in [0..Len(Lengths) -> Nat]
  /\ Upto[0] = 0
  /\ \A c \in Calls : Upto[c] = Upto[c - 1] + Lengths[c]
<1> DEFINE m == Len(Lengths)
           Solves(f) == f = [c \in 0..m |-> IF c = 0 THEN 0 ELSE f[c - 1] + Lengths[c]]
<1>1. m \in Nat /\ Lengths \in [1..m -> Nat]
  BY LengthsAre
<1>2. PICK f \in [0..m -> Nat] : f[0] = 0 /\ \A c \in 1..m : f[c] = f[c - 1] + Lengths[c]
  <2> HIDE DEF m
  <2> QED
    BY <1>1, Summing
<1>3. Solves(f)
  <2> DEFINE g == [c \in 0..m |-> IF c = 0 THEN 0 ELSE f[c - 1] + Lengths[c]]
  <2>1. \A c \in 0..m : f[c] = g[c]
    BY <1>1, <1>2
  <2>2. f = g
    BY <2>1
  <2> QED
    BY <2>2
<1>4. Upto = CHOOSE g : Solves(g)
  BY DEF Upto
<1>5. Solves(Upto)
  <2> HIDE DEF Solves
  <2> QED
    BY <1>3, <1>4
<1>6. DOMAIN Upto = 0..m /\ Upto[0] = 0 /\ \A c \in 1..m : Upto[c] = Upto[c - 1] + Lengths[c]
  BY <1>1, <1>5
<1>7. \A c \in 0..m : Upto[c] = f[c]
  <2> DEFINE T == {c \in Nat : c <= m => Upto[c] = f[c]}
  <2>1. 0 \in T
    BY <1>2, <1>6
  <2>2. ASSUME NEW c \in Nat, c \in T PROVE c + 1 \in T
    BY <1>2, <1>6, <2>2
  <2>3. Nat \subseteq T
    <3> HIDE DEF T
    <3> QED
      BY <2>1, <2>2, SetInduction
  <2> QED
    BY <2>3
<1> QED
  BY <1>5, <1>6, <1>7 DEF Calls

LEMMA UptoTypes ==
  ASSUME NEW c \in Calls
  PROVE  /\ c - 1 \in 0..Len(Lengths) /\ c \in 0..Len(Lengths)
         /\ Upto[c - 1] \in Nat /\ Upto[c] \in Nat /\ Lengths[c] \in Nat
         /\ Upto[c] = Upto[c - 1] + Lengths[c]
<1>1. /\ Len(Lengths) \in Nat /\ Lengths[c] \in Nat
      /\ c - 1 \in 0..Len(Lengths) /\ c \in 0..Len(Lengths)
  BY LengthsAre DEF Calls
<1> QED
  BY <1>1, UptoIsSum

LEMMA SequenceIsGlued ==
  /\ \A c \in 0..Len(Lengths) : Sequence[c] \in Seq(Int)
  /\ Sequence[0] = <<>>
  /\ \A c \in Calls : Sequence[c] = Sequence[c - 1] \o Lines(Upto[c - 1] + 1, Upto[c])
<1> DEFINE m == Len(Lengths)
           P(c) == Lines(Upto[c - 1] + 1, Upto[c])
           part == [c \in 1..m |-> P(c)]
           Solves(f) == f = [c \in 0..m |-> IF c = 0 THEN <<>> ELSE f[c - 1] \o P(c)]
<1>1. m \in Nat /\ part \in [1..m -> Seq(Int)]
  <2>1. ASSUME NEW c \in 1..m PROVE P(c) \in Seq(Int)
    <3> DEFINE a == Upto[c - 1]
               b == Upto[c]
    <3>1. a \in Nat /\ b \in Nat /\ a <= b
      <4>1. c \in Calls
        BY DEF Calls
      <4>2. a \in Nat /\ b \in Nat /\ Lengths[c] \in Nat /\ b = a + Lengths[c]
        BY <4>1, UptoTypes
      <4> QED
        BY <4>2
    <3> HIDE DEF a, b
    <3>2. a + 1 \in Nat \ {0} /\ a + 1 <= b + 1
      BY <3>1
    <3>3. Lines(a + 1, b) \in Seq(Int)
      BY <3>1, <3>2, LinesAre
    <3> QED
      BY <3>3 DEF a, b
  <2> QED
    BY <2>1
<1>2. PICK f \in [0..m -> Seq(Int)] : f[0] = <<>> /\ \A c \in 1..m : f[c] = f[c - 1] \o part[c]
  <2> HIDE DEF m, part
  <2> QED
    BY <1>1, Gluing
<1>3. Solves(f)
  <2> DEFINE g == [c \in 0..m |-> IF c = 0 THEN <<>> ELSE f[c - 1] \o P(c)]
  <2>1. \A c \in 0..m : f[c] = g[c]
    <3> SUFFICES ASSUME NEW c \in 0..m PROVE f[c] = g[c]
      OBVIOUS
    <3>1. c # 0 => c \in 1..m
      BY <1>1
    <3>2. \A d \in 1..m : part[d] = P(d)
      OBVIOUS
    <3> HIDE DEF P, part
    <3> QED
      BY <1>2, <3>1, <3>2
  <2>2. f = g
    BY <2>1
  <2> QED
    BY <2>2
<1>4. Sequence = CHOOSE g : Solves(g)
  BY DEF Sequence
<1>5. Solves(Sequence)
  <2> HIDE DEF Solves
  <2> QED
    BY <1>3, <1>4
<1>6. Sequence[0] = <<>> /\ \A c \in 1..m : Sequence[c] = Sequence[c - 1] \o part[c]
  <2>1. \A d \in 1..m : part[d] = P(d) /\ d \in 0..m /\ d # 0
    BY <1>1
  <2>2. 0 \in 0..m
    BY <1>1
  <2>3. Sequence = [c \in 0..m |-> IF c = 0 THEN <<>> ELSE Sequence[c - 1] \o P(c)]
    BY <1>5
  <2> HIDE DEF P, part, m
  <2> QED
    BY <2>1, <2>2, <2>3
<1>7. \A c \in 0..m : Sequence[c] = f[c]
  <2> DEFINE T == {c \in Nat : c <= m => Sequence[c] = f[c]}
  <2>1. 0 \in T
    BY <1>2, <1>6
  <2>2. ASSUME NEW c \in Nat, c \in T PROVE c + 1 \in T
    <3> SUFFICES ASSUME c + 1 <= m PROVE Sequence[c + 1] = f[c + 1]
      OBVIOUS
    <3>1. c + 1 \in 1..m /\ (c + 1) - 1 = c /\ Sequence[c] = f[c]
      BY <1>1, <2>2
    <3> HIDE DEF part, T
    <3> QED
      BY <1>2, <1>6, <3>1
  <2>3. Nat \subseteq T
    <3> HIDE DEF T
    <3> QED
      BY <2>1, <2>2, SetInduction
  <2> QED
    BY <2>3
<1> QED
  BY <1>1, <1>2, <1>6, <1>7 DEF Calls

\* Text, as a function of the blocks it is made from.
TextOf(blocks) ==
  CHOOSE f : f = [k \in 0..Len(blocks) |->
                    IF k = 0 THEN <<>>
                    ELSE f[k - 1] \o Lines(blocks[k].from, blocks[k].to)]

LEMMA TextOfBlocks ==
  ASSUME NEW blocks \in Seq(Interval)
  PROVE  /\ \A k \in 0..Len(blocks) : TextOf(blocks)[k] \in Seq(Int)
         /\ TextOf(blocks)[0] = <<>>
         /\ \A k \in 1..Len(blocks) :
              TextOf(blocks)[k] = TextOf(blocks)[k - 1] \o Lines(blocks[k].from, blocks[k].to)
<1> DEFINE m == Len(blocks)
           P(k) == Lines(blocks[k].from, blocks[k].to)
           part == [k \in 1..m |-> P(k)]
           Solves(f) == f = [k \in 0..m |-> IF k = 0 THEN <<>> ELSE f[k - 1] \o P(k)]
           X == TextOf(blocks)
<1>1. m \in Nat /\ part \in [1..m -> Seq(Int)]
  <2>1. ASSUME NEW k \in 1..m PROVE P(k) \in Seq(Int)
    <3> DEFINE a == blocks[k].from
               b == blocks[k].to
    <3>1. a \in Nat \ {0} /\ b \in Nat /\ a <= b + 1
      <4>1. blocks[k] \in Interval
        OBVIOUS
      <4> QED
        BY <4>1 DEF Interval
    <3> HIDE DEF a, b
    <3>2. Lines(a, b) \in Seq(Int)
      BY <3>1, LinesAre
    <3> QED
      BY <3>2 DEF a, b
  <2> QED
    BY <2>1
<1>2. PICK f \in [0..m -> Seq(Int)] : f[0] = <<>> /\ \A k \in 1..m : f[k] = f[k - 1] \o part[k]
  <2> HIDE DEF m, part
  <2> QED
    BY <1>1, Gluing
<1>3. \A k \in 1..m : part[k] = P(k) /\ k \in 0..m /\ k # 0
  BY <1>1
<1>4. Solves(f)
  <2> DEFINE g == [k \in 0..m |-> IF k = 0 THEN <<>> ELSE f[k - 1] \o P(k)]
  <2>1. ASSUME NEW k \in 0..m PROVE f[k] = g[k]
    <3>1. k # 0 => k \in 1..m
      BY <1>1
    <3> HIDE DEF P, part
    <3> QED
      BY <1>2, <1>3, <3>1
  <2>2. f = g
    BY <2>1
  <2> QED
    BY <2>2
<1>5. X = CHOOSE g : Solves(g)
  BY DEF TextOf
<1>6. Solves(X)
  <2> HIDE DEF Solves, X
  <2> QED
    BY <1>4, <1>5
<1> HIDE DEF X
<1>7. X[0] = <<>> /\ \A k \in 1..m : X[k] = X[k - 1] \o part[k]
  <2>1. 0 \in 0..m
    BY <1>1
  <2>2. X = [k \in 0..m |-> IF k = 0 THEN <<>> ELSE X[k - 1] \o P(k)]
    BY <1>6
  <2> HIDE DEF P, part, m
  <2> QED
    BY <1>3, <2>1, <2>2
<1>8. \A k \in 0..m : X[k] = f[k]
  <2> DEFINE T == {k \in Nat : k <= m => X[k] = f[k]}
  <2>1. 0 \in T
    BY <1>2, <1>7
  <2>2. ASSUME NEW k \in Nat, k \in T PROVE k + 1 \in T
    <3> SUFFICES ASSUME k + 1 <= m PROVE X[k + 1] = f[k + 1]
      OBVIOUS
    <3>1. k + 1 \in 1..m /\ (k + 1) - 1 = k /\ X[k] = f[k]
      BY <1>1, <2>2
    <3> HIDE DEF part, T
    <3> QED
      BY <1>2, <1>7, <3>1
  <2>3. Nat \subseteq T
    <3> HIDE DEF T
    <3> QED
      BY <2>1, <2>2, SetInduction
  <2> QED
    BY <2>3
<1>9. \A k \in 0..m : X[k] \in Seq(Int)
  BY <1>2, <1>8
<1> HIDE DEF part
<1>10. \A k \in 1..m : X[k] = X[k - 1] \o P(k)
  BY <1>3, <1>7
<1> QED
  BY <1>7, <1>9, <1>10 DEF X

LEMMA TextGrows ==
  ASSUME NEW blocks \in Seq(Interval), NEW b \in Interval
  PROVE  TextOf(Append(blocks, b))[Len(blocks) + 1]
           = TextOf(blocks)[Len(blocks)] \o Lines(b.from, b.to)
<1> DEFINE m == Len(blocks)
           more == Append(blocks, b)
           X == TextOf(blocks)
           Y == TextOf(more)
           P(s, k) == Lines(s[k].from, s[k].to)
<1>1. /\ m \in Nat /\ more \in Seq(Interval) /\ Len(more) = m + 1
      /\ more[m + 1] = b /\ \A k \in 1..m : more[k] = blocks[k]
  OBVIOUS
<1>2. X[0] = <<>> /\ \A k \in 1..m : X[k] = X[k - 1] \o P(blocks, k)
  BY TextOfBlocks
<1>3. Y[0] = <<>> /\ \A k \in 1..(m + 1) : Y[k] = Y[k - 1] \o P(more, k)
  <2> HIDE DEF more, m
  <2> QED
    BY <1>1, TextOfBlocks
<1>4. \A k \in 1..m : P(more, k) = P(blocks, k)
  <2> HIDE DEF more
  <2> QED
    BY <1>1
<1>5. P(more, m + 1) = Lines(b.from, b.to)
  <2> HIDE DEF more
  <2> QED
    BY <1>1
<1> HIDE DEF m, more, X, Y, P
<1>6. \A k \in 0..m : Y[k] = X[k]
  <2> DEFINE T == {k \in Nat : k <= m => Y[k] = X[k]}
  <2>1. 0 \in T
    BY <1>2, <1>3
  <2>2. ASSUME NEW k \in Nat, k \in T PROVE k + 1 \in T
    <3> SUFFICES ASSUME k + 1 <= m PROVE Y[k + 1] = X[k + 1]
      OBVIOUS
    <3>1. /\ k + 1 \in 1..m /\ k + 1 \in 1..(m + 1)
          /\ (k + 1) - 1 = k /\ Y[k] = X[k]
      BY <1>1, <2>2
    <3> HIDE DEF T
    <3> QED
      BY <1>2, <1>3, <1>4, <3>1
  <2>3. Nat \subseteq T
    <3> HIDE DEF T
    <3> QED
      BY <2>1, <2>2, SetInduction
  <2> QED
    BY <1>1, <2>3
<1>7. Y[m + 1] = X[m] \o P(more, m + 1)
  <2>1. m + 1 \in 1..(m + 1) /\ (m + 1) - 1 = m /\ m \in 0..m
    BY <1>1
  <2> QED
    BY <1>3, <1>6, <2>1
<1> QED
  BY <1>5, <1>7 DEF m, more, X, Y

-----------------------------------------------------------------------------
USE MulticoreAssumption

TypeInv ==
  /\ call \in Nat \ {0} /\ mpc \in {"call", "region"}
  /\ rng_lock \in Threads \cup {Nobody} /\ out_lock \in Threads \cup {Nobody}
  /\ rng_tid \in Threads /\ out_tid \in Threads
  /\ rng_cnt \in Nat /\ seed \in Nat
  /\ pc \in [Threads -> {"done", "rng", "rng_turn", "draw", "out", "out_turn",
                         "write", "io_error"}]
  /\ block \in [Threads -> Interval]
  /\ output \in Seq(Interval)
  /\ status \in {"ok", "failed", "exited"}

\* Who is inside a function holds its lock, and nobody runs between the regions.
LockInv ==
  /\ \A t \in Threads : rng_lock = t <=> pc[t] \in {"rng_turn", "draw"}
  /\ \A t \in Threads : out_lock = t <=> pc[t] \in {"out_turn", "write"}
  /\ mpc = "call" => \A t \in Threads : pc[t] = "done"

Holding(t) == pc[t] \in {"out", "out_turn", "write"}
Printed    == IF output = <<>> THEN 0 ELSE output[Len(output)].to

\* How many turns after f it is t's turn, and whose turn it is p turns after f.
Distance(f, t) == IF t >= f THEN t - f ELSE t - f + NumThreads
Position(f, p) == IF f + p >= NumThreads THEN f + p - NumThreads ELSE f + p

\* f is the first thread that has something to write, or the next to get
\* something; the p threads from f on hold the blocks drawn and not yet written,
\* in the order of the turns.  The e threads after them are done, and it is the
\* next one's turn at the random numbers.  A failed write loses a block, so that
\* what follows does not follow what was printed.
OutTurn(f) ==
  /\ \A t \in Threads : pc[t] = "write" => t = f /\ out_tid = Follower(f)
  /\ (\A t \in Threads : pc[t] # "write") => out_tid = f
Holders(f, p) == \A t \in Threads : Holding(t) <=> Distance(f, t) < p
Follows(first) == first > Printed /\ (status = "ok" => first = Printed + 1)
Chained(f, p) ==
  /\ p = 0 => Follows(seed + 1)
  /\ p > 0 => Follows(block[f].from)
  /\ \A s, t \in Threads :
       Distance(f, t) = Distance(f, s) + 1 /\ Distance(f, t) < p
         => block[t].from = block[s].to + 1
  /\ \A t \in Threads : Distance(f, t) = p - 1 => block[t].to = seed
Gone(f, p, e) == \A t \in Threads : pc[t] = "done" <=> p <= Distance(f, t) /\ Distance(f, t) < p + e
RngTurn(f, p, e) ==
  /\ rng_cnt > 0 => e = 0
  /\ \A t \in Threads : pc[t] = "draw" => t = Position(f, p + e) /\ rng_tid = Follower(t)
  /\ (\A t \in Threads : pc[t] # "draw") => rng_tid = Position(f, p + e)

Order(f, p, e) == /\ p + e <= NumThreads
                  /\ OutTurn(f) /\ Holders(f, p) /\ Chained(f, p)
                  /\ Gone(f, p, e) /\ RngTurn(f, p, e)

OrderInv ==
  InOrder /\ \E f \in Threads, p, e \in 0..NumThreads : Order(f, p, e)

\* A thread that failed to write stays until the program ends.
FailInv == status # "ok" => \E t \in Threads : pc[t] = "io_error"

IInv == TypeInv /\ LockInv /\ FailInv /\ OrderInv

-----------------------------------------------------------------------------
(* Turns. *)

\* The turns go round: the next thread is one turn away, and it comes one turn
\* earlier for everybody else.
LEMMA FollowerIsNext ==
  ASSUME NEW f \in Threads
  PROVE  /\ Follower(f) \in Threads
         /\ Follower(f) = Position(f, 1)
         /\ Distance(Follower(f), f) = NumThreads - 1
         /\ \A t \in Threads : t # f => Distance(Follower(f), t) = Distance(f, t) - 1
         /\ \A p \in 1..NumThreads : Position(Follower(f), p - 1) = Position(f, p)
BY DEF Follower, Threads, Distance, Position

\* A position less than a round away is a thread at that distance, and the only one.
LEMMA PositionHasDistance ==
  ASSUME NEW f \in Threads, NEW p \in 0..NumThreads
  PROVE  /\ Position(f, p) \in Threads
         /\ p < NumThreads => Distance(f, Position(f, p)) = p
         /\ p < NumThreads => Position(f, p + 1) = Follower(Position(f, p))
         /\ p = NumThreads => Position(f, p) = f
BY DEF Follower, Threads, Distance, Position

LEMMA DistanceIsInjective ==
  ASSUME NEW f \in Threads
  PROVE  /\ \A t \in Threads : Distance(f, t) \in 0..(NumThreads - 1)
         /\ Distance(f, f) = 0
         /\ \A s, t \in Threads : Distance(f, s) = Distance(f, t) => s = t
BY DEF Threads, Distance

-----------------------------------------------------------------------------
LEMMA PrintedIs ==
  ASSUME NEW blocks \in Seq(Interval)
  PROVE  (IF blocks = <<>> THEN 0 ELSE blocks[Len(blocks)].to) \in Nat
BY DEF Interval

LEMMA Initially == Init => IInv
<1> SUFFICES ASSUME Init PROVE IInv
  OBVIOUS
<1> 0 \in Threads /\ NoBlock \in Interval
  BY DEF Threads, NoBlock, Interval
<1>1. TypeInv
  BY DEF Init, TypeInv
<1>2. LockInv
  BY DEF Init, LockInv, Threads, Nobody
<1>3. Order(0, 0, NumThreads)
  <2>1. OutTurn(0) /\ Holders(0, 0) /\ Chained(0, 0)
    BY DistanceIsInjective DEF Init, OutTurn, Holders, Holding, Chained, Follows, Printed
  <2>2. Gone(0, 0, NumThreads)
    BY DistanceIsInjective DEF Init, Gone
  <2>3. RngTurn(0, 0, NumThreads)
    BY DEF Init, RngTurn, Position
  <2> QED
    BY <2>1, <2>2, <2>3 DEF Order
<1>4. InOrder /\ FailInv
  BY DEF Init, InOrder, FailInv
<1> QED
  BY <1>1, <1>2, <1>3, <1>4 DEF IInv, OrderInv

LEMMA TypeStep == TypeInv /\ [Next]_vars => TypeInv'
<1> SUFFICES ASSUME TypeInv, [Next]_vars PROVE TypeInv'
  OBVIOUS
<1> USE DEF TypeInv, Threads
<1>1. CASE StartRegion
  BY <1>1 DEF StartRegion, Calls
<1>2. CASE EndRegion
  BY <1>2 DEF EndRegion, rng, out
<1>3. ASSUME NEW t \in Threads, Lock(t) PROVE TypeInv'
  BY <1>3 DEF Lock, LockRng, LockOut, Goto, main, rng, out
<1>4. ASSUME NEW t \in Threads, Work(t) PROVE TypeInv'
  <2>1. Follower(t) \in Threads
    BY FollowerIsNext
  <2>2. gen_cnt \in Nat /\ rng_cnt - gen_cnt \in Nat
    BY DEF gen_cnt
  <2>3. [from |-> seed + 1, to |-> seed + gen_cnt] \in Interval
    BY <2>2 DEF Interval
  <2>4. CASE MissRngTurn(t) \/ MissOutTurn(t)
    BY <2>4 DEF MissRngTurn, MissOutTurn, Goto, main, rng, out
  <2>5. CASE TakeRngTurn(t) \/ TakeOutTurn(t)
    BY <2>5, <2>1 DEF TakeRngTurn, TakeOutTurn, Goto, main, rng, out
  <2>6. CASE Draw(t)
    BY <2>6, <2>2, <2>3 DEF Draw, Goto, main, out
  <2>7. CASE Write(t)
    <3>1. output' \in Seq(Interval)
      BY <2>7 DEF Write
    <3> QED
      BY <3>1, <2>7 DEF Write, Goto, main, rng
  <2>8. CASE FailWrite(t) \/ Exit(t)
    BY <2>8 DEF FailWrite, Exit, Goto, main, rng
  <2> QED
    BY <1>4, <2>4, <2>5, <2>6, <2>7, <2>8 DEF Work
<1>5. CASE UNCHANGED vars
  BY <1>5 DEF vars, main, rng, out
<1> QED
  BY <1>1, <1>2, <1>3, <1>4, <1>5 DEF Next, Stop

LEMMA LockStep == TypeInv /\ LockInv /\ [Next]_vars => LockInv'
<1> SUFFICES ASSUME TypeInv, LockInv, [Next]_vars PROVE LockInv'
  OBVIOUS
<1> USE DEF TypeInv, LockInv, Threads, Nobody
<1>1. CASE StartRegion
  BY <1>1 DEF StartRegion
<1>2. CASE EndRegion
  BY <1>2 DEF EndRegion, rng, out
<1>3. ASSUME NEW t \in Threads, Lock(t) PROVE LockInv'
  <2>1. CASE LockRng(t)
    BY <2>1 DEF LockRng, Goto, main, out
  <2>2. CASE LockOut(t)
    BY <2>2 DEF LockOut, Goto, main, rng
  <2> QED
    BY <1>3, <2>1, <2>2 DEF Lock
<1>4. ASSUME NEW t \in Threads, Work(t) PROVE LockInv'
  <2> mpc = "call" => pc[t] = "done"
    OBVIOUS
  <2>1. CASE MissRngTurn(t)
    BY <2>1 DEF MissRngTurn, Goto, main, out
  <2>2. CASE TakeRngTurn(t)
    BY <2>2 DEF TakeRngTurn, Goto, main, out
  <2>3. CASE Draw(t)
    BY <2>3 DEF Draw, Goto, main, out
  <2>4. CASE MissOutTurn(t)
    BY <2>4 DEF MissOutTurn, Goto, main, rng
  <2>5. CASE TakeOutTurn(t)
    BY <2>5 DEF TakeOutTurn, Goto, main, rng
  <2>6. CASE Write(t)
    BY <2>6 DEF Write, Goto, main, rng
  <2>7. CASE FailWrite(t)
    BY <2>7 DEF FailWrite, Goto, main, rng
  <2>8. CASE Exit(t)
    BY <2>8 DEF Exit, Goto, main, rng
  <2> QED
    BY <1>4, <2>1, <2>2, <2>3, <2>4, <2>5, <2>6, <2>7, <2>8 DEF Work
<1>5. CASE UNCHANGED vars
  BY <1>5 DEF vars, main, rng, out
<1> QED
  BY <1>1, <1>2, <1>3, <1>4, <1>5 DEF Next, Stop

LEMMA FailStep == TypeInv /\ LockInv /\ FailInv /\ [Next]_vars => FailInv'
<1> SUFFICES ASSUME TypeInv, LockInv, FailInv, [Next]_vars PROVE FailInv'
  OBVIOUS
<1> USE DEF TypeInv, FailInv
<1>1. CASE StartRegion
  <2>1. status' = status /\ \A t \in Threads : pc[t] # "io_error"
    BY <1>1 DEF StartRegion, LockInv
  <2> QED
    BY <2>1
<1>2. CASE EndRegion
  BY <1>2 DEF EndRegion, out
<1>3. ASSUME NEW t \in Threads, Lock(t) PROVE FailInv'
  BY <1>3 DEF Lock, LockRng, LockOut, Goto, out
<1>4. ASSUME NEW t \in Threads, Work(t) PROVE FailInv'
  <2>1. CASE FailWrite(t)
    BY <2>1 DEF FailWrite, Goto
  <2>2. CASE Exit(t)
    BY <2>2 DEF Exit
  <2>3. CASE MissRngTurn(t) \/ TakeRngTurn(t) \/ Draw(t)
    BY <2>3 DEF MissRngTurn, TakeRngTurn, Draw, Goto, out
  <2>4. CASE MissOutTurn(t) \/ TakeOutTurn(t) \/ Write(t)
    BY <2>4 DEF MissOutTurn, TakeOutTurn, Write, Goto
  <2> QED
    BY <1>4, <2>1, <2>2, <2>3, <2>4 DEF Work
<1>5. CASE UNCHANGED vars
  BY <1>5 DEF vars, out
<1> QED
  BY <1>1, <1>2, <1>3, <1>4, <1>5 DEF Next, Stop

-----------------------------------------------------------------------------
(* Order: one lemma per step that moves a turn, a block or the output. *)

\* Nothing of Order changes in the other steps.
LEMMA OrderKept ==
  ASSUME TypeInv, OrderInv,
         UNCHANGED <<out_tid, rng_tid, rng_cnt, seed, block, output>>,
         (status = "ok")' => status = "ok",
         \A t \in Threads : /\ Holding(t)' <=> Holding(t)
                            /\ (pc[t] = "done")' <=> pc[t] = "done"
                            /\ (pc[t] = "write")' <=> pc[t] = "write"
                            /\ (pc[t] = "draw")' <=> pc[t] = "draw"
  PROVE  OrderInv'
<1>1. PICK f \in Threads, p \in 0..NumThreads, e \in 0..NumThreads : Order(f, p, e)
  BY DEF OrderInv
<1>2. InOrder'
  BY DEF OrderInv, InOrder
<1>3. OutTurn(f)' /\ Gone(f, p, e)'
  BY <1>1 DEF Order, OutTurn, Gone, Distance
<1>4. Holders(f, p)' /\ Chained(f, p)'
  BY <1>1 DEF Order, Holders, Chained, Follows, Printed, Distance
<1>5. RngTurn(f, p, e)'
  BY <1>1 DEF Order, RngTurn, TypeInv
<1> QED
  BY <1>1, <1>2, <1>3, <1>4, <1>5 DEF OrderInv, Order

\* A region begins with nothing to write and both turns at thread 0.
LEMMA StartOrder ==
  ASSUME TypeInv, LockInv, OrderInv, StartRegion
  PROVE  OrderInv'
<1>1. PICK f \in Threads, p \in 0..NumThreads, e \in 0..NumThreads : Order(f, p, e)
  BY DEF OrderInv
<1>2. p = 0
  <2> ~Holding(f)
    BY DEF LockInv, StartRegion, Holding
  <2> QED
    BY <1>1, DistanceIsInjective DEF Order, Holders
<1>3. 0 \in Threads
  BY DEF Threads
<1>4. Order(0, 0, 0)'
  <2>1. OutTurn(0)' /\ Holders(0, 0)'
    BY <1>3, DistanceIsInjective DEF StartRegion, OutTurn, Holders, Holding, Threads
  <2>2. Gone(0, 0, 0)' /\ RngTurn(0, 0, 0)'
    BY <1>3, DistanceIsInjective DEF StartRegion, Gone, RngTurn, Position, Threads
  <2>3. Chained(0, 0)'
    BY <1>1, <1>2, <1>3, DistanceIsInjective DEF Order, Chained, Follows, StartRegion, Printed
  <2> QED
    BY <2>1, <2>2, <2>3 DEF Order
<1>5. InOrder'
  <2>1. output' = output /\ status' = status
    BY DEF StartRegion
  <2> QED
    BY <2>1 DEF OrderInv, InOrder
<1>6. 0 \in 0..NumThreads
  BY <1>3 DEF Threads
<1> QED
  BY <1>3, <1>4, <1>5, <1>6 DEF OrderInv

\* The thread that takes a turn at the random numbers is p turns after f.
LEMMA TakeRngOrder ==
  ASSUME TypeInv, LockInv, OrderInv, NEW t \in Threads, TakeRngTurn(t)
  PROVE  OrderInv'
<1>1. PICK f \in Threads, p \in 0..NumThreads, e \in 0..NumThreads : Order(f, p, e)
  BY DEF OrderInv
<1>2. pc' = [pc EXCEPT ![t] = "draw"] /\ pc[t] = "rng_turn"
  BY DEF TakeRngTurn, Goto
<1>3. \A s \in Threads : pc[s] # "draw"
  BY DEF LockInv, TakeRngTurn
<1>4. OutTurn(f)' /\ Holders(f, p)' /\ Chained(f, p)' /\ Gone(f, p, e)'
  BY <1>1, <1>2
  DEF Order, OutTurn, Holders, Holding, Chained, Follows, Gone, Printed, TakeRngTurn, out, TypeInv
<1>5. RngTurn(f, p, e)'
  BY <1>1, <1>2, <1>3 DEF Order, RngTurn, TakeRngTurn, TypeInv
<1> QED
  BY <1>1, <1>4, <1>5 DEF OrderInv, Order, InOrder, TakeRngTurn, out

\* A block is drawn by a thread that holds none, and becomes the last of the chain.
LEMMA DrawOrder ==
  ASSUME TypeInv, LockInv, OrderInv, NEW t \in Threads, Draw(t)
  PROVE  OrderInv'
<1>1. PICK f \in Threads, p \in 0..NumThreads, e \in 0..NumThreads : Order(f, p, e)
  BY DEF OrderInv
<1>2. \A s \in Threads \ {t} : pc[s] # "draw"
  BY DEF LockInv, Draw
<1>3. InOrder'
  BY DEF OrderInv, InOrder, Draw, out
<1> DEFINE q == p + e
<1>10. q \in 0..NumThreads /\ t = Position(f, q) /\ rng_tid = Follower(t)
  BY <1>1 DEF Order, RngTurn, Draw
<1>11. q < NumThreads /\ Distance(f, t) = q /\ rng_tid = Position(f, q + 1)
  <2>1. q # NumThreads
    <3> SUFFICES ASSUME q = NumThreads PROVE FALSE
      OBVIOUS
    <3>1. t = f /\ Distance(f, f) = 0
      BY <1>10, PositionHasDistance, DistanceIsInjective
    <3>2. pc[f] = "draw" /\ ~Holding(f)
      BY <3>1 DEF Draw, Holding
    <3>3. p = 0
      BY <1>1, <3>1, <3>2 DEF Order, Holders
    <3>4. pc[f] = "done"
      BY <1>1, <3>1, <3>3 DEF Order, Gone
    <3> QED
      BY <3>2, <3>4
  <2> HIDE DEF q
  <2> QED
    BY <1>10, <2>1, PositionHasDistance
<1>4. CASE gen_cnt = 0
  <2>1. rng_cnt = 0 /\ rng_cnt' = 0 /\ seed' = seed
    BY <1>4 DEF gen_cnt, Draw, TypeInv
  <2>2. pc' = [pc EXCEPT ![t] = "done"] /\ pc[t] = "draw"
    BY <1>4 DEF Draw, Goto
  <2>3. ~Holding(t)
    BY <2>2 DEF Holding
  <2>4. OutTurn(f)' /\ Holders(f, p)'
    BY <1>1, <2>2 DEF Order, OutTurn, Holders, Holding, Draw, out, TypeInv
  <2>5. \A s \in Threads : Distance(f, s) < p => block'[s] = block[s]
    BY <1>1, <2>3 DEF Order, Holders, Draw, TypeInv
  <2>6. Chained(f, p)'
    <3>1. Printed' = Printed
      BY DEF Printed, Draw, out
    <3>2. p > 0 => block'[f] = block[f]
      BY <2>5, DistanceIsInjective
    <3>3. ASSUME NEW r \in Threads, NEW s \in Threads,
                 Distance(f, s) = Distance(f, r) + 1, Distance(f, s) < p
          PROVE  block'[s].from = block'[r].to + 1
      <4>1. Distance(f, r) \in Nat /\ Distance(f, r) < p
        BY <3>3, DistanceIsInjective
      <4> QED
        BY <1>1, <2>5, <3>3, <4>1 DEF Order, Chained
    <3>4. ASSUME NEW s \in Threads, Distance(f, s) = p - 1
          PROVE  block'[s].to = seed'
      BY <1>1, <2>1, <2>5, <3>4 DEF Order, Chained
    <3>5. status' = status
      BY DEF Draw, out
    <3> QED
      BY <1>1, <2>1, <3>1, <3>2, <3>3, <3>4, <3>5 DEF Order, Chained, Follows, Distance
  <2>7. Gone(f, p, e + 1)'
    <3> SUFFICES ASSUME NEW s \in Threads
                 PROVE  pc'[s] = "done" <=> p <= Distance(f, s) /\ Distance(f, s) < p + (e + 1)
      BY DEF Gone, Distance
    <3>1. CASE s = t
      BY <1>11, <2>2, <3>1 DEF TypeInv
    <3>2. CASE s # t
      <4>1. Distance(f, s) # q /\ Distance(f, s) \in Int
        BY <1>11, <3>2, DistanceIsInjective
      <4>2. pc'[s] = "done" <=> pc[s] = "done"
        BY <2>2, <3>2 DEF TypeInv
      <4> QED
        BY <1>1, <4>1, <4>2 DEF Order, Gone
    <3> QED
      BY <3>1, <3>2
  <2>8. RngTurn(f, p, e + 1)'
    <3>1. \A s \in Threads : pc'[s] # "draw"
      BY <1>2, <2>2 DEF TypeInv
    <3>2. rng_tid' = Position(f, p + (e + 1))
      BY <1>11 DEF Draw
    <3> QED
      BY <2>1, <3>1, <3>2 DEF RngTurn, Position
  <2>9. e + 1 \in 0..NumThreads /\ p + (e + 1) <= NumThreads
    BY <1>11
  <2>10. Order(f, p, e + 1)'
    BY <2>4, <2>6, <2>7, <2>8, <2>9 DEF Order
  <2> QED
    BY <1>3, <2>9, <2>10 DEF OrderInv
<1>5. CASE gen_cnt # 0
  <2>1. /\ rng_cnt > 0 /\ gen_cnt \in Nat
        /\ pc' = [pc EXCEPT ![t] = "out"] /\ pc[t] = "draw"
        /\ block' = [block EXCEPT ![t] = [from |-> seed + 1, to |-> seed + gen_cnt]]
        /\ seed' = seed + gen_cnt /\ rng_tid' = rng_tid
        /\ out_tid' = out_tid /\ output' = output
    BY <1>5 DEF gen_cnt, Draw, Goto, out, TypeInv
  <2>2. e = 0 /\ q = p /\ p < NumThreads
    BY <1>1, <1>11, <2>1 DEF Order, RngTurn
  <2>4. Distance(f, t) = p /\ rng_tid = Position(f, p + 1) /\ p + 1 \in 0..NumThreads
    BY <1>11, <2>2
  <2>5. OutTurn(f)'
    BY <1>1, <2>1 DEF Order, OutTurn, TypeInv
  <2>6. Holders(f, p + 1)'
    <3> SUFFICES ASSUME NEW s \in Threads
                 PROVE  Holding(s)' <=> Distance(f, s) < p + 1
      BY DEF Holders
    <3>1. CASE s = t
      BY <2>1, <2>4, <3>1 DEF Holding, TypeInv
    <3>2. CASE s # t
      <4>1. Distance(f, s) # p /\ Distance(f, s) \in Int
        BY <2>4, <3>2, DistanceIsInjective
      <4>2. Holding(s)' <=> Holding(s)
        BY <2>1, <3>2 DEF Holding, TypeInv
      <4> QED
        BY <1>1, <4>1, <4>2 DEF Order, Holders
    <3> QED
      BY <3>1, <3>2
  <2>7. Chained(f, p + 1)'
    <3>1. \A s \in Threads : Distance(f, s) < p => block'[s] = block[s]
      BY <2>1, <2>4 DEF TypeInv
    <3>2. block'[t] = [from |-> seed + 1, to |-> seed + gen_cnt]
      BY <2>1 DEF TypeInv
    <3>3. Printed' = Printed
      BY <2>1 DEF Printed
    <3>4. /\ block'[f].from > Printed'
          /\ status' = "ok" => block'[f].from = Printed' + 1
      <4>0. status' = status
        BY DEF Draw, out
      <4>1. CASE p = 0
        <5>1. t = f /\ Follows(seed + 1)
          BY <1>1, <2>4, <4>1, DistanceIsInjective DEF Order, Chained
        <5> QED
          BY <3>2, <3>3, <4>0, <5>1 DEF Follows
      <4>2. CASE p > 0
        <5>1. Follows(block[f].from) /\ block'[f] = block[f]
          BY <1>1, <3>1, <4>2, DistanceIsInjective DEF Order, Chained
        <5> QED
          BY <3>3, <4>0, <5>1 DEF Follows
      <4> QED
        BY <4>1, <4>2
    <3>5. ASSUME NEW r \in Threads, NEW s \in Threads,
                 Distance(f, s) = Distance(f, r) + 1, Distance(f, s) < p + 1
          PROVE  block'[s].from = block'[r].to + 1
      <4> Distance(f, r) \in Nat /\ Distance(f, s) \in Nat
        BY DistanceIsInjective
      <4>1. Distance(f, r) < p /\ block'[r] = block[r]
        BY <3>1, <3>5
      <4>2. CASE Distance(f, s) < p
        BY <1>1, <3>1, <3>5, <4>1, <4>2 DEF Order, Chained
      <4>3. CASE Distance(f, s) = p
        <5>1. s = t
          BY <2>4, <4>3, DistanceIsInjective
        <5>2. Distance(f, r) = p - 1
          BY <3>5, <4>3
        <5>3. block[r].to = seed
          BY <1>1, <5>2 DEF Order, Chained
        <5> QED
          BY <3>2, <4>1, <5>1, <5>3
      <4> QED
        BY <3>5, <4>2, <4>3
    <3>6. \A s \in Threads : Distance(f, s) = (p + 1) - 1 => block'[s].to = seed'
      BY <2>1, <2>4, <3>2, DistanceIsInjective
    <3> QED
      BY <3>4, <3>5, <3>6 DEF Chained, Follows, Distance
  <2>8. RngTurn(f, p + 1, 0)'
    BY <1>2, <2>1, <2>4 DEF RngTurn, TypeInv, Position
  <2>9. Gone(f, p + 1, 0)'
    <3> SUFFICES ASSUME NEW s \in Threads PROVE pc'[s] # "done"
      BY <2>4, DistanceIsInjective DEF Gone, Distance
    <3>1. pc[s] # "done"
      BY <1>1, <2>2, DistanceIsInjective DEF Order, Gone
    <3> QED
      BY <2>1, <3>1 DEF TypeInv
  <2>10. Order(f, p + 1, 0)'
    BY <2>4, <2>5, <2>6, <2>7, <2>8, <2>9 DEF Order
  <2> QED
    BY <1>3, <2>4, <2>10 DEF OrderInv
<1> QED
  BY <1>4, <1>5

\* The thread that takes a turn at the output is f.
LEMMA TakeOutOrder ==
  ASSUME TypeInv, LockInv, OrderInv, NEW t \in Threads, TakeOutTurn(t)
  PROVE  OrderInv'
<1>1. PICK f \in Threads, p \in 0..NumThreads, e \in 0..NumThreads : Order(f, p, e)
  BY DEF OrderInv
<1>2. pc' = [pc EXCEPT ![t] = "write"] /\ pc[t] = "out_turn" /\ out_tid' = Follower(t)
  BY DEF TakeOutTurn, Goto
<1>3. \A s \in Threads : pc[s] # "write"
  BY DEF LockInv, TakeOutTurn
<1>4. t = f
  BY <1>1, <1>3 DEF Order, OutTurn, TakeOutTurn
<1>5. OutTurn(f)'
  BY <1>2, <1>3, <1>4 DEF OutTurn, TypeInv
<1>6. Holders(f, p)' /\ Chained(f, p)' /\ Gone(f, p, e)' /\ RngTurn(f, p, e)'
  BY <1>1, <1>2
  DEF Order, Holders, Holding, Chained, Follows, Gone, RngTurn, Printed, TakeOutTurn, rng, TypeInv
<1> QED
  BY <1>1, <1>5, <1>6 DEF OrderInv, Order, InOrder, TakeOutTurn

\* The block that is written, or lost, is the first of the chain; the chain begins
\* with the next thread from now on, behind what was printed.
LEMMA WriteOrder ==
  ASSUME TypeInv, LockInv, OrderInv, NEW t \in Threads, Write(t) \/ FailWrite(t)
  PROVE  OrderInv'
<1>1. PICK f \in Threads, p \in 0..NumThreads, e \in 0..NumThreads : Order(f, p, e)
  BY DEF OrderInv
<1>2. /\ pc[t] = "write" /\ pc'[t] \in {"rng", "io_error"}
      /\ \A s \in Threads \ {t} : pc'[s] = pc[s]
      /\ UNCHANGED <<block, seed, rng_cnt, rng_tid, out_tid>>
  BY DEF Write, FailWrite, Goto, rng, TypeInv
<1>3. \A s \in Threads \ {t} : pc[s] # "write"
  BY <1>2 DEF LockInv
<1>4. t = f /\ out_tid = Follower(f)
  BY <1>1, <1>2 DEF Order, OutTurn
<1>5. p > 0
  BY <1>1, <1>2, <1>4, DistanceIsInjective DEF Order, Holders, Holding
<1>6. Follows(block[f].from) /\ block[f] \in Interval /\ Printed \in Nat
  BY <1>1, <1>5, PrintedIs DEF Order, Chained, TypeInv, Printed
<1>7. Follows(block[f].to + 1)' /\ InOrder'
  <2>1. CASE Write(t)
    <3> DEFINE n == Len(output)
               more == Append(output, block[f])
    <3>1. /\ n \in Nat /\ Len(more) = n + 1 /\ DOMAIN more = 1..(n + 1)
          /\ more[n + 1] = block[f] /\ \A k \in 1..n : more[k] = output[k]
          /\ DOMAIN output = 1..n /\ (output = <<>> <=> n = 0) /\ more # <<>>
      <4> DEFINE b == block[f]
      <4>1. output \in Seq(Interval) /\ b \in Interval
        BY <1>6 DEF TypeInv
      <4> HIDE DEF b
      <4>2. /\ Append(output, b) \in Seq(Interval) /\ Len(Append(output, b)) = n + 1
            /\ \A k \in 1..n : Append(output, b)[k] = output[k]
            /\ Append(output, b)[n + 1] = b
        BY <4>1, AppendProperties
      <4>3. n \in Nat /\ DOMAIN output = 1..n /\ (output = <<>> <=> n = 0)
        BY <4>1
      <4>4. DOMAIN Append(output, b) = 1..(n + 1) /\ Append(output, b) # <<>>
        BY <4>1, <4>2, <4>3
      <4> HIDE DEF n
      <4> QED
        BY <4>2, <4>3, <4>4 DEF b
    <3>2. output' = more /\ status' = status
      BY <1>4, <2>1 DEF Write
    <3>3. Printed' = block[f].to
      BY <3>1, <3>2 DEF Printed
    <3>4. Follows(block[f].to + 1)'
      BY <1>2, <1>6, <3>3 DEF Follows, Interval
    <3>5. \A k \in 1..n : LET before == IF k = 1 THEN 0 ELSE output[k - 1].to
                          IN  /\ output[k].from > before
                              /\ status = "ok" => output[k].from = before + 1
      BY <3>1 DEF OrderInv, InOrder
    <3>6. LET before == IF n = 0 THEN 0 ELSE output[n].to
          IN  /\ block[f].from > before
              /\ status = "ok" => block[f].from = before + 1
      BY <1>6, <3>1 DEF Printed, Follows
    <3> HIDE DEF n, more
    <3>7. ASSUME NEW k \in 1..(n + 1)
          PROVE  LET before == IF k = 1 THEN 0 ELSE more[k - 1].to
                 IN  /\ more[k].from > before
                     /\ status = "ok" => more[k].from = before + 1
      <4>1. CASE k = n + 1
        <5>1. n # 0 => more[n] = output[n]
          BY <3>1
        <5> QED
          BY <3>1, <3>6, <4>1, <5>1
      <4>2. CASE k \in 1..n
        <5>1. more[k] = output[k] /\ (k # 1 => more[k - 1] = output[k - 1])
          BY <3>1, <4>2
        <5> QED
          BY <3>5, <4>2, <5>1
      <4> QED
        BY <3>1, <4>1, <4>2
    <3>8. InOrder'
      BY <3>1, <3>2, <3>7 DEF InOrder
    <3> QED
      BY <3>4, <3>8
  <2>2. CASE FailWrite(t)
    <3>1. output' = output /\ status' = "failed" /\ Printed' = Printed
      BY <2>2 DEF FailWrite, Printed
    <3>2. InOrder'
      BY <3>1 DEF OrderInv, InOrder
    <3>3. block[f].to + 1 > Printed /\ block' = block
      BY <1>2, <1>6 DEF Follows, Interval
    <3> QED
      BY <3>1, <3>2, <3>3 DEF Follows
  <2> QED
    BY <2>1, <2>2
<1> DEFINE g == Follower(f)
<1>9. g \in Threads /\ p - 1 \in 0..NumThreads /\ (p - 1) + e <= NumThreads
  BY <1>1, <1>5, FollowerIsNext DEF Order
<1>10. OutTurn(g)'
  BY <1>2, <1>3, <1>4 DEF OutTurn
<1>11. /\ Distance(g, f) = NumThreads - 1
       /\ \A s \in Threads : s # f => Distance(g, s) = Distance(f, s) - 1
  BY FollowerIsNext
<1>12. Holders(g, p - 1)'
  <2> SUFFICES ASSUME NEW s \in Threads
               PROVE  Holding(s)' <=> Distance(g, s) < p - 1
    BY DEF Holders, Distance
  <2>1. CASE s = f
    BY <1>2, <1>4, <1>11, <2>1 DEF Holding
  <2>2. CASE s # f
    <3>1. Holding(s)' <=> Holding(s)
      BY <1>2, <1>4, <2>2 DEF Holding
    <3>2. Holding(s) <=> Distance(f, s) < p
      BY <1>1 DEF Order, Holders
    <3> QED
      BY <1>11, <2>2, <3>1, <3>2, DistanceIsInjective
  <2> QED
    BY <2>1, <2>2
<1>13. Chained(g, p - 1)'
  <2>1. p - 1 = 0 => Follows(seed + 1)'
    <3> SUFFICES ASSUME p - 1 = 0 PROVE seed' = block'[f].to
      BY <1>7
    <3> QED
      BY <1>1, <1>2, DistanceIsInjective DEF Order, Chained
  <2>2. p - 1 > 0 => Follows(block[g].from)'
    <3> SUFFICES ASSUME p - 1 > 0 PROVE block'[g].from = block'[f].to + 1
      BY <1>7
    <3>1. g # f /\ Distance(f, g) = 1
      <4>1. g = Position(f, 1) /\ 1 < NumThreads
        BY FollowerIsNext
      <4>2. Distance(f, g) = 1
        BY <4>1, PositionHasDistance
      <4> QED
        BY <4>2, DistanceIsInjective
    <3>2. Distance(f, f) = 0
      BY DistanceIsInjective
    <3>3. Distance(f, g) = Distance(f, f) + 1 /\ Distance(f, g) < p
      BY <3>1, <3>2
    <3> HIDE DEF g
    <3> QED
      BY <1>1, <1>2, <1>9, <3>3 DEF Order, Chained
  <2>3. ASSUME NEW r \in Threads, NEW s \in Threads,
               Distance(g, s) = Distance(g, r) + 1, Distance(g, s) < p - 1
        PROVE  block'[s].from = block'[r].to + 1
    <3> /\ Distance(f, r) \in Nat /\ Distance(f, s) \in Nat
        /\ Distance(g, r) \in Nat /\ Distance(g, s) \in 0..(NumThreads - 1)
      BY <1>9, DistanceIsInjective
    <3>1. r # f /\ s # f
      BY <1>11, <2>3
    <3>2. Distance(f, s) = Distance(f, r) + 1 /\ Distance(f, s) < p
      BY <1>11, <2>3, <3>1
    <3> QED
      BY <1>1, <1>2, <3>2 DEF Order, Chained
  <2>4. ASSUME NEW s \in Threads, Distance(g, s) = (p - 1) - 1
        PROVE  block'[s].to = seed'
    <3>1. s # f
      BY <1>11, <2>4
    <3>2. Distance(f, s) = p - 1
      BY <1>11, <2>4, <3>1, DistanceIsInjective
    <3> QED
      BY <1>1, <1>2, <3>2 DEF Order, Chained
  <2> QED
    BY <2>1, <2>2, <2>3, <2>4 DEF Chained, Distance, Follower
<1>14. Gone(g, p - 1, e)'
  <2> SUFFICES ASSUME NEW s \in Threads
               PROVE  pc'[s] = "done" <=> p - 1 <= Distance(g, s) /\ Distance(g, s) < (p - 1) + e
    BY DEF Gone, Distance, Follower
  <2>1. CASE s = f
    BY <1>1, <1>2, <1>4, <1>11, <2>1 DEF Order
  <2>2. CASE s # f
    <3>1. pc'[s] = pc[s]
      BY <1>2, <1>4, <2>2
    <3>2. pc[s] = "done" <=> p <= Distance(f, s) /\ Distance(f, s) < p + e
      BY <1>1 DEF Order, Gone
    <3> QED
      BY <1>11, <2>2, <3>1, <3>2, DistanceIsInjective
  <2> QED
    BY <2>1, <2>2
<1>15. RngTurn(g, p - 1, e)'
  <2>1. Position(g, (p - 1) + e) = Position(f, p + e)
    <3>1. p + e \in 1..NumThreads /\ (p - 1) + e = (p + e) - 1
      BY <1>1, <1>5 DEF Order
    <3> QED
      BY <3>1, FollowerIsNext
  <2>2. \A s \in Threads : pc'[s] = "draw" <=> pc[s] = "draw"
    BY <1>2
  <2> QED
    BY <1>1, <1>2, <2>1, <2>2 DEF Order, RngTurn, Position, Follower
<1>16. Order(g, p - 1, e)'
  BY <1>9, <1>10, <1>12, <1>13, <1>14, <1>15 DEF Order
<1> QED
  BY <1>7, <1>9, <1>16 DEF OrderInv

LEMMA OrderStep == IInv /\ [Next]_vars => OrderInv'
<1> SUFFICES ASSUME TypeInv, LockInv, OrderInv, [Next]_vars PROVE OrderInv'
  BY DEF IInv
<1>1. CASE StartRegion
  BY <1>1, StartOrder
<1>2. CASE EndRegion
  BY <1>2, OrderKept DEF EndRegion, rng, out, Holding
<1>3. ASSUME NEW t \in Threads, Lock(t) PROVE OrderInv'
  <2>1. CASE LockRng(t)
    BY <2>1, OrderKept DEF LockRng, Goto, main, out, Holding, TypeInv
  <2>2. CASE LockOut(t)
    BY <2>2, OrderKept DEF LockOut, Goto, main, rng, Holding, TypeInv
  <2> QED
    BY <1>3, <2>1, <2>2 DEF Lock
<1>4. ASSUME NEW t \in Threads, Work(t) PROVE OrderInv'
  <2>1. CASE MissRngTurn(t)
    BY <2>1, OrderKept DEF MissRngTurn, Goto, main, out, Holding, TypeInv
  <2>2. CASE TakeRngTurn(t)
    BY <2>2, TakeRngOrder
  <2>3. CASE Draw(t)
    BY <2>3, DrawOrder
  <2>4. CASE MissOutTurn(t)
    BY <2>4, OrderKept DEF MissOutTurn, Goto, main, rng, Holding, TypeInv
  <2>5. CASE TakeOutTurn(t)
    BY <2>5, TakeOutOrder
  <2>6. CASE Write(t) \/ FailWrite(t)
    BY <2>6, WriteOrder
  <2>7. CASE Exit(t)
    BY <2>7, OrderKept DEF Exit, main, rng, Holding
  <2> QED
    BY <1>4, <2>1, <2>2, <2>3, <2>4, <2>5, <2>6, <2>7 DEF Work
<1>5. CASE UNCHANGED vars
  BY <1>5, OrderKept DEF vars, main, rng, out, Holding
<1> QED
  BY <1>1, <1>2, <1>3, <1>4, <1>5 DEF Next, Stop

-----------------------------------------------------------------------------
LEMMA Invariance == Spec => []IInv
<1>1. IInv /\ [Next]_vars => IInv'
  BY TypeStep, LockStep, FailStep, OrderStep DEF IInv
<1> QED
  BY Initially, <1>1, PTL DEF Spec

\* The blocks come out in the order of the random numbers, none twice, and without
\* a gap unless a write failed, whatever the size of the team and of the blocks
\* (out_write, multicorefasta.c).
THEOREM BlocksInOrder == Spec => []InOrder
<1>1. IInv => InOrder
  BY DEF IInv, OrderInv
<1> QED
  BY <1>1, Invariance, PTL

\* Whatever the size of the team, its threads never all wait for a turn that
\* nobody takes (the loops of rng_gen_blk and out_write, multicorefasta.c).
THEOREM SomebodyGoesOn == Spec => []TurnsAreServed
<1>1. IInv => TurnsAreServed
  <2> SUFFICES ASSUME TypeInv, OrderInv, mpc = "region"
               PROVE  (\E t \in Threads : CanGoOn(t)) \/ \A t \in Threads : pc[t] = "done"
    BY DEF IInv, TurnsAreServed
  <2>1. PICK f \in Threads, p \in 0..NumThreads, e \in 0..NumThreads : Order(f, p, e)
    BY DEF OrderInv
  <2>2. CASE \E t \in Threads : pc[t] \in {"draw", "write", "io_error"}
    BY <2>2 DEF CanGoOn
  <2>3. CASE /\ \A t \in Threads : pc[t] \notin {"draw", "write", "io_error"}
             /\ p > 0
    <3>1. Holding(f)
      BY <2>1, <2>3, DistanceIsInjective DEF Order, Holders
    <3>2. out_tid = f
      BY <2>1, <2>3 DEF Order, OutTurn
    <3> QED
      BY <2>3, <3>1, <3>2 DEF Holding, CanGoOn
  <2>4. CASE /\ \A t \in Threads : pc[t] \notin {"draw", "write", "io_error"}
             /\ p = 0 /\ e < NumThreads
    <3> DEFINE t == Position(f, e)
    <3>1. t \in Threads /\ Distance(f, t) = e /\ rng_tid = t
      BY <2>1, <2>4, PositionHasDistance DEF Order, RngTurn
    <3> HIDE DEF t
    <3>2. pc[t] # "done" /\ ~Holding(t)
      BY <2>1, <2>4, <3>1 DEF Order, Gone, Holders
    <3>3. pc[t] \in {"rng", "rng_turn"}
      BY <2>4, <3>1, <3>2 DEF Holding, TypeInv
    <3> QED
      BY <3>1, <3>3 DEF CanGoOn
  <2>5. CASE p = 0 /\ e = NumThreads
    BY <2>1, <2>5, DistanceIsInjective DEF Order, Gone
  <2> QED
    BY <2>2, <2>3, <2>4, <2>5
<1> QED
  BY <1>1, Invariance, PTL

\* When no thread has anything to write, everything drawn is printed, unless a
\* write failed.
LEMMA AllPrinted ==
  ASSUME TypeInv, OrderInv, status = "ok", \A t \in Threads : ~Holding(t)
  PROVE  Printed = seed
<1>1. PICK f \in Threads, p \in 0..NumThreads, e \in 0..NumThreads : Order(f, p, e)
  BY DEF OrderInv
<1>2. p = 0
  BY <1>1, DistanceIsInjective DEF Order, Holders
<1>3. seed + 1 = Printed + 1
  BY <1>1, <1>2 DEF Order, Chained, Follows
<1>4. Printed \in Nat /\ seed \in Nat
  BY PrintedIs DEF Printed, TypeInv
<1> QED
  BY <1>3, <1>4

-----------------------------------------------------------------------------
(* The text of each call. *)

\* What was to be drawn before the current call, and the letters that begin a
\* block of it.
Before == Upto[call - 1]
Aligned(start, n) == n >= start /\ (n - start) % BlockSize = 0

\* Between the regions the numbers of the calls so far are drawn, within one some
\* of the current call are left; every block begins where whole blocks end.
DrawnInv ==
  /\ call <= Len(Lengths) + 1
  /\ mpc = "call" => seed = Before
  /\ mpc = "region" =>
       /\ call \in Calls
       /\ seed + rng_cnt = Upto[call]
       /\ rng_cnt > 0 => Aligned(Before, seed)
       /\ \A t \in Threads : pc[t] = "done" => rng_cnt = 0
  /\ \A t \in Threads : Holding(t) => Aligned(Before, block[t].from - 1)

\* What was written of the current call are its first lines.
TextInv ==
  status = "ok" =>
    /\ Printed >= Before
    /\ TextOf(output)[Len(output)] = Sequence[call - 1] \o Lines(Before + 1, Printed)

LEMMA CallIs ==
  ASSUME TypeInv, call <= Len(Lengths) + 1
  PROVE  call - 1 \in 0..Len(Lengths) /\ Before \in Nat /\ Sequence[call - 1] \in Seq(Int)
<1>1. call - 1 \in 0..Len(Lengths)
  BY LengthsAre DEF TypeInv
<1> QED
  BY <1>1, UptoIsSum, SequenceIsGlued DEF Before

\* No letters make no lines.
LEMMA NoLines ==
  ASSUME NEW n \in Nat
  PROVE  Lines(n + 1, n) = <<>>
<1> DEFINE a == n + 1
<1>1. a \in Nat \ {0} /\ a <= n + 1 /\ (n + 1) - a = 0
  OBVIOUS
<1>2. Size(0) = 0
  BY DEF Size
<1>3. Len(Lines(a, n)) = 0 /\ Lines(a, n) \in Seq(Int)
  <2> HIDE DEF a
  <2> QED
    BY <1>1, <1>2, LinesAre
<1> DEFINE L == Lines(a, n)
<1>4. L = <<>>
  <2>1. L \in Seq(Int) /\ Len(L) = 0
    BY <1>3
  <2> HIDE DEF L
  <2> QED
    BY <2>1, EmptySeq, LenProperties
<1> QED
  BY <1>4

LEMMA DrawnStep ==
  ASSUME TypeInv, LockInv, DrawnInv, [Next]_vars
  PROVE  DrawnInv'
<1>0. /\ call - 1 \in 0..Len(Lengths) /\ Before \in Nat
      /\ seed \in Nat /\ rng_cnt \in Nat /\ call \in Nat /\ BlockSize \in Nat \ {0}
  BY CallIs DEF DrawnInv, TypeInv
<1> HIDE MulticoreAssumption
<1>1. CASE StartRegion
  <2>1. /\ Upto[call] = Upto[call - 1] + Lengths[call] /\ Upto[call - 1] \in Nat
        /\ Lengths[call] \in Nat
    BY <1>1, UptoTypes DEF StartRegion
  <2>2. seed' = Before /\ rng_cnt' = Lengths[call] /\ call' = call /\ mpc' = "region"
        /\ Before' = Before /\ call \in Calls
    BY <1>1 DEF StartRegion, DrawnInv, Before
  <2>3. Aligned(Before, Before)
    BY <1>0 DEF Aligned
  <2>4. \A t \in Threads : pc'[t] = "rng"
    BY <1>1 DEF StartRegion
  <2>5. \A t \in Threads : ~Holding(t)'
    BY <2>4 DEF Holding
  <2>6. seed' + rng_cnt' = Upto[call]
    BY <2>1, <2>2 DEF Before
  <2> QED
    BY <2>2, <2>3, <2>4, <2>5, <2>6 DEF DrawnInv, Aligned
<1>2. CASE EndRegion
  <2>1. /\ mpc = "region" /\ mpc' = "call" /\ call' = call + 1 /\ seed' = seed /\ pc' = pc
        /\ \A t \in Threads : pc[t] = "done"
    BY <1>2 DEF EndRegion, rng
  <2>2. 0 \in Threads
    BY MulticoreAssumption DEF Threads
  <2>3. call \in Calls /\ seed = Upto[call] /\ call' - 1 = call
    <3>1. call \in Calls /\ seed + rng_cnt = Upto[call] /\ rng_cnt = 0
      BY <2>1, <2>2 DEF DrawnInv
    <3> QED
      BY <1>0, <2>1, <3>1
  <2>4. seed' = Before' /\ call' <= Len(Lengths) + 1
    BY <1>0, <2>1, <2>3, LengthsAre DEF Before, Calls
  <2>5. \A t \in Threads : ~Holding(t)'
    BY <2>1 DEF Holding
  <2> QED
    BY <2>1, <2>4, <2>5 DEF DrawnInv
<1>3. ASSUME UNCHANGED <<call, mpc, rng_cnt, seed, block>>,
             \A t \in Threads : /\ Holding(t)' <=> Holding(t)
                                /\ pc'[t] = "done" <=> pc[t] = "done"
      PROVE  DrawnInv'
  BY <1>3 DEF DrawnInv, Before, Aligned
<1>4. ASSUME NEW t \in Threads, Draw(t) PROVE DrawnInv'
  <2> DEFINE b == [from |-> seed + 1, to |-> seed + gen_cnt]
  <2>1. /\ gen_cnt \in Nat /\ (gen_cnt = 0 <=> rng_cnt = 0)
        /\ rng_cnt - gen_cnt > 0 => gen_cnt = BlockSize
        /\ gen_cnt <= rng_cnt
    BY <1>0 DEF gen_cnt
  <2>2. /\ rng_cnt' = rng_cnt - gen_cnt /\ seed' = seed + gen_cnt
        /\ pc[t] = "draw" /\ pc' = [pc EXCEPT ![t] = IF gen_cnt = 0 THEN "done" ELSE "out"]
        /\ block' = [block EXCEPT ![t] = b]
        /\ call' = call /\ mpc' = mpc
    BY <1>4 DEF Draw, Goto, main
  <2>3. mpc = "region" /\ call \in Calls
    BY <2>2 DEF LockInv, DrawnInv, TypeInv
  <2>4. seed' + rng_cnt' = Upto[call]
    <3>1. seed + rng_cnt = Upto[call]
      BY <2>3 DEF DrawnInv
    <3>2. seed' + rng_cnt' = seed + rng_cnt
      <4>1. rng_cnt' = rng_cnt - gen_cnt /\ seed' = seed + gen_cnt
        BY <2>2
      <4> QED
        BY <1>0, <2>1, <4>1
    <3> QED
      BY <3>1, <3>2
  <2>5. ASSUME rng_cnt' > 0 PROVE Aligned(Before, seed')
    <3>1. gen_cnt = BlockSize /\ rng_cnt > 0
      BY <1>0, <2>1, <2>2, <2>5
    <3>2. seed >= Before /\ (seed - Before) % BlockSize = 0
      BY <2>3, <3>1 DEF DrawnInv, Aligned
    <3> DEFINE d == seed - Before
    <3>3. d \in Nat /\ d % BlockSize = 0 /\ seed' - Before = d + BlockSize
      BY <1>0, <2>2, <3>1, <3>2
    <3> HIDE DEF d
    <3>4. (d + BlockSize) % BlockSize = 0
      <4>1. (1 * BlockSize + d) % BlockSize = d % BlockSize
        BY <1>0, <3>3, AddMultiple
      <4>2. 1 * BlockSize + d = d + BlockSize
        BY <1>0, <3>3
      <4> QED
        BY <3>3, <4>1, <4>2
    <3>5. seed' >= Before
      <4>1. seed' = seed + BlockSize
        BY <2>2, <3>1
      <4> QED
        BY <1>0, <3>2, <4>1
    <3> QED
      BY <3>3, <3>4, <3>5 DEF Aligned
  <2>6. ASSUME NEW s \in Threads, pc'[s] = "done" PROVE rng_cnt' = 0
    <3>1. CASE s = t
      BY <2>1, <2>2, <2>6, <3>1 DEF TypeInv
    <3>2. CASE s # t
      <4>1. rng_cnt = 0
        BY <2>2, <2>3, <2>6, <3>2 DEF DrawnInv, TypeInv
      <4> QED
        <5>1. rng_cnt' = rng_cnt - gen_cnt /\ gen_cnt = 0
          BY <2>1, <2>2, <4>1
        <5> QED
          BY <4>1, <5>1
    <3> QED
      BY <3>1, <3>2
  <2>7. ASSUME NEW s \in Threads, Holding(s)' PROVE Aligned(Before, block'[s].from - 1)
    <3>1. CASE s = t
      <4>1. block'[s].from - 1 = seed
        BY <1>0, <2>2, <3>1 DEF TypeInv
      <4>2. rng_cnt > 0
        BY <1>0, <2>1, <2>2, <2>7, <3>1 DEF Holding, TypeInv
      <4> QED
        BY <2>3, <4>1, <4>2 DEF DrawnInv
    <3>2. CASE s # t
      <4>1. block'[s] = block[s] /\ Holding(s)
        BY <2>2, <2>7, <3>2 DEF Holding, TypeInv
      <4> QED
        BY <4>1 DEF DrawnInv
    <3> QED
      BY <3>1, <3>2
  <2>8. Before' = Before
    BY <2>2 DEF Before
  <2> QED
    BY <2>2, <2>3, <2>4, <2>5, <2>6, <2>7, <2>8 DEF DrawnInv, Aligned
<1>5. ASSUME NEW t \in Threads, Write(t) PROVE DrawnInv'
  <2>1. /\ UNCHANGED <<call, mpc, rng_cnt, seed, block>>
        /\ pc[t] = "write" /\ pc' = [pc EXCEPT ![t] = "rng"]
    BY <1>5 DEF Write, Goto, main, rng
  <2>2. \A s \in Threads : /\ Holding(s)' => Holding(s)
                           /\ pc'[s] = "done" => pc[s] = "done"
    BY <2>1 DEF Holding, TypeInv
  <2> QED
    BY <2>1, <2>2 DEF DrawnInv, Before, Aligned
<1>6. ASSUME NEW t \in Threads, FailWrite(t) PROVE DrawnInv'
  <2>1. /\ UNCHANGED <<call, mpc, rng_cnt, seed, block>>
        /\ pc[t] = "write" /\ pc' = [pc EXCEPT ![t] = "io_error"]
    BY <1>6 DEF FailWrite, Goto, main, rng
  <2>2. \A s \in Threads : /\ Holding(s)' => Holding(s)
                           /\ pc'[s] = "done" => pc[s] = "done"
    BY <2>1 DEF Holding, TypeInv
  <2> QED
    BY <2>1, <2>2 DEF DrawnInv, Before, Aligned
<1>7. ASSUME NEW t \in Threads, Lock(t) PROVE DrawnInv'
  BY <1>3, <1>7 DEF Lock, LockRng, LockOut, Goto, main, rng, Holding, TypeInv
<1>8. ASSUME NEW t \in Threads, Work(t) PROVE DrawnInv'
  <2>1. CASE MissRngTurn(t) \/ TakeRngTurn(t)
    BY <1>3, <2>1 DEF MissRngTurn, TakeRngTurn, Goto, main, Holding, TypeInv
  <2>2. CASE MissOutTurn(t) \/ TakeOutTurn(t)
    BY <1>3, <2>2 DEF MissOutTurn, TakeOutTurn, Goto, main, rng, Holding, TypeInv
  <2>3. CASE Exit(t)
    BY <1>3, <2>3 DEF Exit, main, rng, Holding
  <2> QED
    BY <1>4, <1>5, <1>6, <1>8, <2>1, <2>2, <2>3 DEF Work
<1>9. CASE UNCHANGED vars
  BY <1>3, <1>9 DEF vars, main, rng, Holding
<1> QED
  BY <1>1, <1>2, <1>7, <1>8, <1>9 DEF Next, Stop

LEMMA TextStep ==
  ASSUME TypeInv, LockInv, OrderInv, DrawnInv, TextInv, TypeInv', [Next]_vars
  PROVE  TextInv'
<1> SUFFICES ASSUME status' = "ok" PROVE TextInv'
  BY DEF TextInv
<1>0. /\ call - 1 \in 0..Len(Lengths) /\ Before \in Nat /\ Sequence[call - 1] \in Seq(Int)
      /\ Printed \in Nat /\ seed \in Nat /\ rng_cnt \in Nat /\ call \in Nat
  BY CallIs, PrintedIs DEF DrawnInv, TypeInv, Printed
<1>1. status = "ok"
  BY DEF TypeInv, Next, StartRegion, EndRegion, Lock, LockRng, LockOut, Work, MissRngTurn,
         TakeRngTurn, Draw, MissOutTurn, TakeOutTurn, Write, FailWrite, Exit, Stop, vars, out
<1>2. /\ Printed >= Before
      /\ TextOf(output)[Len(output)] = Sequence[call - 1] \o Lines(Before + 1, Printed)
  BY <1>1 DEF TextInv
<1>3. ASSUME UNCHANGED <<call, output>> PROVE TextInv'
  <2>1. Before' = Before /\ Printed' = Printed
    BY <1>3 DEF Before, Printed
  <2> QED
    BY <1>2, <1>3, <2>1 DEF TextInv
<1>4. CASE EndRegion
  <2>1. /\ mpc = "region" /\ call' = call + 1 /\ output' = output /\ seed' = seed
        /\ \A t \in Threads : pc[t] = "done"
    BY <1>4 DEF EndRegion, rng, out
  <2>2. 0 \in Threads
    BY DEF Threads
  <2>3. call \in Calls /\ seed = Upto[call] /\ call' - 1 = call
    <3>1. call \in Calls /\ seed + rng_cnt = Upto[call] /\ rng_cnt = 0
      BY <2>1, <2>2 DEF DrawnInv
    <3> QED
      BY <1>0, <2>1, <3>1
  <2>4. Printed = seed
    BY <1>1, <2>1, AllPrinted DEF Holding
  <2> DEFINE n == Upto[call]
             S == Sequence[call]
  <2>5. n \in Nat /\ S \in Seq(Int) /\ S = Sequence[call - 1] \o Lines(Before + 1, n)
    BY <2>3, UptoTypes, SequenceIsGlued DEF Before
  <2>6. Before' = n /\ Printed' = n /\ Sequence[call' - 1] = S
    BY <2>1, <2>3, <2>4 DEF Before, Printed
  <2>7. TextOf(output')[Len(output')] = S
    BY <1>2, <2>1, <2>3, <2>4, <2>5
  <2> HIDE DEF n, S
  <2>8. S = S \o Lines(n + 1, n)
    <3>1. Lines(n + 1, n) = <<>>
      BY <2>5, NoLines
    <3>2. S \o <<>> = S
      BY <2>5
    <3> QED
      BY <3>1, <3>2
  <2>9. TextOf(output')[Len(output')] = Sequence[call' - 1] \o Lines(Before' + 1, Printed')
    BY <2>6, <2>7, <2>8
  <2>10. Printed' >= Before'
    BY <2>5, <2>6
  <2> QED
    BY <2>9, <2>10 DEF TextInv
<1>5. ASSUME NEW t \in Threads, Write(t) PROVE TextInv'
  <2>1. /\ pc[t] = "write" /\ output' = Append(output, block[t]) /\ call' = call
        /\ output \in Seq(Interval) /\ block[t] \in Interval
    BY <1>5 DEF Write, main, TypeInv
  <2>2. PICK f \in Threads, p \in 0..NumThreads, e \in 0..NumThreads : Order(f, p, e)
    BY DEF OrderInv
  <2>3. t = f /\ Holding(t)
    BY <2>1, <2>2 DEF Order, OutTurn, Holding
  <2>4. p > 0
    BY <2>2, <2>3, DistanceIsInjective DEF Order, Holders
  <2> DEFINE n == Printed
             m == block[t].to
             s == Before
             S == Sequence[call - 1]
  <2>5. /\ block[t].from = n + 1 /\ m \in Nat /\ n <= m /\ n \in Nat
        /\ s \in Nat /\ s <= n /\ S \in Seq(Int)
    <3>1. block[t].from = n + 1
      BY <1>1, <2>2, <2>3, <2>4 DEF Order, Chained, Follows
    <3>2. m \in Nat /\ block[t].from <= m + 1
      BY <2>1 DEF Interval
    <3> QED
      BY <1>0, <1>2, <3>1, <3>2
  <2>6. (n - s) % Width = 0
    <3>1. Aligned(s, block[t].from - 1)
      BY <2>3 DEF DrawnInv
    <3>2. (n - s) % BlockSize = 0
      <4> HIDE DEF n, s
      <4>1. block[t].from - 1 = n
        BY <2>5
      <4> QED
        BY <3>1, <4>1 DEF Aligned
    <3> DEFINE d == n - s
               q == d \div BlockSize
    <3>3. d \in Nat
      BY <2>5
    <3> HIDE DEF d
    <3>4. q \in Nat /\ d = q * BlockSize
      <4>1. q \in Nat /\ d = q * BlockSize + (d % BlockSize)
        BY <3>3, DivMod
      <4> QED
        BY <3>2, <4>1, Multiples DEF d
    <3> HIDE DEF q
    <3>5. PICK lines \in 1..BlockSize : BlockSize = lines * Width
      OBVIOUS
    <3> DEFINE k == q * lines
    <3>6. k \in Nat /\ d = k * Width + 0
      <4>1. k \in Nat
        BY <3>4, Multiples
      <4>2. d = (q * lines) * Width
        BY <3>4, <3>5
      <4> QED
        BY <4>1, <4>2
    <3> HIDE DEF k
    <3>7. d % Width = 0
      <4>1. (k * Width + 0) % Width = 0 % Width
        BY <3>6, AddMultiple
      <4>2. 0 % Width = 0
        OBVIOUS
      <4> QED
        BY <3>6, <4>1, <4>2
    <3> QED
      BY <3>7 DEF d
  <2>7. Lines(s + 1, n) \o Lines(n + 1, m) = Lines(s + 1, m)
    <3> HIDE DEF n, m, s, S
    <3> DEFINE a == s + 1
    <3>1. a \in Nat \ {0} /\ a <= n + 1 /\ (n + 1) - a = n - s
      BY <2>5
    <3> HIDE DEF a
    <3>2. Lines(a, n) \o Lines(n + 1, m) = Lines(a, m)
      BY <2>5, <2>6, <3>1, LinesJoin
    <3> QED
      BY <3>2 DEF a
  <2>8. Len(output') = Len(output) + 1 /\ output'[Len(output) + 1] = block[t] /\ output' # <<>>
    BY <2>1
  <2>9. Printed' = m /\ Before' = s
    BY <2>1, <2>8 DEF Printed, Before
  <2>10. TextOf(output')[Len(output')] = (S \o Lines(s + 1, n)) \o Lines(n + 1, m)
    <3>1. TextOf(output')[Len(output) + 1]
            = TextOf(output)[Len(output)] \o Lines(block[t].from, m)
      BY <2>1, TextGrows
    <3> QED
      BY <1>2, <2>5, <2>8, <3>1
  <2>11. (S \o Lines(s + 1, n)) \o Lines(n + 1, m) = S \o (Lines(s + 1, n) \o Lines(n + 1, m))
    <3> DEFINE a == s + 1
               b == n + 1
    <3>1. a \in Nat \ {0} /\ b \in Nat \ {0} /\ a <= n + 1 /\ b <= m + 1
      BY <2>5
    <3> HIDE DEF a, b
    <3>2. Lines(a, n) \in Seq(Int) /\ Lines(b, m) \in Seq(Int) /\ S \in Seq(Int)
      BY <2>5, <3>1, LinesAre
    <3> HIDE DEF S, n, m, s
    <3>3. (S \o Lines(a, n)) \o Lines(b, m) = S \o (Lines(a, n) \o Lines(b, m))
      BY <3>2, ConcatAssociative, SMTT(30)
    <3> QED
      BY <3>3 DEF a, b
  <2>12. TextOf(output')[Len(output')] = Sequence[call' - 1] \o Lines(s + 1, m)
    BY <2>1, <2>7, <2>10, <2>11
  <2> HIDE DEF n, m, s, S
  <2> QED
    BY <2>5, <2>9, <2>12 DEF TextInv
<1>6. ASSUME NEW t \in Threads, Work(t) PROVE TextInv'
  <2>1. Write(t) \/ UNCHANGED <<call, output>>
    BY <1>6 DEF Work, MissRngTurn, TakeRngTurn, Draw, MissOutTurn, TakeOutTurn, FailWrite,
                Exit, main, out
  <2> QED
    BY <1>3, <1>5, <2>1
<1>7. CASE StartRegion \/ UNCHANGED vars \/ \E t \in Threads : Lock(t)
  BY <1>3, <1>7 DEF StartRegion, vars, Lock, LockRng, LockOut, main, out
<1> QED
  BY <1>4, <1>6, <1>7 DEF Next, Stop

LEMMA TextInitially == Init => DrawnInv /\ TextInv
<1> SUFFICES ASSUME Init PROVE DrawnInv /\ TextInv
  OBVIOUS
<1>1. Upto[0] = 0 /\ Sequence[0] = <<>> /\ Len(Lengths) \in Nat
  BY UptoIsSum, SequenceIsGlued, LengthsAre
<1>2. call = 1 /\ Before = 0 /\ Sequence[call - 1] = <<>> /\ Printed = 0 /\ Len(output) = 0
  BY <1>1 DEF Init, Before, Printed
<1>3. DrawnInv
  BY <1>1, <1>2 DEF Init, DrawnInv, Holding
<1>4. TextOf(output)[0] = <<>>
  <2>1. output \in Seq(Interval)
    BY DEF Init
  <2> QED
    BY <2>1, TextOfBlocks
<1>5. Lines(0 + 1, 0) = <<>>
  BY NoLines
<1>6. <<>> \o <<>> = <<>>
  OBVIOUS
<1> QED
  BY <1>2, <1>3, <1>4, <1>5, <1>6 DEF TextInv

WrittenInv == IInv /\ DrawnInv /\ TextInv

LEMMA TextIs == Text = TextOf(output)
BY DEF Text, TextOf

\* Each call that returns leaves what one thread would have written, and the locks
\* free, whatever the size of the team and of the blocks; no call returns after a
\* failed write (generate_And_Wrap_Pseudorandom_DNA_Sequence, multicorefasta.c).
THEOREM TextOfOneThread == Spec => []Formatted
<1>1. Init => WrittenInv
  BY Initially, TextInitially DEF WrittenInv
<1>2. WrittenInv /\ [Next]_vars => WrittenInv'
  <2> SUFFICES ASSUME TypeInv, LockInv, FailInv, OrderInv, DrawnInv, TextInv, [Next]_vars
               PROVE  WrittenInv'
    BY DEF WrittenInv, IInv
  <2>1. TypeInv'
    BY TypeStep
  <2>2. IInv'
    BY <2>1, LockStep, FailStep, OrderStep DEF IInv
  <2> QED
    BY <2>1, <2>2, DrawnStep, TextStep DEF WrittenInv
<1>3. WrittenInv => Formatted
  <2> SUFFICES ASSUME TypeInv, LockInv, FailInv, OrderInv, DrawnInv, TextInv, mpc = "call"
               PROVE  /\ status = "ok"
                      /\ Text[Len(output)] = Sequence[call - 1]
                      /\ seed = Upto[call - 1]
                      /\ rng_lock = Nobody /\ out_lock = Nobody
    BY DEF WrittenInv, IInv, Formatted
  <2>1. rng_lock = Nobody /\ out_lock = Nobody
    BY DEF TypeInv, LockInv
  <2>2. seed = Before /\ Before \in Nat /\ Sequence[call - 1] \in Seq(Int)
    BY CallIs DEF DrawnInv
  <2>3. status = "ok"
    BY DEF LockInv, FailInv
  <2>4. Printed = seed
    BY <2>3, AllPrinted DEF LockInv, Holding
  <2>5. Text[Len(output)] = Sequence[call - 1] \o Lines(Before + 1, Before)
    BY <2>2, <2>3, <2>4, TextIs DEF TextInv
  <2>6. Lines(Before + 1, Before) = <<>>
    BY <2>2, NoLines
  <2>7. Sequence[call - 1] \o <<>> = Sequence[call - 1]
    BY <2>2
  <2> QED
    BY <2>1, <2>2, <2>3, <2>5, <2>6, <2>7 DEF Before
<1> QED
  BY <1>1, <1>2, <1>3, PTL DEF Spec
=============================================================================
