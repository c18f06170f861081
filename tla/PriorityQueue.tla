---------------------------- MODULE PriorityQueue ----------------------------
(***************************************************************************)
(* FastPriorityQueueGP of 2017/06/21/pqgp.js, a binary heap in an array    *)
(* that keeps at most maxSize values, with the comparator test.js gives    *)
(* it, which puts the greatest value on top.  Values go in by add or by    *)
(* add2, which builds the heap only when the queue is full; which of the   *)
(* two a queue is used with is chosen once, as in test.js.                 *)
(***************************************************************************)
EXTENDS Integers, FiniteSets, Bags

CONSTANTS
  Values,      \* the numbers of the stream
  Sizes,       \* the values of maxSize
  MaxStream    \* bound on how many values are added before the first poll

ASSUME PriorityQueueAssumption ==
  /\ Values \subseteq Nat
  /\ Sizes \subseteq Nat \ {0}
  /\ MaxStream \in Nat

VARIABLES
  array, size, maxSize, heapified,
  method,          \* "add" or "add2"
  added,           \* the values added so far, as a bag
  polled           \* whether poll was called

client == <<maxSize, method, polled>>
vars   == <<array, size, heapified, client, added>>

Init ==
  /\ array = [i \in {} |-> 0]      \* indexed from 0
  /\ size = 0
  /\ maxSize \in Sizes
  /\ heapified = FALSE
  /\ method \in {"add", "add2"}
  /\ added = EmptyBag
  /\ polled = FALSE

compare(a, b) == a > b
length == Cardinality(DOMAIN array)
parent(i) == (i - 1) \div 2

\* array[i] = v, which appends when i is the length.
Put(arr, i, v) == [j \in DOMAIN arr \cup {i} |-> IF j = i THEN v ELSE arr[j]]

\* A turn of the loop of add: the value of the parent moves down to the free place.
Rise(s, v) ==
  LET p == parent(s.i)
  IN  IF s.i > 0 /\ compare(v, s.array[p])
      THEN [array |-> Put(s.array, s.i, s.array[p]), i |-> p]
      ELSE s

\* The loop of add, which stops after i turns at the latest: move v up from the
\* free place i.
percolateUp(arr, i, v) ==
  LET turn[k \in 0..i] == IF k = 0 THEN [array |-> arr, i |-> i] ELSE Rise(turn[k - 1], v)
  IN  Put(turn[i].array, turn[i].i, v)

\* Mutant: the right child is never looked at.
LeftChild(arr, sz, i) == 2 * i + 1

\* The child of i that has to come first; i < sz \div 2, so there is a left one.
BestChild(arr, sz, i) ==
  LET l == 2 * i + 1
  IN  IF l + 1 < sz /\ compare(arr[l + 1], arr[l]) THEN l + 1 ELSE l

\* A turn of the loop of _percolateDown: the value of the best child moves up.
Sink(s, sz, v) ==
  LET c == BestChild(s.array, sz, s.i)
  IN  IF s.i < sz \div 2 /\ compare(s.array[c], v)
      THEN [array |-> Put(s.array, s.i, s.array[c]), i |-> c]
      ELSE s

\* _percolateDown, which stops after sz turns at the latest: move v down from the
\* free place i in the first sz places.
percolateDown(arr, sz, i, v) ==
  LET turn[k \in 0..sz] == IF k = 0 THEN [array |-> arr, i |-> i] ELSE Sink(turn[k - 1], sz, v)
  IN  Put(turn[sz].array, turn[sz].i, v)

\* The array after m turns of the loop of heapify, from half its length down.
Heapified(arr, m) ==
  LET sz == Cardinality(DOMAIN arr)
      turn[k \in 0..m] ==
        IF k = 0 THEN arr
        ELSE percolateDown(turn[k - 1], sz, (sz \div 2) + 1 - k, turn[k - 1][(sz \div 2) + 1 - k])
  IN  turn[m]

\* Mutant: the loop stops before the first value.
heapifyTooFew(arr) == Heapified(arr, Cardinality(DOMAIN arr) \div 2)

heapify(arr) == Heapified(arr, (Cardinality(DOMAIN arr) \div 2) + 1)

\* The number of values in a bag, each with all its copies.
Copies(bag)  == UNION {{v} \X (1..bag[v]) : v \in BagToSet(bag)}
BagSize(bag) == Cardinality(Copies(bag))

Record(v) == added' = IF polled THEN added ELSE added (+) SetToBag({v})
Streaming == polled \/ BagSize(added) < MaxStream

-----------------------------------------------------------------------------
(* The operations; peek and isEmpty change nothing. *)

\* Mutant: a value that equals the top is refused, and one that is greater kept.
ReplaceWrong(v) ==
  /\ size = maxSize
  /\ array' = IF compare(v, array[0]) THEN percolateDown(array, size, 0, v) ELSE array
  /\ UNCHANGED <<size, heapified>>

\* Both methods on a full queue.
Replace(v) ==
  /\ size = maxSize
  /\ array' = IF ~compare(v, array[0]) THEN percolateDown(array, size, 0, v) ELSE array
  /\ UNCHANGED <<size, heapified>>

add(v) ==
  /\ method = "add" /\ Streaming
  /\ \/ /\ size < maxSize
        /\ array' = percolateUp(array, size, v)
        /\ size' = size + 1
        /\ UNCHANGED heapified
     \/ Replace(v)
  /\ Record(v)
  /\ UNCHANGED client

\* The array with v put in place or in the place of the top; the array is empty
\* at first, and no number compares with what is not there.
Stacked(v) ==
  IF array # [i \in {} |-> 0] /\ compare(v, array[0])
  THEN Put(Put(array, size, array[0]), 0, v)
  ELSE Put(array, size, v)

add2(v) ==
  /\ method = "add2" /\ Streaming
  /\ \/ /\ size < maxSize
        /\ size' = size + 1
        /\ IF size + 1 = maxSize
           THEN array' = heapify(Stacked(v)) /\ heapified' = TRUE
           ELSE array' = Stacked(v) /\ UNCHANGED heapified
     \/ Replace(v)
  /\ Record(v)
  /\ UNCHANGED client

\* Mutant: heapify leaves the size alone.
pollManySized ==
  /\ size > 1
  /\ array' = heapify(Put(array, 0, array[size - 1]))
  /\ size' = size - 1
  /\ heapified' = TRUE

\* heapify makes the size the length of the array.
pollMany ==
  /\ size > 1
  /\ LET moved == Put(array, 0, array[size - 1])
     IN  IF heapified
         THEN /\ array' = percolateDown(moved, size - 1, 0, moved[0])
              /\ size' = size - 1
              /\ UNCHANGED heapified
         ELSE /\ array' = heapify(moved)
              /\ size' = length
              /\ heapified' = TRUE

pollOne == size = 1 /\ size' = 0 /\ UNCHANGED <<array, heapified>>

poll ==
  /\ pollMany \/ pollOne
  /\ polled' = TRUE
  /\ UNCHANGED <<maxSize, method, added>>

trim ==
  /\ array' = [i \in 0..(size - 1) |-> array[i]]
  /\ UNCHANGED <<size, heapified, client, added>>

Next ==
  \/ \E v \in Values : add(v) \/ add2(v)
  \/ poll
  \/ trim

Spec == Init /\ [][Next]_vars

-----------------------------------------------------------------------------
(* Properties. *)

\* The bag of the first size values of the array.
Held ==
  LET values == {array[i] : i \in 0..(size - 1)}
  IN  [v \in values |-> Cardinality({i \in 0..(size - 1) : array[i] = v})]

IsHeap == \A i \in 1..(size - 1) : ~compare(array[i], array[parent(i)])

\* The order of the heap, on which the choice of the value to give up rests: a
\* queue filled by add has it always, one filled by add2 whenever it is full,
\* before and after polls.
HeapOrder == method = "add" \/ size = maxSize => IsHeap

\* What test.js checks for both methods: as long as nothing was polled, the queue
\* holds the smallest of the values of the stream, up to maxSize of them.
KeepsTheSmallest ==
  ~polled =>
    /\ Held \sqsubseteq added
    /\ BagSize(Held) = IF BagSize(added) < maxSize THEN BagSize(added) ELSE maxSize
    /\ \A kept \in BagToSet(Held) : \A gone \in BagToSet(added (-) Held) : kept <= gone

Abstract == INSTANCE TopK WITH held <- Held

\* heapified says that the array is a heap, unless add2 came after a poll.
Ordered == heapified /\ IsHeap

\* Every operation does what an ideal queue does, except a poll that finds two
\* values or more and not the order it relies on.
ServesAsTopK ==
  Abstract!Init /\ [][(poll /\ size > 1 => Ordered) => [Abstract!Next]_Held]_vars

\* A poll of two values or more that finds the queue not yet heapified does not
\* shrink it: of the bag, the greatest value goes and the last one is doubled.
PollDoubles ==
  [][poll /\ size > 1 /\ ~heapified /\ length = size
       => Held' = (Held (-) SetToBag({array[0]})) (+) SetToBag({array[size - 1]})]_vars
=============================================================================
