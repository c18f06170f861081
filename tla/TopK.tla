-------------------------------- MODULE TopK --------------------------------
(***************************************************************************)
(* What the queue of 2017/06/21/pqgp.js promises when its comparator says  *)
(* that the greater value comes first, as test.js has it: it holds at most *)
(* maxSize values, the smallest of those it was offered, and gives up the  *)
(* greatest first.                                                         *)
(***************************************************************************)
EXTENDS Naturals, FiniteSets, Bags

CONSTANT Values

VARIABLES held, maxSize    \* a bag, and how many values it may hold

Greatest == CHOOSE v \in BagToSet(held) : \A u \in BagToSet(held) : u <= v

\* How many values are held, each with all its copies.
Size == Cardinality(UNION {{v} \X (1..held[v]) : v \in BagToSet(held)})
Room == Size < maxSize

Init == held = EmptyBag

\* A value is kept when there is room, or in exchange for the greatest one unless
\* it is greater itself.
Offer(v) ==
  \/ Room /\ held' = held (+) SetToBag({v})
  \/ ~Room /\ v <= Greatest /\ held' = (held (+) SetToBag({v})) (-) SetToBag({Greatest})
  \/ ~Room /\ v > Greatest /\ UNCHANGED held

Take ==
  /\ held # EmptyBag
  /\ held' = held (-) SetToBag({Greatest})

Next == (\E v \in Values : Offer(v)) \/ Take
=============================================================================
