--------------------------- MODULE Programs_proofs ---------------------------
(***************************************************************************)
(* Theorems about the programs whose own code is short.                    *)
(*                                                                         *)
(* The two that split a loop over threads, for every number of threads and *)
(* of turns.  ParallelOpen: the ranges of the threads partition the files, *)
(* and therefore each file is opened once and the warning is exact.        *)
(* ExhaustiveTest: the verdict is right for every set of wrong values,     *)
(* although the flags are read with relaxed ordering, because the chunks   *)
(* cover the values.                                                       *)
(*                                                                         *)
(* The servers.  The chat servers with any clients: who is in connected,   *)
(* what a failure can cause, and who gets a message, for every number of   *)
(* clients and messages.  With the two clients of client.py: one message   *)
(* at a time is on its way, for every number of round trips.  And the      *)
(* safety properties of ProfilerServer, for all sets of requests.          *)
(***************************************************************************)
EXTENDS ParallelOpen, ExhaustiveTest, ChatClients, PingPong, ProfilerServer,
        SequenceTheorems, FiniteSetTheorems, TLAPS

-----------------------------------------------------------------------------
(* The loop 0..m-1 split over p threads the way open.cpp and unit.cpp do   *)
(* it: thread u takes the indices from From(m, p, u) to To(m, p, u) - 1.   *)
(* The products of two variables in these lemmas are out of the solver's   *)
(* reach, which is why Monotonic is cited with the products at hand.       *)

From(m, p, u) == u * (m \div p)
To(m, p, u)   == IF u = p - 1 THEN m ELSE From(m, p, u) + m \div p

LEMMA Quotient ==
  ASSUME NEW m \in Nat, NEW p \in Nat \ {0}
  PROVE  m \div p \in Nat /\ p * (m \div p) <= m
OBVIOUS

LEMMA Monotonic ==
  ASSUME NEW a \in Nat, NEW b \in Nat, NEW q \in Nat, a <= b
  PROVE  a * q <= b * q /\ a * q \in Nat /\ b * q \in Nat
OBVIOUS

\* Every part lies within the loop.
LEMMA PartsAreWithin ==
  ASSUME NEW m \in Nat, NEW p \in Nat \ {0}, NEW u \in 0..(p - 1)
  PROVE  /\ From(m, p, u) \in Nat /\ To(m, p, u) \in Nat
         /\ From(m, p, u) <= To(m, p, u) /\ To(m, p, u) <= m
<1> DEFINE q == m \div p
<1>1. q \in Nat /\ p * q <= m
  BY Quotient
<1>2. u \in Nat /\ u + 1 <= p
  OBVIOUS
<1> HIDE DEF q
<1>3. u * q \in Nat /\ (u + 1) * q <= p * q /\ (u + 1) * q = u * q + q
  BY <1>1, <1>2, Monotonic
<1>4. From(m, p, u) = u * q /\ To(m, p, u) = IF u = p - 1 THEN m ELSE u * q + q
  BY DEF From, To, q
<1> QED
  BY <1>1, <1>2, <1>3, <1>4

\* A part ends before any later part begins.
LEMMA PartsAreOrdered ==
  ASSUME NEW m \in Nat, NEW p \in Nat \ {0},
         NEW u \in 0..(p - 1), NEW v \in 0..(p - 1), u < v
  PROVE  To(m, p, u) <= From(m, p, v)
<1> DEFINE q == m \div p
<1>1. q \in Nat
  BY Quotient
<1>2. u \in Nat /\ v \in Nat /\ u + 1 <= v /\ u # p - 1
  OBVIOUS
<1> HIDE DEF q
<1>3. (u + 1) * q <= v * q /\ (u + 1) * q = u * q + q
  BY <1>1, <1>2, Monotonic
<1>4. To(m, p, u) = u * q + q /\ From(m, p, v) = v * q
  BY <1>2 DEF From, To, q
<1> QED
  BY <1>3, <1>4

\* Every index belongs to some part.
LEMMA PartsCover ==
  ASSUME NEW m \in Nat, NEW p \in Nat \ {0}, NEW k \in 0..(m - 1)
  PROVE  \E u \in 0..(p - 1) : From(m, p, u) <= k /\ k < To(m, p, u)
<1> DEFINE q == m \div p
           last == p - 1
<1>1. q \in Nat /\ last \in Nat /\ last \in 0..(p - 1) /\ k \in Nat
  BY Quotient
<1>2. CASE last * q <= k
  BY <1>1, <1>2 DEF From, To
<1>3. CASE k < last * q
  <2>1. last * q \in Nat /\ q # 0
    BY <1>1, <1>3, Monotonic
  <2> DEFINE u == k \div q
  <2>2. u \in Nat /\ u * q <= k /\ k < u * q + q /\ u * q \in Nat
    BY <1>1, <2>1
  <2> HIDE DEF u, q, last
  <2>3. u < last
    <3>1. SUFFICES ASSUME last <= u PROVE FALSE
      BY <1>1, <2>2
    <3>2. last * q <= u * q
      BY <1>1, <2>2, <3>1, Monotonic
    <3> QED
      BY <1>1, <1>3, <2>1, <2>2, <3>2
  <2>4. u \in 0..(p - 1) /\ u # p - 1
    BY <1>1, <2>2, <2>3 DEF last
  <2>5. From(m, p, u) = u * q /\ To(m, p, u) = u * q + q
    BY <2>4 DEF From, To, q
  <2> QED
    BY <2>2, <2>4, <2>5
<1> QED
  BY <1>1, <1>2, <1>3
-----------------------------------------------------------------------------
(* The joins of the two programs. *)

LEMMA InitJoin == NotStarted => JoinInv
  BY ForkJoinAssumption DEF NotStarted, JoinInv, Threads

LEMMA LaunchJoin ==
  ASSUME JoinInv, NEW place, NEW labels, tpc \in [Threads -> labels], LaunchAt(place)
  PROVE  JoinInv' /\ (t \in Threads => tpc[t] = "unborn")
  BY ForkJoinAssumption DEF LaunchAt, JoinInv, Threads

LEMMA ThreadJoin ==
  ASSUME JoinInv, JoinThread \/ AfterJoin
  PROVE  JoinInv'
<1>1. NumThreads \in Nat \ {0} /\ t \in 0..NumThreads /\ Threads = 0..(NumThreads - 1)
  BY ForkJoinAssumption DEF JoinInv, Threads
<1> QED
  BY <1>1 DEF JoinThread, AfterJoin, Joined, JoinInv

-----------------------------------------------------------------------------
(* ParallelOpen. *)

\* The ranges are the parts of Split, counted from one.
LEMMA RangesAreParts ==
  ASSUME NEW u \in Threads
  PROVE  /\ start(u) = From(TotalFiles, NumThreads, u) + 1
         /\ end(u) = To(TotalFiles, NumThreads, u)
<1>1. From(TotalFiles, NumThreads, u) \in Nat /\ files_per_thread \in Nat
  BY PartsAreWithin, Quotient, ParallelOpenAssumption, ForkJoinAssumption DEF Threads, files_per_thread
<1> QED
  BY <1>1 DEF start, end, From, To, files_per_thread

\* The bounds of the ranges are numbers and every range lies within the files.
LEMMA RangesAreWithin ==
  ASSUME NEW u \in Threads
  PROVE  /\ start(u) \in Nat \ {0} /\ end(u) \in Nat
         /\ start(u) <= end(u) + 1
         /\ end(u) <= TotalFiles
<1>1. /\ From(TotalFiles, NumThreads, u) \in Nat /\ To(TotalFiles, NumThreads, u) \in Nat
      /\ From(TotalFiles, NumThreads, u) <= To(TotalFiles, NumThreads, u)
      /\ To(TotalFiles, NumThreads, u) <= TotalFiles
  BY PartsAreWithin, ParallelOpenAssumption, ForkJoinAssumption DEF Threads
<1> QED
  BY <1>1, RangesAreParts

\* A range ends before the range of any later thread begins.
LEMMA RangesAreOrdered ==
  ASSUME NEW u \in Threads, NEW v \in Threads, u < v
  PROVE  end(u) < start(v)
<1>1. To(TotalFiles, NumThreads, u) <= From(TotalFiles, NumThreads, v)
  BY PartsAreOrdered, ParallelOpenAssumption, ForkJoinAssumption DEF Threads
<1>2. From(TotalFiles, NumThreads, v) \in Nat /\ To(TotalFiles, NumThreads, u) \in Nat
  BY PartsAreWithin, ParallelOpenAssumption, ForkJoinAssumption DEF Threads
<1> QED
  BY <1>1, <1>2, RangesAreParts

\* Every file belongs to the range of some thread.
LEMMA RangesCover ==
  ASSUME NEW f \in Files
  PROVE  \E u \in Threads : start(u) <= f /\ f <= end(u)
<1>1. f - 1 \in 0..(TotalFiles - 1)
  BY ParallelOpenAssumption, ForkJoinAssumption DEF Files
<1>2. PICK u \in Threads : /\ From(TotalFiles, NumThreads, u) <= f - 1
                          /\ f - 1 < To(TotalFiles, NumThreads, u)
  BY <1>1, PartsCover, ParallelOpenAssumption, ForkJoinAssumption DEF Threads
<1>3. From(TotalFiles, NumThreads, u) \in Nat /\ To(TotalFiles, NumThreads, u) \in Nat
  BY PartsAreWithin, ParallelOpenAssumption, ForkJoinAssumption DEF Threads
<1> QED
  BY <1>2, <1>3, RangesAreParts DEF Files

\* Each file is in the range of exactly one thread.
THEOREM RangesPartition ==
  \A f \in Files :
    \E u \in Threads :
      /\ start(u) <= f /\ f <= end(u)
      /\ \A v \in Threads : start(v) <= f /\ f <= end(v) => v = u
<1> SUFFICES ASSUME NEW f \in Files
             PROVE  \E u \in Threads :
                      /\ start(u) <= f /\ f <= end(u)
                      /\ \A v \in Threads : start(v) <= f /\ f <= end(v) => v = u
  OBVIOUS
<1>1. PICK u \in Threads : start(u) <= f /\ f <= end(u)
  BY RangesCover
<1>2. ASSUME NEW v \in Threads, start(v) <= f, f <= end(v) PROVE v = u
  <2>1. u \in Int /\ v \in Int /\ f \in Int
    BY DEF Threads, Files
  <2>2. /\ start(u) \in Int /\ end(u) \in Int
        /\ start(v) \in Int /\ end(v) \in Int
    BY RangesAreWithin
  <2>3. ~(u < v)
    BY <1>1, <1>2, <2>1, <2>2, RangesAreOrdered
  <2>4. ~(v < u)
    BY <1>1, <1>2, <2>1, <2>2, RangesAreOrdered
  <2> QED
    BY <2>1, <2>3, <2>4
<1> QED
  BY <1>1, <1>2

-----------------------------------------------------------------------------
LEMMA InitFiles == OpenInit => FilesInv
<1> SUFFICES ASSUME OpenInit PROVE FilesInv
  OBVIOUS
<1>1. Progress
  <2>1. \A u \in Threads : start(u) \in Nat \ {0} /\ start(u) <= end(u) + 1
    BY RangesAreWithin
  <2> QED
    BY <2>1 DEF OpenInit, NotStarted, Progress
<1>2. JoinInv
  BY InitJoin DEF OpenInit
<1>3. attempts \in [Files -> Nat]
  BY DEF OpenInit
<1>4. ASSUME NEW f \in Files PROVE ~Passed(f) /\ attempts[f] = 0
  <2>1. ASSUME NEW u \in Threads PROVE ~(start(u) <= f /\ f < i[u])
    BY RangesAreWithin DEF OpenInit, Files
  <2> QED
    BY <2>1 DEF Passed, OpenInit
<1> QED
  BY <1>1, <1>2, <1>3, <1>4 DEF FilesInv

\* The file a thread is about to open is its own, and nobody has passed it.
LEMMA NextFileIsNew ==
  ASSUME Progress, NEW u \in Threads, i[u] <= end(u)
  PROVE  i[u] \in Files /\ ~Passed(i[u])
<1>1. i[u] \in Int /\ start(u) <= i[u]
  BY DEF Progress
<1>2. i[u] \in Files
  BY <1>1, RangesAreWithin, ParallelOpenAssumption, ForkJoinAssumption DEF Files
<1>3. ASSUME NEW v \in Threads, start(v) <= i[u], i[u] < i[v] PROVE FALSE
  <2>1. i[v] \in Int /\ i[v] <= end(v) + 1 /\ end(v) \in Int
    BY RangesAreWithin DEF Progress
  <2>2. i[u] <= end(v)
    BY <1>1, <1>3, <2>1
  <2>3. v = u
    BY <1>1, <1>2, <1>3, <2>2, RangesPartition
  <2> QED
    BY <1>1, <1>3, <2>3
<1> QED
  BY <1>2, <1>3 DEF Passed

LEMMA OpenFileStep ==
  ASSUME FilesInv, NEW u \in Threads, OpenFile(u)
  PROVE  FilesInv'
<1> DEFINE f0 == i[u]
<1>1. /\ f0 \in Files /\ ~Passed(f0)
      /\ f0 \in Int /\ start(u) <= f0 /\ f0 <= end(u)
      /\ start(u) \in Int /\ end(u) \in Int
  BY NextFileIsNew, RangesAreWithin DEF FilesInv, OpenFile, Progress
<1>2. /\ i' = [i EXCEPT ![u] = f0 + 1]
      /\ attempts' = [attempts EXCEPT ![f0] = attempts[f0] + 1]
      /\ UNCHANGED <<tpc, mpc, t>>
      /\ tpc[u] = "open"
  BY DEF OpenFile, main
<1> HIDE DEF f0
<1>3. Progress'
  BY <1>1, <1>2 DEF FilesInv, Progress
<1>4. JoinInv'
  BY <1>2 DEF FilesInv, JoinInv
<1>5. attempts' \in [Files -> Nat]
  BY <1>1, <1>2 DEF FilesInv
<1>6. ASSUME NEW f \in Files PROVE Passed(f)' <=> Passed(f) \/ f = f0
  <2>1. f \in Int /\ f0 = i[u]
    BY DEF Files, f0
  <2>2. \A v \in Threads : i'[v] = IF v = u THEN f0 + 1 ELSE i[v]
    BY <1>2 DEF FilesInv, Progress
  <2>3. \A v \in Threads : start(v) \in Int
    BY RangesAreWithin
  <2>4. CASE f = f0
    BY <1>1, <2>1, <2>2, <2>4 DEF Passed
  <2>5. CASE f # f0
    BY <1>1, <2>1, <2>2, <2>3, <2>5 DEF Passed
  <2> QED
    BY <2>4, <2>5
<1>7. \A f \in Files : attempts'[f] = IF Passed(f)' THEN 1 ELSE 0
  BY <1>1, <1>2, <1>6 DEF FilesInv
<1> QED
  BY <1>3, <1>4, <1>5, <1>7 DEF FilesInv

LEMMA NextFiles == FilesInv /\ [OpenNext]_OpenVars => FilesInv'
<1> SUFFICES ASSUME FilesInv, [OpenNext]_OpenVars PROVE FilesInv'
  OBVIOUS
<1>0. NumThreads \in Nat \ {0} /\ Threads = 0..(NumThreads - 1)
  BY ParallelOpenAssumption, ForkJoinAssumption DEF Threads
<1>1. ASSUME UNCHANGED <<i, attempts>>, Progress', JoinInv' PROVE FilesInv'
  BY <1>1 DEF FilesInv, Passed
<1>2. CASE LaunchOpen
  <2>1. JoinInv' /\ (t \in Threads => tpc[t] = "unborn")
    BY <1>2, LaunchJoin DEF LaunchOpen, FilesInv, Progress
  <2>2. Progress'
    BY <1>2, <2>1 DEF LaunchOpen, LaunchAt, FilesInv, Progress
  <2> QED
    BY <1>1, <1>2, <2>1, <2>2 DEF LaunchOpen, LaunchAt
<1>3. CASE JoinOpen \/ Verify
  <2>1. JoinInv'
    BY <1>3, ThreadJoin DEF JoinOpen, Verify, FilesInv
  <2> QED
    BY <1>1, <1>3, <2>1 DEF JoinOpen, JoinThread, Verify, AfterJoin, FilesInv, Progress
<1>4. ASSUME NEW u \in Threads, OpenFile(u) PROVE FilesInv'
  BY <1>4, OpenFileStep
<1>5. ASSUME NEW u \in Threads, AddSuccess(u) PROVE FilesInv'
  <2>1. i[u] = end(u) + 1
    BY <1>5, RangesAreWithin DEF AddSuccess, FilesInv, Progress
  <2>2. Progress'
    BY <1>5, <2>1 DEF AddSuccess, FilesInv, Progress
  <2>3. JoinInv'
    BY <1>0, <1>5 DEF AddSuccess, main, FilesInv, JoinInv, Progress
  <2> QED
    BY <1>1, <1>5, <2>2, <2>3 DEF AddSuccess
<1>6. CASE OpenVars' = OpenVars
  BY <1>6 DEF OpenVars, main, FilesInv, Progress, JoinInv, Passed
<1> QED
  BY <1>2, <1>3, <1>4, <1>5, <1>6 DEF OpenNext, OpenDone

\* No file is tried twice and none is left out, for every number of threads.
THEOREM FilesOpenedOnce == OpenSpec => []EachFileOnce
<1>1. FilesInv => EachFileOnce
  <2> SUFFICES ASSUME FilesInv PROVE EachFileOnce
    OBVIOUS
  <2>1. ASSUME mpc = "done", NEW f \in Files PROVE Passed(f)
    <3>1. PICK u \in Threads : start(u) <= f /\ f <= end(u)
      BY RangesCover
    <3>2. i[u] = end(u) + 1 /\ end(u) \in Int /\ f \in Int
      BY <2>1, RangesAreWithin DEF FilesInv, JoinInv, Progress, Files
    <3> QED
      BY <3>1, <3>2 DEF Passed
  <2> QED
    BY <2>1 DEF FilesInv, EachFileOnce
<1> QED
  BY <1>1, InitFiles, NextFiles, PTL DEF OpenSpec

-----------------------------------------------------------------------------
LEMMA FilesAreFinite ==
  /\ IsFiniteSet(Files) /\ Cardinality(Files) = TotalFiles
  /\ \A S \in SUBSET Files : IsFiniteSet(S) /\ Cardinality(S) \in Nat
<1>1. IsFiniteSet(Files) /\ Cardinality(Files) = TotalFiles
  BY FS_Interval, ParallelOpenAssumption, ForkJoinAssumption DEF Files
<1>2. ASSUME NEW S \in SUBSET Files PROVE IsFiniteSet(S) /\ Cardinality(S) \in Nat
  BY <1>1, FS_Subset, FS_CardinalityType
<1> QED
  BY <1>1, <1>2

LEMMA InitCountInv == OpenInit => CountInv
<1> SUFFICES ASSUME OpenInit PROVE CountInv
  OBVIOUS
<1>1. ASSUME NEW u \in Threads PROVE Opened(u) = {}
  <2>1. \A f \in Files : ~(start(u) <= f /\ f < i[u])
    BY RangesAreWithin DEF OpenInit, Files
  <2> QED
    BY <2>1 DEF Opened
<1>2. Counted = {}
  BY <1>1 DEF Counted
<1> QED
  BY <1>1, <1>2, FS_EmptySet DEF OpenInit, NotStarted, CountInv

\* An iteration opens the next file, which was not among those opened before, or
\* reports it, and disturbs no other thread's files.
LEMMA OpenFileCounts ==
  ASSUME FilesInv, CountInv, NEW u \in Threads, OpenFile(u)
  PROVE  CountInv'
<1>0. PICK f0 : f0 = i[u]
  OBVIOUS
<1>1. /\ f0 \in Files /\ ~Passed(f0)
      /\ f0 \in Int /\ start(u) <= f0 /\ f0 <= end(u)
  BY <1>0, NextFileIsNew DEF FilesInv, OpenFile, Progress, Files
<1>2. /\ i' = [i EXCEPT ![u] = f0 + 1]
      /\ UNCHANGED <<tpc, mpc, t, success_count, warned>>
      /\ tpc[u] = "open"
  BY <1>0 DEF OpenFile, main
<1>3. \A v \in Threads : i[v] \in Int /\ i'[v] = IF v = u THEN f0 + 1 ELSE i[v]
  BY <1>2 DEF FilesInv, Progress
<1>4. f0 = i[u] /\ \A v \in Threads : start(v) \in Int
  BY <1>0, RangesAreWithin
<1>5. f0 \notin failed
  BY <1>1 DEF CountInv
<1>6. ASSUME NEW v \in Threads, start(v) <= f0, f0 < i[v] PROVE FALSE
  BY <1>1, <1>6 DEF Passed
<1>7. ASSUME NEW f, Passed(f), f \in Files PROVE Passed(f)'
  <2>1. PICK v \in Threads : start(v) <= f /\ f < i[v]
    BY <1>7 DEF Passed
  <2>2. f < i'[v]
    BY <1>3, <1>4, <1>7, <2>1 DEF Files
  <2> QED
    BY <2>1, <2>2 DEF Passed
<1>8. Passed(f0)'
  <2>1. f0 < i'[u]
    BY <1>1, <1>3
  <2> QED
    BY <1>1, <2>1 DEF Passed
<1>9. ASSUME failed' = failed \/ failed' = failed \cup {f0},
             NEW v \in Threads, v # u
      PROVE  Opened(v)' = Opened(v)
  <2>1. f0 \notin Opened(v)
    BY <1>6 DEF Opened
  <2> QED
    BY <1>3, <1>9, <2>1 DEF Opened
<1>10. ASSUME failed' = failed \/ failed' = failed \cup {f0}
       PROVE  Counted' = Counted
  BY <1>2, <1>9, <1>10 DEF Counted
<1>11. CASE success' = [success EXCEPT ![u] = @ + 1] /\ UNCHANGED failed
  <2>1. Opened(u)' = Opened(u) \cup {f0}
    <3>1. ASSUME NEW f \in Files
          PROVE  start(u) <= f /\ f < f0 + 1 /\ f \notin failed
                 <=> (start(u) <= f /\ f < f0 /\ f \notin failed) \/ f = f0
      BY <1>1, <1>4, <1>5 DEF Files
    <3>2. i'[u] = f0 + 1 /\ i[u] = f0 /\ failed' = failed
      BY <1>3, <1>4, <1>11
    <3> QED
      BY <1>1, <3>1, <3>2 DEF Opened
  <2>2. f0 \notin Opened(u) /\ Opened(u) \in SUBSET Files
    BY <1>1, <1>4 DEF Opened
  <2>3. Cardinality(Opened(u)') = Cardinality(Opened(u)) + 1
    BY <2>1, <2>2, FilesAreFinite, FS_AddElement
  <2>4. /\ success' \in [Threads -> Int] /\ success'[u] = Cardinality(Opened(u)')
        /\ \A v \in Threads : v # u => success'[v] = success[v]
    BY <1>11, <2>3 DEF CountInv
  <2>5. \A v \in Threads : success'[v] = Cardinality(Opened(v)')
    BY <1>9, <1>11, <2>4 DEF CountInv
  <2> QED
    BY <1>2, <1>7, <1>10, <1>11, <2>4, <2>5 DEF CountInv
<1>12. CASE failed' = failed \cup {f0} /\ UNCHANGED success
  <2>1. Opened(u)' = Opened(u)
    <3>1. ASSUME NEW f \in Files
          PROVE  start(u) <= f /\ f < f0 + 1 /\ f \notin failed \cup {f0}
                 <=> start(u) <= f /\ f < f0 /\ f \notin failed
      BY <1>1, <1>4 DEF Files
    <3>2. i'[u] = f0 + 1 /\ i[u] = f0
      BY <1>3, <1>4
    <3> QED
      BY <1>12, <3>1, <3>2 DEF Opened
  <2>2. \A v \in Threads : success'[v] = Cardinality(Opened(v)')
    BY <1>9, <1>12, <2>1 DEF CountInv
  <2> QED
    BY <1>1, <1>2, <1>7, <1>8, <1>10, <1>12, <2>2 DEF CountInv
<1> QED
  BY <1>0, <1>11, <1>12 DEF OpenFile

\* The thread adds what it opened, which no other thread has opened.
LEMMA AddSuccessCounts ==
  ASSUME FilesInv, CountInv, NEW u \in Threads, AddSuccess(u)
  PROVE  CountInv'
<1>1. /\ success_count' = success_count + success[u]
      /\ tpc[u] = "open" /\ tpc' = [tpc EXCEPT ![u] = "exited"]
      /\ UNCHANGED <<i, success, mpc, warned, failed>>
  BY DEF AddSuccess, main
<1>2. mpc # "done"
  BY <1>1 DEF FilesInv, JoinInv
<1>3. \A v \in Threads : Opened(v)' = Opened(v)
  BY <1>1 DEF Opened
<1>4. \A v \in Threads : tpc'[v] = "exited" <=> tpc[v] = "exited" \/ v = u
  BY <1>1 DEF FilesInv, Progress
<1>5. Counted' = Counted \cup Opened(u)
  BY <1>3, <1>4 DEF Counted, Opened
<1>6. Counted \cap Opened(u) = {}
  <2>1. ASSUME NEW f \in Files, NEW v \in Threads, tpc[v] = "exited",
               f \in Opened(v), f \in Opened(u)
        PROVE  FALSE
    <3>1. /\ start(v) <= f /\ f < i[v] /\ i[v] <= end(v) + 1 /\ i[v] \in Int
          /\ start(u) <= f /\ f < i[u] /\ i[u] <= end(u) + 1 /\ i[u] \in Int
          /\ f \in Int /\ end(u) \in Int /\ end(v) \in Int
      BY <2>1, RangesAreWithin DEF Opened, FilesInv, Progress, Files
    <3>2. f <= end(v) /\ f <= end(u)
      BY <3>1
    <3>3. v = u
      BY <3>1, <3>2, RangesPartition
    <3> QED
      BY <1>1, <2>1, <3>3
  <2> QED
    BY <2>1 DEF Counted
<1>7. Counted \in SUBSET Files /\ Opened(u) \in SUBSET Files
  BY DEF Counted, Opened
<1>8. Cardinality(Counted') = Cardinality(Counted) + Cardinality(Opened(u))
  <2>1. Cardinality(Counted \cup Opened(u)) =
          Cardinality(Counted) + Cardinality(Opened(u)) - Cardinality({})
    BY <1>6, <1>7, FilesAreFinite, FS_Union
  <2> QED
    BY <1>5, <1>7, <2>1, FilesAreFinite, FS_EmptySet
<1>9. success_count' = Cardinality(Counted')
  BY <1>1, <1>8 DEF CountInv
<1>10. \A f \in failed : Passed(f)'
  BY <1>1 DEF CountInv, Passed
<1> QED
  BY <1>1, <1>2, <1>3, <1>9, <1>10 DEF CountInv

LEMMA NextCountInv == FilesInv /\ CountInv /\ [OpenNext]_OpenVars => CountInv'
<1> SUFFICES ASSUME FilesInv, CountInv, [OpenNext]_OpenVars PROVE CountInv'
  OBVIOUS
<1>1. ASSUME UNCHANGED <<i, success, success_count, failed>>,
             \A v \in Threads : tpc'[v] = "exited" <=> tpc[v] = "exited",
             mpc' = "done" => warned' = (success_count' # TotalFiles)
      PROVE  CountInv'
  <2>1. \A v \in Threads : Opened(v)' = Opened(v)
    BY <1>1 DEF Opened
  <2>2. Counted' = Counted
    BY <1>1, <2>1 DEF Counted
  <2>3. \A f \in failed : Passed(f)' <=> Passed(f)
    BY <1>1 DEF Passed
  <2> QED
    BY <1>1, <2>1, <2>2, <2>3 DEF CountInv
<1>2. CASE LaunchOpen
  <2>1. t \in Threads => tpc[t] = "unborn"
    BY <1>2, LaunchJoin DEF LaunchOpen, FilesInv, Progress
  <2> QED
    BY <1>1, <1>2, <2>1 DEF LaunchOpen, LaunchAt, FilesInv, Progress
<1>3. CASE JoinOpen \/ Verify
  BY <1>1, <1>3 DEF JoinOpen, JoinThread, Verify, AfterJoin
<1>4. ASSUME NEW u \in Threads, OpenFile(u) PROVE CountInv'
  BY <1>4, OpenFileCounts
<1>5. ASSUME NEW u \in Threads, AddSuccess(u) PROVE CountInv'
  BY <1>5, AddSuccessCounts
<1>6. CASE OpenVars' = OpenVars
  BY <1>1, <1>6 DEF OpenVars, main, CountInv
<1> QED
  BY <1>2, <1>3, <1>4, <1>5, <1>6 DEF OpenNext, OpenDone

\* The warning tells of a failure and of nothing else: although each thread adds
\* its number on its own, all have been added when the total is compared.
THEOREM WarningCorrect == OpenSpec => []WarningIsExact
<1>1. FilesInv /\ CountInv => WarningIsExact
  <2> SUFFICES ASSUME FilesInv, CountInv, mpc = "done" PROVE warned <=> failed # {}
    BY DEF WarningIsExact
  <2>1. Counted = Files \ failed
    <3>1. ASSUME NEW f \in Files, f \notin failed PROVE f \in Counted
      <4>1. PICK u \in Threads : start(u) <= f /\ f <= end(u)
        BY RangesCover
      <4>2. tpc[u] = "exited" /\ i[u] = end(u) + 1 /\ end(u) \in Int /\ f \in Int
        BY RangesAreWithin DEF FilesInv, JoinInv, Progress, Files
      <4> QED
        BY <3>1, <4>1, <4>2 DEF Counted, Opened
    <3> QED
      BY <3>1 DEF Counted, Opened
  <2>2. failed \in SUBSET Files
    BY DEF CountInv
  <2>3. Cardinality(Counted) = TotalFiles <=> failed = {}
    <3>1. Cardinality(Files) = Cardinality(Counted) => Files = Counted
      BY <2>1, FilesAreFinite, FS_Subset
    <3> QED
      BY <2>1, <2>2, <3>1, FilesAreFinite
  <2> QED
    BY <2>3 DEF CountInv
<1> QED
  BY <1>1, InitFiles, NextFiles, InitCountInv, NextCountInv, PTL DEF OpenSpec
-----------------------------------------------------------------------------
(* ExhaustiveTest. *)

USE ForkJoinAssumption, ExhaustiveTestAssumption DEF Threads, Values

\* The bounds of a chunk are those of its part of the loop.
LEMMA ChunksAreParts ==
  ASSUME NEW u \in Threads
  PROVE  /\ chunk_start(u) = From(Total, NumThreads, u)
         /\ chunk_end(u) = To(Total, NumThreads, u)
         /\ chunk_start(u) \in Nat /\ chunk_end(u) \in Nat
<1>1. From(Total, NumThreads, u) \in Nat /\ To(Total, NumThreads, u) \in Nat
  BY PartsAreWithin
<1>2. chunk \in Nat /\ u \in Nat /\ (u + 1) * chunk = u * chunk + chunk
  BY Quotient DEF chunk
<1>3. u + 1 = NumThreads <=> u = NumThreads - 1
  OBVIOUS
<1> QED
  BY <1>1, <1>2, <1>3 DEF chunk_start, chunk_end, From, To, chunk

\* Every value belongs to a chunk.
LEMMA ChunksCover ==
  ASSUME NEW v \in Values
  PROVE  \E u \in Threads : chunk_start(u) <= v /\ v < chunk_end(u)
<1>1. PICK u \in Threads : From(Total, NumThreads, u) <= v /\ v < To(Total, NumThreads, u)
  BY PartsCover
<1> QED
  BY <1>1, ChunksAreParts

LEMMA InitTest == TestInit => TestInv
<1> SUFFICES ASSUME TestInit PROVE TestInv
  OBVIOUS
<1>1. \A u \in Threads : chunk_start(u) \in Nat
  BY ChunksAreParts
<1>2. ChunkInv
  BY <1>1 DEF TestInit, NotStarted, ChunkInv
<1>3. JoinInv
  BY InitJoin DEF TestInit
<1> QED
  BY <1>2, <1>3 DEF TestInit, NotStarted, TestInv

\* A value that converts alike extends what the thread has tested.
LEMMA CompareStep ==
  ASSUME TestInv, NEW u \in Threads, Compare(u) PROVE ChunkInv'
<1>0. chunk_start(u) \in Nat /\ chunk_end(u) \in Nat /\ i[u] \in Int
  BY ChunksAreParts DEF TestInv, ChunkInv
<1>1. CASE i[u] \in wrong
  BY <1>1 DEF Compare, Move, TestInv, ChunkInv
<1>2. CASE i[u] \notin wrong
  <2>1. tpc' = tpc /\ i' = [i EXCEPT ![u] = @ + 1] /\ UNCHANGED <<wrong, all_ok>>
    BY <1>2 DEF Compare
  <2>2. i'[u] = i[u] + 1 /\ \A w \in Threads : w # u => i'[w] = i[w]
    BY <2>1 DEF TestInv, ChunkInv
  <2>3. \A v \in chunk_start(u)..(i'[u] - 1) : v \notin wrong
    BY <1>0, <1>2, <2>2 DEF TestInv, ChunkInv
  <2>4. tpc[u] = "loop"
    BY DEF Compare
  <2>5. chunk_start(u) <= i'[u] /\ i' \in [Threads -> Int]
    BY <1>0, <2>1, <2>2 DEF TestInv, ChunkInv
  <2> QED
    BY <2>1, <2>2, <2>3, <2>4, <2>5 DEF TestInv, ChunkInv
<1> QED
  BY <1>1, <1>2

LEMMA NextTest == TestInv /\ [TestNext]_TestVars => TestInv'
<1> SUFFICES ASSUME TestInv, [TestNext]_TestVars PROVE TestInv'
  OBVIOUS
<1> USE DEF TestInv
<1>0. \A u \in Threads : chunk_start(u) \in Nat /\ chunk_end(u) \in Nat
  BY ChunksAreParts
<1>1. CASE LaunchTest
  <2>1. JoinInv' /\ (t \in Threads => tpc[t] = "unborn")
    BY <1>1, LaunchJoin DEF LaunchTest, ChunkInv
  <2> QED
    BY <1>1, <2>1 DEF LaunchTest, LaunchAt, ChunkInv
<1>2. CASE JoinTest \/ ReturnVerdict
  <2>1. JoinInv'
    BY <1>2, ThreadJoin DEF JoinTest, ReturnVerdict
  <2>2. UNCHANGED <<tpc, i, wrong, all_ok>> /\ (mpc' = "done" => result' = all_ok)
    BY <1>2 DEF JoinTest, JoinThread, ReturnVerdict, AfterJoin
  <2>3. ChunkInv'
    BY <2>2 DEF ChunkInv
  <2> QED
    BY <2>1, <2>2, <2>3
<1>3. ASSUME NEW u \in Threads, Compare(u) PROVE TestInv'
  <2>1. ChunkInv'
    BY <1>3, CompareStep
  <2>2. JoinInv' /\ UNCHANGED <<wrong, all_ok, result, mpc>>
    BY <1>3 DEF Compare, Move, main, JoinInv, ChunkInv
  <2> QED
    BY <2>1, <2>2
<1>4. ASSUME NEW u \in Threads, Exit(u) PROVE TestInv'
  BY <1>4 DEF Exit, Move, main, ChunkInv, JoinInv, TestInv
<1>5. ASSUME NEW u \in Threads, StoreFalse(u) PROVE TestInv'
  <2>1. i[u] \in wrong /\ tpc[u] = "fail"
    BY <1>5 DEF StoreFalse, ChunkInv
  <2>2. tpc' = [tpc EXCEPT ![u] = "exchange"] /\ all_ok' = FALSE
        /\ UNCHANGED <<wrong, i, mpc, t, result>>
    BY <1>5 DEF StoreFalse, Move, main
  <2>3. ChunkInv'
    BY <1>0, <2>1, <2>2 DEF ChunkInv
  <2>4. JoinInv' /\ mpc # "done"
    BY <2>1, <2>2 DEF JoinInv, ChunkInv
  <2> QED
    BY <2>2, <2>3, <2>4
<1>6. ASSUME NEW u \in Threads, Exchange(u) PROVE TestInv'
  BY <1>6 DEF Exchange, Move, main, ChunkInv, JoinInv, TestInv
<1>7. ASSUME NEW u \in Threads, PrintFailure(u) PROVE TestInv'
  BY <1>7 DEF PrintFailure, Move, main, ChunkInv, JoinInv, TestInv
<1>8. CASE TestVars' = TestVars
  BY <1>8 DEF TestVars, main, ChunkInv, JoinInv
<1> QED
  BY <1>1, <1>2, <1>3, <1>4, <1>5, <1>6, <1>7, <1>8 DEF TestNext, Worker, TestDone

\* Once all threads are joined, all_ok tells whether any value is wrong.
LEMMA VerdictAtTheEnd ==
  ASSUME TestInv, mpc = "done" PROVE result = all_ok /\ (result <=> wrong = {})
<1>1. result = all_ok /\ \A u \in Threads : tpc[u] = "exited"
  BY DEF TestInv, JoinInv
<1>2. CASE ~all_ok
  BY <1>1, <1>2 DEF TestInv, ChunkInv
<1>3. CASE all_ok
  <2>1. ASSUME NEW v \in wrong PROVE FALSE
    <3>1. v \in Values
      BY <2>1 DEF TestInv, JoinInv
    <3>2. PICK u \in Threads : chunk_start(u) <= v /\ v < chunk_end(u)
      BY <3>1, ChunksCover
    <3>3. i[u] >= chunk_end(u) /\ chunk_start(u) \in Nat /\ chunk_end(u) \in Nat /\ i[u] \in Int
      BY <1>1, <1>3, ChunksAreParts DEF TestInv, ChunkInv
    <3>4. v \in chunk_start(u)..(i[u] - 1)
      BY <3>1, <3>2, <3>3
    <3> QED
      BY <2>1, <3>4 DEF TestInv, ChunkInv
  <2> QED
    BY <1>1, <1>3, <2>1
<1> QED
  BY <1>2, <1>3 DEF TestInv, ChunkInv

\* The test returns TRUE exactly when no conversion differs.
THEOREM VerdictCorrect == TestSpec => []VerdictIsRight
<1>1. TestInv => VerdictIsRight
  BY VerdictAtTheEnd DEF VerdictIsRight
<1> QED
  BY <1>1, InitTest, NextTest, PTL DEF TestSpec

-----------------------------------------------------------------------------
LEMMA InitReportInv == TestInit => ReportInv
  BY DEF TestInit, ReportInv, Printing

\* The exchange is won once: the first thread goes on to print, and as nobody
\* prints before it, it is the only one.
LEMMA ExchangeStep ==
  ASSUME TestInv, ReportInv, NEW u \in Threads, Exchange(u) PROVE ReportInv'
<1>1. /\ error_reported' = TRUE /\ UNCHANGED <<wrong, all_ok, reports>>
      /\ tpc[u] = "exchange"
      /\ tpc' = [tpc EXCEPT ![u] = IF ~error_reported THEN "print" ELSE "exited"]
  BY DEF Exchange, Move, First
<1>2. \A v \in Threads : v # u => tpc'[v] = tpc[v]
  BY <1>1 DEF TestInv, ChunkInv
<1>3. CASE ~error_reported
  <2>1. tpc'[u] = "print"
    BY <1>1, <1>3 DEF TestInv, ChunkInv
  <2>2. reports' = <<>> /\ \A v \in Threads : Printing(v)' <=> v = u
    BY <1>1, <1>2, <1>3, <2>1 DEF ReportInv, Printing
  <2> QED
    BY <1>1, <2>2 DEF ReportInv
<1>4. CASE error_reported
  <2>1. tpc'[u] = "exited"
    BY <1>1, <1>4 DEF TestInv, ChunkInv
  <2>2. \A v \in Threads : Printing(v)' <=> Printing(v)
    BY <1>1, <1>2, <2>1 DEF Printing
  <2> QED
    BY <1>1, <1>4, <2>2 DEF ReportInv
<1> QED
  BY <1>3, <1>4 DEF ReportInv

\* The thread that prints is the one that won the exchange, and it prints a value
\* it found to differ.
LEMMA PrintStep ==
  ASSUME TestInv, ReportInv, NEW u \in Threads, PrintFailure(u) PROVE ReportInv'
<1>1. /\ reports' = Append(reports, i[u]) /\ tpc[u] = "print"
      /\ tpc' = [tpc EXCEPT ![u] = "exited"]
      /\ UNCHANGED <<wrong, all_ok, error_reported>>
  BY DEF PrintFailure, Move
<1>2. i[u] \in wrong
  BY <1>1 DEF TestInv, ChunkInv
<1>3. /\ error_reported /\ reports = <<>>
      /\ \A v \in Threads : Printing(v) <=> v = u
  BY <1>1 DEF ReportInv, Printing
<1>4. reports' = <<i[u]>>
  BY <1>1, <1>3
<1>5. \A v \in Threads : ~Printing(v)'
  BY <1>1, <1>3 DEF Printing, TestInv, ChunkInv
<1> QED
  BY <1>1, <1>2, <1>3, <1>4, <1>5 DEF ReportInv

LEMMA NextReportInv == TestInv /\ ReportInv /\ [TestNext]_TestVars => ReportInv'
<1> SUFFICES ASSUME TestInv, ReportInv, [TestNext]_TestVars PROVE ReportInv'
  OBVIOUS
<1>0. tpc \in [Threads -> {"unborn", "loop", "fail", "exchange", "print", "exited"}]
  BY DEF TestInv, ChunkInv
\* A step that nobody prints or announces by, and that keeps the flags.
<1>1. ASSUME UNCHANGED <<wrong, all_ok, error_reported, reports>>,
             \A v \in Threads : (tpc'[v] = "print" <=> tpc[v] = "print")
                                /\ (tpc'[v] = "exchange" <=> tpc[v] = "exchange")
      PROVE ReportInv'
  BY <1>1 DEF ReportInv, Printing
<1>2. CASE LaunchTest
  <2>1. t \in Threads => tpc[t] = "unborn"
    BY <1>0, <1>2, LaunchJoin DEF LaunchTest, TestInv
  <2> QED
    BY <1>0, <1>1, <1>2, <2>1 DEF LaunchTest, LaunchAt
<1>3. CASE JoinTest \/ ReturnVerdict
  BY <1>1, <1>3 DEF JoinTest, JoinThread, ReturnVerdict, AfterJoin
<1>4. ASSUME NEW u \in Threads, Compare(u) PROVE ReportInv'
  BY <1>0, <1>1, <1>4 DEF Compare, Move
<1>5. ASSUME NEW u \in Threads, Exit(u) PROVE ReportInv'
  BY <1>0, <1>1, <1>5 DEF Exit, Move
<1>6. ASSUME NEW u \in Threads, StoreFalse(u) PROVE ReportInv'
  <2>1. /\ tpc[u] = "fail" /\ tpc' = [tpc EXCEPT ![u] = "exchange"]
        /\ UNCHANGED <<wrong, error_reported, reports>>
    BY <1>6 DEF StoreFalse, Move
  <2>2. tpc'[u] = "exchange" /\ \A v \in Threads : Printing(v)' <=> Printing(v)
    BY <1>0, <2>1 DEF Printing
  <2> QED
    BY <2>1, <2>2 DEF ReportInv
<1>7. ASSUME NEW u \in Threads, Exchange(u) PROVE ReportInv'
  BY <1>7, ExchangeStep
<1>8. ASSUME NEW u \in Threads, PrintFailure(u) PROVE ReportInv'
  BY <1>8, PrintStep
<1>9. CASE TestVars' = TestVars
  BY <1>1, <1>9 DEF TestVars, main
<1> QED
  BY <1>2, <1>3, <1>4, <1>5, <1>6, <1>7, <1>8, <1>9 DEF TestNext, Worker, TestDone

\* One true difference is reported by a test that fails, and none by a test that
\* passes, however many threads found one at the same time.
THEOREM ReportIsSingle == TestSpec => []OneReport
<1>1. TestInv /\ ReportInv => OneReport
  <2> SUFFICES ASSUME TestInv, ReportInv PROVE OneReport
    OBVIOUS
  <2>1. reports = <<>> \/ \E w \in wrong : reports = <<w>>
    BY DEF ReportInv
  <2>2. Len(reports) <= 1 /\ \A k \in DOMAIN reports : reports[k] \in wrong
    <3>1. CASE reports = <<>>
      BY <3>1
    <3>2. ASSUME NEW w \in wrong, reports = <<w>>
          PROVE  Len(reports) <= 1 /\ \A k \in DOMAIN reports : reports[k] \in wrong
      <4>1. Len(reports) = 1 /\ DOMAIN reports = {1} /\ reports[1] = w
        BY <3>2
      <4> QED
        BY <3>2, <4>1
    <3> QED
      BY <2>1, <3>1, <3>2
  <2>3. ASSUME mpc = "done", wrong # {} PROVE reports # <<>>
    <3>1. \A u \in Threads : tpc[u] = "exited"
      BY <2>3 DEF TestInv, JoinInv
    <3>2. ~all_ok
      BY <2>3, VerdictAtTheEnd
    <3>3. error_reported /\ \A u \in Threads : ~Printing(u)
      BY <3>1, <3>2 DEF ReportInv, Printing
    <3>4. PICK w \in wrong : reports = <<w>>
      BY <3>3, NumThreads \in Nat \ {0}, 0 \in Threads DEF ReportInv
    <3> QED
      BY <3>4
  <2> QED
    BY <2>1, <2>2, <2>3 DEF OneReport
<1> QED
  BY <1>1, InitTest, NextTest, InitReportInv, NextReportInv, PTL DEF TestSpec

-----------------------------------------------------------------------------
(* Any clients. *)

\* What ConnectedIsServed needs to be inductive: where a handler can be.
MInv ==
  /\ hpc \in [Clients -> {"none", "recv", "write", "drain", "ended", "raised"}]
  /\ ConnectedIsServed

\* A handler that goes from one place of its loop to another stays a member.
LEMMA MoveWithin ==
  ASSUME MInv, NEW c \in Clients, c \in Served,
         NEW l \in {"recv", "write", "drain"}, Goto(c, l),
         connected' = connected, has_finally' = has_finally
  PROVE  MInv'
BY DEF MInv, ConnectedIsServed, Served, Goto

\* A handler that ends is a member no longer, unless it fails without the clause.
LEMMA EndStep ==
  ASSUME MInv, NEW c \in Clients, c \in Served,
         NEW l \in {"ended", "raised"}, End(c, l), has_finally' = has_finally
  PROVE  MInv'
BY DEF MInv, ConnectedIsServed, Served, Goto, End, Removed

\* Choose goes to one of two places of the loop.
LEMMA ChooseGoes ==
  ASSUME NEW c \in Clients, NEW S, Choose(c, S)
  PROVE  \E l \in {"recv", "write", "drain"} : Goto(c, l)
BY DEF Choose

LEMMA HandlerStep ==
  ASSUME MInv, NEW c \in Clients, Handler(c)
  PROVE  MInv'
<1>1. CASE Accept(c)
  BY <1>1 DEF Accept, MInv, ConnectedIsServed, Served, Goto
<1>2. CASE Receive(c)
  <2>1. c \in Served /\ connected' = connected /\ has_finally' = has_finally
    BY <1>2 DEF Receive, Served
  <2>2. Choose(c, Others(c, connected))
    BY <1>2 DEF Receive
  <2>3. PICK l \in {"recv", "write", "drain"} : Goto(c, l)
    BY <2>2, ChooseGoes
  <2> QED
    BY <2>1, <2>3, MoveWithin
<1>3. CASE Write(c)
  <2>1. c \in Served /\ has_finally' = has_finally
    BY <1>3 DEF Write, Served, End
  <2>2. CASE Goto(c, "drain") /\ connected' = connected
    BY <2>1, <2>2, MoveWithin
  <2>3. CASE End(c, "raised")
    BY <2>1, <2>3, EndStep
  <2> QED
    BY <1>3, <2>2, <2>3 DEF Write
<1>4. CASE Advance(c)
  <2>1. c \in Served /\ has_finally' = has_finally
    BY <1>4 DEF Advance, Served, End
  <2>2. CASE End(c, "raised")
    BY <2>1, <2>2, EndStep
  <2>3. CASE Choose(c, Others(c, todo[c] \cap connected)) /\ connected' = connected
    <3>1. PICK l \in {"recv", "write", "drain"} : Goto(c, l)
      BY <2>3, ChooseGoes
    <3> QED
      BY <2>1, <2>3, <3>1, MoveWithin
  <2> QED
    BY <1>4, <2>2, <2>3 DEF Advance
<1>5. CASE Leave(c)
  <2>1. c \in Served /\ has_finally' = has_finally /\ End(c, "ended")
    BY <1>5 DEF Leave, Served, Broadcasting, End
  <2> QED
    BY <2>1, EndStep
<1> QED
  BY <1>1, <1>2, <1>3, <1>4, <1>5 DEF Handler

\* The set connected holds exactly the connections whose handlers are in their
\* loops and, without the finally clause, those whose handlers failed.
THEOREM MembersAreServed == Spec => []ConnectedIsServed
<1>1. Init => MInv
  BY DEF Init, MInv, ConnectedIsServed, Served
<1>2. MInv /\ [Next]_vars => MInv'
  <2> SUFFICES ASSUME MInv, [Next]_vars PROVE MInv'
    OBVIOUS
  <2>1. ASSUME NEW c \in Clients, Client(c) PROVE MInv'
    <3> connected' = connected /\ hpc' = hpc /\ has_finally' = has_finally
      BY <2>1 DEF Client, Connect, Say, Close, server
    <3> QED
      BY DEF MInv, ConnectedIsServed, Served
  <2>2. CASE UNCHANGED vars
    BY <2>2 DEF vars, server, MInv, ConnectedIsServed, Served
  <2> QED
    BY <2>1, <2>2, HandlerStep DEF Next
<1>3. MInv => ConnectedIsServed
  BY DEF MInv
<1> QED
  BY <1>1, <1>2, <1>3, PTL DEF Spec

-----------------------------------------------------------------------------
\* While nobody comes or leaves, a broadcast has the set it started with: its size
\* is the one the iterator remembers, and the next receivers are members.
QuietInv ==
  /\ hpc \in [Clients -> {"none", "recv", "write", "drain", "ended", "raised"}]
  /\ todo \in [Clients -> SUBSET Clients]
  /\ target \in [Clients -> Clients]
  /\ moved \in [Clients -> BOOLEAN]
  /\ used \in [Clients -> Nat]
  /\ connected \subseteq Clients
  /\ \A c \in Broadcasting : ~moved[c] =>
       /\ used[c] = Cardinality(connected)
       /\ hpc[c] = "write" => target[c] \in connected

\* A step that changes the set tells everybody.
LEMMA MovedStep ==
  ASSUME QuietInv, AllMoved, connected' \subseteq Clients, used' = used, target' = target,
         todo' \in [Clients -> SUBSET Clients],
         NEW c \in Clients, NEW l \in {"recv", "ended", "raised"}, Goto(c, l)
  PROVE  QuietInv'
BY DEF QuietInv, AllMoved, Goto, Broadcasting

\* The next receiver is a member.
LEMMA ChooseStep ==
  ASSUME QuietInv, NEW c \in Clients, NEW S \in SUBSET connected, Choose(c, S),
         connected' = connected,
         \/ used' = used /\ moved' = moved /\ hpc[c] = "drain"
         \/ /\ used' = [used EXCEPT ![c] = Cardinality(connected)]
            /\ moved' = [moved EXCEPT ![c] = FALSE]
            /\ Cardinality(connected) \in Nat
  PROVE  QuietInv'
<1>0. moved' \in [Clients -> BOOLEAN] /\ used' \in [Clients -> Nat] /\ connected' \subseteq Clients
  <2>1. moved' = moved \/ moved' = [moved EXCEPT ![c] = FALSE]
    OBVIOUS
  <2>2. moved' \in [Clients -> BOOLEAN]
    BY <2>1, Zenon DEF QuietInv
  <2>3. used' \in [Clients -> Nat] /\ connected' \subseteq Clients
    BY DEF QuietInv
  <2> QED
    BY <2>2, <2>3
<1>1. /\ hpc' \in [Clients -> {"none", "recv", "write", "drain", "ended", "raised"}]
      /\ todo' \in [Clients -> SUBSET Clients] /\ target' \in [Clients -> Clients]
  <2>1. S \subseteq Clients
    BY DEF QuietInv
  <2>2. hpc' = [hpc EXCEPT ![c] = "recv"] \/ hpc' = [hpc EXCEPT ![c] = "write"]
    BY DEF Choose, Goto
  <2>3. target' = target \/ \E d \in Clients : target' = [target EXCEPT ![c] = d]
    BY <2>1 DEF Choose
  <2>4. \E T \in SUBSET Clients : todo' = [todo EXCEPT ![c] = T]
    <3>1. CASE todo' = [todo EXCEPT ![c] = {}]
      BY <3>1
    <3>2. ASSUME NEW d \in S, todo' = [todo EXCEPT ![c] = S \ {d}]
          PROVE  \E T \in SUBSET Clients : todo' = [todo EXCEPT ![c] = T]
      <4> S \ {d} \in SUBSET Clients
        BY <2>1
      <4> QED
        BY <3>2
    <3> QED
      BY <3>1, <3>2 DEF Choose
  <2>5. hpc' \in [Clients -> {"none", "recv", "write", "drain", "ended", "raised"}]
    BY <2>2 DEF QuietInv
  <2>6. target' \in [Clients -> Clients]
    BY <2>3 DEF QuietInv
  <2>7. todo' \in [Clients -> SUBSET Clients]
    BY <2>4 DEF QuietInv
  <2> QED
    BY <2>5, <2>6, <2>7
<1>2. ASSUME NEW d \in Clients, d \in Broadcasting', ~moved'[d]
      PROVE  used'[d] = Cardinality(connected') /\ (hpc'[d] = "write" => target'[d] \in connected')
  <2>1. CASE d = c
    <3>1. used'[c] = Cardinality(connected')
      BY <1>2, <2>1 DEF QuietInv, Broadcasting
    <3>2. CASE hpc' = [hpc EXCEPT ![c] = "recv"]
      BY <2>1, <3>1, <3>2 DEF QuietInv
    <3>3. CASE \E d1 \in S : target' = [target EXCEPT ![c] = d1]
      BY <2>1, <3>1, <3>3 DEF QuietInv
    <3>4. (hpc' = [hpc EXCEPT ![c] = "recv"]) \/ \E d1 \in S : target' = [target EXCEPT ![c] = d1]
      BY DEF Choose, Goto
    <3> QED
      BY <3>2, <3>3, <3>4
  <2>2. CASE d # c
    <3>1. /\ hpc'[d] = hpc[d] /\ used'[d] = used[d] /\ moved'[d] = moved[d]
          /\ target'[d] = target[d]
      BY <2>2 DEF QuietInv, Choose, Goto
    <3> QED
      BY <1>2, <3>1 DEF QuietInv, Broadcasting
  <2> QED
    BY <2>1, <2>2
<1> QED
  BY <1>0, <1>1, <1>2 DEF QuietInv, Broadcasting

LEMMA QuietStep ==
  ASSUME QuietInv, NEW c \in Clients, Client(c) \/ Handler(c)
  PROVE  QuietInv'
<1>1. CASE Client(c)
  BY <1>1 DEF Client, Connect, Say, Close, server, QuietInv, Broadcasting
<1>2. CASE Accept(c)
  <2>1. AllMoved /\ used' = used /\ target' = target /\ Goto(c, "recv")
        /\ connected' \subseteq Clients
    BY <1>2 DEF Accept, QuietInv
  <2>2. todo' \in [Clients -> SUBSET Clients]
    BY <1>2, <2>1 DEF Accept, QuietInv
  <2> QED
    BY <2>1, <2>2, MovedStep
<1>3. ASSUME NEW l \in {"ended", "raised"}, End(c, l) PROVE QuietInv'
  BY <1>3, MovedStep DEF End, QuietInv
<1>4. CASE Receive(c)
  <2>1. Cardinality(connected) \in Nat
    BY BroadcastAssumption, FS_Subset, FS_CardinalityType DEF QuietInv
  <2> QED
    BY <1>4, <2>1, ChooseStep DEF Receive, Others
<1>5. CASE Write(c)
  <2>1. CASE Goto(c, "drain") /\ UNCHANGED <<connected, target, todo, used, moved>> /\ hpc[c] = "write"
    BY <2>1 DEF QuietInv, Goto, Broadcasting
  <2> QED
    BY <1>3, <1>5, <2>1 DEF Write
<1>6. CASE Advance(c)
  <2>1. CASE ~Resized(c)
    BY <1>3, <1>6, ChooseStep DEF Advance, Others
  <2> QED
    BY <1>3, <1>6, <2>1 DEF Advance
<1>7. CASE Leave(c)
  BY <1>3, <1>7 DEF Leave
<1> QED
  BY <1>1, <1>2, <1>4, <1>5, <1>6, <1>7 DEF Handler

\* With the finally clause, a handler fails only for a client that came or left
\* during its own broadcast or whose handler does not know yet that it has left.
THEOREM FailuresAreContained == Spec => Contained
<1>1. Init => QuietInv
  BY DEF Init, QuietInv, Broadcasting
<1>2. QuietInv /\ [Next]_vars => QuietInv'
  <2>1. QuietInv /\ UNCHANGED vars => QuietInv'
    BY DEF vars, server, QuietInv, Broadcasting
  <2> QED
    BY <2>1, QuietStep DEF Next
<1>3. ConnectedIsServed /\ QuietInv /\ [Next]_vars =>
        [\A c \in Clients : has_finally /\ hpc[c] # "raised" /\ hpc'[c] = "raised" =>
           moved[c] \/ \E d \in Served : link[d] = "closed"]_vars
  <2> SUFFICES ASSUME ConnectedIsServed, QuietInv, Next,
                      NEW c \in Clients, has_finally, hpc[c] # "raised", hpc'[c] = "raised", ~moved[c]
               PROVE  \E d \in Served : link[d] = "closed"
    OBVIOUS
  <2>1. PICK e \in Clients : Client(e) \/ Handler(e)
    BY DEF Next
  <2>2. ~Client(e)
    BY DEF Client, Connect, Say, Close, server
  <2>3. ~Accept(e) /\ ~Receive(e) /\ ~Leave(e)
    BY DEF Accept, Receive, Leave, Choose, End, Goto, QuietInv
  <2>4. CASE Write(e)
    <3>1. e = c /\ link[target[e]] = "closed" /\ hpc[c] = "write"
      BY <2>4 DEF Write, End, Goto, QuietInv
    <3>2. target[c] \in connected
      BY <3>1 DEF QuietInv, Broadcasting
    <3> QED
      BY <3>1, <3>2 DEF ConnectedIsServed
  <2>5. CASE Advance(e)
    <3>1. e = c /\ Resized(c) /\ hpc[c] = "drain"
      BY <2>5 DEF Advance, Choose, End, Goto, QuietInv
    <3> QED
      BY <3>1 DEF QuietInv, Broadcasting, Resized
  <2> QED
    BY <2>1, <2>2, <2>3, <2>4, <2>5 DEF Handler
<1>4. Spec => [][Next]_vars /\ []QuietInv
  BY <1>1, <1>2, PTL DEF Spec
<1> QED
  BY <1>3, <1>4, MembersAreServed, PTL DEF Contained

-----------------------------------------------------------------------------
\* What a broadcast has still to do: the receivers of c's message that were not
\* served yet, as long as nobody comes or leaves.
Pending(c) ==
  CASE hpc[c] = "write" -> todo[c] \cup {target[c]}
    [] hpc[c] = "drain" -> todo[c]
    [] OTHER            -> {}

Got(d, m)     == \E k \in DOMAIN inbox[d] : inbox[d][k] = m
GotOnce(d, m) == \A j, k \in DOMAIN inbox[d] : inbox[d][j] = m /\ inbox[d][k] = m => j = k

InboxType ==
  /\ hpc \in [Clients -> {"none", "recv", "write", "drain", "ended", "raised"}]
  /\ link \in [Clients -> {"new", "open", "closed"}]
  /\ taken \in [Clients -> Nat]
  /\ inbox \in [Clients -> Seq(Clients \X Nat)]
  /\ todo \in [Clients -> SUBSET Clients]
  /\ target \in [Clients -> Clients]
  /\ moved \in [Clients -> BOOLEAN]
  /\ connected \subseteq Clients

\* No message is in an inbox before the handler of its sender has received it, and
\* no inbox has two copies of the message of an undisturbed broadcast: the members
\* that are pending have none and the others have one.
Delivered(c) ==
  /\ hpc[c] = "write" => target[c] \notin todo[c]
  /\ \A d \in connected \ {c} : link[d] = "open" =>
       /\ d \in Pending(c) <=> ~Got(d, <<c, taken[c]>>)
       /\ GotOnce(d, <<c, taken[c]>>)

\* The handlers of which something is said: undisturbed since they received a message.
InLoop(c) == hpc[c] \in {"recv", "write", "drain"} /\ taken[c] > 0 /\ ~moved[c]

DeliveryInv ==
  /\ InboxType
  /\ \A d \in connected : link[d] # "new"
  /\ \A c, d \in Clients : \A n \in Nat : Got(d, <<c, n>>) => n <= taken[c]
  /\ \A c \in Broadcasting : taken[c] > 0
  /\ \A c \in Clients : InLoop(c) => Delivered(c)

\* What a message that is appended changes.
LEMMA AppendedMessage ==
  ASSUME InboxType, NEW d \in Clients, NEW m \in Clients \X Nat,
         inbox' = [inbox EXCEPT ![d] = Append(@, m)]
  PROVE  /\ inbox' \in [Clients -> Seq(Clients \X Nat)]
         /\ Got(d, m)'
         /\ ~Got(d, m) => GotOnce(d, m)'
         /\ \A x : x # m => (Got(d, x)' <=> Got(d, x)) /\ (GotOnce(d, x)' <=> GotOnce(d, x))
         /\ \A e \in Clients \ {d} : inbox'[e] = inbox[e]
<1>1. /\ inbox[d] \in Seq(Clients \X Nat)
      /\ inbox'[d] = Append(inbox[d], m)
      /\ \A e \in Clients \ {d} : inbox'[e] = inbox[e]
  BY DEF InboxType
<1>2. /\ DOMAIN inbox'[d] = 1..(Len(inbox[d]) + 1)
      /\ DOMAIN inbox[d] = 1..Len(inbox[d]) /\ Len(inbox[d]) \in Nat
      /\ inbox'[d][Len(inbox[d]) + 1] = m
      /\ \A k \in 1..Len(inbox[d]) : inbox'[d][k] = inbox[d][k]
  BY <1>1
<1>3. inbox' \in [Clients -> Seq(Clients \X Nat)]
  <2>1. Append(inbox[d], m) \in Seq(Clients \X Nat)
    BY <1>1
  <2> QED
    BY <2>1 DEF InboxType
<1>4. \A x : x # m => (Got(d, x)' <=> Got(d, x)) /\ (GotOnce(d, x)' <=> GotOnce(d, x))
  BY <1>2 DEF Got, GotOnce
<1>5. Got(d, m)' /\ (~Got(d, m) => GotOnce(d, m)')
  BY <1>2 DEF Got, GotOnce
<1> QED
  BY <1>1, <1>3, <1>4, <1>5

\* A step that tells everybody that the set has changed leaves nothing to show.
LEMMA DisturbingStep ==
  ASSUME DeliveryInv, InboxType', AllMoved, UNCHANGED <<inbox, taken>>,
         \A d \in connected' : link'[d] # "new", Broadcasting' \subseteq Broadcasting
  PROVE  DeliveryInv'
<1>1. \A c \in Clients : ~InLoop(c)'
  BY DEF InLoop, AllMoved
<1>2. \A c, d \in Clients : \A n \in Nat : Got(d, <<c, n>>)' => n <= taken'[c]
  BY DEF DeliveryInv, Got
<1>3. \A c \in Broadcasting' : taken'[c] > 0
  BY DEF DeliveryInv
<1> QED
  BY <1>1, <1>2, <1>3 DEF DeliveryInv

LEMMA EndDelivery ==
  ASSUME DeliveryInv, NEW c \in Clients, NEW l \in {"ended", "raised"}, End(c, l)
  PROVE  DeliveryInv'
<1>1. InboxType'
  BY DEF DeliveryInv, InboxType, End, Goto, AllMoved
<1>2. Broadcasting' \subseteq Broadcasting
  BY DEF DeliveryInv, InboxType, End, Goto, Broadcasting
<1>3. \A d \in connected' : link'[d] # "new"
  BY DEF DeliveryInv, InboxType, End
<1> QED
  BY <1>1, <1>2, <1>3, DisturbingStep DEF End

LEMMA AcceptDelivery ==
  ASSUME DeliveryInv, NEW c \in Clients, Accept(c)
  PROVE  DeliveryInv'
<1>1. todo' \in [Clients -> SUBSET Clients]
  <2>1. PICK S \in [Broadcasting -> SUBSET connected'] :
          todo' = [h \in Clients |-> IF h \in Broadcasting THEN S[h] ELSE todo[h]]
    BY DEF Accept
  <2>2. connected' \subseteq Clients
    BY DEF Accept, DeliveryInv, InboxType
  <2> QED
    BY <2>1, <2>2 DEF DeliveryInv, InboxType
<1>2. InboxType'
  BY <1>1 DEF DeliveryInv, InboxType, Accept, Goto, AllMoved
<1>3. Broadcasting' \subseteq Broadcasting
  BY DEF DeliveryInv, InboxType, Accept, Goto, Broadcasting
<1>4. \A d \in connected' : link'[d] # "new"
  BY DEF DeliveryInv, Accept
<1> QED
  BY <1>2, <1>3, <1>4, DisturbingStep DEF Accept

LEMMA ClientDelivery ==
  ASSUME DeliveryInv, NEW c \in Clients, Client(c)
  PROVE  DeliveryInv'
<1>1. /\ UNCHANGED server
      /\ link' \in [Clients -> {"new", "open", "closed"}]
      /\ \A d \in Clients : (link'[d] = "new" => link[d] = "new")
                            /\ (link'[d] = "open" => link[d] \in {"new", "open"})
  <2>0. link \in [Clients -> {"new", "open", "closed"}]
    BY DEF DeliveryInv, InboxType
  <2>1. CASE Connect(c)
    BY <2>0, <2>1 DEF Connect
  <2>2. CASE Say(c)
    BY <2>0, <2>2 DEF Say
  <2>3. CASE Close(c)
    BY <2>0, <2>3 DEF Close
  <2> QED
    BY <2>1, <2>2, <2>3 DEF Client
<1>2. InboxType' /\ \A d \in connected' : link'[d] # "new"
  BY <1>1 DEF server, DeliveryInv, InboxType
<1>3. ASSUME NEW b \in Clients, InLoop(b)' PROVE Delivered(b)'
  <2>1. Delivered(b)
    BY <1>1, <1>3 DEF server, InLoop, DeliveryInv
  <2>2. \A d \in connected : link'[d] = "open" => link[d] = "open"
    BY <1>1 DEF DeliveryInv, InboxType
  <2> QED
    BY <1>1, <2>1, <2>2 DEF server, Delivered, Pending, Got, GotOnce
<1>4. /\ \A b, d \in Clients : \A n \in Nat : Got(d, <<b, n>>)' => n <= taken'[b]
      /\ \A b \in Broadcasting' : taken'[b] > 0
  BY <1>1 DEF server, DeliveryInv, Got, Broadcasting
<1> QED
  BY <1>2, <1>3, <1>4 DEF DeliveryInv

\* The loop of c goes on with the members of S, which are all that is pending.
LEMMA ChooseDelivery ==
  ASSUME DeliveryInv, NEW c \in Clients, NEW S \in SUBSET connected, Choose(c, S), c \notin S
  PROVE  /\ hpc' \in [Clients -> {"none", "recv", "write", "drain", "ended", "raised"}]
         /\ hpc'[c] \in {"recv", "write"}
         /\ todo' \in [Clients -> SUBSET Clients] /\ target' \in [Clients -> Clients]
         /\ Pending(c)' = S
         /\ hpc'[c] = "write" => target'[c] \notin todo'[c]
         /\ \A b \in Clients \ {c} : /\ hpc'[b] = hpc[b] /\ todo'[b] = todo[b]
                                     /\ target'[b] = target[b]
<1>0. InboxType /\ S \subseteq Clients
  BY DEF DeliveryInv, InboxType
<1>1. CASE S = {} /\ Goto(c, "recv") /\ todo' = [todo EXCEPT ![c] = {}] /\ UNCHANGED target
  BY <1>0, <1>1 DEF Goto, InboxType, Pending
<1>2. ASSUME NEW d \in S, target' = [target EXCEPT ![c] = d],
             todo' = [todo EXCEPT ![c] = S \ {d}], Goto(c, "write")
      PROVE  /\ hpc' \in [Clients -> {"none", "recv", "write", "drain", "ended", "raised"}]
             /\ hpc'[c] \in {"recv", "write"}
             /\ todo' \in [Clients -> SUBSET Clients] /\ target' \in [Clients -> Clients]
             /\ Pending(c)' = S
             /\ hpc'[c] = "write" => target'[c] \notin todo'[c]
             /\ \A b \in Clients \ {c} : /\ hpc'[b] = hpc[b] /\ todo'[b] = todo[b]
                                         /\ target'[b] = target[b]
  <2>1. S \ {d} \in SUBSET Clients /\ d \in Clients
    BY <1>0
  <2>2. todo' \in [Clients -> SUBSET Clients] /\ target' \in [Clients -> Clients]
    BY <1>0, <1>2, <2>1 DEF InboxType
  <2>3. todo'[c] = S \ {d} /\ target'[c] = d /\ hpc'[c] = "write"
    BY <1>0, <1>2 DEF InboxType, Goto
  <2>4. Pending(c)' = S
    BY <2>3 DEF Pending
  <2> QED
    BY <1>0, <1>2, <2>2, <2>3, <2>4 DEF Goto, InboxType
<1> QED
  BY <1>1, <1>2 DEF Choose

\* Nothing that Delivered says of a handler is changed by another one that keeps
\* the set and the inboxes.
LEMMA OthersDelivery ==
  ASSUME DeliveryInv, NEW b \in Clients, InLoop(b)', UNCHANGED <<link, connected, inbox>>,
         hpc'[b] = hpc[b], todo'[b] = todo[b], target'[b] = target[b],
         taken'[b] = taken[b], moved'[b] = moved[b]
  PROVE  Delivered(b)'
<1>1. InLoop(b)
  BY DEF InLoop
<1>2. Delivered(b) /\ Pending(b)' = Pending(b)
  BY <1>1 DEF DeliveryInv, Pending
<1>3. \A d, m : (Got(d, m)' <=> Got(d, m)) /\ (GotOnce(d, m)' <=> GotOnce(d, m))
  BY DEF Got, GotOnce
<1> QED
  BY <1>2, <1>3 DEF Delivered

\* A new message is in no inbox yet.
LEMMA ReceiveDelivery ==
  ASSUME DeliveryInv, NEW c \in Clients, Receive(c)
  PROVE  DeliveryInv'
<1>1. InboxType
  BY DEF DeliveryInv
<1>2. Choose(c, connected \ {c})
  BY DEF Receive, Others
<1>3. /\ taken' \in [Clients -> Nat] /\ taken'[c] = taken[c] + 1 /\ taken[c] \in Nat
      /\ moved' \in [Clients -> BOOLEAN]
      /\ \A b \in Clients \ {c} : taken'[b] = taken[b] /\ moved'[b] = moved[b]
  <2>1. taken' \in [Clients -> Nat] /\ taken'[c] = taken[c] + 1 /\ taken[c] \in Nat
        /\ \A b \in Clients \ {c} : taken'[b] = taken[b]
    BY <1>1 DEF Receive, InboxType
  <2>2. moved' \in [Clients -> BOOLEAN]
    BY <1>1, Zenon DEF Receive, InboxType
  <2>3. \A b \in Clients \ {c} : moved'[b] = moved[b]
    BY <1>1 DEF Receive, InboxType
  <2> QED
    BY <2>1, <2>2, <2>3
<1>4. UNCHANGED <<link, connected, inbox>>
  BY DEF Receive
<1>5. InboxType' /\ Pending(c)' = connected \ {c}
      /\ (hpc'[c] = "write" => target'[c] \notin todo'[c])
      /\ \A b \in Clients \ {c} : hpc'[b] = hpc[b] /\ todo'[b] = todo[b] /\ target'[b] = target[b]
  BY <1>1, <1>2, <1>3, <1>4, ChooseDelivery DEF InboxType
<1>6. \A b, d \in Clients : \A n \in Nat : Got(d, <<b, n>>)' => n <= taken'[b]
  <2> SUFFICES ASSUME NEW b \in Clients, NEW d \in Clients, NEW n \in Nat, Got(d, <<b, n>>)'
               PROVE  n <= taken'[b]
    OBVIOUS
  <2>1. n <= taken[b] /\ taken[b] \in Nat
    BY <1>1, <1>4 DEF DeliveryInv, Got, InboxType
  <2> QED
    BY <1>3, <2>1
<1>7. \A b \in Broadcasting' : taken'[b] > 0
  BY <1>3, <1>5 DEF DeliveryInv, Broadcasting
<1>8. ASSUME NEW b \in Clients, InLoop(b)' PROVE Delivered(b)'
  <2>1. CASE b = c
    <3> PICK m : m = <<c, taken[c] + 1>>
      OBVIOUS
    <3>1. \A d \in Clients : ~Got(d, m)
      BY <1>3 DEF DeliveryInv
    <3>2. ASSUME NEW d \in connected PROVE d \in Clients /\ ~Got(d, m)' /\ GotOnce(d, m)'
      <4>1. d \in Clients /\ ~Got(d, m)
        BY <1>1, <3>1 DEF InboxType
      <4>2. \A k \in DOMAIN inbox'[d] : inbox'[d][k] # m
        BY <1>4, <4>1 DEF Got
      <4> QED
        BY <4>1, <4>2 DEF Got, GotOnce
    <3>3. taken'[c] = taken[c] + 1 /\ connected' = connected
      BY <1>3, <1>4
    <3> QED
      BY <1>5, <2>1, <3>2, <3>3 DEF Delivered
  <2>2. CASE b # c
    BY <1>3, <1>4, <1>5, <1>8, <2>2, OthersDelivery
  <2> QED
    BY <2>1, <2>2
<1> QED
  BY <1>4, <1>5, <1>6, <1>7, <1>8 DEF DeliveryInv

\* The next turn of the loop finds what was pending.
LEMMA AdvanceDelivery ==
  ASSUME DeliveryInv, NEW c \in Clients, hpc[c] = "drain",
         Choose(c, Others(c, todo[c] \cap connected)),
         UNCHANGED <<link, taken, inbox, connected, moved>>
  PROVE  DeliveryInv'
<1> DEFINE S == Others(c, todo[c] \cap connected)
<1>1. InboxType /\ S \in SUBSET connected /\ c \notin S
  BY DEF DeliveryInv, Others
<1>2. InboxType' /\ Pending(c)' = S
      /\ (hpc'[c] = "write" => target'[c] \notin todo'[c])
      /\ hpc'[c] \in {"recv", "write"}
      /\ \A b \in Clients \ {c} : hpc'[b] = hpc[b] /\ todo'[b] = todo[b] /\ target'[b] = target[b]
  <2> HIDE DEF S
  <2> QED
    BY <1>1, ChooseDelivery DEF InboxType, S
<1>3. \A b, d \in Clients : \A n \in Nat : Got(d, <<b, n>>)' => n <= taken'[b]
  BY DEF DeliveryInv, Got
<1>4. \A b \in Broadcasting' : taken'[b] > 0
  BY <1>2 DEF DeliveryInv, Broadcasting
<1>5. ASSUME NEW b \in Clients, InLoop(b)' PROVE Delivered(b)'
  <2>1. CASE b = c
    <3>1. Delivered(c) /\ Pending(c) = todo[c]
      BY <1>5, <2>1 DEF DeliveryInv, InLoop, Pending
    <3>2. \A d \in connected \ {c} : d \in S <=> d \in Pending(c)
      BY <3>1 DEF Others
    <3>3. \A d, x : (Got(d, x)' <=> Got(d, x)) /\ (GotOnce(d, x)' <=> GotOnce(d, x))
      BY DEF Got, GotOnce
    <3> HIDE DEF S
    <3> QED
      BY <1>2, <2>1, <3>1, <3>2, <3>3 DEF Delivered
  <2>2. CASE b # c
    BY <1>2, <1>5, <2>2, OthersDelivery
  <2> QED
    BY <2>1, <2>2
<1> QED
  BY <1>2, <1>3, <1>4, <1>5 DEF DeliveryInv

\* A send to a client whose connection is open puts the message into its inbox;
\* one to a client that has closed it changes nothing but the place of the handler.
LEMMA WriteDelivery ==
  ASSUME DeliveryInv, NEW c \in Clients, hpc[c] = "write", Goto(c, "drain"),
         UNCHANGED <<link, taken, connected, target, todo, moved>>,
         \/ link[target[c]] = "closed" /\ inbox' = inbox
         \/ inbox' = [inbox EXCEPT ![target[c]] = Append(@, <<c, taken[c]>>)]
  PROVE  DeliveryInv'
<1> PICK d, m : d = target[c] /\ m = <<c, taken[c]>>
  OBVIOUS
<1>1. InboxType /\ d \in Clients /\ m \in Clients \X Nat /\ taken[c] \in Nat
  BY DEF DeliveryInv, InboxType
<1>2. /\ hpc' \in [Clients -> {"none", "recv", "write", "drain", "ended", "raised"}]
      /\ hpc'[c] = "drain" /\ \A b \in Clients \ {c} : hpc'[b] = hpc[b]
  BY <1>1 DEF Goto, InboxType
<1>3. \A b \in Broadcasting' : taken'[b] > 0
  BY <1>2 DEF DeliveryInv, Broadcasting
<1>4. Pending(c) = todo[c] \cup {d} /\ Pending(c)' = todo[c]
      /\ \A b \in Clients \ {c} : Pending(b)' = Pending(b)
  BY <1>2 DEF Pending
<1>5. CASE link[d] = "closed" /\ inbox' = inbox
  <2>1. InboxType'
    BY <1>1, <1>2, <1>5 DEF InboxType
  <2>2. \A b, e \in Clients : \A n \in Nat : Got(e, <<b, n>>)' => n <= taken'[b]
    BY <1>5 DEF DeliveryInv, Got
  <2>3. ASSUME NEW b \in Clients, InLoop(b)' PROVE Delivered(b)'
    <3>1. InLoop(b)
      BY <1>2, <2>3 DEF InLoop
    <3>2. Delivered(b)
      BY <3>1 DEF DeliveryInv
    <3>3. \A e \in connected : link[e] = "open" => (e \in Pending(b)' <=> e \in Pending(b))
      BY <1>4, <1>5
    <3> QED
      BY <1>2, <1>5, <3>2, <3>3 DEF Delivered, Got, GotOnce
  <2> QED
    BY <1>3, <2>1, <2>2, <2>3 DEF DeliveryInv
<1>6. CASE inbox' = [inbox EXCEPT ![d] = Append(@, m)]
  <2>1. /\ inbox' \in [Clients -> Seq(Clients \X Nat)]
        /\ Got(d, m)'
        /\ ~Got(d, m) => GotOnce(d, m)'
        /\ \A x : x # m => (Got(d, x)' <=> Got(d, x)) /\ (GotOnce(d, x)' <=> GotOnce(d, x))
        /\ \A e \in Clients \ {d} : inbox'[e] = inbox[e]
    BY <1>1, <1>6, AppendedMessage
  <2>2. InboxType'
    BY <1>1, <1>2, <2>1 DEF InboxType
  <2>3. \A e \in Clients : \A x : e # d \/ x # m =>
          (Got(e, x)' <=> Got(e, x)) /\ (GotOnce(e, x)' <=> GotOnce(e, x))
    <3>1. ASSUME NEW e \in Clients, NEW x, e # d
          PROVE  (Got(e, x)' <=> Got(e, x)) /\ (GotOnce(e, x)' <=> GotOnce(e, x))
      <4>1. inbox'[e] = inbox[e]
        BY <2>1, <3>1
      <4> QED
        BY <4>1 DEF Got, GotOnce
    <3> QED
      BY <2>1, <3>1
  <2>4. ASSUME NEW b \in Clients, NEW e \in Clients, NEW n \in Nat, Got(e, <<b, n>>)'
        PROVE  n <= taken'[b]
    <3>1. CASE <<b, n>> = m
      BY <1>1, <3>1
    <3>2. CASE <<b, n>> # m
      BY <2>3, <2>4, <3>2 DEF DeliveryInv
    <3> QED
      BY <3>1, <3>2
  <2>5. ASSUME NEW b \in Clients, InLoop(b)' PROVE Delivered(b)'
    <3>1. InLoop(b)
      BY <1>2, <2>5 DEF InLoop
    <3>2. Delivered(b)
      BY <3>1 DEF DeliveryInv
    <3>3. CASE b # c
      <4>1. <<b, taken[b]>> # m
        BY <3>3
      <4>2. \A e \in connected : e \in Clients
        BY <1>1 DEF InboxType
      <4> QED
        BY <1>2, <1>4, <2>3, <3>2, <3>3, <4>1, <4>2 DEF Delivered
    <3>4. CASE b = c
      <4>1. d \notin todo[c]
        BY <3>2, <3>4 DEF Delivered
      <4>2. ASSUME NEW e \in connected \ {c}, link[e] = "open"
            PROVE  (e \in Pending(c)' <=> ~Got(e, m)') /\ GotOnce(e, m)'
        <5>0. e \in Clients
          BY <1>1 DEF InboxType
        <5>1. (e \in Pending(c) <=> ~Got(e, m)) /\ GotOnce(e, m)
          BY <3>2, <3>4, <4>2 DEF Delivered
        <5>2. CASE e = d
          BY <1>4, <2>1, <4>1, <5>1, <5>2
        <5>3. CASE e # d
          BY <1>4, <2>3, <5>0, <5>1, <5>3
        <5> QED
          BY <5>2, <5>3
      <4> QED
        BY <1>2, <3>4, <4>2 DEF Delivered
    <3> QED
      BY <3>3, <3>4
  <2> QED
    BY <1>3, <2>2, <2>4, <2>5 DEF DeliveryInv
<1> QED
  BY <1>5, <1>6

\* A broadcast during which nobody came or left has reached each other member
\* whose connection is open exactly once, for every number of clients and messages.
THEOREM QuietBroadcastsArrive == Spec => []QuietDelivery
<1>1. Init => DeliveryInv
  BY DEF Init, DeliveryInv, InboxType, Got, Broadcasting, InLoop
<1>2. DeliveryInv /\ [Next]_vars => DeliveryInv'
  <2> SUFFICES ASSUME DeliveryInv, [Next]_vars PROVE DeliveryInv'
    OBVIOUS
  <2>1. ASSUME NEW c \in Clients, Handler(c) PROVE DeliveryInv'
    <3>1. CASE Write(c)
      <4>1. CASE End(c, "raised")
        BY <4>1, EndDelivery
      <4> QED
        BY <3>1, <4>1, WriteDelivery DEF Write
    <3>2. CASE Advance(c)
      <4>1. CASE End(c, "raised")
        BY <4>1, EndDelivery
      <4> QED
        BY <3>2, <4>1, AdvanceDelivery DEF Advance
    <3>3. CASE Leave(c)
      BY <3>3, EndDelivery DEF Leave
    <3> QED
      BY <2>1, <3>1, <3>2, <3>3, AcceptDelivery, ReceiveDelivery DEF Handler
  <2>2. CASE UNCHANGED vars
    <3>1. UNCHANGED <<link, taken, inbox, connected, hpc, target, todo, moved>>
      BY <2>2 DEF vars, server
    <3>2. \A d, x : (Got(d, x)' <=> Got(d, x)) /\ (GotOnce(d, x)' <=> GotOnce(d, x))
      BY <3>1 DEF Got, GotOnce
    <3>3. \A c \in Clients : InLoop(c)' => InLoop(c) /\ Delivered(c)'
      BY <3>1, OthersDelivery DEF InLoop
    <3>4. InboxType' /\ Broadcasting' = Broadcasting
      BY <3>1 DEF DeliveryInv, InboxType, Broadcasting
    <3> QED
      BY <3>1, <3>2, <3>3, <3>4 DEF DeliveryInv
  <2> QED
    BY <2>1, <2>2, ClientDelivery DEF Next
<1>3. DeliveryInv => QuietDelivery
  <2> SUFFICES ASSUME DeliveryInv, NEW c \in connected, hpc[c] = "recv", taken[c] > 0, ~moved[c],
                      NEW d \in connected \ {c}, link[d] = "open"
               PROVE  Copies(d, <<c, taken[c]>>) = 1
    BY DEF QuietDelivery
  <2>1. Delivered(c)
    BY DEF DeliveryInv, InboxType, InLoop
  <2>2. Got(d, <<c, taken[c]>>) /\ GotOnce(d, <<c, taken[c]>>)
    BY <2>1 DEF Delivered, Pending
  <2>3. PICK k \in DOMAIN inbox[d] : inbox[d][k] = <<c, taken[c]>>
    BY <2>2 DEF Got
  <2>4. {j \in DOMAIN inbox[d] : inbox[d][j] = <<c, taken[c]>>} = {k}
    BY <2>2, <2>3 DEF GotOnce
  <2>5. Cardinality({k}) = 1
    BY FS_Singleton
  <2> QED
    BY <2>4, <2>5 DEF Copies
<1> QED
  BY <1>1, <1>2, <1>3, PTL DEF Spec
-----------------------------------------------------------------------------
(* The two clients of client.py. *)

LEMMA TwoClients ==
  /\ Cardinality(Clients) = 2 /\ client1 # client2 /\ Clients = {client1, client2}
  /\ \A c \in Clients : /\ Other(c) \in Clients /\ Other(c) # c /\ Other(Other(c)) = c
                        /\ Clients \ {c} = {Other(c)}
                        /\ \A d \in Clients : d = c \/ d = Other(c)
<1>1. client1 # client2 /\ Clients = {client1, client2}
  BY PingPongAssumption
<1>2. Cardinality({client1} \cup {client2}) = 2
  <2>1. IsFiniteSet({client1}) /\ Cardinality({client1}) = 1
    BY FS_Singleton
  <2>2. client2 \notin {client1}
    BY <1>1
  <2> QED
    BY <2>1, <2>2, FS_AddElement
<1>3. Clients = {client1} \cup {client2}
  BY <1>1
<1> QED
  BY <1>1, <1>2, <1>3 DEF Other

LEMMA PingPongStart == PingPongInit => LoopInv /\ TurnInv
<1> SUFFICES ASSUME PingPongInit PROVE LoopInv /\ TurnInv
  OBVIOUS
<1> USE DEF PingPongInit, Init
<1>1. LoopInv
  BY DEF LoopInv, Served, Broadcasting
<1>2. inbox \in [Clients -> Seq(Clients \X Nat)] /\ \A c \in Clients : Len(inbox[c]) = 0
  <2>1. <<>> \in Seq(Clients \X Nat) /\ Len(<<>>) = 0
    OBVIOUS
  <2> QED
    BY <2>1
<1>3. TurnInv
  BY <1>2, TwoClients DEF TurnInv, Flag
<1> QED
  BY <1>1, <1>3

\* The end of the loop, or the other client is the next one to be written to.
LEMMA NextTarget ==
  ASSUME LoopInv, NEW c \in Clients, NEW S \in SUBSET {Other(c)}, Choose(c, S),
         S # {} => connected = Clients /\ used'[c] = 2,
         used' \in [Clients -> Nat], \A d \in Clients : d # c => used'[d] = used[d],
         hpc[c] \in {"recv", "drain"}, UNCHANGED <<connected, link>>
  PROVE  LoopInv' /\ (hpc'[c] = "write" => S # {})
<1>1. CASE S = {} /\ Goto(c, "recv") /\ todo' = [todo EXCEPT ![c] = {}] /\ UNCHANGED target
  <2>1. /\ hpc' = [hpc EXCEPT ![c] = "recv"] /\ hpc'[c] = "recv"
        /\ \A d \in Clients : d # c => hpc'[d] = hpc[d] /\ todo'[d] = todo[d]
        /\ hpc' \in [Clients -> {"none", "recv", "write", "drain"}]
        /\ todo' \in [Clients -> SUBSET Clients]
    BY <1>1 DEF LoopInv, Goto
  <2>2. Served' = Served /\ \A d \in Broadcasting' : d # c /\ d \in Broadcasting
    BY <2>1 DEF Served, Broadcasting
  <2>3. ASSUME NEW d \in Broadcasting'
        PROVE  connected' = Clients /\ used'[d] = 2 /\ target'[d] = Other(d) /\ todo'[d] = {}
    <3>1. d \in Clients
      BY DEF Broadcasting
    <3> QED
      BY <1>1, <2>1, <2>2, <3>1 DEF LoopInv
  <2>4. connected' = Served' /\ link' \in [Clients -> {"new", "open"}]
        /\ target' \in [Clients -> Clients]
    BY <1>1, <2>1, <2>2 DEF LoopInv
  <2> QED
    BY <1>1, <2>1, <2>3, <2>4 DEF LoopInv
<1>2. CASE /\ S = {Other(c)} /\ Goto(c, "write")
           /\ target' = [target EXCEPT ![c] = Other(c)]
           /\ todo' = [todo EXCEPT ![c] = {}]
  <2>1. /\ hpc'[c] = "write" /\ todo'[c] = {} /\ target'[c] = Other(c)
        /\ \A d \in Clients : d # c =>
             hpc'[d] = hpc[d] /\ todo'[d] = todo[d] /\ target'[d] = target[d]
        /\ hpc' \in [Clients -> {"none", "recv", "write", "drain"}]
        /\ todo' \in [Clients -> SUBSET Clients] /\ target' \in [Clients -> Clients]
    BY <1>2, TwoClients DEF LoopInv, Goto
  <2>2. Served' = Served /\ \A d \in Broadcasting' : d = c \/ d \in Broadcasting
    BY <2>1 DEF Served, Broadcasting
  <2>3. ASSUME NEW d \in Broadcasting'
        PROVE  connected' = Clients /\ used'[d] = 2 /\ target'[d] = Other(d) /\ todo'[d] = {}
    <3>1. d \in Clients
      BY DEF Broadcasting
    <3> QED
      BY <1>2, <2>1, <2>2, <3>1 DEF LoopInv
  <2>4. connected' = Served' /\ link' \in [Clients -> {"new", "open"}]
        /\ target' \in [Clients -> Clients]
    BY <1>2, <2>1, <2>2 DEF LoopInv
  <2> QED
    BY <1>2, <2>1, <2>3, <2>4 DEF LoopInv
<1>3. \A d \in S : d = Other(c) /\ S = {Other(c)} /\ S \ {d} = {}
  OBVIOUS
<1> QED
  BY <1>1, <1>2, <1>3 DEF Choose

\* A handler that runs comes in before anybody broadcasts, and does not fail.
LEMMA LoopStep ==
  ASSUME LoopInv, NEW c \in Clients, Handler(c)
  PROVE  /\ LoopInv' /\ UNCHANGED sent
         /\ ~Accept(c) => hpc[c] # "none"
         /\ \/ /\ hpc[c] # "write" /\ hpc'[c] # "write"
               /\ UNCHANGED <<inbox, taken>>
            \/ /\ hpc[c] = "recv" /\ UNCHANGED inbox
               /\ taken' = [taken EXCEPT ![c] = @ + 1]
            \/ /\ hpc[c] = "write" /\ hpc'[c] = "drain"
               /\ inbox' = [inbox EXCEPT ![Other(c)] = Append(@, <<c, taken[c]>>)]
               /\ UNCHANGED taken
         /\ \A d \in Clients : d # c => hpc'[d] = hpc[d]
<1>1. CASE Accept(c)
  <2>1. /\ hpc[c] = "none" /\ link[c] # "new" /\ connected' = connected \cup {c}
        /\ hpc' = [hpc EXCEPT ![c] = "recv"]
        /\ UNCHANGED <<link, sent, taken, inbox, target, used>>
    BY <1>1 DEF Accept, Goto
  <2>2. Broadcasting = {}
    BY <2>1 DEF LoopInv, Broadcasting, Served
  <2>3. todo' = todo
    BY <1>1, <2>2 DEF Accept, LoopInv
  <2>4. Broadcasting' = {} /\ Served' = Served \cup {c}
    BY <2>1, <2>2 DEF Broadcasting, Served, LoopInv
  <2>5. hpc' \in [Clients -> {"none", "recv", "write", "drain"}] /\ hpc'[c] = "recv"
        /\ \A d \in Clients : d # c => hpc'[d] = hpc[d]
    BY <2>1 DEF LoopInv
  <2>6. LoopInv'
    BY <2>1, <2>3, <2>4, <2>5 DEF LoopInv
  <2> QED
    BY <1>1, <2>1, <2>5, <2>6
<1>2. CASE Receive(c)
  <2>1. /\ hpc[c] = "recv" /\ taken' = [taken EXCEPT ![c] = @ + 1]
        /\ used' = [used EXCEPT ![c] = Cardinality(connected)]
        /\ Choose(c, Others(c, connected))
        /\ UNCHANGED <<link, sent, inbox, connected>>
    BY <1>2 DEF Receive
  <2>2. c \in connected /\ connected \in SUBSET Clients
    BY <2>1 DEF LoopInv, Served
  <2>3. /\ Others(c, connected) \in SUBSET {Other(c)}
        /\ Others(c, connected) # {} => connected = Clients
    BY <2>2, TwoClients DEF Others
  <2>4. Cardinality(connected) \in Nat /\ (connected = Clients => Cardinality(connected) = 2)
    BY <2>2, TwoClients, BroadcastAssumption, FS_Subset, FS_CardinalityType
  <2>5. /\ used' \in [Clients -> Nat] /\ used'[c] = Cardinality(connected)
        /\ \A d \in Clients : d # c => used'[d] = used[d]
    BY <2>1, <2>4 DEF LoopInv
  <2>6. LoopInv'
    BY <2>1, <2>3, <2>4, <2>5, NextTarget
  <2>7. \A d \in Clients : d # c => hpc'[d] = hpc[d]
    BY <2>1 DEF Choose, Goto, LoopInv
  <2> QED
    BY <1>2, <2>1, <2>6, <2>7
<1>3. CASE Write(c)
  <2>1. hpc[c] = "write" /\ target[c] = Other(c) /\ Other(c) \in Clients
    BY <1>3, TwoClients DEF Write, LoopInv, Broadcasting
  <2>2. link[Other(c)] # "closed"
    BY <2>1 DEF LoopInv
  <2>3. /\ inbox' = [inbox EXCEPT ![Other(c)] = Append(@, <<c, taken[c]>>)]
        /\ hpc' = [hpc EXCEPT ![c] = "drain"]
        /\ UNCHANGED <<link, sent, taken, connected, target, todo, used>>
    BY <1>3, <2>1, <2>2 DEF Write, Goto
  <2>4. /\ hpc' \in [Clients -> {"none", "recv", "write", "drain"}] /\ hpc'[c] = "drain"
        /\ \A d \in Clients : d # c => hpc'[d] = hpc[d]
    BY <2>3 DEF LoopInv
  <2>5. Served' = Served /\ Broadcasting' = Broadcasting
    BY <2>1, <2>4 DEF Served, Broadcasting
  <2>6. LoopInv'
    BY <2>3, <2>4, <2>5 DEF LoopInv
  <2> QED
    BY <1>3, <2>1, <2>3, <2>4, <2>6
<1>4. CASE Advance(c)
  <2>1. /\ hpc[c] = "drain" /\ c \in Broadcasting
    BY <1>4 DEF Advance, Broadcasting
  <2>2. used[c] = 2 /\ connected = Clients /\ todo[c] = {}
    BY <2>1 DEF LoopInv
  <2>3. ~Resized(c) /\ Others(c, todo[c] \cap connected) = {}
    BY <2>2, TwoClients DEF Resized, Others
  <2>4. /\ Choose(c, {})
        /\ UNCHANGED <<link, sent, taken, inbox, connected, used>>
    BY <1>4, <2>3 DEF Advance
  <2>5. LoopInv' /\ hpc'[c] # "write"
    <3>1. used' \in [Clients -> Nat] /\ \A d \in Clients : d # c => used'[d] = used[d]
      BY <2>4 DEF LoopInv
    <3> QED
      BY <2>1, <2>4, <3>1, NextTarget
  <2>6. \A d \in Clients : d # c => hpc'[d] = hpc[d]
    BY <2>4 DEF Choose, Goto, LoopInv
  <2> QED
    BY <1>4, <2>1, <2>4, <2>5, <2>6
<1>5. ~Leave(c)
  BY DEF Leave, LoopInv
<1> QED
  BY <1>1, <1>2, <1>3, <1>4, <1>5 DEF Handler

LEMMA TurnStep ==
  ASSUME LoopInv, TurnInv, [PingPongNext]_allvars
  PROVE  LoopInv' /\ TurnInv'
<1> USE DEF vars, server, allvars
<1>1. ASSUME NEW c \in Clients, Start(c) PROVE LoopInv' /\ TurnInv'
  <2>1. link' \in [Clients -> {"new", "open"}]
        /\ UNCHANGED <<sent, taken, inbox, connected, hpc, target, todo, used, read>>
    BY <1>1 DEF Start, Connect, LoopInv
  <2> QED
    BY <2>1 DEF LoopInv, Served, Broadcasting, TurnInv
<1>2. ASSUME NEW c \in Clients, Send(c) PROVE LoopInv' /\ TurnInv'
  <2>1. /\ sent' = [sent EXCEPT ![c] = @ + 1] /\ Due(c)
        /\ UNCHANGED <<link, taken, inbox, connected, hpc, target, todo, used, read>>
    BY <1>2 DEF Send, Say
  <2>2. sent[c] \in Nat /\ read[c] \in Nat
    BY DEF TurnInv
  <2>3. sent[c] + 1 <= read[c] + (IF c = client1 THEN 1 ELSE 0)
    BY <2>1, <2>2 DEF Due
  <2>4. TurnInv'
    BY <2>1, <2>2, <2>3 DEF TurnInv
  <2> QED
    BY <2>1, <2>4 DEF LoopInv, Served, Broadcasting
<1>3. ASSUME NEW c \in Clients, Recv(c) PROVE LoopInv' /\ TurnInv'
  <2>1. read' = [read EXCEPT ![c] = @ + 1] /\ UNCHANGED vars
    BY <1>3 DEF Recv
  <2>2. LoopInv'
    BY <2>1 DEF LoopInv, Served, Broadcasting
  <2>3. read' \in [Clients -> Nat] /\ \A d \in Clients : read[d] \in Nat /\ read[d] <= read'[d]
    BY <2>1 DEF TurnInv
  <2>4. \A d \in Clients : sent[d] \in Nat /\ sent'[d] <= read'[d] + (IF d = client1 THEN 1 ELSE 0)
    BY <2>1, <2>3 DEF TurnInv
  <2> QED
    BY <2>1, <2>2, <2>3, <2>4 DEF TurnInv
<1>4. ASSUME NEW c \in Clients, Serve(c) PROVE LoopInv' /\ TurnInv'
  <2>0. /\ Handler(c) /\ read' = read
        /\ Other(c) \in Clients /\ Other(c) # c
    BY <1>4, TwoClients DEF Serve
  <2>1. LoopInv' /\ sent' = sent /\ \A d \in Clients : d # c => hpc'[d] = hpc[d]
    BY <2>0, LoopStep
  <2>2. /\ inbox' \in [Clients -> Seq(Clients \X Nat)] /\ taken' \in [Clients -> Nat]
        /\ \A d \in Clients : d # c => taken'[d] = taken[d]
        /\ \A d \in Clients : d # Other(c) => Len(inbox'[d]) = Len(inbox[d])
        /\ Len(inbox'[Other(c)]) + Flag(hpc'[c] = "write") <= taken'[c]
    <3>0. /\ taken[c] \in Nat /\ Len(inbox[Other(c)]) \in Nat
          /\ inbox[Other(c)] \in Seq(Clients \X Nat)
          /\ Len(inbox[Other(c)]) + Flag(hpc[c] = "write") <= taken[c]
      BY <2>0 DEF TurnInv
    <3>1. CASE hpc[c] # "write" /\ hpc'[c] # "write" /\ UNCHANGED <<inbox, taken>>
      BY <3>0, <3>1 DEF TurnInv, Flag
    <3>2. CASE hpc[c] = "recv" /\ UNCHANGED inbox /\ taken' = [taken EXCEPT ![c] = @ + 1]
      <4>1. /\ taken'[c] = taken[c] + 1 /\ taken' \in [Clients -> Nat]
            /\ \A d \in Clients : d # c => taken'[d] = taken[d]
        BY <3>2 DEF TurnInv
      <4>2. Flag(hpc[c] = "write") = 0 /\ Flag(hpc'[c] = "write") \in 0..1
        BY <3>2 DEF Flag
      <4>3. Len(inbox'[Other(c)]) + Flag(hpc'[c] = "write") <= taken'[c]
        BY <3>0, <3>2, <4>1, <4>2
      <4> QED
        BY <3>2, <4>1, <4>3 DEF TurnInv
    <3>3. CASE /\ hpc[c] = "write" /\ hpc'[c] = "drain" /\ UNCHANGED taken
               /\ inbox' = [inbox EXCEPT ![Other(c)] = Append(@, <<c, taken[c]>>)]
      <4>1. Append(inbox[Other(c)], <<c, taken[c]>>) \in Seq(Clients \X Nat)
        BY <3>0
      <4>2. /\ inbox' \in [Clients -> Seq(Clients \X Nat)]
            /\ inbox'[Other(c)] = Append(inbox[Other(c)], <<c, taken[c]>>)
            /\ \A d \in Clients : d # Other(c) => inbox'[d] = inbox[d]
        BY <2>0, <3>3, <4>1 DEF TurnInv
      <4>3. Len(inbox'[Other(c)]) = Len(inbox[Other(c)]) + 1
        BY <3>0, <4>2
      <4>4. Flag(hpc[c] = "write") = 1 /\ Flag(hpc'[c] = "write") = 0
        BY <3>3 DEF Flag
      <4>5. Len(inbox'[Other(c)]) + Flag(hpc'[c] = "write") <= taken'[c]
        BY <3>0, <3>3, <4>3, <4>4
      <4> QED
        BY <3>3, <4>2, <4>5 DEF TurnInv
    <3> QED
      BY <2>0, <3>1, <3>2, <3>3, LoopStep
  <2>3. ASSUME NEW d \in Clients
        PROVE  Len(inbox'[Other(d)]) + Flag(hpc'[d] = "write") <= taken'[d]
    <3>1. CASE d = c
      BY <2>2, <3>1
    <3>2. CASE d # c
      <4>1. Other(d) # Other(c) /\ Other(d) \in Clients
        BY <3>2, TwoClients
      <4>2. Len(inbox[Other(d)]) + Flag(hpc[d] = "write") <= taken[d]
        BY DEF TurnInv
      <4> QED
        BY <2>1, <2>2, <3>2, <4>1, <4>2
    <3> QED
      BY <3>1, <3>2
  <2> QED
    BY <2>0, <2>1, <2>2, <2>3 DEF TurnInv
<1>5. CASE UNCHANGED allvars
  BY <1>5 DEF LoopInv, Served, Broadcasting, TurnInv
<1> QED
  BY <1>1, <1>2, <1>3, <1>4, <1>5 DEF PingPongNext

\* However the handlers of the two clients alternate, one message at most is on its
\* way: a client sends when it has read the answer to its last message, and the
\* handler of the other client passes on each message once.
THEOREM OneAtATime == PingPongSpec => []OneMessage
<1>1. TurnInv => OneMessage
  <2> SUFFICES ASSUME TurnInv PROVE OneMessage
    OBVIOUS
  <2>1. client1 \in Clients /\ client2 \in Clients /\ client1 # client2
        /\ Other(client1) = client2 /\ Other(client2) = client1
    BY TwoClients DEF Other
  <2>2. /\ sent[client1] \in Nat /\ taken[client1] \in Nat /\ read[client1] \in Nat
        /\ sent[client2] \in Nat /\ taken[client2] \in Nat /\ read[client2] \in Nat
        /\ Len(inbox[client1]) \in Nat /\ Len(inbox[client2]) \in Nat
    BY <2>1 DEF TurnInv
  <2>3. /\ sent[client1] <= read[client1] + 1 /\ sent[client2] <= read[client2]
        /\ Len(inbox[client2]) + Flag(hpc[client1] = "write") <= taken[client1]
        /\ Len(inbox[client1]) + Flag(hpc[client2] = "write") <= taken[client2]
    BY <2>1, <2>2 DEF TurnInv
  <2>4. PICK f1 \in Nat, f2 \in Nat, l1 \in Nat, l2 \in Nat :
          /\ f1 = Flag(hpc[client1] = "write") /\ f2 = Flag(hpc[client2] = "write")
          /\ l1 = Len(inbox[client1]) /\ l2 = Len(inbox[client2])
    BY <2>2 DEF Flag
  <2>5. l2 + f1 <= taken[client1] /\ l1 + f2 <= taken[client2]
    BY <2>3, <2>4
  <2>6. PICK s1 \in Nat, t1 \in Nat, r1 \in Nat, s2 \in Nat, t2 \in Nat, r2 \in Nat :
          /\ s1 = sent[client1] /\ t1 = taken[client1] /\ r1 = read[client1]
          /\ s2 = sent[client2] /\ t2 = taken[client2] /\ r2 = read[client2]
    BY <2>2
  <2>7. s1 <= r1 + 1 /\ s2 <= r2 /\ l2 + f1 <= t1 /\ l1 + f2 <= t2
    BY <2>3, <2>5, <2>6
  <2>8. (s1 - t1 + f1 + l1 - r1) + (s2 - t2 + f2 + l2 - r2) <= 1
    BY <2>7
  <2> QED
    BY <2>4, <2>6, <2>8 DEF OneMessage
<1> QED
  BY <1>1, PingPongStart, TurnStep, PTL DEF PingPongSpec

-----------------------------------------------------------------------------
(* ProfilerServer: with the types, the places each kind of request can be at *)
(* and the owner of the mutex, its properties are an inductive invariant.    *)

USE ProfilerAssumption DEF Own, External, Requests, Engines

\* A request is only where its own handler goes, and the engines are functions.
Places ==
  /\ engine \in [Engines -> Own \cup External \cup {Nobody}]
  /\ \A r \in MemRequests : pc[r] \in {"idle", "lock", "test", "heap"}
  /\ \A r \in External : pc[r] \in {"idle", "start", "sleep"}
  /\ \A r \in Own : pc[r] # "heap"

Types == TypeOK /\ Places

\* Who is between Lock and Unlock has the mutex, and nobody sets the flag behind
\* the back of a handler that has found it clear.
MutexInv ==
  /\ \A r \in Requests : pc[r] \in {"test", "set", "clear"} <=> profilingMu = r
  /\ \A r \in Requests : pc[r] = "set" => ~profiling

PInv == Types /\ MutexInv /\ FlagHasOneHolder /\ OwnProfile

\* An engine is the CPU profiler or the tracer, and serves one kind of request.
LEMMA EngineIsEngine ==
  \A r \in Requests : Engine(r) \in Engines
BY DEF Engine

LEMMA InitPInv == ProfilerInit => PInv
<1> SUFFICES ASSUME ProfilerInit PROVE PInv
  OBVIOUS
<1>1. Types
  BY DEF ProfilerInit, Types, TypeOK, Places
<1>2. FlagHasOneHolder
  BY DEF ProfilerInit, FlagHasOneHolder, Holders
<1>3. OwnProfile
  BY EngineIsEngine DEF ProfilerInit, OwnProfile
<1>4. MutexInv
  BY DEF ProfilerInit, MutexInv
<1> QED
  BY <1>1, <1>2, <1>3, <1>4 DEF PInv

\* A step changes the place of one request, the flag only through Claim and Clear
\* under the mutex, and an engine only through Start and Stop.
LEMMA TypesStep == Types /\ [ProfilerNext]_ProfilerVars => Types'
<1> SUFFICES ASSUME Types, [ProfilerNext]_ProfilerVars PROVE Types'
  OBVIOUS
<1> USE DEF Types, TypeOK, Places, MoveTo
<1>1. ASSUME NEW r \in Requests, Arrive(r) PROVE Types'
  BY <1>1 DEF Arrive
<1>2. ASSUME NEW r \in Requests, Acquire(r) \/ Test(r) \/ Claim(r) PROVE Types'
  <2>1. CASE Acquire(r)
    BY <1>2, <2>1 DEF Acquire, Lock
  <2>2. CASE Test(r)
    BY <1>2, <2>2 DEF Test, Unlock
  <2>3. CASE Claim(r)
    BY <1>2, <2>3 DEF Claim, Unlock
  <2> QED
    BY <1>2, <2>1, <2>2, <2>3
<1>3. ASSUME NEW r \in Requests, Look(r) PROVE Types'
  BY <1>3 DEF Look, Unlock
<1>4. ASSUME NEW r \in Requests, WriteHeapProfile(r) PROVE Types'
  BY <1>4 DEF WriteHeapProfile
<1>5. ASSUME NEW r \in Requests, StartProfile(r) PROVE Types'
  <2>1. r \in Own \cup External
    BY <1>5 DEF StartProfile
  <2>2. CASE engine[Engine(r)] = Nobody
    <3>1. engine' = [engine EXCEPT ![Engine(r)] = r] /\ pc' = [pc EXCEPT ![r] = "sleep"]
          /\ profiling' = profiling /\ profilingMu' = profilingMu
      BY <1>5, <2>2 DEF StartProfile
    <3>2. TypeOK'
      BY <2>1, <3>1 DEF Engine
    <3>3. Places'
      BY <2>1, <3>1, EngineIsEngine
    <3> QED
      BY <3>2, <3>3
  <2>3. CASE engine[Engine(r)] # Nobody
    BY <1>5, <2>1, <2>3 DEF StartProfile, Fail
  <2> QED
    BY <2>2, <2>3
<1>6. ASSUME NEW r \in Requests, StopProfile(r) PROVE Types'
  <2>1. r \in Own \cup External
    BY <1>6 DEF StopProfile
  <2>2. engine' = [engine EXCEPT ![Engine(r)] = Nobody] /\ profiling' = profiling
        /\ profilingMu' = profilingMu
        /\ pc' = [pc EXCEPT ![r] = IF r \in Own THEN "defer" ELSE "idle"]
    BY <1>6 DEF StopProfile
  <2>3. TypeOK'
    BY <2>1, <2>2 DEF Engine
  <2>4. Places'
    BY <2>1, <2>2, EngineIsEngine
  <2> QED
    BY <2>3, <2>4
<1>7. ASSUME NEW r \in Requests, Clear(r) PROVE Types'
  BY <1>7 DEF Clear, Unlock
<1>8. CASE UNCHANGED ProfilerVars
  BY <1>8 DEF ProfilerVars
<1> QED
  BY <1>1, <1>2, <1>3, <1>4, <1>5, <1>6, <1>7, <1>8 DEF ProfilerNext, Respond

LEMMA MutexStep == Types /\ MutexInv /\ [ProfilerNext]_ProfilerVars => MutexInv'
<1> SUFFICES ASSUME Types, MutexInv, [ProfilerNext]_ProfilerVars PROVE MutexInv'
  OBVIOUS
<1> USE DEF Types, TypeOK, Places, MoveTo
<1>1. ASSUME NEW r \in Requests, Acquire(r) PROVE MutexInv'
  BY <1>1 DEF Acquire, Lock, MutexInv
<1>2. ASSUME NEW r \in Requests, Test(r) PROVE MutexInv'
  BY <1>2 DEF Test, Refused, Unlock, MutexInv
<1>3. ASSUME NEW r \in Requests, Claim(r) \/ Look(r) \/ Clear(r) PROVE MutexInv'
  <2>1. /\ pc[r] \in {"set", "test", "clear"} /\ profilingMu' = Nobody
        /\ pc'[r] \notin {"set", "test", "clear"}
        /\ \A q \in Requests \ {r} : pc'[q] = pc[q]
    BY <1>3 DEF Claim, Look, Clear, Unlock
  <2>2. \A q \in Requests \ {r} : pc[q] \notin {"set", "test", "clear"}
    BY <2>1 DEF MutexInv
  <2> QED
    BY <2>1, <2>2 DEF MutexInv
<1>4. ASSUME NEW r \in Requests,
             Arrive(r) \/ WriteHeapProfile(r) \/ StartProfile(r) \/ StopProfile(r)
      PROVE  MutexInv'
  <2>1. /\ profilingMu' = profilingMu /\ profiling' = profiling
        /\ pc[r] \notin {"set", "test", "clear"} /\ pc'[r] \notin {"set", "test", "clear"}
        /\ \A q \in Requests \ {r} : pc'[q] = pc[q]
    BY <1>4 DEF Arrive, WriteHeapProfile, StartProfile, StopProfile, Fail
  <2> QED
    BY <2>1 DEF MutexInv
<1>5. CASE UNCHANGED ProfilerVars
  BY <1>5 DEF ProfilerVars, MutexInv
<1> QED
  BY <1>1, <1>2, <1>3, <1>4, <1>5 DEF ProfilerNext, Respond

\* Only a handler that finds the flag clear becomes a holder, and only a holder
\* clears the flag, at the moment it ceases to be one.
LEMMA FlagStep ==
  Types /\ MutexInv /\ FlagHasOneHolder /\ [ProfilerNext]_ProfilerVars => FlagHasOneHolder'
<1> SUFFICES ASSUME Types, MutexInv, FlagHasOneHolder, [ProfilerNext]_ProfilerVars
             PROVE  FlagHasOneHolder'
  OBVIOUS
<1> USE DEF Types, TypeOK, Places, MoveTo
<1>1. ASSUME profiling' = profiling, Holders' = Holders PROVE FlagHasOneHolder'
  BY <1>1 DEF FlagHasOneHolder
<1>2. ASSUME NEW r \in Requests,
             Arrive(r) \/ Look(r) \/ WriteHeapProfile(r) \/ StartProfile(r) \/ StopProfile(r)
             \/ Acquire(r) \/ Test(r)
      PROVE  FlagHasOneHolder'
  <2>1. profiling' = profiling
    BY <1>2 DEF Arrive, Look, WriteHeapProfile, StartProfile, StopProfile, Acquire, Test
  <2>2. CASE Arrive(r)
    <3> Holders' = Holders
      BY <2>2 DEF Arrive, Holders
    <3> QED
      BY <1>1, <2>1
  <2>3. CASE Look(r) \/ WriteHeapProfile(r)
    <3> Holders' = Holders
      BY <2>3 DEF Look, WriteHeapProfile, Holders
    <3> QED
      BY <1>1, <2>1
  <2>4. CASE StartProfile(r)
    <3>1. pc' = [pc EXCEPT ![r] = "sleep"] \/ pc' = [pc EXCEPT ![r] = Fail(r)]
      BY <2>4 DEF StartProfile
    <3>2. Holders' = Holders
      BY <2>4, <3>1 DEF StartProfile, Holders, Fail
    <3> QED
      BY <1>1, <2>1, <3>2
  <2>5. CASE StopProfile(r)
    <3> Holders' = Holders
      BY <2>5 DEF StopProfile, Holders
    <3> QED
      BY <1>1, <2>1
  <2>6. CASE Acquire(r)
    <3> Holders' = Holders
      BY <2>6 DEF Acquire, Holders
    <3> QED
      BY <1>1, <2>1
  <2>7. CASE Test(r)
    <3> Holders' = Holders
      BY <2>7 DEF Test, Holders
    <3> QED
      BY <1>1, <2>1
  <2> QED
    BY <1>2, <2>2, <2>3, <2>4, <2>5, <2>6, <2>7
<1>3. ASSUME NEW r \in Requests, Claim(r) PROVE FlagHasOneHolder'
  <2>1. /\ r \in Own /\ ~profiling
        /\ profiling' = TRUE /\ pc' = [pc EXCEPT ![r] = "start"]
    BY <1>3 DEF Claim, MutexInv
  <2>2. Holders = {}
    BY <2>1 DEF FlagHasOneHolder
  <2>3. Holders' = {r}
    BY <2>1, <2>2 DEF Holders
  <2> QED
    BY <2>1, <2>3 DEF FlagHasOneHolder
<1>4. ASSUME NEW r \in Requests, Clear(r) PROVE FlagHasOneHolder'
  <2>1. r \in Holders
    BY <1>4 DEF Clear, Holders
  <2>2. profiling' = FALSE /\ pc' = [pc EXCEPT ![r] = "idle"]
    BY <1>4 DEF Clear
  <2>3. Holders' = Holders \ {r}
    BY <2>2 DEF Holders
  <2> QED
    BY <2>1, <2>2, <2>3 DEF FlagHasOneHolder
<1>5. CASE UNCHANGED ProfilerVars
  <2> Holders' = Holders /\ profiling' = profiling
    BY <1>5 DEF ProfilerVars, Holders
  <2> QED
    BY <1>1
<1> QED
  BY <1>2, <1>3, <1>4, <1>5 DEF ProfilerNext, Respond

\* An engine changes hands only through a start that finds it free and the stop
\* of the request that has it.
LEMMA OwnProfileStep == Types /\ OwnProfile /\ [ProfilerNext]_ProfilerVars => OwnProfile'
<1> SUFFICES ASSUME Types, OwnProfile, [ProfilerNext]_ProfilerVars,
                    NEW s \in Own \cup External
             PROVE  (pc[s] = "sleep" <=> engine[Engine(s)] = s)'
  BY DEF OwnProfile
<1> USE DEF Types, TypeOK, Places, MoveTo
<1>0. /\ s \in Requests /\ s # Nobody /\ Engine(s) \in Engines /\ Engine(s)' = Engine(s)
      /\ pc[s] = "sleep" <=> engine[Engine(s)] = s
  BY EngineIsEngine DEF OwnProfile, Engine
<1>1. ASSUME NEW r \in Requests,
             Arrive(r) \/ Acquire(r) \/ Test(r) \/ Claim(r) \/ Look(r) \/ WriteHeapProfile(r)
             \/ Clear(r)
      PROVE  (pc[s] = "sleep" <=> engine[Engine(s)] = s)'
  <2>1. engine' = engine /\ (pc'[s] = "sleep" <=> pc[s] = "sleep")
    BY <1>0, <1>1 DEF Arrive, Acquire, Test, Claim, Look, WriteHeapProfile, Clear
  <2> QED
    BY <1>0, <2>1
<1>2. ASSUME NEW r \in Requests, StartProfile(r)
      PROVE  (pc[s] = "sleep" <=> engine[Engine(s)] = s)'
  <2>1. Engine(r) \in Engines
    BY EngineIsEngine
  <2>2. CASE engine[Engine(r)] = Nobody
    <3>1. engine' = [engine EXCEPT ![Engine(r)] = r] /\ pc' = [pc EXCEPT ![r] = "sleep"]
      BY <1>2, <2>2 DEF StartProfile
    <3>2. CASE s = r
      BY <1>0, <2>1, <3>1, <3>2
    <3>3. CASE s # r
      <4>1. pc'[s] = pc[s]
        BY <1>0, <3>1, <3>3
      <4>2. engine'[Engine(s)] = s <=> engine[Engine(s)] = s
        BY <1>0, <2>1, <2>2, <3>1, <3>3
      <4> QED
        BY <1>0, <4>1, <4>2
    <3> QED
      BY <3>2, <3>3
  <2>3. CASE engine[Engine(r)] # Nobody
    <3>1. engine' = engine /\ pc' = [pc EXCEPT ![r] = Fail(r)] /\ pc[r] = "start"
      BY <1>2, <2>3 DEF StartProfile
    <3>2. pc'[s] = "sleep" <=> pc[s] = "sleep"
      BY <1>0, <3>1 DEF Fail
    <3> QED
      BY <1>0, <3>1, <3>2
  <2> QED
    BY <2>2, <2>3
<1>3. ASSUME NEW r \in Requests, StopProfile(r)
      PROVE  (pc[s] = "sleep" <=> engine[Engine(s)] = s)'
  <2>1. r \in Own \cup External /\ Engine(r) \in Engines
    BY <1>3, EngineIsEngine DEF StopProfile
  <2>2. engine' = [engine EXCEPT ![Engine(r)] = Nobody] /\ pc[r] = "sleep"
        /\ pc' = [pc EXCEPT ![r] = IF r \in Own THEN "defer" ELSE "idle"]
    BY <1>3 DEF StopProfile
  <2>3. engine[Engine(r)] = r
    BY <2>1, <2>2 DEF OwnProfile
  <2>4. CASE s = r
    BY <1>0, <2>1, <2>2, <2>4
  <2>5. CASE s # r
    <3>1. pc'[s] = pc[s]
      BY <1>0, <2>2, <2>5
    <3>2. engine'[Engine(s)] = s <=> engine[Engine(s)] = s
      BY <1>0, <2>1, <2>2, <2>3, <2>5
    <3> QED
      BY <1>0, <3>1, <3>2
  <2> QED
    BY <2>4, <2>5
<1>4. CASE UNCHANGED ProfilerVars
  BY <1>0, <1>4 DEF ProfilerVars
<1> QED
  BY <1>1, <1>2, <1>3, <1>4 DEF ProfilerNext, Respond

LEMMA PInvInvariant == ProfilerSpec => []PInv
<1>1. PInv /\ [ProfilerNext]_ProfilerVars => PInv'
  BY TypesStep, MutexStep, FlagStep, OwnProfileStep DEF PInv
<1> QED
  BY InitPInv, <1>1, PTL DEF ProfilerSpec

-----------------------------------------------------------------------------
\* handleCPUProfile and handleTrace: the flag is set exactly while one handler
\* is between its claim and its deferred function.
THEOREM FlagCorrect == ProfilerSpec => []FlagHasOneHolder
<1>1. PInv => FlagHasOneHolder
  BY DEF PInv
<1> QED
  BY PInvInvariant, <1>1, PTL

\* A profile is stopped by the handler that started it, whatever net/http/pprof
\* does with the same profiler.
THEOREM ProfilesAreOwn == ProfilerSpec => []OwnProfile
<1>1. PInv => OwnProfile
  BY DEF PInv
<1> QED
  BY PInvInvariant, <1>1, PTL

\* A handler that holds the flag finds its profiler free or taken by
\* net/http/pprof: one of the two handlers never makes the other fail.
THEOREM HandlersDoNotCollide == ProfilerSpec => []OnlyPprofInterferes
<1>1. PInv => OnlyPprofInterferes
  <2> SUFFICES ASSUME PInv, NEW r \in Own, pc[r] = "start",
                      engine[Engine(r)] \notin External \cup {Nobody}
               PROVE  FALSE
    BY DEF OnlyPprofInterferes
  <2> DEFINE h == engine[Engine(r)]
  <2>1. h \in Own
    BY EngineIsEngine DEF PInv, Types, Places
  <2>2. Engine(h) = Engine(r)
    BY <2>1 DEF PInv, Types, TypeOK, Engine
  <2>3. pc[h] = "sleep"
    BY <2>1, <2>2 DEF PInv, OwnProfile
  <2>4. h \in Holders /\ r \in Holders
    BY <2>1, <2>3 DEF Holders
  <2> QED
    BY <2>3, <2>4 DEF PInv, FlagHasOneHolder
<1> QED
  BY PInvInvariant, <1>1, PTL
=============================================================================
