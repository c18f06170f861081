--------------------------- MODULE ExhaustiveTest ---------------------------
(***************************************************************************)
(* run_ipv4_serialize_tests of 2026/07/15/tests/unit.cpp: threads compare  *)
(* two conversions of every value of a range, stop early once one of them  *)
(* has found a difference, and report one difference among them.           *)
(*                                                                         *)
(* The two flags are accessed with relaxed ordering: a thread that loads   *)
(* all_ok may still see TRUE after another one has stored FALSE.           *)
(***************************************************************************)
EXTENDS ForkJoin, Sequences

CONSTANT Total    \* total, 2^32 in the source

ASSUME ExhaustiveTestAssumption == Total \in Nat

VARIABLES
  wrong,             \* the values whose conversions differ; it does not change
  all_ok, error_reported,
  reports,           \* the values printed, in that order
  result             \* what the test returned

TestVars == <<main, tpc, i, wrong, all_ok, error_reported, reports, result>>

Values == 0..(Total - 1)

chunk          == Total \div NumThreads
chunk_start(u) == u * chunk
chunk_end(u)   == IF u + 1 = NumThreads THEN Total ELSE (u + 1) * chunk

\* Mutant: each thread reports what it found.
AlwaysFirst == TRUE

\* error_reported.exchange(true) returns false.
First == ~error_reported

TestInit ==
  /\ NotStarted
  /\ wrong \in SUBSET Values
  /\ i = [u \in Threads |-> chunk_start(u)]
  /\ all_ok = TRUE /\ error_reported = FALSE
  /\ reports = <<>>
  /\ result = TRUE

-----------------------------------------------------------------------------
LaunchTest ==
  /\ LaunchAt("loop")
  /\ UNCHANGED <<wrong, all_ok, error_reported, reports, result>>

Move(u, label) == tpc' = [tpc EXCEPT ![u] = label]

\* The load of all_ok returned TRUE, up to date or not: compare one value.
Compare(u) ==
  /\ tpc[u] = "loop"
  /\ i[u] < chunk_end(u)
  /\ IF i[u] \in wrong
     THEN Move(u, "fail") /\ UNCHANGED i
     ELSE i' = [i EXCEPT ![u] = @ + 1] /\ UNCHANGED tpc
  /\ UNCHANGED <<main, wrong, all_ok, error_reported, reports, result>>

Exit(u) ==
  /\ tpc[u] = "loop"
  /\ i[u] >= chunk_end(u) \/ ~all_ok
  /\ Move(u, "exited")
  /\ UNCHANGED <<main, i, wrong, all_ok, error_reported, reports, result>>

StoreFalse(u) ==
  /\ tpc[u] = "fail"
  /\ all_ok' = FALSE
  /\ Move(u, "exchange")
  /\ UNCHANGED <<main, i, wrong, error_reported, reports, result>>

Exchange(u) ==
  /\ tpc[u] = "exchange"
  /\ error_reported' = TRUE
  /\ Move(u, IF First THEN "print" ELSE "exited")
  /\ UNCHANGED <<main, i, wrong, all_ok, reports, result>>

PrintFailure(u) ==
  /\ tpc[u] = "print"
  /\ reports' = Append(reports, i[u])
  /\ Move(u, "exited")
  /\ UNCHANGED <<main, i, wrong, all_ok, error_reported, result>>

JoinTest ==
  /\ JoinThread
  /\ UNCHANGED <<wrong, all_ok, error_reported, reports, result>>

\* Return what all_ok says.
ReturnVerdict ==
  /\ AfterJoin
  /\ result' = all_ok
  /\ UNCHANGED <<wrong, all_ok, error_reported, reports>>

TestDone == mpc = "done" /\ UNCHANGED TestVars

Worker(u) == Compare(u) \/ Exit(u) \/ StoreFalse(u) \/ Exchange(u) \/ PrintFailure(u)

TestNext ==
  \/ LaunchTest \/ JoinTest \/ ReturnVerdict \/ TestDone
  \/ \E u \in Threads : Worker(u)

TestSpec == TestInit /\ [][TestNext]_TestVars

-----------------------------------------------------------------------------
(* Properties. *)

\* The test passes exactly when every value converts alike: a thread that stops
\* early, on a fresh or a stale flag, never hides a difference, and no value is
\* left out of the chunks.
VerdictIsRight == mpc = "done" => (result <=> wrong = {})

\* A failing test reports one difference, a true one, however many threads found
\* one at the same time; a test that passes reports none.
OneReport ==
  /\ Len(reports) <= 1
  /\ \A k \in DOMAIN reports : reports[k] \in wrong
  /\ mpc = "done" => (reports = <<>> <=> wrong = {})

-----------------------------------------------------------------------------
(* The inductive invariant behind VerdictIsRight. *)

\* A thread that is out of its loop has tested its chunk, or all_ok is FALSE, as
\* it is as soon as one thread has announced a difference it found.
ChunkInv ==
  /\ tpc \in [Threads -> {"unborn", "loop", "fail", "exchange", "print", "exited"}]
  /\ i \in [Threads -> Int]
  /\ \A u \in Threads :
       /\ chunk_start(u) <= i[u]
       /\ \A v \in chunk_start(u)..(i[u] - 1) : v \notin wrong
       /\ tpc[u] \in {"fail", "exchange", "print"} => i[u] \in wrong
       /\ tpc[u] \in {"exchange", "print"} => ~all_ok
       /\ tpc[u] = "exited" => i[u] >= chunk_end(u) \/ ~all_ok
  /\ all_ok \in BOOLEAN
  /\ ~all_ok => wrong # {}

TestInv ==
  /\ ChunkInv
  /\ JoinInv
  /\ wrong \subseteq Values
  /\ mpc = "done" => result = all_ok

\* What OneReport needs besides: the exchange lets one thread through to print,
\* and after it has printed nobody; whoever cleared all_ok gets to the exchange.
Printing(u) == tpc[u] = "print"

ReportInv ==
  /\ error_reported \in BOOLEAN
  /\ ~error_reported => reports = <<>> /\ \A u \in Threads : ~Printing(u)
  /\ error_reported =>
       \/ /\ reports = <<>>
          /\ \E u \in Threads : \A v \in Threads : Printing(v) <=> v = u
       \/ /\ \E w \in wrong : reports = <<w>>
          /\ \A u \in Threads : ~Printing(u)
  /\ ~all_ok => error_reported \/ \E u \in Threads : tpc[u] = "exchange"
=============================================================================
