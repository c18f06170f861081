---------------------------- MODULE ParallelOpen ----------------------------
(***************************************************************************)
(* measure_time of 2025/03/01/open.cpp: the main thread splits the files   *)
(* 1..TotalFiles into one range per thread, each thread opens the files of *)
(* its range and adds what it counted to the atomic success_count, and the *)
(* main thread joins them all and compares the count with the total.       *)
(***************************************************************************)
EXTENDS ForkJoin, FiniteSets

CONSTANT TotalFiles    \* total_files: 10000 in the source

ASSUME ParallelOpenAssumption == TotalFiles \in Nat

Files == 1..TotalFiles

files_per_thread == TotalFiles \div NumThreads
start(u) == u * files_per_thread + 1
\* Mutant: the last thread stops at the end of a range of the common size.
EndWithoutRest(u) == start(u) + files_per_thread - 1

end(u)   == IF u = NumThreads - 1 THEN TotalFiles
            ELSE start(u) + files_per_thread - 1

VARIABLES
  success,       \* the local of open_files_range in each thread; its i is in ForkJoin
  success_count,
  warned,        \* measure_time printed its warning
  failed,        \* the files reported on cerr as impossible to open
  attempts       \* history: how many times each file was tried

OpenVars == <<main, tpc, i, success, success_count, warned, failed, attempts>>

OpenInit ==
  /\ NotStarted
  /\ i = [u \in Threads |-> start(u)]
  /\ success = [u \in Threads |-> 0]
  /\ success_count = 0
  /\ warned = FALSE
  /\ failed = {}
  /\ attempts = [f \in Files |-> 0]

-----------------------------------------------------------------------------
LaunchOpen ==
  /\ LaunchAt("open")
  /\ UNCHANGED <<success, success_count, warned, failed, attempts>>

\* One iteration of open_files_range: the file opens or it does not.
OpenFile(u) ==
  /\ tpc[u] = "open"
  /\ i[u] <= end(u)
  /\ attempts' = [attempts EXCEPT ![i[u]] = @ + 1]
  /\ \/ /\ success' = [success EXCEPT ![u] = @ + 1]
        /\ UNCHANGED failed
     \/ /\ failed' = failed \cup {i[u]}
        /\ UNCHANGED success
  /\ i' = [i EXCEPT ![u] = @ + 1]
  /\ UNCHANGED <<main, tpc, success_count, warned>>

AddSuccess(u) ==
  /\ tpc[u] = "open"
  /\ i[u] > end(u)
  /\ success_count' = success_count + success[u]
  /\ tpc' = [tpc EXCEPT ![u] = "exited"]
  /\ UNCHANGED <<main, i, success, warned, failed, attempts>>

JoinOpen ==
  /\ JoinThread
  /\ UNCHANGED <<success, success_count, warned, failed, attempts>>

\* Compare the count with the total.
Verify ==
  /\ AfterJoin
  /\ warned' = (success_count # TotalFiles)
  /\ UNCHANGED <<success, success_count, failed, attempts>>

OpenDone == mpc = "done" /\ UNCHANGED OpenVars

OpenNext ==
  \/ LaunchOpen \/ JoinOpen \/ Verify \/ OpenDone
  \/ \E u \in Threads : OpenFile(u) \/ AddSuccess(u)

OpenSpec == OpenInit /\ [][OpenNext]_OpenVars

-----------------------------------------------------------------------------
(* Properties. *)

\* No file is tried twice, by one thread or by two, and when measure_time
\* returns none was left out, whatever the number of threads and the remainder
\* of the division.
EachFileOnce ==
  /\ \A f \in Files : attempts[f] <= 1
  /\ mpc = "done" => \A f \in Files : attempts[f] = 1

\* The warning is printed exactly when some thread reported a failure.
WarningIsExact == mpc = "done" => (warned <=> failed # {})

-----------------------------------------------------------------------------
(* The inductive invariant behind EachFileOnce: a file was tried once if the *)
(* thread it belongs to has passed it, and never otherwise.                  *)

Passed(f) == \E u \in Threads : start(u) <= f /\ f < i[u]

Progress ==
  /\ tpc \in [Threads -> {"unborn", "open", "exited"}]
  /\ i \in [Threads -> Int]
  /\ \A u \in Threads : start(u) <= i[u] /\ i[u] <= end(u) + 1
  /\ \A u \in Threads : tpc[u] = "exited" => i[u] = end(u) + 1

FilesInv ==
  /\ Progress
  /\ JoinInv
  /\ attempts \in [Files -> Nat]
  /\ \A f \in Files : attempts[f] = IF Passed(f) THEN 1 ELSE 0

\* What WarningIsExact needs besides: the numbers the threads keep are the
\* numbers of files they opened, and success_count has those of the threads that
\* have added theirs.
Opened(u) == {f \in Files : start(u) <= f /\ f < i[u] /\ f \notin failed}
Counted   == {f \in Files : \E u \in Threads : tpc[u] = "exited" /\ f \in Opened(u)}

CountInv ==
  /\ \A f \in failed : f \in Files /\ Passed(f)
  /\ success \in [Threads -> Int]
  /\ \A u \in Threads : success[u] = Cardinality(Opened(u))
  /\ success_count = Cardinality(Counted)
  /\ mpc = "done" => warned = (success_count # TotalFiles)
=============================================================================
