--------------------------- MODULE ProfilerServer ---------------------------
(***************************************************************************)
(* The HTTP server of 2025/10/26/main.go: handlers that take a CPU profile *)
(* or a trace exclude each other with the flag profiling, the handler of   *)
(* heap profiles looks at the flag only, and the handlers that importing   *)
(* net/http/pprof registers on the same mux know nothing of it.  The       *)
(* runtime takes one CPU profile and one trace at a time.                  *)
(*                                                                         *)
(* Each request is served by a goroutine of its own and may be sent again  *)
(* once it is answered.  Only profilingMu keeps the test of profiling and  *)
(* its assignment together, which are steps of their own.                  *)
(***************************************************************************)
EXTENDS Naturals, FiniteSets

CONSTANTS
  CpuRequests, TraceRequests, MemRequests,   \* GET /cpu, /trace and /mem
  PprofCpu, PprofTrace,                      \* GET /debug/pprof/{profile,trace}
  Nobody

Own      == CpuRequests \cup TraceRequests
External == PprofCpu \cup PprofTrace
Requests == Own \cup MemRequests \cup External
Engines  == {"cpu", "trace"}

ASSUME ProfilerAssumption ==
  /\ CpuRequests \cap TraceRequests = {} /\ PprofCpu \cap PprofTrace = {}
  /\ Own \cap MemRequests = {} /\ Own \cap External = {}
  /\ MemRequests \cap External = {}
  /\ Nobody \notin Requests

VARIABLES
  pc,            \* where each request is
  profilingMu,   \* the request that has the mutex
  profiling,
  engine         \* whose CPU profile and whose trace the runtime is taking

ProfilerVars == <<pc, profilingMu, profiling, engine>>

Engine(r) == IF r \in CpuRequests \cup PprofCpu THEN "cpu" ELSE "trace"

\* Mutant: a failed start does not end the handler.
GoOn(r)        == "sleep"
\* Mutant: the flag is cleared on success only.
ReturnAtOnce(r) == "idle"
\* Mutant: a request that finds the flag set waits for it.
WaitForIt      == FALSE
\* Mutant: Lock does not exclude anybody.
LockNothing(r) == UNCHANGED profilingMu

\* profilingMu.Lock and Unlock
Lock(r) == profilingMu = Nobody /\ profilingMu' = r
Unlock  == profilingMu' = Nobody
\* Where a handler goes when the profiler does not start: its deferred function.
Fail(r) == IF r \in Own THEN "defer" ELSE "idle"
\* A request that finds the flag set is refused.
Refused == profiling

ProfilerInit ==
  /\ pc = [r \in Requests |-> "idle"]
  /\ profilingMu = Nobody /\ profiling = FALSE
  /\ engine = [e \in Engines |-> Nobody]

MoveTo(r, label) == pc' = [pc EXCEPT ![r] = label]

-----------------------------------------------------------------------------
Arrive(r) ==
  /\ pc[r] = "idle"
  /\ MoveTo(r, IF r \in External THEN "start" ELSE "lock")
  /\ UNCHANGED <<profilingMu, profiling, engine>>

\* Each handler of this program takes the mutex to test the flag, and the deferred
\* functions take it again.
Acquire(r) ==
  /\ pc[r] \in {"lock", "defer"}
  /\ Lock(r)
  /\ MoveTo(r, IF pc[r] = "lock" THEN "test" ELSE "clear")
  /\ UNCHANGED <<profiling, engine>>

\* handleCPUProfile and handleTrace: a refused request is answered.
Test(r) ==
  /\ r \in Own /\ pc[r] = "test"
  /\ \/ Refused /\ MoveTo(r, "idle") /\ Unlock
     \/ ~profiling /\ MoveTo(r, "set") /\ UNCHANGED profilingMu
  /\ UNCHANGED <<profiling, engine>>

Claim(r) ==
  /\ pc[r] = "set"
  /\ profiling' = TRUE
  /\ Unlock
  /\ MoveTo(r, "start")
  /\ UNCHANGED engine

\* handleMemProfile
Look(r) ==
  /\ r \in MemRequests /\ pc[r] = "test"
  /\ MoveTo(r, IF profiling THEN "idle" ELSE "heap")
  /\ Unlock
  /\ UNCHANGED <<profiling, engine>>

WriteHeapProfile(r) ==
  /\ pc[r] = "heap"
  /\ MoveTo(r, "idle")
  /\ UNCHANGED <<profilingMu, profiling, engine>>

\* StartCPUProfile or trace.Start: an error when the runtime is at it already.
StartProfile(r) ==
  /\ pc[r] = "start"
  /\ IF engine[Engine(r)] = Nobody
     THEN engine' = [engine EXCEPT ![Engine(r)] = r] /\ MoveTo(r, "sleep")
     ELSE MoveTo(r, Fail(r)) /\ UNCHANGED engine
  /\ UNCHANGED <<profilingMu, profiling>>

\* StopCPUProfile or trace.Stop when the time is over, and the answer, which a
\* handler writes while it still has the flag.
StopProfile(r) ==
  /\ pc[r] = "sleep"
  /\ engine' = [engine EXCEPT ![Engine(r)] = Nobody]
  /\ MoveTo(r, IF r \in Own THEN "defer" ELSE "idle")
  /\ UNCHANGED <<profilingMu, profiling>>

\* The deferred function.
Clear(r) ==
  /\ pc[r] = "clear"
  /\ profiling' = FALSE
  /\ Unlock
  /\ MoveTo(r, "idle")
  /\ UNCHANGED engine

Respond(r) == Acquire(r) \/ Test(r) \/ Claim(r) \/ Look(r) \/ WriteHeapProfile(r)
              \/ StartProfile(r) \/ StopProfile(r) \/ Clear(r)

ProfilerNext == \E r \in Requests : Arrive(r) \/ Respond(r)

\* Goroutines run, and time.Sleep ends.  A sync.Mutex goes to the goroutine that
\* has waited longest when it has waited for a millisecond, hence strong fairness.
\* Of a client it is assumed that it reads its answer or closes the connection:
\* w.Write ends.  Nobody has to send a request.
ProfilerFairness ==
  \A r \in Requests : WF_ProfilerVars(Respond(r)) /\ SF_ProfilerVars(Acquire(r))

ProfilerSpec == ProfilerInit /\ [][ProfilerNext]_ProfilerVars /\ ProfilerFairness

-----------------------------------------------------------------------------
(* Properties. *)

\* The variables keep their types, and each profiler serves its own requests.
TypeOK ==
  /\ pc \in [Requests -> {"idle", "lock", "test", "set", "start", "sleep", "defer", "clear", "heap"}]
  /\ profilingMu \in Own \cup MemRequests \cup {Nobody}
  /\ profiling \in BOOLEAN
  /\ DOMAIN engine = Engines
  /\ engine["cpu"] \in CpuRequests \cup PprofCpu \cup {Nobody}
  /\ engine["trace"] \in TraceRequests \cup PprofTrace \cup {Nobody}

Holders == {r \in Own : pc[r] \in {"start", "sleep", "defer", "clear"}}

\* The flag is set exactly while one handler is responsible for clearing it; so a
\* CPU profile and a trace of these handlers exclude each other, and an error
\* cannot leave the server refusing every later request.
FlagHasOneHolder ==
  /\ \A q, r \in Holders : q = r
  /\ profiling <=> Holders # {}

\* A profile that was started is stopped by its own handler and by no other,
\* although the handlers of net/http/pprof do not look at the flag and a start
\* may fail: the profile answered covers the time that was asked for.
OwnProfile == \A r \in Own \cup External : pc[r] = "sleep" <=> engine[Engine(r)] = r

\* A handler that holds the flag fails to start only because of net/http/pprof.
OnlyPprofInterferes ==
  \A r \in Own : pc[r] = "start" => engine[Engine(r)] \in External \cup {Nobody}

\* Each request is answered, whoever holds the flag and for how long.
Answered == \A r \in Requests : pc[r] # "idle" ~> pc[r] = "idle"
=============================================================================
