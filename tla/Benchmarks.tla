------------------------------ MODULE Benchmarks ------------------------------
(***************************************************************************)
(* The clients of a server: the warm-up with the tool round trips, and     *)
(* the benchmarks under scripts/bench.  They are run one at a time, each   *)
(* against a server that any client before it has left behind; a behaviour *)
(* is one of them from its start to its exit code.                         *)
(***************************************************************************)
EXTENDS Warmup, AgentSessions, LoadPool, ConfiguredCeiling, IsolationRound, RecallCase

VARIABLE program   \* the client that is run

Programs == {"warmup", "sessions", "pool", "ceiling", "isolation", "recall"}

benchVars == <<program, vars, sessionsVars, poolVars, ceilingVars, isolationVars,
               recallVars>>

\* What a client that is not run would start with: the least that it may.
NoWarmup ==
    rounds = 1 /\ concurrency = 1 /\ indexed = TRUE /\ phase = "tools" /\ persist = FALSE
NoSessions == traced = FALSE /\ sessions = 1 /\ turns = 1 /\ replay = FALSE
NoPool ==
    /\ plan = << [width |-> 1, handler |-> "raise"] >>
    /\ metered = FALSE
    /\ drafts = 0
NoCeiling == targets = 1 /\ samples = 1 /\ stage = "before"
NoIsolation == isolations = 1 /\ reuse = FALSE
NoRecall == cases = 1 /\ needles = 1 /\ calibrations = 1 /\ filler = 1

Runs(p) == program = p

BenchInit ==
    /\ program \in Programs
    /\ Runs("warmup") \/ NoWarmup
    /\ Init
    /\ Runs("sessions") \/ NoSessions
    /\ SessionsInit
    /\ Runs("pool") \/ NoPool
    /\ PoolInit
    /\ Runs("ceiling") \/ NoCeiling
    /\ Runs("isolation") \/ NoIsolation
    /\ Runs("recall") \/ NoRecall
    /\ Runs("ceiling") \/ Runs("isolation") \/ Runs("recall") \/ cached = {}
    /\ CeilingInit
    /\ IsolationInit
    /\ RecallInit

ceilingOwn == <<targets, samples, stage, target, targetSamples, allSamples,
                summaries, known, ceilingExit>>
isolationOwn == <<isolations, reuse, nonce, main, long, cold, met, rounded,
                  isolationExit>>
recallOwn == <<cases, needles, calibrations, task, building, measured, judged,
               failedCases, recallExit>>

BenchNext ==
    /\ \/ /\ Runs("warmup") /\ Next
          /\ UNCHANGED <<sessionsVars, poolVars, ceilingVars, isolationOwn, recallOwn>>
       \/ /\ Runs("sessions") /\ SessionsNext
          /\ UNCHANGED <<vars, poolVars, ceilingVars, isolationOwn, recallOwn>>
       \/ /\ Runs("pool") /\ PoolNext
          /\ UNCHANGED <<vars, sessionsVars, ceilingVars, isolationOwn, recallOwn>>
       \/ /\ Runs("ceiling") /\ CeilingNext
          /\ UNCHANGED <<vars, sessionsVars, poolVars, isolationOwn, recallOwn>>
       \/ /\ Runs("isolation") /\ IsolationNext
          /\ UNCHANGED <<vars, sessionsVars, poolVars, ceilingOwn, recallOwn>>
       \/ /\ Runs("recall") /\ RecallNext
          /\ UNCHANGED <<vars, sessionsVars, poolVars, ceilingOwn, isolationOwn>>
    /\ UNCHANGED program

BenchSpec == BenchInit /\ [][BenchNext]_benchVars

(* A client that can go on does: its threads are scheduled, a silent       *)
(* connection of a benchmark times out, as urlopen is given a timeout      *)
(* (curl is not: Hang), max_tokens bounds an answer, and the bounds of the *)
(* modules bound what a server drafts and how often it dies.               *)
BenchFairSpec == BenchSpec /\ WF_benchVars(BenchNext)

-----------------------------------------------------------------------------

BenchTypeOK ==
    /\ program \in Programs
    /\ TypeOK
    /\ SessionsTypeOK
    /\ PoolTypeOK
    /\ CeilingTypeOK
    /\ IsolationTypeOK
    /\ RecallTypeOK

(* No sample that is reported as one of a cold prompt had a prefix in the  *)
(* server's cache: not from the warm-up, an earlier sample or round, the   *)
(* calibration, or a client before (bench_configured_ceiling.py:117-123,   *)
(* bench_ttft_isolation.py:78-79, bench_long_context_recall.py:227-247).   *)
ColdSamples == CeilingIsCold /\ IsolationIsCold /\ RecallIsCold

(* What an exit code tells of the requests behind it, program by program,  *)
(* and that no request or thread outlives its program: a session benchmark *)
(* answers for every request, a pool for those whose failures it does not  *)
(* print, skip or catch, a ceiling and an isolation run for every sample,  *)
(* and a recall case for the first list of strings in the answer.          *)
ExitCodesTell ==
    /\ SessionsExitTells
    /\ PoolExitTells
    /\ CeilingExitTells
    /\ IsolationExitTells
    /\ RecallExitTells

\* The client that is run has ended.
ClientEnded ==
    CASE Runs("warmup") -> phase \in Ended
      [] Runs("sessions") -> sessionsExit # "running"
      [] Runs("pool") -> poolExit # "running"
      [] Runs("ceiling") -> ceilingExit # "running"
      [] Runs("isolation") -> isolationExit # "running"
      [] Runs("recall") -> recallExit # "running"

(* Every client comes to its end, whatever the server does, unless the      *)
(* warm-up hangs in a request for /health that is never answered: no loop   *)
(* waits for a thread or an answer that cannot come                         *)
(* (warmup_runtime.sh:11-31, bench_tool_roundtrip.py:267-299,               *)
(* bench_session_concurrency.py:78-103, bench_ttft_isolation.py:84-97).     *)
BenchmarksEnd == <>(ClientEnded \/ (Runs("warmup") /\ phase = "hung"))

-----------------------------------------------------------------------------
(* The safety part of it, which the proofs reach: nobody waits in vain.     *)

\* What the client that is run waits for can come: a thread to take a round, a
\* request that is open, a sample that is wanted, a thread that was started.  A
\* pool of LoadPool waits for nothing but its own requests.
NeverStuck ==
    /\ Runs("warmup") /\ phase = "tools" => ClientNeverStuck
    /\ Runs("sessions") => SessionsNeverStuck
    /\ Runs("ceiling") /\ stage = "sampling" => Len(targetSamples) <= samples
    /\ Runs("isolation") /\ main \in {"delay", "late", "join", "raised"} => long # "none"

\* Every step brings the client that is run on, in an order in which nothing can
\* ascend for ever: no loop of a program goes round without using something up.
ProgramsAdvance ==
    [][/\ UNCHANGED program
       /\ Runs("warmup") => WarmupOnward
       /\ Runs("sessions") => SessionsOnward
       /\ Runs("pool") => PoolOnward
       /\ Runs("ceiling") => CeilingOnward
       /\ Runs("isolation") => IsolationOnward
       /\ Runs("recall") => RecallOnward]_benchVars

-----------------------------------------------------------------------------
(* The inductive invariant: each client's own, and that the long request of *)
(* an isolation round that is not run is never made.                        *)

BenchInv ==
    /\ program \in Programs
    /\ WarmupInv
    /\ SessionsInv
    /\ LoadInv
    /\ CeilingInv
    /\ IsolationInv
    /\ RecallInv
    /\ ~Runs("isolation") => long = "none" /\ nonce = NoSalt

=============================================================================
