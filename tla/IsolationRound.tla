---------------------------- MODULE IsolationRound ----------------------------
(***************************************************************************)
(* bench_ttft_isolation.py: in each round a short request alone, then a    *)
(* long one in a thread, and, a fixed delay later, a short one again.  The *)
(* requests return at their first chunk, which is when a prefill is over.  *)
(***************************************************************************)
EXTENDS PrefixCache

CONSTANT MaxIsolation   \* bound on --rounds

ASSUME IsolationAssumption == MaxIsolation \in Nat \ {0}

VARIABLES
    isolations,    \* --rounds
    reuse,         \* --reuse-prefix
    nonce,         \* the key of the long prompt
    main,          \* "alone", "delay", "late", "join", "raised" or "over"
    long,          \* the long worker: "none", or where its request is
    cold,          \* the prefix of the long prompt was not cached
    met,           \* the late request and the long prefill ran at one time
    rounded,       \* the samples of the rounds that are over
    isolationExit  \* the exit code, or "running"

isolationArgs == <<isolations, reuse>>
isolationVars == <<isolationArgs, nonce, main, long, cold, met, rounded,
                   isolationExit, cacheVars>>

Prompted == IF reuse THEN NoSalt ELSE FreshKey

IsolationInit ==
    /\ CacheInit
    /\ isolations \in 1..MaxIsolation
    /\ reuse \in BOOLEAN
    /\ nonce = NoSalt
    /\ main = "alone"
    /\ long = "none"
    /\ cold = FALSE
    /\ met = FALSE
    /\ rounded = <<>>
    /\ isolationExit = "running"

\* The short request alone is answered, and the thread is started.
AskAlone ==
    /\ main = "alone"
    /\ nonce' = Prompted
    /\ uuids' = uuids + 1
    /\ main' = "delay"
    /\ long' = "queued"
    /\ UNCHANGED <<isolationArgs, cold, met, rounded, isolationExit, cached>>

\* It fails, and no thread runs.
AloneFails ==
    /\ main = "alone"
    /\ main' = "over"
    /\ isolationExit' = "1"
    /\ UNCHANGED <<isolationArgs, nonce, long, cold, met, rounded, cacheVars>>

\* The server takes the long request up.
PrefillBegins ==
    /\ long = "queued"
    /\ long' = "prefill"
    /\ cold' = (nonce \notin cached)
    /\ met' = (main = "late")
    /\ UNCHANGED <<isolationArgs, nonce, main, rounded, isolationExit, cacheVars>>

\* Its first chunk comes, and long_total is set.
PrefillEnds ==
    /\ long = "prefill"
    /\ long' = "answered"
    /\ Serve(nonce)
    /\ UNCHANGED <<isolationArgs, nonce, main, cold, met, rounded, isolationExit,
                   uuids>>

\* An exception ends the thread, and no one sees it.
LongFails ==
    /\ long \in {"queued", "prefill"}
    /\ long' = "failed"
    /\ UNCHANGED <<isolationArgs, nonce, main, cold, met, rounded, isolationExit,
                   cacheVars>>

\* The delay is over, wherever the long request is.
AskLate ==
    /\ main = "delay"
    /\ main' = "late"
    /\ met' = (long = "prefill")
    /\ UNCHANGED <<isolationArgs, nonce, long, cold, rounded, isolationExit,
                   cacheVars>>

\* The late request is answered, or raises.
LateReturns ==
    /\ main = "late"
    /\ main' \in {"join", "raised"}
    /\ UNCHANGED <<isolationArgs, nonce, long, cold, met, rounded, isolationExit,
                   cacheVars>>

\* Mutant: the round does not wait for the thread.
JoinNothing == main = "join"

\* thread.join() returns.
Joined == main = "join" /\ long \in {"answered", "failed"}

\* long_total is there and the round counts, or it is missing: KeyError.
EndRound ==
    /\ Joined
    /\ IF long = "answered"
         THEN /\ rounded' = Append(rounded, [cold |-> cold, met |-> met])
              /\ IF Len(rounded') = isolations
                   THEN main' = "over" /\ isolationExit' = "0"
                   ELSE main' = "alone" /\ UNCHANGED isolationExit
         ELSE /\ main' = "over"
              /\ isolationExit' = "1"
              /\ UNCHANGED rounded
    /\ UNCHANGED <<isolationArgs, nonce, long, cold, met, cacheVars>>

\* After an exception the interpreter still waits for the thread.
LeaveRound ==
    /\ main = "raised"
    /\ long \in {"answered", "failed"}
    /\ main' = "over"
    /\ isolationExit' = "1"
    /\ UNCHANGED <<isolationArgs, nonce, long, cold, met, rounded, cacheVars>>

IsolationNext ==
    \/ AskAlone \/ AloneFails
    \/ PrefillBegins \/ PrefillEnds \/ LongFails
    \/ AskLate \/ LateReturns
    \/ EndRound \/ LeaveRound

IsolationSpec == IsolationInit /\ [][IsolationNext]_isolationVars

-----------------------------------------------------------------------------

IsolationTypeOK ==
    /\ CacheTypeOK
    /\ isolations \in Nat \ {0}
    /\ reuse \in BOOLEAN
    /\ nonce \in Nat
    /\ main \in {"alone", "delay", "late", "join", "raised", "over"}
    /\ long \in {"none", "queued", "prefill", "answered", "failed"}
    /\ cold \in BOOLEAN
    /\ met \in BOOLEAN
    /\ rounded \in Seq([cold : BOOLEAN, met : BOOLEAN])
    /\ isolationExit \in {"running", "0", "1"}

(* The long prompt of each round is cold, unless a reused prefix is asked   *)
(* for: no earlier round or client has left it in the cache                 *)
(* (bench_ttft_isolation.py:4-5, 78-79).                                    *)
IsolationIsCold == ~reuse => \A i \in DOMAIN rounded : rounded[i].cold

(* Exit code 0 means that every round has its sample, of three requests     *)
(* that were answered: an exception in the thread is not lost for good, as  *)
(* long_total is then missing; no request outlives the program              *)
(* (bench_ttft_isolation.py:84-97).                                         *)
IsolationExitTells ==
    /\ isolationExit = "0" => Len(rounded) = isolations /\ long = "answered"
    /\ isolationExit # "running" => long \notin {"queued", "prefill"}

(* The short request of each sample runs while the long prefill does.       *)
(* Nothing but the delay arranges it (bench_ttft_isolation.py:2, 91-93).    *)
LateMeetsPrefill == \A i \in DOMAIN rounded : rounded[i].met

-----------------------------------------------------------------------------
(* The inductive invariant.                                                *)

IsolationInv ==
    /\ IsolationTypeOK
    /\ CacheInv
    /\ nonce <= uuids
    /\ ~reuse /\ long = "queued" => nonce \notin cached
    /\ ~reuse /\ long \in {"prefill", "answered"} => cold
    /\ IsolationIsCold
    /\ main \in {"alone", "over"} => long \notin {"queued", "prefill"}
    /\ main \in {"delay", "late", "join", "raised"} => long # "none"
    /\ isolationExit = "running" <=> main # "over"
    /\ isolationExit = "0" => Len(rounded) = isolations /\ long = "answered"

\* A program that goes on has a round to make.
RoundsRemain == main # "over" => Len(rounded) < isolations

MainRank ==
    CASE main = "alone" -> 0 [] main = "delay" -> 1 [] main = "late" -> 2
      [] main \in {"join", "raised"} -> 3 [] OTHER -> 4

LongRank ==
    CASE long = "none" -> 0 [] long = "queued" -> 1 [] long = "prefill" -> 2 [] OTHER -> 3

\* A step ends a round, or brings its main thread on, or else its worker.
IsolationOnward ==
    \/ Len(rounded) < Len(rounded') /\ Len(rounded') <= isolations
    \/ UNCHANGED rounded /\ MainRank < MainRank'
    \/ UNCHANGED <<rounded, main>> /\ LongRank < LongRank'

=============================================================================
