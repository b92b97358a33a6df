------------------------------- MODULE LoadPool -------------------------------
(***************************************************************************)
(* bench_high_concurrency.py, bench_full.py and 04_bench_decode.py: pools  *)
(* of equal requests, one pool after another.  The first two read the      *)
(* server's draft counter before and after a pool, and report by the       *)
(* difference what its requests drafted.  The server may die and return.   *)
(***************************************************************************)
EXTENDS Naturals, Sequences, FiniteSets

CONSTANTS
    Widths,        \* numbers of requests in a pool
    MaxPools,      \* bound on the number of pools
    MaxDrafts,     \* bound on the drafts that the server makes
    MaxLives       \* bound on the number of times that the server starts

ASSUME WidthsAssumption == Widths \subseteq Nat \ {0}
ASSUME LoadBoundsAssumption ==
    MaxPools \in Nat \ {0} /\ MaxDrafts \in Nat /\ MaxLives \in Nat \ {0}

VARIABLES
    plan,          \* the pools of the program
    metered,       \* it reads the counter
    pool,          \* the pool at work
    wave,          \* where it is: "before", "asking", "after", or "over"
    pooled,        \* per request of the pool: where it is
    baseline,      \* the counter, and the server's life, as read before
    failures,      \* total_failures
    reports,       \* what was reported of each pool
    poolExit,      \* the exit code, or "running"
    up,            \* the server answers
    lives,         \* how often it has started
    drafts,        \* its counter, which is lost when it dies
    drawn          \* the drafts that it made for this pool

loadVars == <<plan, metered, pool, wave, pooled, baseline, failures, reports,
              poolExit>>
serverVars == <<up, lives, drafts, drawn>>
poolVars == <<loadVars, serverVars>>

\* What a failure does: it is counted; it is printed in place of the report, and
\* the next pool skipped if it depends on this one, which then catches the failure
\* of a reading as well; or it ends the program.
Handlers == {"count", "print", "skip", "caught", "raise"}
Pools == [width : Widths, handler : Handlers]
Single(h) == [width |-> 1, handler |-> h]

\* bench_high_concurrency.py counts.  bench_full.py prints until it comes to its
\* decode stage, and its prefix stage is two pools that depend on each other.
\* 04_bench_decode.py prints or raises, and reads no counter.
CountsAll(p) == \A i \in DOMAIN p : p[i].handler = "count"

PrintsThenRaises(p) ==
    \E k \in 0..Len(p) : \A i \in DOMAIN p :
        IF i > k THEN p[i] = Single("raise")
        ELSE \/ p[i].handler = "print"
             \/ p[i] = Single("skip") /\ i < k /\ p[i + 1] = Single("caught")
             \/ p[i] = Single("caught") /\ i > 1 /\ p[i - 1] = Single("skip")

PrintsOrRaises(p) ==
    \A i \in DOMAIN p : p[i] = Single("print") \/ p[i].handler = "raise"

PoolInit ==
    /\ plan \in UNION {[1..n -> Pools] : n \in 1..MaxPools}
    /\ metered \in BOOLEAN
    /\ IF metered THEN CountsAll(plan) \/ PrintsThenRaises(plan)
                  ELSE PrintsOrRaises(plan)
    /\ pool = 1
    /\ wave = "before"
    /\ pooled = <<>>
    /\ baseline = [drafts |-> 0, life |-> 1]
    /\ failures = 0
    /\ reports = <<>>
    /\ poolExit = "running"
    /\ up = TRUE
    /\ lives = 1
    /\ drafts \in {0, 1}
    /\ drawn = 0

Width == plan[pool].width
Handler == plan[pool].handler
InPool(states) == {i \in DOMAIN pooled : pooled[i] \in states}

\* The program returns, or raises.
Leave(code) == poolExit' = code /\ wave' = "over" /\ UNCHANGED pool

\* On to another pool; main() returns after the last one.
GoOn(n, total) ==
    IF pool + n > Len(plan)
      THEN Leave(IF total > 0 THEN "1" ELSE "0")
      ELSE pool' = pool + n /\ wave' = "before" /\ UNCHANGED poolExit

\* An exception while or after a pool is asked.
Raise ==
    CASE Handler \in {"count", "raise"} -> Leave("1")
      [] Handler \in {"print", "caught"} -> GoOn(1, failures)
      [] Handler = "skip" -> GoOn(2, failures)

\* The counter is read before a pool, or the reading raises.
ReadBefore ==
    /\ wave = "before"
    /\ \/ /\ metered
          /\ IF Handler = "caught" THEN GoOn(1, failures) ELSE Leave("1")
          /\ UNCHANGED <<pooled, baseline, drawn>>
       \/ /\ metered => up
          /\ wave' = "asking"
          /\ pooled' = [i \in 1..Width |-> "queued"]
          /\ baseline' = [drafts |-> drafts, life |-> lives]
          /\ drawn' = 0
          /\ UNCHANGED <<pool, poolExit>>
    /\ UNCHANGED <<plan, metered, failures, reports, up, lives, drafts>>

\* A thread sends its request, if there is a server.
Send(i) ==
    /\ i \in InPool({"queued"})
    /\ pooled' = [pooled EXCEPT ![i] = IF up THEN "open" ELSE "failed"]
    /\ UNCHANGED <<plan, metered, pool, wave, baseline, failures, reports,
                   poolExit, serverVars>>

\* The request is answered, or it is refused, times out or breaks off.
Return(i) ==
    /\ i \in InPool({"open"})
    /\ \E r \in {"answered", "failed"} : pooled' = [pooled EXCEPT ![i] = r]
    /\ UNCHANGED <<plan, metered, pool, wave, baseline, failures, reports,
                   poolExit, serverVars>>

\* The server drafts for a request, though not for one that has failed.
Draft(i) ==
    /\ i \in InPool({"open"})
    /\ drafts < MaxDrafts
    /\ drafts' = drafts + 1
    /\ drawn' = drawn + 1
    /\ UNCHANGED <<loadVars, up, lives>>

\* The server dies, and what is open with it.
Die ==
    /\ up /\ lives < MaxLives /\ poolExit = "running"
    /\ up' = FALSE
    /\ drafts' = 0
    /\ pooled' = [i \in DOMAIN pooled |->
                    IF pooled[i] = "open" THEN "failed" ELSE pooled[i]]
    /\ UNCHANGED <<plan, metered, pool, wave, baseline, failures, reports,
                   poolExit, lives, drawn>>

\* It is started again.
Restart ==
    /\ ~up
    /\ up' = TRUE
    /\ lives' = lives + 1
    /\ UNCHANGED <<loadVars, drafts, drawn>>

\* Mutant: the results are gathered as soon as one is there.
PoolIsOver == InPool({"answered"}) # {}

\* The executor has shut down.
PoolIsBack == InPool({"queued", "open"}) = {}

\* A pool that counts needs one answer, any other all of them.
Suffices ==
    IF Handler = "count" THEN InPool({"answered"}) # {} ELSE InPool({"failed"}) = {}

\* The results are gathered.
Gather ==
    /\ wave = "asking"
    /\ PoolIsBack
    /\ IF Suffices THEN wave' = "after" /\ UNCHANGED <<pool, poolExit>> ELSE Raise
    /\ UNCHANGED <<plan, metered, pooled, baseline, failures, reports, serverVars>>

\* No more than was drafted before the pool: no acceptance is reported.
Difference ==
    IF metered /\ drafts > baseline.drafts THEN drafts - baseline.drafts ELSE 0

\* The report of a pool, with the server's view of the same requests.
Report ==
    [pool |-> pool, answered |-> Cardinality(InPool({"answered"})),
     meter |-> Difference, drawn |-> drawn, oneLife |-> baseline.life = lives]

\* The counter is read after a pool, which is reported, or the reading raises.
ReadAfter ==
    /\ wave = "after"
    /\ \/ /\ metered
          /\ Raise
          /\ UNCHANGED <<failures, reports>>
       \/ /\ metered => up
          /\ reports' = Append(reports, Report)
          /\ failures' = failures + Cardinality(InPool({"failed"}))
          /\ GoOn(1, failures')
    /\ UNCHANGED <<plan, metered, pooled, baseline, serverVars>>

PoolNext ==
    \/ ReadBefore
    \/ \E i \in DOMAIN pooled : Send(i) \/ Return(i) \/ Draft(i)
    \/ Gather
    \/ ReadAfter
    \/ Die
    \/ Restart

PoolSpec == PoolInit /\ [][PoolNext]_poolVars

-----------------------------------------------------------------------------

PoolTypeOK ==
    /\ plan \in Seq(Pools)
    /\ metered \in BOOLEAN
    /\ pool \in DOMAIN plan
    /\ wave \in {"before", "asking", "after", "over"}
    /\ pooled \in Seq({"queued", "open", "answered", "failed"})
    /\ baseline \in [drafts : Nat, life : Nat]
    /\ failures \in Nat
    /\ reports \in Seq([pool : Nat, answered : Nat, meter : Nat, drawn : Nat,
                        oneLife : BOOLEAN])
    /\ poolExit \in {"running", "0", "1"}
    /\ up \in BOOLEAN
    /\ lives \in Nat
    /\ drafts \in Nat
    /\ drawn \in Nat

\* A report is of the pool's own drafts; a restart of the server between the two
\* readings may hide some, and never makes up any.
MetersAgree ==
    \A n \in DOMAIN reports : metered =>
        /\ reports[n].meter <= reports[n].drawn
        /\ reports[n].oneLife => reports[n].meter = reports[n].drawn

(* What a pool reports is what the server drafted for the requests of that  *)
(* pool, if the server did not restart between the two readings: no others  *)
(* fall between the readings, and none of its own after them                *)
(* (bench_high_concurrency.py:108-152, bench_full.py:52-60).                *)
MetersOwnPool ==
    /\ MetersAgree
    /\ wave # "asking" => InPool({"queued", "open"}) = {}

(* Exit code 0 means that every pool whose failures the program counts or   *)
(* lets through was reported with all of its requests answered, and says    *)
(* nothing of those that it prints, skips or catches, as most of            *)
(* bench_full.py's; exit code 1 after the last report, that one was not;    *)
(* neither leaves a request behind                                          *)
(* (bench_high_concurrency.py:130-208, bench_full.py).                      *)
PoolExitTells ==
    /\ poolExit = "0" => \A k \in DOMAIN plan :
          \/ plan[k].handler \in {"print", "skip", "caught"}
          \/ \E n \in DOMAIN reports :
                reports[n].pool = k /\ reports[n].answered = plan[k].width
    /\ poolExit = "1" /\ Len(reports) = Len(plan) => failures > 0
    /\ poolExit # "running" => PoolIsBack

-----------------------------------------------------------------------------
(* The inductive invariant.                                                *)

\* Between the readings of a pool the counter has moved by its drafts, or has
\* started again since.
CounterMoved ==
    IF up /\ baseline.life = lives
      THEN drafts = baseline.drafts + drawn
      ELSE drafts <= drawn

\* Pool k is reported, or its failure does not matter.
Settled(k) ==
    \/ plan[k].handler \in {"print", "skip", "caught"}
    \/ \E n \in DOMAIN reports : reports[n].pool = k

LoadInv ==
    /\ PoolTypeOK
    /\ \A k \in DOMAIN plan :
          plan[k].handler = "skip" /\ k < Len(plan) => plan[k + 1].handler = "caught"
    /\ poolExit = "running" <=> wave # "over"
    /\ wave # "asking" => PoolIsBack
    /\ wave \in {"asking", "after"} => Len(pooled) = Width
    /\ baseline.life <= lives
    /\ metered /\ wave \in {"asking", "after"} => CounterMoved
    /\ MetersAgree
    /\ \A n \in DOMAIN reports :
          /\ reports[n].pool \in DOMAIN plan
          /\ failures = 0 => reports[n].answered = plan[reports[n].pool].width
    /\ wave # "over" => Len(reports) < pool /\ \A k \in 1..(pool - 1) : Settled(k)
    /\ poolExit = "0" => failures = 0 /\ \A k \in DOMAIN plan : Settled(k)
    /\ poolExit = "1" => Len(reports) < Len(plan) \/ failures > 0

-----------------------------------------------------------------------------
(* How far a program has come.                                             *)

\* A server that is down will be started once more.
LivesInv == lives \in Nat /\ lives <= MaxLives /\ (~up => lives < MaxLives)

Fate == 2 * lives + (IF up THEN 0 ELSE 1)

WaveRank ==
    CASE wave = "before" -> 0 [] wave = "asking" -> 1 [] wave = "after" -> 2 [] OTHER -> 3

Moved(i) ==
    \/ pooled[i] = "queued" /\ pooled'[i] \in {"open", "failed"}
    \/ pooled[i] = "open" /\ pooled'[i] \in {"answered", "failed"}

\* A step kills or starts the server, which happens a bounded number of times; or
\* it brings the program to a later pool, a pool to its next reading, a request on,
\* or the server's drafts up to their bound.
PoolOnward ==
    \/ Fate < Fate' /\ Fate' <= 2 * MaxLives
    \/ Fate' = Fate /\ pool < pool' /\ pool' <= Len(plan)
    \/ Fate' = Fate /\ UNCHANGED pool /\ WaveRank < WaveRank'
    \/ Fate' = Fate /\ UNCHANGED <<pool, wave>> /\ drafts < drafts' /\ drafts' <= MaxDrafts
    \/ /\ Fate' = Fate /\ UNCHANGED <<pool, wave, drafts>>
       /\ DOMAIN pooled' = DOMAIN pooled
       /\ \E i \in DOMAIN pooled :
             Moved(i) /\ \A j \in DOMAIN pooled \ {i} : pooled'[j] = pooled[j]

=============================================================================
