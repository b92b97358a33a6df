-------------------------- MODULE ConfiguredCeiling --------------------------
(***************************************************************************)
(* bench_configured_ceiling.py: cold prompts of several sizes, one at a    *)
(* time, between two readings of the server's preemption counter.          *)
(***************************************************************************)
EXTENDS PrefixCache

CONSTANTS
    MaxTargets,    \* bound on the number of prompt sizes
    MaxSamples     \* bound on the samples per size

ASSUME CeilingAssumption == MaxTargets \in Nat \ {0} /\ MaxSamples \in Nat \ {0}

VARIABLES
    targets,       \* how many sizes --prompt-tokens names
    samples,       \* --samples
    stage,         \* "warmup", "before", "sampling", "after", or "over"
    target,        \* the size at work
    targetSamples, \* its samples
    allSamples,    \* the samples of all sizes
    summaries,     \* per size: what was summarized
    known,         \* the readings of the counter so far have succeeded
    ceilingExit    \* the exit code, or "running"

ceilingArgs == <<targets, samples>>
ceilingVars == <<ceilingArgs, stage, target, targetSamples, allSamples,
                 summaries, known, ceilingExit, cacheVars>>

\* Two sizes may be equal; the warm-up has the least one.
CeilingInit ==
    /\ CacheInit
    /\ targets \in 1..MaxTargets
    /\ samples \in 1..MaxSamples
    /\ stage \in {"warmup", "before"}
    /\ target = 1
    /\ targetSamples = <<>>
    /\ allSamples = <<>>
    /\ summaries = <<>>
    /\ known = TRUE
    /\ ceilingExit = "running"

\* A prompt is measured under a salt of its own, which is cached from then on.
MeasurePrompt ==
    /\ uuids' = uuids + 1
    /\ Serve(FreshKey)
    /\ targetSamples' = Append(targetSamples,
            [target |-> target, cold |-> FreshKey \notin cached])

\* The warm-up's sample is printed and dropped.
WarmUp ==
    /\ stage = "warmup"
    /\ uuids' = uuids + 1
    /\ Serve(FreshKey)
    /\ stage' = "before"
    /\ UNCHANGED <<ceilingArgs, target, targetSamples, allSamples, summaries,
                   known, ceilingExit>>

\* read_preemption_count returns a number, or None.
ReadPreemptions ==
    /\ stage \in {"before", "after"}
    /\ known' \in {known, FALSE}
    /\ IF stage = "before"
         THEN stage' = "sampling" /\ UNCHANGED ceilingExit
         ELSE stage' = "over" /\ ceilingExit' = "0"
    /\ UNCHANGED <<ceilingArgs, target, targetSamples, allSamples, summaries,
                   cacheVars>>

\* The inner loop.
Sample ==
    /\ stage = "sampling"
    /\ Len(targetSamples) < samples
    /\ MeasurePrompt
    /\ allSamples' = Append(allSamples, targetSamples'[Len(targetSamples')])
    /\ UNCHANGED <<ceilingArgs, stage, target, summaries, known, ceilingExit>>

\* summarize_samples, and the next turn of the outer loop.
Summarize ==
    /\ stage = "sampling"
    /\ Len(targetSamples) = samples
    /\ summaries' = Append(summaries, [target |-> targetSamples[1].target,
                                       count |-> Len(targetSamples)])
    /\ IF target = targets
         THEN stage' = "after" /\ UNCHANGED <<target, targetSamples>>
         ELSE target' = target + 1 /\ targetSamples' = <<>> /\ UNCHANGED stage
    /\ UNCHANGED <<ceilingArgs, allSamples, known, ceilingExit, cacheVars>>

\* A request fails, the value of the counter is no number, a sample without its
\* usage has no median, or the JSON file cannot be written: nothing catches it.
CeilingFails ==
    /\ stage # "over"
    /\ stage' = "over"
    /\ ceilingExit' = "1"
    /\ UNCHANGED <<ceilingArgs, target, targetSamples, allSamples, summaries,
                   known, cacheVars>>

CeilingNext ==
    \/ WarmUp
    \/ ReadPreemptions
    \/ Sample
    \/ Summarize
    \/ CeilingFails

CeilingSpec == CeilingInit /\ [][CeilingNext]_ceilingVars

-----------------------------------------------------------------------------

Samples == [target : Nat, cold : BOOLEAN]

CeilingTypeOK ==
    /\ CacheTypeOK
    /\ targets \in Nat \ {0}
    /\ samples \in Nat \ {0}
    /\ stage \in {"warmup", "before", "sampling", "after", "over"}
    /\ target \in 1..targets
    /\ targetSamples \in Seq(Samples)
    /\ allSamples \in Seq(Samples)
    /\ summaries \in Seq([target : Nat, count : Nat])
    /\ known \in BOOLEAN
    /\ ceilingExit \in {"running", "0", "1"}

(* Every sample is of a cold prompt: the warm-up, earlier samples and       *)
(* earlier clients leave nothing in the cache that it could hit             *)
(* (bench_configured_ceiling.py:5-6, 117-123).                              *)
CeilingIsCold == \A i \in DOMAIN allSamples : allSamples[i].cold

(* Exit code 0 means that each size has its samples, all of them, in the    *)
(* order of the command line, and a summary of these and no others          *)
(* (bench_configured_ceiling.py:213-259).                                   *)
CeilingExitTells ==
    ceilingExit = "0" =>
        /\ Len(allSamples) = targets * samples
        /\ \A i \in DOMAIN allSamples : allSamples[i].target = (i - 1) \div samples + 1
        /\ summaries = [t \in 1..targets |-> [target |-> t, count |-> samples]]

-----------------------------------------------------------------------------
(* The inductive invariant.                                                *)

\* The first n samples are complete, and t sizes are summarized.
Taken(n, t) ==
    /\ Len(allSamples) = n
    /\ \A i \in 1..n : allSamples[i].target = (i - 1) \div samples + 1
    /\ summaries = [k \in 1..t |-> [target |-> k, count |-> samples]]

CeilingInv ==
    /\ CeilingTypeOK
    /\ CacheInv
    /\ CeilingIsCold
    /\ ceilingExit = "running" <=> stage # "over"
    /\ stage \in {"warmup", "before", "sampling"} =>
          /\ Taken((target - 1) * samples + Len(targetSamples), target - 1)
          /\ Len(targetSamples) <= samples
          /\ \A i \in DOMAIN targetSamples : targetSamples[i].target = target
    /\ stage = "after" \/ ceilingExit = "0" => Taken(targets * samples, targets)

StageRank ==
    CASE stage = "warmup" -> 0 [] stage = "before" -> 1 [] stage = "sampling" -> 2
      [] stage = "after" -> 3 [] OTHER -> 4

\* A step brings the program to a later stage, to a later size, or to another of the
\* samples that a size has.
CeilingOnward ==
    \/ StageRank < StageRank'
    \/ UNCHANGED stage /\ target < target' /\ target' <= targets
    \/ /\ UNCHANGED <<stage, target>>
       /\ Len(targetSamples) < Len(targetSamples') /\ Len(targetSamples') <= samples

=============================================================================
