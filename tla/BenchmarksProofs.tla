--------------------------- MODULE BenchmarksProofs ---------------------------
(***************************************************************************)
(* Proofs about Benchmarks: the invariants of its clients, each for itself *)
(* and then beside the others, for all values of the constants.  Those of  *)
(* the warm-up and of the sessions come from modules of their own.         *)
(***************************************************************************)
EXTENDS Benchmarks, WarmupProofs, AgentSessionsProofs

-----------------------------------------------------------------------------
(* The prefix cache.                                                        *)

LEMMA CacheBegins == CacheInit => CacheInv
  BY DEF CacheInit, CacheInv, CacheTypeOK, NoSalt

LEMMA FreshIsCold ==
    ASSUME CacheInv
    PROVE  FreshKey \in Nat /\ FreshKey \notin cached
  BY DEF CacheInv, CacheTypeOK, FreshKey

LEMMA FreshIsServed ==
    ASSUME CacheInv, uuids' = uuids + 1, Serve(FreshKey)
    PROVE  CacheInv'
  BY DEF CacheInv, CacheTypeOK, FreshKey, Serve

LEMMA CacheRests == ASSUME CacheInv, UNCHANGED cacheVars PROVE CacheInv'
  BY DEF CacheInv, CacheTypeOK, cacheVars

-----------------------------------------------------------------------------
(* bench_ttft_isolation.py                                                  *)

LEMMA IsolationInitially == IsolationInit => IsolationInv
<1> SUFFICES ASSUME IsolationInit PROVE IsolationInv
  OBVIOUS
<1>1. CacheInv
  BY CacheBegins DEF IsolationInit
<1>2. IsolationTypeOK
  <2>1. isolations \in Nat \ {0} /\ nonce \in Nat
    BY IsolationAssumption DEF IsolationInit, NoSalt
  <2>2. rounded = <<>>
    BY DEF IsolationInit
  <2>3. rounded \in Seq([cold : BOOLEAN, met : BOOLEAN])
    BY <2>2
  <2>4. reuse \in BOOLEAN /\ cold = FALSE /\ met = FALSE
    BY DEF IsolationInit
  <2> QED
    BY <1>1, <2>1, <2>3, <2>4 DEF IsolationInit, IsolationTypeOK, CacheInv
<1>3. IsolationIsCold
  BY DEF IsolationInit, IsolationIsCold
<1> QED
  BY <1>1, <1>2, <1>3 DEF IsolationInit, IsolationInv, CacheInv, CacheTypeOK, NoSalt

LEMMA IsolationStep == IsolationInv /\ [IsolationNext]_isolationVars => IsolationInv'
<1> SUFFICES ASSUME IsolationInv, [IsolationNext]_isolationVars PROVE IsolationInv'
  OBVIOUS
<1> USE DEF isolationArgs, NoSalt, IsolationTypeOK
<1>1. CASE AskAlone
  <2>1. Prompted \in Nat /\ Prompted <= uuids + 1 /\ (~reuse => Prompted \notin cached)
    BY FreshIsCold DEF Prompted, FreshKey, CacheInv, CacheTypeOK, IsolationInv
  <2>2. CacheInv'
    BY <1>1 DEF AskAlone, CacheInv, CacheTypeOK, IsolationInv
  <2> QED
    BY <1>1, <2>1, <2>2 DEF AskAlone, IsolationInv, CacheInv, CacheTypeOK, IsolationIsCold
<1>2. CASE PrefillEnds
  <2>1. CacheInv'
    BY <1>2 DEF PrefillEnds, Serve, CacheInv, CacheTypeOK, IsolationInv
  <2> QED
    BY <1>2, <2>1 DEF PrefillEnds, Serve, IsolationInv, CacheInv, CacheTypeOK, IsolationIsCold
<1>3. CASE EndRound
  <2>1. CacheInv'
    BY <1>3, CacheRests DEF EndRound, IsolationInv
  <2>2. CASE long = "answered"
    <3>1. /\ rounded' = Append(rounded, [cold |-> cold, met |-> met])
          /\ rounded \in Seq([cold : BOOLEAN, met : BOOLEAN])
          /\ [cold |-> cold, met |-> met] \in [cold : BOOLEAN, met : BOOLEAN]
      BY <1>3, <2>2 DEF EndRound, IsolationInv
    <3>2. rounded' \in Seq([cold : BOOLEAN, met : BOOLEAN]) /\ Len(rounded') = Len(rounded) + 1
      BY <3>1
    <3>3. IsolationIsCold'
      <4> SUFFICES ASSUME ~reuse', NEW i \in DOMAIN rounded' PROVE rounded'[i].cold
        BY DEF IsolationIsCold
      <4>1. reuse = reuse'
        BY <1>3 DEF EndRound
      <4>2. cold
        BY <2>2, <4>1 DEF IsolationInv
      <4>3. CASE i \in DOMAIN rounded
        <5>1. rounded[i].cold /\ rounded'[i] = rounded[i]
          BY <3>1, <4>1, <4>3 DEF IsolationInv, IsolationIsCold
        <5> QED BY <5>1
      <4>4. CASE i = Len(rounded) + 1
        BY <3>1, <4>2, <4>4
      <4> QED
        BY <3>1, <3>2, <4>3, <4>4
    <3> QED
      BY <1>3, <2>1, <2>2, <3>2, <3>3
      DEF EndRound, Joined, IsolationInv, cacheVars, CacheInv, CacheTypeOK
  <2>3. CASE long # "answered"
    BY <1>3, <2>1, <2>3
    DEF EndRound, Joined, IsolationInv, cacheVars, CacheInv, CacheTypeOK, IsolationIsCold
  <2> QED BY <2>2, <2>3
<1>4. CASE \/ AloneFails \/ PrefillBegins \/ LongFails \/ AskLate
           \/ LateReturns \/ LeaveRound \/ UNCHANGED isolationVars
  <2> USE DEF IsolationInv, cacheVars, CacheInv, CacheTypeOK, IsolationIsCold
  <2>1. CASE AloneFails
    BY <2>1 DEF AloneFails
  <2>2. CASE PrefillBegins
    BY <2>2 DEF PrefillBegins
  <2>3. CASE LongFails
    BY <2>3 DEF LongFails
  <2>4. CASE AskLate
    BY <2>4 DEF AskLate
  <2>5. CASE LateReturns
    BY <2>5 DEF LateReturns
  <2>6. CASE LeaveRound
    BY <2>6 DEF LeaveRound
  <2>7. CASE UNCHANGED isolationVars
    BY <2>7 DEF isolationVars
  <2> QED
    BY <1>4, <2>1, <2>2, <2>3, <2>4, <2>5, <2>6, <2>7
<1> QED
  BY <1>1, <1>2, <1>3, <1>4 DEF IsolationNext

-----------------------------------------------------------------------------
(* bench_configured_ceiling.py                                              *)

LEMMA Multiples ==
    ASSUME NEW a \in Nat, NEW b \in Nat, NEW m \in Nat
    PROVE  /\ a * m \in Nat
           /\ (a + 1) * m = a * m + m
           /\ a <= b => a * m <= b * m
<1>1. a * m \in Nat /\ (a + 1) * m = a * m + m
  OBVIOUS
<1>2. ASSUME a <= b PROVE a * m <= b * m
  <2>1. PICK d \in Nat : b = a + d
    BY <1>2
  <2>2. b * m = a * m + d * m /\ d * m \in Nat
    BY <2>1
  <2> QED
    BY <1>1, <2>2
<1> QED BY <1>1, <1>2

LEMMA Division ==
    ASSUME NEW n \in Nat, NEW m \in Nat \ {0}
    PROVE  n \div m \in Nat /\ n = m * (n \div m) + (n % m) /\ n % m \in 0..(m - 1)
  OBVIOUS

LEMMA Quotient ==
    ASSUME NEW t \in Nat, NEW m \in Nat \ {0}, NEW r \in 0..(m - 1)
    PROVE  (t * m + r) \div m = t
<1> DEFINE n == t * m + r
           q == n \div m
<1>1. n \in Nat
  BY Multiples
<1>2. q \in Nat /\ n = m * q + (n % m) /\ n % m \in 0..(m - 1)
  BY <1>1
<1> HIDE DEF q
<1>3. q * m <= n /\ n < q * m + m
  BY <1>2
<1>4. ~(q < t)
  <2> SUFFICES ASSUME q < t PROVE FALSE
    OBVIOUS
  <2>1. (q + 1) * m <= t * m /\ (q + 1) * m = q * m + m
    BY <1>2, Multiples
  <2> QED BY <1>2, <1>3, <2>1, Multiples
<1>5. ~(t < q)
  <2> SUFFICES ASSUME t < q PROVE FALSE
    OBVIOUS
  <2>1. (t + 1) * m <= q * m /\ (t + 1) * m = t * m + m
    BY <1>2, Multiples
  <2> QED BY <1>2, <1>3, <2>1, Multiples
<1> QED BY <1>2, <1>4, <1>5 DEF q

LEMMA CeilingInitially == CeilingInit => CeilingInv
<1> SUFFICES ASSUME CeilingInit PROVE CeilingInv
  OBVIOUS
<1>1. CacheInv
  BY CacheBegins DEF CeilingInit
<1>2. CeilingTypeOK
  BY <1>1, CeilingAssumption DEF CeilingInit, CeilingTypeOK, CacheInv
<1>3. CeilingIsCold
  BY DEF CeilingInit, CeilingIsCold
<1>4. Taken(0, 0)
  BY DEF CeilingInit, Taken
<1>5. (target - 1) * samples + Len(targetSamples) = 0 /\ target - 1 = 0
  BY <1>2 DEF CeilingInit, CeilingTypeOK
<1> QED
  BY <1>1, <1>2, <1>3, <1>4, <1>5 DEF CeilingInit, CeilingInv, CeilingTypeOK

\* The invariant is about the cache only as far as CacheInv is.
LEMMA CeilingRests ==
    ASSUME CeilingInv, CacheInv',
           UNCHANGED <<targets, samples, stage, target, targetSamples, allSamples,
                       summaries, known, ceilingExit>>
    PROVE  CeilingInv'
<1>1. CeilingTypeOK'
  BY DEF CeilingInv, CeilingTypeOK, CacheInv
<1> QED
  BY <1>1 DEF CeilingInv, CeilingIsCold, Taken

\* The samples, before a size is complete.
LEMMA SampleStep == ASSUME CeilingInv, Sample PROVE CeilingInv'
<1> DEFINE e == [target |-> target, cold |-> FreshKey \notin cached]
           l == Len(targetSamples)
           n == (target - 1) * samples + l
<1>1. CacheInv' /\ e \in Samples /\ e.cold /\ e.target = target
  <2>1. CacheInv'
    BY FreshIsServed DEF Sample, MeasurePrompt, CeilingInv
  <2>2. FreshKey \notin cached
    BY FreshIsCold DEF CeilingInv
  <2>3. e = [target |-> target, cold |-> TRUE]
    <3>1. (FreshKey \notin cached) = TRUE
      BY <2>2
    <3> QED
      BY <3>1
  <2>4. target \in Nat
    BY DEF CeilingInv, CeilingTypeOK
  <2> QED
    BY <2>1, <2>3, <2>4 DEF Samples
<1>2. targetSamples' = Append(targetSamples, e)
  BY DEF Sample, MeasurePrompt
<1>3. /\ l \in Nat /\ l < samples /\ samples \in Nat \ {0} /\ target \in Nat
      /\ target - 1 \in Nat /\ (target - 1) * samples \in Nat
  <2>1. l \in Nat /\ l < samples /\ samples \in Nat \ {0} /\ target - 1 \in Nat
    BY DEF Sample, CeilingInv, CeilingTypeOK
  <2>2. target \in Nat
    BY DEF CeilingInv, CeilingTypeOK
  <2> QED
    BY <2>1, <2>2, Multiples
<1>4. /\ Len(allSamples) = n
      /\ \A i \in 1..n : allSamples[i].target = (i - 1) \div samples + 1
      /\ summaries = [k \in 1..(target - 1) |-> [target |-> k, count |-> samples]]
  BY DEF Sample, CeilingInv, Taken
<1>5. UNCHANGED <<targets, samples, stage, target, summaries, known, ceilingExit>>
  BY DEF Sample, ceilingArgs
<1> HIDE DEF e, l, n
<1>6. /\ targetSamples' \in Seq(Samples) /\ Len(targetSamples') = l + 1
      /\ targetSamples'[l + 1] = e
      /\ \A i \in 1..l : targetSamples'[i] = targetSamples[i]
  BY <1>1, <1>2 DEF CeilingInv, CeilingTypeOK, l
<1>7. allSamples' = Append(allSamples, e)
  BY <1>6 DEF Sample
<1>8. /\ allSamples' \in Seq(Samples) /\ Len(allSamples') = n + 1
      /\ allSamples'[n + 1] = e
      /\ \A i \in 1..n : allSamples'[i] = allSamples[i]
  BY <1>1, <1>4, <1>7 DEF CeilingInv, CeilingTypeOK
<1>9. CeilingTypeOK'
  BY <1>1, <1>5, <1>6, <1>8 DEF CeilingInv, CeilingTypeOK, CacheInv
<1>10. CeilingIsCold'
  BY <1>1, <1>4, <1>8 DEF CeilingIsCold, CeilingInv
<1>11. n \div samples = target - 1 /\ n \in Nat
  BY <1>3, Quotient DEF n
<1>12. \A i \in 1..(n + 1) : allSamples'[i].target = (i - 1) \div samples + 1
  <2> SUFFICES ASSUME NEW i \in 1..(n + 1)
               PROVE  allSamples'[i].target = (i - 1) \div samples + 1
    OBVIOUS
  <2>1. CASE i \in 1..n
    BY <1>4, <1>8, <2>1
  <2>2. CASE i = n + 1
    <3>1. i - 1 = n
      BY <1>11, <2>2
    <3>2. (i - 1) \div samples + 1 = target
      BY <1>3, <1>11, <3>1
    <3> QED
      BY <1>1, <1>8, <2>2, <3>2
  <2> QED
    BY <1>11, <2>1, <2>2
<1>13. (target' - 1) * samples' + Len(targetSamples') = n + 1
  BY <1>3, <1>5, <1>6 DEF n
<1>14. Taken((target - 1) * samples + Len(targetSamples), target - 1)'
  <2>1. \A m \in Nat : m = n + 1 => Taken(m, target - 1)'
    BY <1>4, <1>5, <1>8, <1>12 DEF Taken
  <2> QED
    BY <1>11, <1>13, <2>1
<1>15. stage = "sampling" /\ ceilingExit = "running"
  BY DEF Sample, CeilingInv
<1>16. \A i \in 1..(l + 1) : targetSamples'[i].target = target
  <2>1. \A i \in 1..l : targetSamples[i].target = target
    BY <1>15 DEF CeilingInv, CeilingTypeOK, l
  <2> QED
    BY <1>1, <1>3, <1>6, <2>1
<1> QED
  BY <1>1, <1>3, <1>5, <1>6, <1>9, <1>10, <1>14, <1>15, <1>16 DEF CeilingInv, CeilingTypeOK

Summaries(t) == [k \in 1..t |-> [target |-> k, count |-> samples]]

LEMMA SummariesGrow ==
    ASSUME NEW t \in Nat, samples \in Nat
    PROVE  Append(Summaries(t), [target |-> t + 1, count |-> samples]) = Summaries(t + 1)
<1> DEFINE e == [target |-> t + 1, count |-> samples]
           S == [target : Nat, count : Nat]
<1>1. e \in S /\ Summaries(t) \in Seq(S) /\ Summaries(t + 1) \in Seq(S)
  BY DEF Summaries
<1>2. Len(Summaries(t)) = t /\ Len(Summaries(t + 1)) = t + 1
  BY DEF Summaries
<1>3. \A k \in 1..t : Summaries(t)[k] = Summaries(t + 1)[k]
  BY DEF Summaries
<1>4. Summaries(t + 1)[t + 1] = e
  BY DEF Summaries
<1> HIDE DEF e, S
<1>5. /\ Append(Summaries(t), e) \in Seq(S) /\ Len(Append(Summaries(t), e)) = t + 1
      /\ \A k \in 1..t : Append(Summaries(t), e)[k] = Summaries(t)[k]
      /\ Append(Summaries(t), e)[t + 1] = e
  BY <1>1, <1>2
<1>6. \A k \in 1..(t + 1) : Append(Summaries(t), e)[k] = Summaries(t + 1)[k]
  BY <1>3, <1>4, <1>5
<1>7. Append(Summaries(t), e) = Summaries(t + 1)
  BY <1>1, <1>2, <1>5, <1>6, SeqEqual
<1> QED BY <1>7 DEF e

LEMMA SummarizeStep == ASSUME CeilingInv, Summarize PROVE CeilingInv'
<1>1. /\ stage = "sampling" /\ ceilingExit = "running" /\ Len(targetSamples) = samples
      /\ UNCHANGED <<targets, samples, allSamples, known, ceilingExit>>
  BY DEF Summarize, CeilingInv, ceilingArgs
<1>2. CacheInv'
  BY CacheRests DEF Summarize, CeilingInv
<1>3. samples \in Nat \ {0} /\ targets \in Nat \ {0} /\ target \in 1..targets
  BY DEF CeilingInv, CeilingTypeOK
<1>4. (target - 1) * samples + samples = target * samples /\ target * samples \in Nat
  <2>1. target - 1 \in Nat /\ target - 1 + 1 = target /\ target \in Nat
    BY <1>3
  <2> QED
    BY <1>3, <2>1, Multiples
<1>5. /\ Len(allSamples) = target * samples
      /\ \A i \in 1..(target * samples) : allSamples[i].target = (i - 1) \div samples + 1
      /\ summaries = Summaries(target - 1)
  BY <1>1, <1>4 DEF CeilingInv, Taken, Summaries
<1>6. targetSamples[1].target = target
  BY <1>1, <1>3 DEF CeilingInv, CeilingTypeOK
<1>7. summaries' = Summaries(target)
  <2>1. summaries' = Append(summaries, [target |-> target, count |-> samples])
    BY <1>1, <1>6 DEF Summarize
  <2>2. target - 1 \in Nat /\ target - 1 + 1 = target
    BY <1>3
  <2> QED
    BY <1>3, <1>5, <2>1, <2>2, SummariesGrow
<1>8. summaries' \in Seq([target : Nat, count : Nat])
  BY <1>3, <1>7 DEF Summaries
<1>9. CeilingIsCold'
  BY <1>1 DEF CeilingInv, CeilingIsCold
<1>10. \A m, k \in Nat : m = target * samples /\ k = target => Taken(m, k)'
  BY <1>1, <1>5, <1>7 DEF Taken, Summaries
<1>11. CASE target = targets
  <2>1. stage' = "after" /\ UNCHANGED <<target, targetSamples>>
    BY <1>11 DEF Summarize
  <2>2. Taken(targets * samples, targets)'
    BY <1>1, <1>3, <1>4, <1>10, <1>11
  <2> QED
    BY <1>1, <1>2, <1>8, <1>9, <2>1, <2>2 DEF CeilingInv, CeilingTypeOK, CacheInv
<1>12. CASE target # targets
  <2>1. stage' = stage /\ target' = target + 1 /\ targetSamples' = <<>>
    BY <1>12 DEF Summarize
  <2>2. /\ (target' - 1) * samples' + Len(targetSamples') = target * samples
        /\ target' - 1 = target /\ target' \in 1..targets
    BY <1>1, <1>3, <1>4, <1>12, <2>1
  <2>3. Taken((target - 1) * samples + Len(targetSamples), target - 1)'
    <3>1. \A m \in Nat : m = target * samples => Taken(m, target - 1)'
      BY <1>1, <1>5, <1>7, <2>2 DEF Taken, Summaries
    <3> QED
      BY <1>4, <2>2, <3>1
  <2> QED
    BY <1>1, <1>2, <1>3, <1>8, <1>9, <2>1, <2>2, <2>3 DEF CeilingInv, CeilingTypeOK, CacheInv
<1> QED BY <1>11, <1>12

LEMMA CeilingStep == CeilingInv /\ [CeilingNext]_ceilingVars => CeilingInv'
<1> SUFFICES ASSUME CeilingInv, [CeilingNext]_ceilingVars PROVE CeilingInv'
  OBVIOUS
<1>2. CASE WarmUp
  <2>1. CacheInv'
    BY <1>2, FreshIsServed DEF WarmUp, CeilingInv
  <2> QED
    BY <1>2, <2>1
    DEF WarmUp, ceilingArgs, CeilingInv, CeilingTypeOK, CacheInv, CeilingIsCold, Taken
<1>3. CASE ReadPreemptions
  <2>1. CacheInv'
    BY <1>3, CacheRests DEF ReadPreemptions, CeilingInv
  <2> QED
    BY <1>3, <2>1
    DEF ReadPreemptions, ceilingArgs, CeilingInv, CeilingTypeOK, CacheInv, CeilingIsCold, Taken
<1>4. CASE CeilingFails
  <2>1. CacheInv'
    BY <1>4, CacheRests DEF CeilingFails, CeilingInv
  <2> QED
    BY <1>4, <2>1
    DEF CeilingFails, ceilingArgs, CeilingInv, CeilingTypeOK, CacheInv, CeilingIsCold, Taken
<1>5. CASE UNCHANGED ceilingVars
  <2>1. CacheInv'
    BY <1>5, CacheRests DEF ceilingVars, CeilingInv
  <2> QED
    BY <1>5, <2>1, CeilingRests DEF ceilingVars, ceilingArgs
<1> QED
  BY <1>2, <1>3, <1>4, <1>5, SampleStep, SummarizeStep DEF CeilingNext

-----------------------------------------------------------------------------
(* bench_long_context_recall.py                                             *)

\* The segments follow one another, and end with the last note.
LEMMA SegmentsFollow ==
    ASSUME needles \in Nat \ {0}, NEW n \in Nat, NEW k \in Nat
    PROVE  /\ Repetitions(n, k) \in (n \div (needles + 1))..(n \div (needles + 1) + 1)
           /\ Repetitions(n, k) \in Nat
           /\ Begin(n, k) \in Nat
           /\ Begin(n, k + 1) = Begin(n, k) + Repetitions(n, k)
           /\ Begin(n, 0) = 0
           /\ Begin(n, needles + 1) = n
<1> DEFINE s == needles + 1
           q == n \div s
           r == n % s
<1>1. s \in Nat \ {0}
  OBVIOUS
<1>2. q \in Nat /\ r \in 0..(s - 1) /\ n = s * q + r
  BY <1>1, Division
<1>3. /\ Repetitions(n, k) = q + (IF k < r THEN 1 ELSE 0)
      /\ \A j \in Nat : Begin(n, j) = j * q + (IF j < r THEN j ELSE r)
  BY DEF Repetitions, Begin
<1> HIDE DEF q, r, s
<1>4. Repetitions(n, k) \in q..(q + 1) /\ Repetitions(n, k) \in Nat
  BY <1>2, <1>3
<1>5. k * q \in Nat /\ (k + 1) * q = k * q + q
  BY <1>2, Multiples
<1>6. Begin(n, k) \in Nat
  BY <1>1, <1>2, <1>3, <1>5
<1>7. Begin(n, k + 1) = Begin(n, k) + Repetitions(n, k)
  <2>1. Begin(n, k + 1) = k * q + q + (IF k + 1 < r THEN k + 1 ELSE r)
    BY <1>3, <1>5
  <2>2. r \in Nat
    BY <1>1, <1>2
  <2> QED
    BY <1>2, <1>3, <1>5, <2>1, <2>2
<1>8. Begin(n, 0) = 0
  BY <1>1, <1>2, <1>3
<1>9. Begin(n, s) = n
  BY <1>1, <1>2, <1>3
<1> QED
  BY <1>4, <1>6, <1>7, <1>8, <1>9 DEF q, s

LEMMA RecallInitially == RecallInit => RecallInv
<1> SUFFICES ASSUME RecallInit PROVE RecallInv
  OBVIOUS
<1>1. CacheInv
  BY CacheBegins DEF RecallInit
<1>2. /\ cases \in Nat \ {0} /\ needles \in Nat \ {0} /\ calibrations \in Nat \ {0}
      /\ filler \in Nat \ {0}
  BY RecallAssumption DEF RecallInit
<1>3. document \in [Segments -> [from : Nat, to : Nat]]
  BY DEF RecallInit
<1>4. measured \in [notes : Nat, near : BOOLEAN]
  BY DEF RecallInit
<1>5. judged = <<>>
  BY DEF RecallInit
<1>6. judged \in Seq([answer : Seq(Readings), cold : BOOLEAN]) /\ RecallIsCold
  BY <1>5 DEF RecallIsCold
<1>7. RecallTypeOK
  BY <1>1, <1>2, <1>3, <1>4, <1>6 DEF RecallInit, RecallTypeOK, CacheInv
<1>8. nextRecord = Begin(filler, placed) /\ LaidOut(filler, placed)
  BY <1>2, SegmentsFollow DEF RecallInit, LaidOut
<1>9. RecallBooks
  BY <1>5 DEF RecallInit, RecallBooks
<1> QED
  BY <1>1, <1>2, <1>6, <1>7, <1>8, <1>9 DEF RecallInit, RecallInv

\* The invariant is about the cache only as far as CacheInv is.
LEMMA RecallRests ==
    ASSUME RecallInv, CacheInv',
           UNCHANGED <<cases, needles, calibrations, task, building, measured, judged,
                       failedCases, recallExit>>
    PROVE  RecallInv'
<1>1. RecallTypeOK'
  BY DEF RecallInv, RecallTypeOK, CacheInv, building, Segments
<1> QED
  BY <1>1 DEF RecallInv, RecallIsCold, RecallBooks, LaidOut, Begin, building

LEMMA PlaceSegmentStep == ASSUME RecallInv, PlaceSegment PROVE RecallInv'
<1>1. /\ task = "build" /\ placed \in 0..needles /\ needles \in Nat \ {0}
      /\ filler \in Nat \ {0} /\ nextRecord = Begin(filler, placed)
      /\ document \in [Segments -> [from : Nat, to : Nat]]
      /\ measures < calibrations
  BY DEF PlaceSegment, RecallInv, RecallTypeOK
<1>2. UNCHANGED <<cases, needles, calibrations, filler, measures, measured, judged,
                  failedCases, recallExit, cached, uuids>>
  BY DEF PlaceSegment, recallArgs, cacheVars
<1>3. CacheInv'
  BY <1>2, CacheRests DEF RecallInv, cacheVars
<1> DEFINE e == [from |-> Begin(filler, placed), to |-> Begin(filler, placed + 1)]
<1>4. nextRecord' = Begin(filler, placed + 1) /\ nextRecord' \in Nat
  BY <1>1, SegmentsFollow DEF PlaceSegment
<1>5. e \in [from : Nat, to : Nat]
  BY <1>1, SegmentsFollow
<1>6. document' = [document EXCEPT ![placed] = e]
  BY <1>1, <1>4 DEF PlaceSegment
<1> HIDE DEF e
<1>7. document' \in [Segments -> [from : Nat, to : Nat]]
  BY <1>1, <1>5, <1>6
<1>8. placed' = placed + 1 /\ task' = IF placed = needles THEN "measure" ELSE "build"
  BY DEF PlaceSegment
<1>9. RecallTypeOK'
  <2>1. placed' \in 0..(needles + 1) /\ task' \in {"build", "measure", "ask", "over"}
    BY <1>1, <1>8
  <2>2. document' \in [Segments -> [from : Nat, to : Nat]]' /\ CacheTypeOK'
    BY <1>2, <1>3, <1>7 DEF Segments, CacheInv
  <2> QED
    BY <1>2, <1>4, <2>1, <2>2 DEF RecallInv, RecallTypeOK
<1>10. LaidOut(filler, placed)'
  <2> SUFFICES ASSUME NEW k \in 0..placed
               PROVE  document'[k] = [from |-> Begin(filler, k), to |-> Begin(filler, k + 1)]
    BY <1>1, <1>2, <1>8 DEF LaidOut, Begin
  <2>1. CASE k = placed
    BY <1>1, <1>6, <2>1 DEF e, Segments
  <2>2. CASE k # placed
    <3>1. document[k] = [from |-> Begin(filler, k), to |-> Begin(filler, k + 1)]
      BY <1>1, <2>2 DEF RecallInv, LaidOut
    <3> QED
      BY <1>1, <1>6, <2>2, <3>1 DEF Segments
  <2> QED BY <2>1, <2>2
<1>11. nextRecord' = Begin(filler, placed)'
  BY <1>1, <1>2, <1>4, <1>8 DEF Begin
<1>12. task' = "measure" => LaidOut(filler, needles + 1)'
  BY <1>1, <1>2, <1>8, <1>10 DEF LaidOut, Begin
<1>13. RecallIsCold' /\ RecallBooks'
  BY <1>1, <1>2, <1>8 DEF RecallInv, RecallIsCold, RecallBooks
<1> QED
  BY <1>1, <1>2, <1>3, <1>8, <1>9, <1>10, <1>11, <1>12, <1>13 DEF RecallInv

LEMMA MeasureStep == ASSUME RecallInv, Measure PROVE RecallInv'
<1>0. RecallBooks'
  BY DEF Measure, Rebuild, recallArgs, RecallInv, RecallBooks
<1>1. /\ task = "measure" /\ needles \in Nat \ {0} /\ filler \in Nat \ {0}
      /\ measures \in Nat /\ calibrations \in Nat /\ measures < calibrations
      /\ LaidOut(filler, needles + 1)
  BY DEF Measure, RecallInv, RecallTypeOK
<1>2. UNCHANGED <<cases, needles, calibrations, document, judged, failedCases,
                  recallExit, cached, uuids>>
  BY DEF Measure, recallArgs, cacheVars
<1>3. CacheInv' /\ RecallIsCold'
  BY <1>2, CacheRests DEF RecallInv, RecallIsCold, cacheVars
<1>4. document[needles].to = filler
  <2>1. needles \in 0..(needles + 1 - 1)
    BY <1>1
  <2>2. document[needles] = [from |-> Begin(filler, needles), to |-> Begin(filler, needles + 1)]
    BY <1>1, <2>1 DEF LaidOut
  <2>3. Begin(filler, needles + 1) = filler
    BY <1>1, SegmentsFollow
  <2> QED
    BY <2>2, <2>3
<1>5. PICK near \in BOOLEAN :
        /\ measured' = [notes |-> filler, near |-> near]
        /\ IF near \/ measures + 1 = calibrations
             THEN /\ task' = "ask"
                  /\ measures' = measures + 1
                  /\ IF near THEN UNCHANGED filler ELSE filler' \in 1..MaxNotes
                  /\ UNCHANGED <<placed, nextRecord>>
             ELSE \E n \in 1..MaxNotes : Rebuild(n, measures + 1)
  BY <1>4 DEF Measure
<1>6. measured' \in [notes : Nat, near : BOOLEAN]
  BY <1>1, <1>5
<1>7. document' \in [Segments -> [from : Nat, to : Nat]]' /\ CacheTypeOK'
  BY <1>2, <1>3 DEF RecallInv, RecallTypeOK, Segments, CacheInv
<1>8. ASSUME NEW n \in Nat, LaidOut(n, needles + 1) PROVE LaidOut(n, needles + 1)'
  BY <1>2, <1>8 DEF LaidOut, Begin
<1>9. CASE near \/ measures + 1 = calibrations
  <2>1. /\ task' = "ask" /\ measures' = measures + 1
        /\ near => filler' = filler
        /\ ~near => filler' \in 1..MaxNotes
        /\ UNCHANGED <<placed, nextRecord>>
    BY <1>5, <1>9
  <2>2. filler' \in Nat \ {0}
    BY <1>1, <2>1
  <2>3. RecallTypeOK'
    BY <1>1, <1>2, <1>6, <1>7, <2>1, <2>2 DEF RecallInv, RecallTypeOK
  <2>4. measured'.notes = filler /\ measured'.near = near
    BY <1>5
  <2>5. LaidOut(measured.notes, needles + 1)'
    BY <1>1, <1>2, <2>4 DEF LaidOut, Begin
  <2> QED
    BY <1>0, <1>2, <1>3, <1>9, <2>1, <2>3, <2>4, <2>5 DEF RecallInv
<1>10. CASE ~(near \/ measures + 1 = calibrations)
  <2>1. PICK n \in 1..MaxNotes : Rebuild(n, measures + 1)
    BY <1>5, <1>10
  <2>2. /\ filler' = n /\ measures' = measures + 1 /\ placed' = 0 /\ nextRecord' = 0
        /\ task' = "build" /\ filler' \in Nat \ {0} /\ measures' < calibrations
    BY <1>1, <1>10, <2>1 DEF Rebuild
  <2>3. RecallTypeOK'
    BY <1>1, <1>2, <1>6, <1>7, <2>2 DEF RecallInv, RecallTypeOK
  <2>4. Begin(n, 0) = 0
    BY <1>1, SegmentsFollow
  <2>5. nextRecord' = Begin(filler, placed)' /\ LaidOut(filler, placed)'
    BY <1>2, <2>2, <2>4 DEF LaidOut, Begin
  <2> QED
    BY <1>0, <1>1, <1>2, <1>3, <2>2, <2>3, <2>5 DEF RecallInv
<1> QED BY <1>9, <1>10

LEMMA AnswersAreReadings == Answers \subseteq Seq(Readings)
  BY RecallAssumption DEF Answers

LEMMA AskStep == ASSUME RecallInv, Ask PROVE RecallInv'
<1>1. UNCHANGED <<cases, needles, calibrations, document, measured>>
  BY DEF Ask, recallArgs
<1>2. needles \in Nat \ {0} /\ calibrations \in Nat \ {0} /\ filler \in Nat \ {0}
  BY DEF RecallInv, RecallTypeOK
<1>3. CacheInv'
  BY FreshIsServed DEF Ask, RecallInv
<1>4. (FreshKey \notin cached) = TRUE
  BY FreshIsCold DEF RecallInv
<1>5. PICK answer \in Answers :
        /\ judged' = Append(judged, [answer |-> answer, cold |-> TRUE])
        /\ failedCases' = failedCases + (IF Passed(answer) THEN 0 ELSE 1)
  BY <1>4 DEF Ask
<1> DEFINE e == [answer |-> answer, cold |-> TRUE]
           Judgements == [answer : Seq(Readings), cold : BOOLEAN]
<1>6. e \in Judgements /\ e.cold
  BY AnswersAreReadings
<1>7. judged \in Seq(Judgements) /\ \A j \in 1..Len(judged) : judged[j].cold
  BY DEF RecallInv, RecallTypeOK, RecallIsCold
<1>8. judged' = Append(judged, e)
  BY <1>5
<1> HIDE DEF e, Judgements
<1>9. /\ judged' \in Seq(Judgements) /\ Len(judged') = Len(judged) + 1
      /\ \A j \in 1..(Len(judged) + 1) : judged'[j].cold
  BY <1>6, <1>7, <1>8
<1>10. RecallIsCold' /\ judged' \in Seq([answer : Seq(Readings), cold : BOOLEAN])
  BY <1>9 DEF RecallIsCold, Judgements
<1>11. failedCases' \in Nat
  BY <1>5 DEF RecallInv, RecallTypeOK
<1>12. document' \in [Segments -> [from : Nat, to : Nat]]' /\ CacheTypeOK'
  BY <1>1, <1>3 DEF RecallInv, RecallTypeOK, Segments, CacheInv
<1>13. RecallBooks'
  <2>1. /\ failedCases \in Nat /\ judged \in Seq([answer : Seq(Readings), cold : BOOLEAN])
        /\ recallExit = "running" /\ Len(judged) < cases /\ cases \in Nat
        /\ failedCases = 0 <=> \A i \in DOMAIN judged : Passed(judged[i].answer)
    BY DEF Ask, RecallInv, RecallTypeOK, RecallBooks
  <2>2. /\ DOMAIN judged' = 1..(Len(judged) + 1) /\ DOMAIN judged = 1..Len(judged)
        /\ Len(judged) \in Nat
    BY <1>7, <1>9
  <2>3. judged'[Len(judged) + 1].answer = answer
    <3>1. judged'[Len(judged) + 1] = e
      BY <1>7, <1>8
    <3> QED
      BY <3>1 DEF e
  <2>4. \A i \in DOMAIN judged : judged'[i].answer = judged[i].answer
    BY <1>7, <1>8
  <2>5. failedCases' = 0 <=> failedCases = 0 /\ Passed(answer)
    BY <1>5, <2>1
  <2>6. (failedCases = 0 <=> \A i \in DOMAIN judged : Passed(judged[i].answer))'
    <3>1. ASSUME failedCases' = 0, NEW i \in DOMAIN judged' PROVE Passed(judged'[i].answer)
      <4>1. failedCases = 0 /\ Passed(answer)
        BY <2>5, <3>1
      <4>2. CASE i \in DOMAIN judged
        BY <2>1, <2>4, <4>1, <4>2
      <4>3. CASE i = Len(judged) + 1
        BY <2>3, <4>1, <4>3
      <4> QED
        BY <2>2, <3>1, <4>2, <4>3
    <3>2. ASSUME \A i \in DOMAIN judged' : Passed(judged'[i].answer) PROVE failedCases' = 0
      <4>1. Passed(answer)
        BY <2>2, <2>3, <3>2
      <4>2. \A i \in DOMAIN judged : i \in DOMAIN judged'
        BY <2>2
      <4>3. \A i \in DOMAIN judged : Passed(judged[i].answer)
        BY <2>4, <3>2, <4>2
      <4> QED
        BY <2>1, <2>5, <4>1, <4>3
    <3>3. ((\A i \in DOMAIN judged : Passed(judged[i].answer))' )
            <=> \A i \in DOMAIN judged' : Passed(judged'[i].answer)
      BY DEF Passed, StringLists, FirstOf
    <3> QED
      BY <3>1, <3>2, <3>3
  <2>7. /\ recallExit' = "0" => failedCases' = 0 /\ Len(judged') = cases'
        /\ recallExit' = "1" /\ Len(judged') = cases' => failedCases' # 0
    BY <1>1, <1>11, <2>1 DEF Ask
  <2>8. task' # "over" => recallExit' = "running" /\ Len(judged') # cases'
    BY <1>1, <2>1 DEF Ask, Rebuild
  <2>9. task' # "over" => Len(judged') < cases'
    BY <1>1, <1>9, <2>1, <2>2, <2>8
  <2> QED
    BY <2>6, <2>7, <2>8, <2>9 DEF RecallBooks
<1>14. CASE Len(judged') = cases
  <2>1. /\ task' = "over" /\ recallExit' \in {"running", "0", "1"}
        /\ UNCHANGED <<filler, measures, placed, nextRecord>>
    BY <1>14 DEF Ask
  <2>2. RecallTypeOK'
    BY <1>1, <1>10, <1>11, <1>12, <2>1 DEF RecallInv, RecallTypeOK
  <2> QED
    BY <1>3, <1>10, <1>13, <2>1, <2>2 DEF RecallInv
<1>15. CASE Len(judged') # cases
  <2>1. PICK n \in 1..MaxNotes : Rebuild(n, 0)
    BY <1>15 DEF Ask
  <2>2. recallExit' = recallExit
    BY <1>15 DEF Ask
  <2>3. /\ filler' = n /\ measures' = 0 /\ placed' = 0 /\ nextRecord' = 0
        /\ task' = "build" /\ filler' \in Nat \ {0} /\ measures' < calibrations
    BY <1>2, <2>1 DEF Rebuild
  <2>4. RecallTypeOK'
    BY <1>1, <1>2, <1>10, <1>11, <1>12, <2>2, <2>3 DEF RecallInv, RecallTypeOK
  <2>5. Begin(n, 0) = 0
    BY <1>2, SegmentsFollow
  <2>6. nextRecord' = Begin(filler, placed)' /\ LaidOut(filler, placed)'
    BY <1>1, <2>3, <2>5 DEF LaidOut, Begin
  <2> QED
    BY <1>1, <1>2, <1>3, <1>10, <1>13, <2>3, <2>4, <2>6 DEF RecallInv
<1> QED BY <1>14, <1>15

LEMMA RecallStep == RecallInv /\ [RecallNext]_recallVars => RecallInv'
<1> SUFFICES ASSUME RecallInv, [RecallNext]_recallVars PROVE RecallInv'
  OBVIOUS
<1>1. CASE RecallFails
  <2>1. CacheInv'
    BY <1>1, CacheRests DEF RecallFails, RecallInv
  <2> QED
    BY <1>1, <2>1
    DEF RecallFails, RecallInv, RecallTypeOK, RecallIsCold, RecallBooks, recallArgs,
        building, CacheInv, Segments
<1>2. CASE UNCHANGED recallVars
  <2>1. CacheInv'
    BY <1>2, CacheRests DEF recallVars, RecallInv
  <2> QED
    BY <1>2, <2>1, RecallRests DEF recallVars, recallArgs
<1> QED
  BY <1>1, <1>2, PlaceSegmentStep, MeasureStep, AskStep DEF RecallNext

\* A set of places that is not empty has a first one.
LEMMA FirstOfIsFirst ==
    ASSUME NEW places \in SUBSET Nat, places # {}
    PROVE  FirstOf(places) \in places /\ \A j \in places : FirstOf(places) <= j
<1>1. PICK m \in places : \A k \in places : <<k, m>> \notin OpToRel(<, Nat)
  BY WFMin, NatLessThanWellFounded, Zenon
<1>2. ASSUME NEW k \in places PROVE ~(k < m)
  BY <1>1, <1>2, Zenon DEF OpToRel
<1>3. \A k \in places : m <= k
  BY <1>2
<1> QED
  BY <1>3, Zenon DEF FirstOf

\* An answer whose first list of strings is the needles recalls them.
LEMMA PassedRecalls == ASSUME NEW answer \in Seq(Readings), Passed(answer) PROVE Recalls(answer)
<1> DEFINE i == FirstOf(StringLists(answer))
<1>1. StringLists(answer) \in SUBSET Nat /\ StringLists(answer) # {}
  BY DEF Passed, StringLists
<1>2. i \in StringLists(answer) /\ \A j \in StringLists(answer) : i <= j
  BY <1>1, FirstOfIsFirst
<1>3. i \in DOMAIN answer /\ answer[i] = "needles"
  BY <1>2 DEF Passed, StringLists
<1> HIDE DEF i
<1>4. \A j \in 1..(i - 1) : answer[j] \in {"error", "mixed"}
  <2> SUFFICES ASSUME NEW j \in 1..(i - 1) PROVE answer[j] \in {"error", "mixed"}
    OBVIOUS
  <2>1. j \in DOMAIN answer /\ j < i
    BY <1>3
  <2>2. answer[j] \notin {"needles", "strings"}
    BY <1>2, <1>3, <2>1 DEF StringLists
  <2>3. answer[j] \in Readings
    BY <2>1
  <2> QED
    BY <2>2, <2>3 DEF Readings
<1> QED
  BY <1>3, <1>4 DEF Recalls

\* And an answer that recalls them has them as its first list of strings.
LEMMA RecallsPasses == ASSUME NEW answer \in Seq(Readings), Recalls(answer) PROVE Passed(answer)
<1> DEFINE places == StringLists(answer)
<1>1. PICK i \in DOMAIN answer : /\ answer[i] = "needles"
                                /\ \A j \in 1..(i - 1) : answer[j] \in {"error", "mixed"}
  BY DEF Recalls
<1>2. places \in SUBSET Nat /\ i \in places
  BY <1>1 DEF StringLists
<1>3. FirstOf(places) \in places /\ FirstOf(places) <= i
  BY <1>2, FirstOfIsFirst
<1>4. answer[FirstOf(places)] \notin {"error", "mixed"}
  BY <1>3 DEF StringLists
<1>5. ~(FirstOf(places) < i)
  <2>1. i \in 1..Len(answer) /\ FirstOf(places) \in 1..Len(answer) /\ Len(answer) \in Nat
    BY <1>1, <1>3 DEF StringLists
  <2> HIDE DEF places
  <2>2. FirstOf(places) < i => FirstOf(places) \in 1..(i - 1)
    BY <2>1
  <2> QED
    BY <1>1, <1>4, <2>2
<1>6. FirstOf(places) = i
  BY <1>2, <1>3, <1>5
<1> QED
  BY <1>1, <1>2, <1>6 DEF Passed

LEMMA BooksTellRecall == RecallInv => RecallExitTells
<1> SUFFICES ASSUME RecallInv PROVE RecallExitTells
  OBVIOUS
<1>1. RecallBooks
  BY DEF RecallInv
<1>2. ASSUME NEW i \in DOMAIN judged PROVE Passed(judged[i].answer) <=> Recalls(judged[i].answer)
  <2> DEFINE Judgements == [answer : Seq(Readings), cold : BOOLEAN]
  <2>1. judged \in Seq(Judgements)
    BY DEF RecallInv, RecallTypeOK
  <2>2. judged[i] \in Judgements
    <3> HIDE DEF Judgements
    <3> QED
      BY <2>1, ElementOfSeq
  <2>3. judged[i].answer \in Seq(Readings)
    BY <2>2
  <2> QED
    BY <2>3, PassedRecalls, RecallsPasses
<1> QED
  BY <1>1, <1>2 DEF RecallBooks, RecallExitTells

LEMMA LaidOutIsMeasured == RecallInv => RecallIsMeasured
<1> SUFFICES ASSUME RecallInv, task = "ask" PROVE RecallIsMeasured
  BY DEF RecallIsMeasured
<1>1. PICK n \in Nat : n = measured.notes
  BY DEF RecallInv, RecallTypeOK
<1>2. needles \in Nat \ {0} /\ LaidOut(n, needles + 1)
  BY <1>1 DEF RecallInv, RecallTypeOK
<1>3. ASSUME NEW k \in Segments
      PROVE  document[k].from = Begin(n, k) /\ document[k].to = Begin(n, k + 1)
  <2>1. document[k] = [from |-> Begin(n, k), to |-> Begin(n, k + 1)]
    <3>1. k \in 0..(needles + 1 - 1)
      BY <1>2 DEF Segments
    <3> QED
      BY <1>2, <3>1 DEF LaidOut
  <2> QED
    BY <2>1
<1>4. document[0].from = 0 /\ document[needles].to = n
  <2>1. 0 \in Segments /\ needles \in Segments
    BY <1>2 DEF Segments
  <2>2. document[0].from = Begin(n, 0) /\ document[needles].to = Begin(n, needles + 1)
    BY <1>3, <2>1
  <2> QED
    BY <1>2, <2>2, SegmentsFollow
<1>5. \A k \in Segments \ {0} : document[k].from = document[k - 1].to
  <2> SUFFICES ASSUME NEW k \in Segments \ {0} PROVE document[k].from = document[k - 1].to
    OBVIOUS
  <2>1. k - 1 \in Segments /\ k - 1 + 1 = k
    BY <1>2 DEF Segments
  <2> QED
    <3>1. document[k].from = Begin(n, k)
      BY <1>3
    <3>2. document[k - 1].to = Begin(n, k - 1 + 1)
      BY <1>3, <2>1
    <3> QED
      BY <2>1, <3>1, <3>2
<1>6. \A k \in Segments :
        document[k].to - document[k].from
            \in (n \div (needles + 1))..(n \div (needles + 1) + 1)
  <2> SUFFICES ASSUME NEW k \in Segments
               PROVE  document[k].to - document[k].from
                          \in (n \div (needles + 1))..(n \div (needles + 1) + 1)
    OBVIOUS
  <2>1. k \in Nat
    BY <1>2 DEF Segments
  <2>2. document[k].to - document[k].from = Repetitions(n, k)
    <3>1. document[k].to = Begin(n, k + 1) /\ document[k].from = Begin(n, k)
      BY <1>3
    <3>2. /\ Begin(n, k + 1) = Begin(n, k) + Repetitions(n, k)
          /\ Begin(n, k) \in Nat /\ Repetitions(n, k) \in Nat
      BY <1>2, <2>1, SegmentsFollow
    <3> QED
      BY <3>1, <3>2
  <2> QED
    BY <1>2, <2>1, <2>2, SegmentsFollow
<1>7. \A j, k \in Segments :
        document[j].to - document[j].from <= document[k].to - document[k].from + 1
  <2>1. n \div (needles + 1) \in Nat
    BY <1>2, Division
  <2> QED
    BY <1>6, <2>1
<1> QED
  BY <1>1, <1>4, <1>5, <1>7 DEF RecallIsMeasured, RecallInv

-----------------------------------------------------------------------------
(* bench_high_concurrency.py, bench_full.py, 04_bench_decode.py             *)

\* What is kept about the reports while the program goes from pool to pool.
Books ==
    /\ poolExit = "running" <=> wave # "over"
    /\ wave # "over" => Len(reports) < pool /\ \A k \in 1..(pool - 1) : Settled(k)
    /\ poolExit = "0" => failures = 0 /\ \A k \in DOMAIN plan : Settled(k)
    /\ poolExit = "1" => Len(reports) < Len(plan) \/ failures > 0

BooksTypes ==
    /\ plan \in Seq(Pools)
    /\ pool \in DOMAIN plan
    /\ wave \in {"before", "asking", "after", "over"}
    /\ poolExit \in {"running", "0", "1"}

LEMMA LeaveKeepsBooks ==
    ASSUME BooksTypes, Books, wave # "over", Leave("1"), UNCHANGED <<plan, reports>>
    PROVE  BooksTypes' /\ Books' /\ wave' \in {"before", "over"}
  BY DEF BooksTypes, Books, Leave, Settled

LEMMA GoOnKeepsBooks ==
    ASSUME BooksTypes, Books, wave # "over", UNCHANGED plan, failures' \in Nat,
           NEW n \in {1, 2}, GoOn(n, failures'), Len(reports') \in Nat, Len(reports') <= pool,
           \A k \in DOMAIN plan : k < pool + n => Settled(k)'
    PROVE  BooksTypes' /\ Books' /\ wave' \in {"before", "over"}
<1>1. pool \in 1..Len(plan) /\ Len(plan) \in Nat /\ DOMAIN plan = 1..Len(plan)
  BY DEF BooksTypes
<1>2. poolExit = "running"
  BY DEF Books
<1>3. CASE pool + n > Len(plan)
  <2>1. /\ poolExit' = (IF failures' > 0 THEN "1" ELSE "0") /\ wave' = "over"
        /\ pool' = pool
    BY <1>3 DEF GoOn, Leave
  <2>2. \A k \in DOMAIN plan : Settled(k)'
    BY <1>1, <1>3
  <2>3. poolExit' = "0" => failures' = 0
    BY <2>1
  <2>4. poolExit' = "1" => failures' > 0
    BY <2>1
  <2>5. BooksTypes' /\ poolExit' # "running"
    BY <2>1 DEF BooksTypes
  <2> QED
    BY <2>1, <2>2, <2>3, <2>4, <2>5 DEF Books
<1>4. CASE ~(pool + n > Len(plan))
  <2>1. pool' = pool + n /\ wave' = "before" /\ poolExit' = "running"
    BY <1>2, <1>4 DEF GoOn
  <2>2. pool' \in DOMAIN plan /\ Len(reports') < pool'
    BY <1>1, <1>4, <2>1
  <2>3. \A k \in 1..(pool' - 1) : Settled(k)'
    BY <1>1, <2>1, <2>2
  <2> QED
    BY <2>1, <2>2, <2>3 DEF BooksTypes, Books
<1> QED BY <1>3, <1>4

\* A pool that prints, skips or catches is settled without a report.
LEMMA RaiseKeepsBooks ==
    ASSUME BooksTypes, Books, wave # "over", UNCHANGED <<plan, failures, reports>>,
           failures \in Nat, Len(reports) \in Nat,
           \A k \in DOMAIN plan :
               plan[k].handler = "skip" /\ k < Len(plan) => plan[k + 1].handler = "caught",
           Raise
    PROVE  BooksTypes' /\ Books' /\ wave' \in {"before", "over"}
<1>1. /\ pool \in 1..Len(plan) /\ Len(plan) \in Nat /\ DOMAIN plan = 1..Len(plan)
      /\ Handler \in Handlers
  <2>1. pool \in 1..Len(plan) /\ Len(plan) \in Nat /\ DOMAIN plan = 1..Len(plan)
    BY DEF BooksTypes
  <2>2. plan[pool] \in Pools
    BY <2>1 DEF BooksTypes
  <2> QED
    BY <2>1, <2>2 DEF Handler, Pools
<1>2. \A k \in 1..(pool - 1) : Settled(k)
  BY DEF Books
<1>3. Len(reports') \in Nat /\ Len(reports') <= pool /\ failures' \in Nat
  BY <1>1 DEF Books
<1>4. \A k : Settled(k) => Settled(k)'
  BY DEF Settled
<1>5. CASE Handler \in {"count", "raise"}
  <2>1. Leave("1")
    BY <1>5 DEF Raise
  <2> QED
    BY <2>1, LeaveKeepsBooks
<1>6. CASE Handler \in {"print", "caught"}
  <2>1. GoOn(1, failures')
    BY <1>6 DEF Raise
  <2>2. Settled(pool)
    BY <1>6 DEF Settled, Handler
  <2>3. \A k \in DOMAIN plan : k < pool + 1 => Settled(k)'
    BY <1>1, <1>2, <1>4, <2>2
  <2> QED
    BY <1>3, <2>1, <2>3, GoOnKeepsBooks
<1>7. CASE Handler = "skip"
  <2>1. GoOn(2, failures')
    BY <1>7 DEF Raise
  <2>2. Settled(pool)
    BY <1>7 DEF Settled, Handler
  <2>3. pool < Len(plan) => Settled(pool + 1)
    BY <1>1, <1>7 DEF Settled, Handler
  <2>4. \A k \in DOMAIN plan : k < pool + 2 => Settled(k)'
    BY <1>1, <1>2, <1>4, <2>2, <2>3
  <2> QED
    BY <1>3, <2>1, <2>4, GoOnKeepsBooks
<1> QED BY <1>1, <1>5, <1>6, <1>7 DEF Handlers

\* What is kept about the counter and the requests of the pool at work.
States == {"queued", "open", "answered", "failed"}

Meters ==
    /\ metered \in BOOLEAN
    /\ pooled \in Seq(States)
    /\ baseline \in [drafts : Nat, life : Nat]
    /\ up \in BOOLEAN /\ lives \in Nat /\ drafts \in Nat /\ drawn \in Nat
    /\ baseline.life <= lives
    /\ wave # "asking" => PoolIsBack
    /\ wave \in {"asking", "after"} => Len(pooled) = Width
    /\ metered /\ wave \in {"asking", "after"} => CounterMoved

\* What is kept about what was reported.
Reported ==
    /\ failures \in Nat
    /\ reports \in Seq([pool : Nat, answered : Nat, meter : Nat, drawn : Nat,
                        oneLife : BOOLEAN])
    /\ MetersAgree
    /\ \A n \in DOMAIN reports :
          /\ reports[n].pool \in DOMAIN plan
          /\ failures = 0 => reports[n].answered = plan[reports[n].pool].width

Skips ==
    \A k \in DOMAIN plan :
        plan[k].handler = "skip" /\ k < Len(plan) => plan[k + 1].handler = "caught"

LEMMA LoadInvParts == LoadInv <=> BooksTypes /\ Books /\ Meters /\ Reported /\ Skips
  BY DEF LoadInv, PoolTypeOK, BooksTypes, Books, Meters, Reported, Skips, States

LEMMA LoadInvFromParts ==
    ASSUME BooksTypes', Books', Meters', Reported', Skips' PROVE LoadInv'
  BY DEF LoadInv, PoolTypeOK, BooksTypes, Books, Meters, Reported, Skips, States

LEMMA PoolInitially == PoolInit => LoadInv
<1> SUFFICES ASSUME PoolInit PROVE LoadInv
  OBVIOUS
<1>1. PICK n \in 1..MaxPools : plan \in [1..n -> Pools]
  BY DEF PoolInit
<1>2. n \in Nat \ {0}
  BY LoadBoundsAssumption
<1>3. plan \in Seq(Pools) /\ Len(plan) = n /\ DOMAIN plan = 1..n
  BY <1>1, <1>2
<1>4. Skips
  <2> SUFFICES ASSUME NEW k \in DOMAIN plan, plan[k].handler = "skip", k < Len(plan)
               PROVE  plan[k + 1].handler = "caught"
    BY DEF Skips
  <2>1. k + 1 \in DOMAIN plan
    BY <1>2, <1>3
  <2>2. ~CountsAll(plan) /\ ~PrintsOrRaises(plan)
    BY DEF CountsAll, PrintsOrRaises, Single
  <2>3. PrintsThenRaises(plan)
    BY <2>2 DEF PoolInit
  <2>4. plan[k + 1] = Single("caught")
    BY <2>3 DEF PrintsThenRaises, Single
  <2> QED
    BY <2>4 DEF Single
<1>5. BooksTypes
  BY <1>2, <1>3 DEF PoolInit, BooksTypes
<1>6. Books
  BY DEF PoolInit, Books
<1>7. Meters
  <2>1. pooled \in Seq(States)
    BY DEF PoolInit, States
  <2>2. baseline \in [drafts : Nat, life : Nat] /\ baseline.life = 1
    BY DEF PoolInit
  <2>3. PoolIsBack
    BY DEF PoolInit, PoolIsBack, InPool
  <2> QED
    BY <2>1, <2>2, <2>3 DEF PoolInit, Meters
<1>8. Reported
  BY DEF PoolInit, Reported, MetersAgree
<1> QED
  BY <1>4, <1>5, <1>6, <1>7, <1>8, LoadInvParts

\* The reports are left alone.
LEMMA ReportedRests ==
    ASSUME Reported, UNCHANGED <<plan, metered, failures, reports>>
    PROVE  Reported'
  BY DEF Reported, MetersAgree

LEMMA BooksRest ==
    ASSUME BooksTypes, Books, UNCHANGED <<plan, pool, wave, failures, reports, poolExit>>
    PROVE  BooksTypes' /\ Books'
  BY DEF BooksTypes, Books, Settled

\* A pool that is left behind has no request under way.
LEMMA MetersRest ==
    ASSUME Meters, PoolIsBack, UNCHANGED <<metered, pooled, baseline, serverVars>>,
           wave' \in {"before", "over"}
    PROVE  Meters'
  BY DEF Meters, PoolIsBack, InPool, serverVars

LEMMA ReadBeforeStep == ASSUME LoadInv, ReadBefore PROVE LoadInv'
<1>1. BooksTypes /\ Books /\ Meters /\ Reported /\ Skips /\ wave = "before"
  BY LoadInvParts DEF ReadBefore
<1>2. Reported' /\ Skips'
  BY <1>1, ReportedRests DEF ReadBefore, Skips
<1>3. PoolIsBack /\ failures \in Nat /\ Len(reports) \in Nat /\ pool \in DOMAIN plan
  BY <1>1 DEF Meters, Reported, BooksTypes
<1>4. CASE /\ metered
           /\ IF Handler = "caught" THEN GoOn(1, failures) ELSE Leave("1")
           /\ UNCHANGED <<pooled, baseline, drawn>>
  <2>1. BooksTypes' /\ Books' /\ wave' \in {"before", "over"}
    <3>1. CASE Handler = "caught"
      <4>1. \A k \in DOMAIN plan : k < pool + 1 => Settled(k)'
        BY <1>1, <3>1 DEF BooksTypes, Books, Settled, Handler, ReadBefore
      <4>2. GoOn(1, failures') /\ failures' \in Nat /\ Len(reports') <= pool /\ Len(reports') \in Nat
        BY <1>1, <1>3, <1>4, <3>1 DEF ReadBefore, Books, BooksTypes
      <4>3. UNCHANGED plan
        BY DEF ReadBefore
      <4> QED
        BY <1>1, <4>1, <4>2, <4>3, GoOnKeepsBooks
    <3>2. CASE Handler # "caught"
      BY <1>1, <1>4, <3>2, LeaveKeepsBooks DEF ReadBefore
    <3> QED BY <3>1, <3>2
  <2>2. Meters'
    BY <1>1, <1>3, <1>4, <2>1, MetersRest DEF ReadBefore, serverVars
  <2> QED
    BY <1>2, <2>1, <2>2, LoadInvFromParts
<1>5. CASE /\ metered => up
           /\ wave' = "asking"
           /\ pooled' = [i \in 1..Width |-> "queued"]
           /\ baseline' = [drafts |-> drafts, life |-> lives]
           /\ drawn' = 0
           /\ UNCHANGED <<pool, poolExit>>
  <2>1. BooksTypes' /\ Books'
    BY <1>1, <1>5 DEF ReadBefore, BooksTypes, Books, Settled
  <2>2. Width \in Nat
    <3>1. plan[pool] \in Pools
      BY <1>1 DEF BooksTypes
    <3> QED
      BY <3>1, WidthsAssumption DEF Width, Pools
  <2>3. Width' = Width
    BY <1>5 DEF Width, ReadBefore
  <2>4. pooled' \in Seq(States) /\ Len(pooled') = Width
    BY <1>5, <2>2 DEF States
  <2>5. baseline' \in [drafts : Nat, life : Nat] /\ baseline'.life = lives /\ baseline'.drafts = drafts
    BY <1>1, <1>5 DEF Meters
  <2>6. Meters'
    <3>1. /\ metered' = metered /\ up' = up /\ lives' = lives /\ drafts' = drafts /\ drawn' = 0
          /\ wave' = "asking"
      BY <1>5 DEF ReadBefore
    <3>2. metered' => CounterMoved'
      <4>1. metered' => up' /\ baseline'.life = lives' /\ drafts' = baseline'.drafts + drawn'
        BY <1>1, <1>5, <2>5, <3>1 DEF Meters
      <4> QED
        BY <4>1 DEF CounterMoved
    <3>3. Width' = Len(pooled')
      BY <2>3, <2>4
    <3>4. metered' \in BOOLEAN /\ up' \in BOOLEAN
      BY <1>1, <3>1 DEF Meters
    <3> QED
      BY <1>1, <2>4, <2>5, <3>1, <3>2, <3>3, <3>4 DEF Meters
  <2> QED
    BY <1>2, <2>1, <2>6, LoadInvFromParts
<1> QED BY <1>4, <1>5 DEF ReadBefore

\* A request moves while its pool is asked.
LEMMA RequestMoves ==
    ASSUME LoadInv, NEW i \in DOMAIN pooled, pooled[i] \in {"queued", "open"},
           NEW r \in States, pooled' = [pooled EXCEPT ![i] = r],
           UNCHANGED <<plan, metered, pool, wave, baseline, failures, reports,
                       poolExit, serverVars>>
    PROVE  LoadInv'
<1>1. BooksTypes /\ Books /\ Meters /\ Reported /\ Skips
  BY LoadInvParts
<1>2. BooksTypes' /\ Books' /\ Reported' /\ Skips'
  BY <1>1, BooksRest, ReportedRests DEF Skips
<1>3. wave = "asking"
  BY <1>1 DEF Meters, PoolIsBack, InPool
<1>4. pooled' \in Seq(States) /\ Len(pooled') = Len(pooled)
  <2>1. pooled \in Seq(States) /\ i \in 1..Len(pooled)
    BY <1>1 DEF Meters
  <2> QED
    BY <2>1, ExceptSeq
<1>5. Meters'
  BY <1>1, <1>3, <1>4 DEF Meters, serverVars, Width, CounterMoved
<1> QED
  BY <1>2, <1>5, LoadInvFromParts

LEMMA DraftStep ==
    ASSUME LoadInv, NEW i \in DOMAIN pooled, Draft(i) PROVE LoadInv'
<1>1. BooksTypes /\ Books /\ Meters /\ Reported /\ Skips
  BY LoadInvParts
<1>2. BooksTypes' /\ Books' /\ Reported' /\ Skips'
  BY <1>1, BooksRest, ReportedRests DEF Skips, Draft, loadVars
<1>3. Meters'
  <2>1. CounterMoved => CounterMoved'
    BY <1>1 DEF Meters, Draft, loadVars, CounterMoved
  <2> QED
    BY <1>1, <2>1 DEF Meters, Draft, loadVars, Width, PoolIsBack, InPool
<1> QED
  BY <1>2, <1>3, LoadInvFromParts

LEMMA DieStep == ASSUME LoadInv, Die PROVE LoadInv'
<1>1. BooksTypes /\ Books /\ Meters /\ Reported /\ Skips
  BY LoadInvParts
<1>2. BooksTypes' /\ Books' /\ Reported' /\ Skips'
  BY <1>1, BooksRest, ReportedRests DEF Skips, Die
<1>3. /\ pooled' = [i \in 1..Len(pooled) |->
                      IF pooled[i] = "open" THEN "failed" ELSE pooled[i]]
      /\ pooled \in Seq(States) /\ Len(pooled) \in Nat
  BY <1>1 DEF Die, Meters
<1>4. pooled' \in Seq(States) /\ Len(pooled') = Len(pooled)
  <2>1. \A i \in 1..Len(pooled) :
          (IF pooled[i] = "open" THEN "failed" ELSE pooled[i]) \in States
    BY <1>3 DEF States
  <2> QED
    BY <1>3, <2>1
<1>5. PoolIsBack => PoolIsBack'
  BY <1>3, <1>4 DEF PoolIsBack, InPool
<1>6. /\ up' = FALSE /\ drafts' = 0
      /\ UNCHANGED <<plan, metered, pool, wave, baseline, lives, drawn>>
  BY DEF Die
<1>7. CounterMoved'
  BY <1>1, <1>6 DEF CounterMoved, Meters
<1>8. Meters'
  BY <1>1, <1>4, <1>5, <1>6, <1>7 DEF Meters, Width
<1> QED
  BY <1>2, <1>8, LoadInvFromParts

LEMMA RestartStep == ASSUME LoadInv, Restart PROVE LoadInv'
<1>1. BooksTypes /\ Books /\ Meters /\ Reported /\ Skips
  BY LoadInvParts
<1>2. BooksTypes' /\ Books' /\ Reported' /\ Skips'
  BY <1>1, BooksRest, ReportedRests DEF Skips, Restart, loadVars
<1>3. Meters'
  <2>1. CounterMoved => CounterMoved'
    BY <1>1 DEF Meters, Restart, loadVars, CounterMoved
  <2> QED
    BY <1>1, <2>1 DEF Meters, Restart, loadVars, Width, PoolIsBack, InPool
<1> QED
  BY <1>2, <1>3, LoadInvFromParts

LEMMA GatherStep == ASSUME LoadInv, Gather PROVE LoadInv'
<1>1. BooksTypes /\ Books /\ Meters /\ Reported /\ Skips /\ wave = "asking" /\ PoolIsBack
  BY LoadInvParts DEF Gather
<1>2. Reported' /\ Skips'
  BY <1>1, ReportedRests DEF Skips, Gather
<1>3. CASE Suffices
  <2>1. wave' = "after" /\ UNCHANGED <<pool, poolExit>>
    BY <1>3 DEF Gather
  <2>2. BooksTypes' /\ Books'
    BY <1>1, <2>1 DEF Gather, BooksTypes, Books, Settled
  <2>3. Meters'
    BY <1>1, <2>1 DEF Gather, Meters, Width, PoolIsBack, InPool, CounterMoved, serverVars
  <2> QED
    BY <1>2, <2>2, <2>3, LoadInvFromParts
<1>4. CASE ~Suffices
  <2>1. Raise
    BY <1>4 DEF Gather
  <2>2. failures \in Nat /\ Len(reports) \in Nat
    BY <1>1 DEF Reported
  <2>3. BooksTypes' /\ Books' /\ wave' \in {"before", "over"}
    BY <1>1, <2>1, <2>2, RaiseKeepsBooks DEF Gather, Skips
  <2>4. Meters'
    BY <1>1, <2>3, MetersRest DEF Gather
  <2> QED
    BY <1>2, <2>3, <2>4, LoadInvFromParts
<1> QED BY <1>3, <1>4

LEMMA ReportStep ==
    ASSUME LoadInv, wave = "after", metered => up,
           reports' = Append(reports, Report),
           failures' = failures + Cardinality(InPool({"failed"})),
           GoOn(1, failures'),
           UNCHANGED <<plan, metered, pooled, baseline, serverVars>>
    PROVE  LoadInv'
<1>1. BooksTypes /\ Books /\ Meters /\ Reported /\ Skips
  BY LoadInvParts
<1>2. /\ pool \in DOMAIN plan /\ DOMAIN plan = 1..Len(plan) /\ Len(plan) \in Nat
      /\ plan[pool] \in Pools /\ Width \in Nat
  <2>1. pool \in DOMAIN plan /\ DOMAIN plan = 1..Len(plan) /\ Len(plan) \in Nat
    BY <1>1 DEF BooksTypes
  <2>2. plan[pool] \in Pools
    BY <1>1, <2>1 DEF BooksTypes
  <2> QED
    BY <2>1, <2>2, WidthsAssumption DEF Width, Pools
<1>3. pooled \in Seq(States) /\ DOMAIN pooled = 1..Width /\ PoolIsBack
  BY <1>1 DEF Meters
<1>4. ASSUME NEW S PROVE Cardinality(InPool(S)) \in Nat /\ IsFiniteSet(InPool(S))
  <2>1. InPool(S) \in SUBSET (1..Width)
    BY <1>3 DEF InPool
  <2>2. IsFiniteSet(1..Width)
    BY <1>2, FS_Interval
  <2> QED
    BY <2>1, <2>2, FS_Subset, FS_CardinalityType
<1> DEFINE a == Cardinality(InPool({"answered"}))
           f == Cardinality(InPool({"failed"}))
           own == baseline.life = lives
           Entries5 == [pool : Nat, answered : Nat, meter : Nat, drawn : Nat, oneLife : BOOLEAN]
<1>5. a \in Nat /\ f \in Nat
  BY <1>4
<1>6. f = 0 => a = Width
  <2> SUFFICES ASSUME f = 0 PROVE a = Width
    OBVIOUS
  <2>1. InPool({"failed"}) = {}
    BY <1>4, FS_EmptySet
  <2>2. ASSUME NEW i \in 1..Width PROVE pooled[i] = "answered"
    <3>1. pooled[i] \in States /\ i \in DOMAIN pooled
      <4>1. i \in DOMAIN pooled
        BY <1>3
      <4>2. DOMAIN pooled = 1..Len(pooled)
        BY <1>3
      <4>3. i \in 1..Len(pooled)
        BY <4>1, <4>2
      <4>4. pooled \in Seq(States)
        BY <1>3
      <4>5. pooled[i] \in States
        BY <4>3, <4>4, ElementOfSeq
      <4> QED
        BY <4>1, <4>5
    <3>2. pooled[i] \notin {"failed"}
      BY <2>1, <3>1 DEF InPool
    <3>3. pooled[i] \notin {"queued", "open"}
      BY <1>3, <3>1 DEF InPool, PoolIsBack
    <3> QED
      BY <3>1, <3>2, <3>3 DEF States
  <2>3. InPool({"answered"}) = 1..Width
    BY <1>3, <2>2 DEF InPool
  <2> QED
    BY <1>2, <2>3, FS_Interval
<1>7. /\ Difference \in Nat
      /\ metered => Difference <= drawn
      /\ metered /\ own => Difference = drawn
  BY <1>1 DEF Meters, CounterMoved, Difference
<1>8. Report = [pool |-> pool, answered |-> a, meter |-> Difference, drawn |-> drawn,
                oneLife |-> own]
  BY DEF Report
<1>9. own \in BOOLEAN
  OBVIOUS
<1> HIDE DEF a, f, own
<1>10. Report \in Entries5
  BY <1>1, <1>2, <1>5, <1>7, <1>8, <1>9 DEF Meters
<1>11. /\ Report.pool = pool /\ Report.answered = a /\ Report.meter = Difference
       /\ Report.drawn = drawn /\ (Report.oneLife <=> own)
  BY <1>8, <1>9
<1>12. reports \in Seq(Entries5)
  BY <1>1 DEF Reported
<1> HIDE DEF Entries5
<1>13. /\ reports' \in Seq(Entries5) /\ Len(reports') = Len(reports) + 1 /\ Len(reports) \in Nat
       /\ reports'[Len(reports) + 1] = Report
       /\ \A n \in 1..Len(reports) : reports'[n] = reports[n]
       /\ DOMAIN reports = 1..Len(reports) /\ DOMAIN reports' = 1..(Len(reports) + 1)
  BY <1>10, <1>12
<1>14. failures' \in Nat /\ failures \in Nat /\ (failures' = 0 => failures = 0 /\ f = 0)
  BY <1>1, <1>5 DEF Reported, f
<1>15. MetersAgree'
  <2> SUFFICES ASSUME NEW n \in DOMAIN reports', metered
               PROVE  /\ reports'[n].meter <= reports'[n].drawn
                      /\ reports'[n].oneLife => reports'[n].meter = reports'[n].drawn
    BY DEF MetersAgree
  <2>1. CASE n \in 1..Len(reports)
    BY <1>1, <1>13, <2>1 DEF Reported, MetersAgree
  <2>2. CASE n = Len(reports) + 1
    BY <1>7, <1>11, <1>13, <2>2
  <2> QED
    BY <1>13, <2>1, <2>2
<1>16. \A n \in DOMAIN reports' :
         /\ reports'[n].pool \in DOMAIN plan
         /\ failures' = 0 => reports'[n].answered = plan[reports'[n].pool].width
  <2> SUFFICES ASSUME NEW n \in DOMAIN reports'
               PROVE  /\ reports'[n].pool \in DOMAIN plan
                      /\ failures' = 0 => reports'[n].answered = plan[reports'[n].pool].width
    OBVIOUS
  <2>1. CASE n \in 1..Len(reports)
    BY <1>1, <1>13, <1>14, <2>1 DEF Reported
  <2>2. CASE n = Len(reports) + 1
    BY <1>2, <1>6, <1>11, <1>13, <1>14, <2>2 DEF Width
  <2> QED
    BY <1>13, <2>1, <2>2
<1>17. Reported'
  BY <1>13, <1>14, <1>15, <1>16 DEF Reported, Entries5
<1>18. BooksTypes' /\ Books' /\ wave' \in {"before", "over"}
  <2>1. Len(reports) < pool /\ \A k \in 1..(pool - 1) : Settled(k)
    BY <1>1 DEF Books
  <2>2. \A k : Settled(k) => Settled(k)'
    BY <1>13 DEF Settled
  <2>3. ASSUME NEW k \in DOMAIN plan, k = pool PROVE Settled(k)'
    <3>1. Len(reports) + 1 \in DOMAIN reports'
      BY <1>13
    <3>2. reports'[Len(reports) + 1].pool = k
      BY <1>11, <1>13, <2>3
    <3> QED
      BY <3>1, <3>2 DEF Settled
  <2>4. \A k \in DOMAIN plan : k < pool + 1 => Settled(k)'
    <3> SUFFICES ASSUME NEW k \in DOMAIN plan, k < pool + 1 PROVE Settled(k)'
      OBVIOUS
    <3>1. CASE k = pool
      BY <2>3, <3>1
    <3>2. CASE k \in 1..(pool - 1)
      <4>1. Settled(k)
        BY <2>1, <3>2
      <4> QED
        BY <2>2, <4>1
    <3> QED
      BY <1>2, <3>1, <3>2
  <2>5. Len(reports') \in Nat /\ Len(reports') <= pool
    BY <1>2, <1>13, <2>1
  <2> QED
    BY <1>1, <1>14, <2>4, <2>5, GoOnKeepsBooks
<1>19. Meters'
  BY <1>1, <1>3, <1>18, MetersRest
<1> QED
  BY <1>1, <1>17, <1>18, <1>19, LoadInvFromParts DEF Skips

LEMMA ReadAfterStep == ASSUME LoadInv, ReadAfter PROVE LoadInv'
<1>1. BooksTypes /\ Books /\ Meters /\ Reported /\ Skips /\ wave = "after" /\ PoolIsBack
  BY LoadInvParts DEF ReadAfter, Meters
<1>2. CASE metered /\ Raise /\ UNCHANGED <<failures, reports>>
  <2>1. Reported' /\ Skips' /\ failures \in Nat /\ Len(reports) \in Nat
    BY <1>1, <1>2, ReportedRests DEF Skips, ReadAfter, Reported
  <2>2. BooksTypes' /\ Books' /\ wave' \in {"before", "over"}
    BY <1>1, <1>2, <2>1, RaiseKeepsBooks DEF ReadAfter, Skips
  <2>3. Meters'
    BY <1>1, <2>2, MetersRest DEF ReadAfter
  <2> QED
    BY <2>1, <2>2, <2>3, LoadInvFromParts
<1>3. CASE /\ metered => up
           /\ reports' = Append(reports, Report)
           /\ failures' = failures + Cardinality(InPool({"failed"}))
           /\ GoOn(1, failures')
  BY <1>3, ReportStep DEF ReadAfter
<1> QED BY <1>2, <1>3 DEF ReadAfter

LEMMA LoadStep == LoadInv /\ [PoolNext]_poolVars => LoadInv'
<1> SUFFICES ASSUME LoadInv, [PoolNext]_poolVars PROVE LoadInv'
  OBVIOUS
<1>1. ASSUME NEW i \in DOMAIN pooled, Send(i) PROVE LoadInv'
  BY <1>1, RequestMoves DEF Send, InPool, States
<1>2. ASSUME NEW i \in DOMAIN pooled, Return(i) PROVE LoadInv'
  BY <1>2, RequestMoves DEF Return, InPool, States
<1>3. CASE UNCHANGED poolVars
  <2>1. BooksTypes /\ Books /\ Meters /\ Reported /\ Skips
    BY LoadInvParts
  <2>2. BooksTypes' /\ Books' /\ Reported' /\ Skips'
    BY <1>3, <2>1, BooksRest, ReportedRests DEF Skips, poolVars, loadVars
  <2>3. Meters'
    BY <1>3, <2>1
    DEF Meters, poolVars, loadVars, serverVars, Width, PoolIsBack, InPool, CounterMoved
  <2> QED
    BY <2>2, <2>3, LoadInvFromParts
<1> QED
  BY <1>1, <1>2, <1>3, DraftStep, ReadBeforeStep, GatherStep, ReadAfterStep, DieStep,
     RestartStep DEF PoolNext

\* What the pools reported is why they exit as they do.
LEMMA BooksTellExit == LoadInv => PoolExitTells
<1> SUFFICES ASSUME LoadInv PROVE PoolExitTells
  OBVIOUS
<1>1. BooksTypes /\ Books /\ Meters /\ Reported
  BY LoadInvParts
<1>2. poolExit = "0" => \A k \in DOMAIN plan :
         \/ plan[k].handler \in {"print", "skip", "caught"}
         \/ \E n \in DOMAIN reports :
               reports[n].pool = k /\ reports[n].answered = plan[k].width
  BY <1>1 DEF Books, Reported, Settled
<1>3. poolExit = "1" /\ Len(reports) = Len(plan) => failures > 0
  BY <1>1 DEF Books, BooksTypes, Reported
<1>4. poolExit # "running" => PoolIsBack
  BY <1>1 DEF Books, Meters
<1> QED
  BY <1>2, <1>3, <1>4 DEF PoolExitTells

-----------------------------------------------------------------------------
(* The clients beside each other: the one that is run keeps its invariant,  *)
(* and leaves the others theirs.                                            *)

\* What the invariant of an isolation round that is not run says of the cache.
LEMMA IsolationRests ==
    ASSUME IsolationInv, CacheInv', long = "none", nonce = NoSalt,
           UNCHANGED isolationOwn
    PROVE  IsolationInv'
<1>1. IsolationTypeOK'
  BY DEF IsolationInv, IsolationTypeOK, CacheInv, isolationOwn
<1>2. nonce' <= uuids'
  BY DEF CacheInv, CacheTypeOK, NoSalt, isolationOwn
<1> QED
  BY <1>1, <1>2 DEF IsolationInv, IsolationIsCold, isolationOwn

LEMMA BenchInitially == BenchInit => BenchInv
  BY WarmupInit, SessionsInitially, PoolInitially, CeilingInitially,
     IsolationInitially, RecallInitially
  DEF BenchInit, BenchInv, IsolationInit

\* The clients that know the cache, when another client is run.
LEMMA CacheClientsRest ==
    ASSUME CeilingInv, IsolationInv, RecallInv,
           UNCHANGED <<ceilingVars, isolationOwn, recallOwn>>
    PROVE  CeilingInv' /\ IsolationInv' /\ RecallInv'
<1>1. UNCHANGED cacheVars /\ UNCHANGED ceilingOwn
  BY DEF ceilingVars, ceilingArgs, ceilingOwn
<1>2. CacheInv'
  BY <1>1, CacheRests DEF CeilingInv
<1>3. CeilingInv' /\ RecallInv'
  BY <1>1, <1>2, CeilingRests, RecallRests DEF ceilingOwn, recallOwn
<1>4. UNCHANGED isolationVars
  BY <1>1 DEF isolationOwn, isolationVars, isolationArgs
<1> QED
  BY <1>3, <1>4, IsolationStep

\* The clients that do not know it.
LEMMA WarmupRests == ASSUME WarmupInv, UNCHANGED vars PROVE WarmupInv'
  BY WarmupStep

LEMMA SessionsRest == ASSUME SessionsInv, UNCHANGED sessionsVars PROVE SessionsInv'
  BY SessionsStep

LEMMA PoolRests == ASSUME LoadInv, UNCHANGED poolVars PROVE LoadInv'
  BY LoadStep

LEMMA BenchStep == BenchInv /\ [BenchNext]_benchVars => BenchInv'
<1> SUFFICES ASSUME BenchInv, [BenchNext]_benchVars PROVE BenchInv'
  OBVIOUS
<1> DEFINE Idle == ~Runs("isolation") => long = "none" /\ nonce = NoSalt
<1>1. /\ program \in Programs
      /\ WarmupInv /\ SessionsInv /\ LoadInv /\ CeilingInv /\ IsolationInv /\ RecallInv
      /\ Idle
  BY DEF BenchInv
<1>2. UNCHANGED program
  BY DEF BenchNext, benchVars
<1>3. ASSUME WarmupInv', SessionsInv', LoadInv', CeilingInv', IsolationInv', RecallInv',
             Idle'
      PROVE  BenchInv'
  BY <1>1, <1>2, <1>3 DEF BenchInv
<1>4. ASSUME UNCHANGED isolationOwn PROVE Idle'
  BY <1>1, <1>2, <1>4 DEF isolationOwn, Runs, NoSalt
<1>5. Runs("isolation") => Idle'
  BY <1>2 DEF Runs
<1> HIDE DEF Idle
<1>6. CASE /\ UNCHANGED <<sessionsVars, poolVars, ceilingVars, isolationOwn, recallOwn>>
           /\ Next
  <2>1. WarmupInv' /\ SessionsInv' /\ LoadInv'
    BY <1>1, <1>6, WarmupStep, SessionsRest, PoolRests
  <2> QED
    BY <1>1, <1>3, <1>4, <1>6, <2>1, CacheClientsRest
<1>7. CASE /\ UNCHANGED <<vars, poolVars, ceilingVars, isolationOwn, recallOwn>>
           /\ SessionsNext
  <2>1. WarmupInv' /\ SessionsInv' /\ LoadInv'
    BY <1>1, <1>7, WarmupRests, SessionsStep, PoolRests
  <2> QED
    BY <1>1, <1>3, <1>4, <1>7, <2>1, CacheClientsRest
<1>8. CASE /\ UNCHANGED <<vars, sessionsVars, ceilingVars, isolationOwn, recallOwn>>
           /\ PoolNext
  <2>1. WarmupInv' /\ SessionsInv' /\ LoadInv'
    BY <1>1, <1>8, WarmupRests, SessionsRest, LoadStep
  <2> QED
    BY <1>1, <1>3, <1>4, <1>8, <2>1, CacheClientsRest
<1>9. ASSUME UNCHANGED <<vars, sessionsVars, poolVars>>
      PROVE  WarmupInv' /\ SessionsInv' /\ LoadInv'
  BY <1>1, <1>9, WarmupRests, SessionsRest, PoolRests
<1>10. CASE /\ UNCHANGED <<vars, sessionsVars, poolVars, isolationOwn, recallOwn>>
            /\ CeilingNext /\ ~Runs("isolation")
  <2>1. CeilingInv' /\ CacheInv'
    BY <1>1, <1>10, CeilingStep DEF CeilingInv
  <2>2. RecallInv'
    BY <1>1, <1>10, <2>1, RecallRests DEF recallOwn
  <2>3. IsolationInv'
    BY <1>1, <1>10, <2>1, IsolationRests DEF Idle
  <2> QED
    BY <1>3, <1>4, <1>9, <1>10, <2>1, <2>2, <2>3
<1>11. CASE /\ UNCHANGED <<vars, sessionsVars, poolVars, ceilingOwn, recallOwn>>
            /\ IsolationNext /\ Runs("isolation")
  <2>1. IsolationInv' /\ CacheInv'
    BY <1>1, <1>11, IsolationStep DEF IsolationInv
  <2>2. CeilingInv' /\ RecallInv'
    BY <1>1, <1>11, <2>1, CeilingRests, RecallRests DEF ceilingOwn, recallOwn
  <2> QED
    BY <1>3, <1>5, <1>9, <1>11, <2>1, <2>2
<1>12. CASE /\ UNCHANGED <<vars, sessionsVars, poolVars, ceilingOwn, isolationOwn>>
            /\ RecallNext /\ ~Runs("isolation")
  <2>1. RecallInv' /\ CacheInv'
    BY <1>1, <1>12, RecallStep DEF RecallInv
  <2>2. CeilingInv'
    BY <1>1, <1>12, <2>1, CeilingRests DEF ceilingOwn
  <2>3. IsolationInv'
    BY <1>1, <1>12, <2>1, IsolationRests DEF Idle
  <2> QED
    BY <1>3, <1>4, <1>9, <1>12, <2>1, <2>2, <2>3
<1>13. CASE UNCHANGED benchVars
  <2>1. /\ UNCHANGED <<vars, sessionsVars, poolVars>>
        /\ UNCHANGED <<ceilingVars, isolationOwn, recallOwn>>
    BY <1>13
    DEF benchVars, isolationVars, isolationArgs, isolationOwn, recallVars, recallArgs,
        building, recallOwn
  <2> QED
    BY <1>1, <1>3, <1>4, <1>9, <2>1, CacheClientsRest
<1> QED
  BY <1>6, <1>7, <1>8, <1>10, <1>11, <1>12, <1>13 DEF BenchNext, Runs

LEMMA BenchAlways == BenchSpec => []BenchInv
  BY BenchInitially, BenchStep, PTL DEF BenchSpec

-----------------------------------------------------------------------------
(* The theorems.                                                           *)

(* Every client keeps its types, whichever of them is run, for any sizes    *)
(* (scripts/bench, warmup_runtime.sh).                                      *)
THEOREM BenchTypes == BenchSpec => []BenchTypeOK
<1>1. BenchInv => BenchTypeOK
  BY DEF BenchInv, BenchTypeOK, WarmupInv, SessionsInv, LoadInv, CeilingInv,
         IsolationInv, RecallInv
<1> QED BY BenchAlways, <1>1, PTL

(* The drafts that a pool reports are its own, for pools of any widths and  *)
(* a server that restarts at any time (bench_high_concurrency.py:108-152).  *)
THEOREM MetersHold == BenchSpec => []MetersOwnPool
<1>1. BenchInv => MetersOwnPool
  BY DEF BenchInv, LoadInv, MetersOwnPool, PoolIsBack
<1> QED BY BenchAlways, <1>1, PTL

(* A sample of a cold prompt is cold, for any numbers of sizes, samples,    *)
(* rounds and cases, and whatever earlier clients have left in the cache    *)
(* (bench_configured_ceiling.py:117-123, bench_ttft_isolation.py:78-79,     *)
(* bench_long_context_recall.py:227-247).                                   *)
THEOREM ColdHolds == BenchSpec => []ColdSamples
<1>1. BenchInv => ColdSamples
  BY DEF BenchInv, ColdSamples, CeilingInv, IsolationInv, RecallInv
<1> QED BY BenchAlways, <1>1, PTL

(* The document that is asked about is the one that was measured, and its   *)
(* needles lie evenly in it, for any numbers of needles, notes and          *)
(* measurements (bench_long_context_recall.py:99-160, 186-202).             *)
THEOREM RecallHolds == BenchSpec => []RecallIsMeasured
<1>1. BenchInv => RecallIsMeasured
  BY LaidOutIsMeasured DEF BenchInv
<1> QED BY BenchAlways, <1>1, PTL

(* What exit codes tell, for all numbers of requests, pools, sizes, rounds   *)
(* and cases: that the requests which the benchmark answers for were        *)
(* answered, that no thread outlives the program, and of the recalls that   *)
(* it is 0 after all cases exactly when the needles were the first list of  *)
(* strings of every answer (bench_session_concurrency.py,                   *)
(* bench_high_concurrency.py, bench_full.py, bench_configured_ceiling.py,   *)
(* bench_ttft_isolation.py, bench_long_context_recall.py).                  *)
THEOREM ExitCodesHold == BenchSpec => []ExitCodesTell
<1>1. BenchInv => SessionsExitTells /\ PoolExitTells /\ RecallExitTells
  BY AnswersEarnExit, BooksTellExit, BooksTellRecall DEF BenchInv
<1>2. BenchInv => CeilingExitTells
  <2> SUFFICES ASSUME CeilingInv, ceilingExit = "0" PROVE CeilingExitTells
    BY DEF BenchInv, CeilingExitTells
  <2>1. Taken(targets * samples, targets) /\ allSamples \in Seq(Samples)
    BY DEF CeilingInv, CeilingTypeOK
  <2> QED
    BY <2>1 DEF Taken, CeilingExitTells
<1>3. BenchInv => IsolationExitTells
  BY DEF BenchInv, IsolationInv, IsolationTypeOK, IsolationExitTells
<1>4. BenchInv => ExitCodesTell
  BY <1>1, <1>2, <1>3 DEF ExitCodesTell
<1> QED BY BenchAlways, <1>4, PTL

-----------------------------------------------------------------------------
(* The composition: what was proved of a client by itself holds of it here. *)

\* program never changes, and what only another client does is a stutter.
LEMMA OnlyTheClientSteps ==
    ASSUME [BenchNext]_benchVars
    PROVE  /\ program' = program
           /\ [Next]_vars /\ [SessionsNext]_sessionsVars /\ [PoolNext]_poolVars
           /\ Runs("ceiling") => [CeilingNext]_ceilingVars
           /\ Runs("isolation") => [IsolationNext]_isolationVars
           /\ Runs("recall") => [RecallNext]_recallVars
<1>1. program' = program
  BY DEF BenchNext, benchVars
<1>2. [Next]_vars /\ [SessionsNext]_sessionsVars /\ [PoolNext]_poolVars
  BY DEF BenchNext, benchVars
<1>3. Runs("ceiling") => [CeilingNext]_ceilingVars
  BY DEF BenchNext, benchVars, Runs
<1>4. Runs("isolation") => [IsolationNext]_isolationVars
  BY DEF BenchNext, benchVars, Runs
<1>5. Runs("recall") => [RecallNext]_recallVars
  BY DEF BenchNext, benchVars, Runs
<1> QED
  BY <1>1, <1>2, <1>3, <1>4, <1>5

(* A warm-up, a session benchmark and a pool are what their own modules say *)
(* of them, whichever client is run: no step of another client is one of    *)
(* theirs (warmup_runtime.sh, bench_session_concurrency.py,                 *)
(* bench_high_concurrency.py).                                              *)
THEOREM ClientsAreThemselves == BenchSpec => Spec /\ SessionsSpec /\ PoolSpec
<1>1. BenchInit => Init /\ SessionsInit /\ PoolInit
  BY DEF BenchInit
<1>2. [BenchNext]_benchVars => [Next]_vars /\ [SessionsNext]_sessionsVars /\ [PoolNext]_poolVars
  BY OnlyTheClientSteps
<1> QED BY <1>1, <1>2, PTL DEF BenchSpec, Spec, SessionsSpec, PoolSpec

(* The clients that share the prefix cache are what their modules say when  *)
(* they are the one that is run, whatever an earlier client left in the     *)
(* cache (bench_configured_ceiling.py, bench_ttft_isolation.py,             *)
(* bench_long_context_recall.py).                                           *)
THEOREM CacheClientsAreThemselves ==
    BenchSpec => /\ Runs("ceiling") => CeilingSpec
                 /\ Runs("isolation") => IsolationSpec
                 /\ Runs("recall") => RecallSpec
<1>1. BenchInit => CeilingInit /\ IsolationInit /\ RecallInit
  BY DEF BenchInit
<1>2. ASSUME [BenchNext]_benchVars
      PROVE  /\ Runs("ceiling") => Runs("ceiling")' /\ [CeilingNext]_ceilingVars
             /\ Runs("isolation") => Runs("isolation")' /\ [IsolationNext]_isolationVars
             /\ Runs("recall") => Runs("recall")' /\ [RecallNext]_recallVars
  BY <1>2, OnlyTheClientSteps DEF Runs
<1>3. BenchSpec /\ Runs("ceiling") => CeilingSpec
  BY <1>1, <1>2, PTL DEF BenchSpec, CeilingSpec
<1>4. BenchSpec /\ Runs("isolation") => IsolationSpec
  BY <1>1, <1>2, PTL DEF BenchSpec, IsolationSpec
<1>5. BenchSpec /\ Runs("recall") => RecallSpec
  BY <1>1, <1>2, PTL DEF BenchSpec, RecallSpec
<1> QED BY <1>3, <1>4, <1>5

(* The round trips of a warm-up and the sessions keep what was proved of    *)
(* them when they are one of the clients of a server.                       *)
THEOREM ClientsKeepTheirPromises ==
    BenchSpec => [](/\ OneWholeCall
                    /\ PoolKeepsBound
                    /\ ExitIsHonest
                    /\ SavedAfterRoundTrip
                    /\ OwnHistory
                    /\ RoundsInStep)
  BY ClientsAreThemselves, CallsNeverMerge, PoolIsBounded, ExitCodeIsHonest,
     ArchiveFollowsRoundTrip, HistoriesAreOwn, PoolIsABarrier, PTL

(* What the client that is run waits for can come, so that nothing but an   *)
(* answer of the server or the end of its program is outstanding: what is   *)
(* proved of BenchmarksEnd (bench_tool_roundtrip.py:267-273,                *)
(* bench_session_concurrency.py:78-103, bench_ttft_isolation.py:84-97).     *)
THEOREM ClientsAreNeverStuck == BenchSpec => []NeverStuck
<1>1. BenchInv => NeverStuck
  <2> SUFFICES ASSUME BenchInv PROVE NeverStuck
    OBVIOUS
  <2>1. ClientNeverStuck /\ SessionsNeverStuck
    BY ClientGoesOn, SessionsGoOn DEF BenchInv, WarmupInv
  <2>2. stage = "sampling" => Len(targetSamples) <= samples
    BY DEF BenchInv, CeilingInv
  <2>3. main \in {"delay", "late", "join", "raised"} => long # "none"
    BY DEF BenchInv, IsolationInv
  <2> QED BY <2>1, <2>2, <2>3 DEF NeverStuck
<1> QED BY BenchAlways, <1>1, PTL

-----------------------------------------------------------------------------
(* Every step brings the client that is run on.                            *)

LEMMA LivesRemain ==
    /\ PoolInit => LivesInv
    /\ LivesInv /\ [PoolNext]_poolVars => LivesInv'
<1>1. PoolInit => LivesInv
  BY LoadBoundsAssumption DEF PoolInit, LivesInv
<1>2. ASSUME LivesInv, [PoolNext]_poolVars PROVE LivesInv'
  <2>1. CASE Die
    BY <1>2, <2>1, LoadBoundsAssumption DEF Die, LivesInv
  <2>2. CASE Restart
    BY <1>2, <2>2, LoadBoundsAssumption DEF Restart, LivesInv
  <2>3. CASE UNCHANGED <<up, lives>>
    BY <1>2, <2>3 DEF LivesInv
  <2> QED
    BY <1>2, <2>1, <2>2, <2>3
    DEF PoolNext, poolVars, serverVars, ReadBefore, Send, Return, Draft, Gather, ReadAfter
<1> QED BY <1>1, <1>2

\* A program that leaves a pool does so for a later one, or for good.
LEMMA LeavingIsOnward ==
    ASSUME LoadInv, UNCHANGED <<plan, up, lives>>, wave # "over",
           \/ Raise
           \/ \E code \in {"0", "1"} : Leave(code)
           \/ \E total : GoOn(1, total)
    PROVE  PoolOnward
<1>1. pool \in 1..Len(plan) /\ Len(plan) \in Nat
  BY DEF LoadInv, PoolTypeOK
<1>2. Fate' = Fate
  BY DEF Fate
<1>3. ASSUME NEW code, Leave(code) PROVE PoolOnward
  <2>1. wave \in {"before", "asking", "after"} /\ wave' = "over" /\ UNCHANGED pool
    BY <1>3 DEF Leave, LoadInv, PoolTypeOK
  <2>2. WaveRank < WaveRank'
    BY <2>1 DEF WaveRank
  <2> QED BY <1>2, <2>1, <2>2 DEF PoolOnward
<1>4. ASSUME NEW n \in {1, 2}, NEW total, GoOn(n, total) PROVE PoolOnward
  <2>1. CASE pool + n > Len(plan)
    BY <1>3, <1>4, <2>1 DEF GoOn
  <2>2. CASE ~(pool + n > Len(plan))
    BY <1>1, <1>2, <1>4, <2>2 DEF GoOn, PoolOnward
  <2> QED BY <2>1, <2>2
<1>5. CASE Raise
  <2>1. Handler \in Handlers
    <3>1. plan[pool] \in Pools
      BY <1>1 DEF LoadInv, PoolTypeOK
    <3> QED BY <3>1 DEF Handler, Pools
  <2> QED
    BY <1>3, <1>4, <1>5, <2>1 DEF Raise, Handlers
<1> QED BY <1>3, <1>4, <1>5

\* A thread's step moves its own request.
LEMMA MovingIsOnward ==
    ASSUME LoadInv, UNCHANGED <<up, lives, pool, wave, drafts>>,
           NEW i \in DOMAIN pooled, NEW r \in {"open", "answered", "failed"},
           pooled' = [pooled EXCEPT ![i] = r],
           \/ pooled[i] = "queued" /\ r \in {"open", "failed"}
           \/ pooled[i] = "open" /\ r \in {"answered", "failed"}
    PROVE  PoolOnward
<1>1. DOMAIN pooled' = DOMAIN pooled /\ pooled'[i] = r
  OBVIOUS
<1>2. \A j \in DOMAIN pooled \ {i} : pooled'[j] = pooled[j]
  OBVIOUS
<1>3. Moved(i)
  BY <1>1 DEF Moved
<1>4. Fate' = Fate
  BY DEF Fate
<1> QED BY <1>1, <1>2, <1>3, <1>4 DEF PoolOnward

LEMMA PoolGoesOnward == LoadInv /\ LivesInv /\ PoolNext => PoolOnward
<1> SUFFICES ASSUME LoadInv, LivesInv, PoolNext PROVE PoolOnward
  OBVIOUS
<1>1. CASE ReadBefore
  <2>1. wave = "before" /\ UNCHANGED <<plan, up, lives>>
    BY <1>1 DEF ReadBefore
  <2>2. CASE wave' = "asking" /\ UNCHANGED pool
    BY <2>1, <2>2 DEF PoolOnward, Fate, WaveRank
  <2>3. CASE IF Handler = "caught" THEN GoOn(1, failures) ELSE Leave("1")
    BY <2>1, <2>3, LeavingIsOnward
  <2> QED BY <1>1, <2>2, <2>3 DEF ReadBefore
<1>2. ASSUME NEW i \in DOMAIN pooled, Send(i) PROVE PoolOnward
  <2>1. UNCHANGED <<up, lives, pool, wave, drafts>>
    BY <1>2 DEF Send, serverVars
  <2>2. pooled[i] = "queued" /\ pooled' = [pooled EXCEPT ![i] = IF up THEN "open" ELSE "failed"]
    BY <1>2 DEF Send, InPool
  <2>3. (IF up THEN "open" ELSE "failed") \in {"open", "failed"}
    OBVIOUS
  <2> QED BY <2>1, <2>2, <2>3, MovingIsOnward
<1>3. ASSUME NEW i \in DOMAIN pooled, Return(i) PROVE PoolOnward
  <2>1. UNCHANGED <<up, lives, pool, wave, drafts>> /\ pooled[i] = "open"
    BY <1>3 DEF Return, serverVars, InPool
  <2>2. PICK r \in {"answered", "failed"} : pooled' = [pooled EXCEPT ![i] = r]
    BY <1>3 DEF Return
  <2> QED BY <2>1, <2>2, MovingIsOnward
<1>4. ASSUME NEW i \in DOMAIN pooled, Draft(i) PROVE PoolOnward
  <2>1. drafts \in Nat /\ MaxDrafts \in Nat
    BY LoadBoundsAssumption DEF LoadInv, PoolTypeOK
  <2> QED BY <1>4, <2>1 DEF Draft, loadVars, PoolOnward, Fate
<1>5. CASE Gather
  <2>1. wave = "asking" /\ UNCHANGED <<plan, up, lives>>
    BY <1>5 DEF Gather, serverVars
  <2>2. CASE wave' = "after" /\ UNCHANGED pool
    BY <2>1, <2>2 DEF PoolOnward, Fate, WaveRank
  <2>3. CASE Raise
    BY <2>1, <2>3, LeavingIsOnward
  <2> QED BY <1>5, <2>2, <2>3 DEF Gather
<1>6. CASE ReadAfter
  <2>1. wave = "after" /\ UNCHANGED <<plan, up, lives>>
    BY <1>6 DEF ReadAfter, serverVars
  <2> QED BY <1>6, <2>1, LeavingIsOnward DEF ReadAfter
<1>7. CASE Die \/ Restart
  <2>1. lives \in Nat /\ MaxLives \in Nat /\ lives <= MaxLives
    BY LoadBoundsAssumption DEF LivesInv
  <2>2. Fate < Fate' /\ Fate' <= 2 * MaxLives
    BY <1>7, <2>1 DEF Die, Restart, Fate, LivesInv
  <2> QED BY <2>2 DEF PoolOnward
<1> QED BY <1>1, <1>2, <1>3, <1>4, <1>5, <1>6, <1>7 DEF PoolNext

LEMMA CeilingGoesOnward == CeilingInv /\ CeilingNext => CeilingOnward
<1> SUFFICES ASSUME CeilingInv, CeilingNext PROVE CeilingOnward
  OBVIOUS
<1>1. CASE WarmUp \/ ReadPreemptions \/ CeilingFails
  <2>1. \/ stage = "warmup" /\ stage' = "before"
        \/ stage = "before" /\ stage' = "sampling"
        \/ stage \in {"warmup", "before", "sampling", "after"} /\ stage' = "over"
    BY <1>1 DEF WarmUp, ReadPreemptions, CeilingFails, CeilingInv, CeilingTypeOK
  <2>2. StageRank < StageRank'
    BY <2>1 DEF StageRank
  <2> QED BY <2>2 DEF CeilingOnward
<1>2. CASE Sample
  <2>1. PICK n \in Nat : n = Len(targetSamples)
    BY DEF CeilingInv, CeilingTypeOK
  <2>2. Len(targetSamples') = n + 1
    BY <1>2, <2>1 DEF Sample, MeasurePrompt, CeilingInv, CeilingTypeOK
  <2>3. n < samples /\ samples \in Nat
    BY <1>2, <2>1 DEF Sample, CeilingInv, CeilingTypeOK
  <2> QED BY <1>2, <2>1, <2>2, <2>3 DEF Sample, CeilingOnward
<1>3. CASE Summarize
  BY <1>3 DEF Summarize, CeilingOnward, StageRank, CeilingInv, CeilingTypeOK
<1> QED BY <1>1, <1>2, <1>3 DEF CeilingNext

LEMMA RoundsOfIsolation ==
    /\ IsolationInit => RoundsRemain
    /\ IsolationInv /\ RoundsRemain /\ [IsolationNext]_isolationVars => RoundsRemain'
<1>1. IsolationInit => RoundsRemain
  BY DEF IsolationInit, RoundsRemain
<1>2. ASSUME IsolationInv, RoundsRemain, [IsolationNext]_isolationVars PROVE RoundsRemain'
  <2>1. CASE EndRound
    <3>1. PICK n \in Nat : n = Len(rounded)
      BY <1>2 DEF IsolationInv, IsolationTypeOK
    <3>2. main' # "over" => Len(rounded') = n + 1 /\ Len(rounded') # isolations
      BY <1>2, <2>1, <3>1 DEF EndRound, IsolationInv, IsolationTypeOK
    <3>3. n < isolations /\ isolations \in Nat /\ isolations' = isolations
      BY <1>2, <2>1, <3>1 DEF EndRound, Joined, RoundsRemain, isolationArgs, IsolationInv, IsolationTypeOK
    <3> QED BY <3>2, <3>3 DEF RoundsRemain
  <2>2. CASE /\ UNCHANGED <<rounded, isolations>>
             /\ main = "over" => main' = "over"
    BY <1>2, <2>2 DEF RoundsRemain
  <2> QED
    BY <1>2, <2>1, <2>2
    DEF IsolationNext, isolationVars, isolationArgs, AskAlone, AloneFails, PrefillBegins,
        PrefillEnds, LongFails, AskLate, LateReturns, LeaveRound
<1> QED BY <1>1, <1>2

LEMMA IsolationGoesOnward == IsolationInv /\ RoundsRemain /\ IsolationNext => IsolationOnward
<1> SUFFICES ASSUME IsolationInv, RoundsRemain, IsolationNext PROVE IsolationOnward
  OBVIOUS
<1>1. CASE AskAlone \/ AloneFails \/ AskLate \/ LateReturns \/ LeaveRound
  BY <1>1 DEF AskAlone, AloneFails, AskLate, LateReturns, LeaveRound, IsolationOnward, MainRank
<1>2. CASE PrefillBegins \/ PrefillEnds \/ LongFails
  BY <1>2 DEF PrefillBegins, PrefillEnds, LongFails, IsolationOnward, LongRank
<1>3. CASE EndRound
  <2>1. CASE long = "answered"
    <3>1. PICK n \in Nat : n = Len(rounded)
      BY DEF IsolationInv, IsolationTypeOK
    <3>2. Len(rounded') = n + 1
      BY <1>3, <2>1, <3>1 DEF EndRound, IsolationInv, IsolationTypeOK
    <3>3. n < isolations /\ isolations \in Nat /\ isolations' = isolations
      BY <1>3, <3>1 DEF EndRound, Joined, RoundsRemain, isolationArgs, IsolationInv, IsolationTypeOK
    <3> QED BY <3>1, <3>2, <3>3 DEF IsolationOnward
  <2>2. CASE long # "answered"
    BY <1>3, <2>2 DEF EndRound, Joined, IsolationOnward, MainRank
  <2> QED BY <2>1, <2>2
<1> QED BY <1>1, <1>2, <1>3 DEF IsolationNext

LEMMA RecallGoesOnward == RecallInv /\ RecallNext => RecallOnward
<1> SUFFICES ASSUME RecallInv, RecallNext PROVE RecallOnward
  OBVIOUS
<1>1. CASE PlaceSegment
  BY <1>1 DEF PlaceSegment, RecallOnward, RecallInv, RecallTypeOK
<1>2. CASE Measure
  <2>1. measures' = measures + 1
    BY <1>2 DEF Measure, Rebuild
  <2>2. measures < calibrations /\ measures \in Nat /\ calibrations \in Nat
    BY <1>2 DEF Measure, RecallInv, RecallTypeOK
  <2> QED BY <1>2, <2>1, <2>2 DEF Measure, RecallOnward, recallArgs
<1>3. CASE Ask
  <2>1. PICK n \in Nat : n = Len(judged)
    BY DEF RecallInv, RecallTypeOK
  <2>2. Len(judged') = n + 1
    BY <1>3, <2>1 DEF Ask, RecallInv, RecallTypeOK
  <2>3. n < cases /\ cases \in Nat /\ cases' = cases
    BY <1>3, <2>1 DEF Ask, recallArgs, RecallInv, RecallTypeOK, RecallBooks
  <2> QED BY <2>1, <2>2, <2>3 DEF RecallOnward
<1>4. CASE RecallFails
  BY <1>4 DEF RecallFails, RecallOnward
<1> QED BY <1>1, <1>2, <1>3, <1>4 DEF RecallNext

\* What the programs still have to do, beside BenchInv.
WorkRemains ==
    /\ LivesInv
    /\ Runs("isolation") => RoundsRemain

LEMMA WorkAlwaysRemains == BenchSpec => []WorkRemains
<1>1. BenchInit => WorkRemains
  BY LivesRemain, RoundsOfIsolation DEF BenchInit, WorkRemains
<1>2. BenchInv /\ WorkRemains /\ [BenchNext]_benchVars => WorkRemains'
  <2> SUFFICES ASSUME BenchInv, WorkRemains, [BenchNext]_benchVars PROVE WorkRemains'
    OBVIOUS
  <2>1. program' = program
    BY OnlyTheClientSteps
  <2>2. LivesInv'
    BY LivesRemain, OnlyTheClientSteps DEF WorkRemains
  <2>3. Runs("isolation") => RoundsRemain'
    BY RoundsOfIsolation, OnlyTheClientSteps DEF WorkRemains, BenchInv
  <2> QED BY <2>1, <2>2, <2>3 DEF WorkRemains, Runs
<1> QED BY <1>1, <1>2, BenchAlways, PTL DEF BenchSpec

(* No client goes round in circles: each of its steps brings it on, in an   *)
(* order in which nothing can ascend for ever, whatever the server does     *)
(* (warmup_runtime.sh:11-31, bench_tool_roundtrip.py:267-299,               *)
(* bench_session_concurrency.py:78-103, bench_high_concurrency.py:108-152,  *)
(* bench_configured_ceiling.py:213-259, bench_ttft_isolation.py:84-97,      *)
(* bench_long_context_recall.py:186-202).                                   *)
THEOREM ClientsAdvance == BenchSpec => ProgramsAdvance
<1> DEFINE Onward ==
        /\ UNCHANGED program
        /\ Runs("warmup") => WarmupOnward
        /\ Runs("sessions") => SessionsOnward
        /\ Runs("pool") => PoolOnward
        /\ Runs("ceiling") => CeilingOnward
        /\ Runs("isolation") => IsolationOnward
        /\ Runs("recall") => RecallOnward
<1>1. BenchInv /\ WorkRemains /\ [BenchNext]_benchVars => [Onward]_benchVars
  <2> SUFFICES ASSUME BenchInv, WorkRemains, BenchNext PROVE Onward
    OBVIOUS
  <2>1. WarmupInv /\ SessionsInv /\ LoadInv /\ CeilingInv /\ IsolationInv /\ RecallInv
    BY DEF BenchInv
  <2>2. CASE Runs("warmup") /\ Next
    BY <2>1, <2>2, WarmupGoesOnward DEF BenchNext, Runs
  <2>3. CASE Runs("sessions") /\ SessionsNext
    BY <2>1, <2>3, SessionsGoOnward DEF BenchNext, Runs
  <2>4. CASE Runs("pool") /\ PoolNext
    BY <2>1, <2>4, PoolGoesOnward DEF BenchNext, Runs, WorkRemains
  <2>5. CASE Runs("ceiling") /\ CeilingNext
    BY <2>1, <2>5, CeilingGoesOnward DEF BenchNext, Runs
  <2>6. CASE Runs("isolation") /\ IsolationNext
    BY <2>1, <2>6, IsolationGoesOnward DEF BenchNext, Runs, WorkRemains
  <2>7. CASE Runs("recall") /\ RecallNext
    BY <2>1, <2>7, RecallGoesOnward DEF BenchNext, Runs, WorkRemains
  <2> QED BY <2>2, <2>3, <2>4, <2>5, <2>6, <2>7 DEF BenchNext
<1>2. BenchSpec => [][Onward]_benchVars
  BY <1>1, BenchAlways, WorkAlwaysRemains, PTL DEF BenchSpec
<1> QED BY <1>2 DEF ProgramsAdvance, Onward

=============================================================================
