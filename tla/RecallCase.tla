------------------------------ MODULE RecallCase ------------------------------
(***************************************************************************)
(* bench_long_context_recall.py: for each prompt size a document with      *)
(* needles between its notes, built and measured by /tokenize until it is  *)
(* near the size or the rounds are used up, then asked for the needles.    *)
(***************************************************************************)
EXTENDS PrefixCache

CONSTANTS
    MaxCases,      \* bound on the number of prompt sizes
    MaxNeedles,    \* bound on --needles
    MaxMeasures,   \* bound on --calibration-rounds
    MaxNotes,      \* bound on the notes of a document
    MaxArrays      \* bound on the opening brackets of an answer

ASSUME RecallAssumption ==
    /\ MaxCases \in Nat \ {0} /\ MaxNeedles \in Nat \ {0}
    /\ MaxMeasures \in Nat \ {0} /\ MaxNotes \in Nat \ {0} /\ MaxArrays \in Nat

VARIABLES
    cases,         \* how many sizes --target-tokens names
    needles,       \* --needles
    calibrations,  \* --calibration-rounds
    task,          \* "build", "measure", "ask", or "over"
    filler,        \* filler_repetitions
    measures,      \* turns of the calibration
    placed,        \* segments of the document that is being built
    nextRecord,    \* next_record_index
    document,      \* per segment: the first of its notes, and the one after it
    measured,      \* notes of the document that was measured, and if it was near
    judged,        \* per case: the answer, and if the prompt was cold
    failedCases,   \* failed_cases
    recallExit     \* the exit code, or "running"

recallArgs == <<cases, needles, calibrations>>
building == <<filler, measures, placed, nextRecord, document>>
recallVars == <<recallArgs, task, building, measured, judged, failedCases,
                recallExit, cacheVars>>

Segments == 0..needles

RecallInit ==
    /\ CacheInit
    /\ cases \in 1..MaxCases
    /\ needles \in 1..MaxNeedles
    /\ calibrations \in 1..MaxMeasures
    /\ task = "build"
    /\ filler \in 1..MaxNotes
    /\ measures = 0
    /\ placed = 0
    /\ nextRecord = 0
    /\ document = [k \in Segments |-> [from |-> 0, to |-> 0]]
    /\ measured = [notes |-> 0, near |-> FALSE]
    /\ judged = <<>>
    /\ failedCases = 0
    /\ recallExit = "running"

\* Mutant: the remainder is dropped.
EqualRepetitions(n, k) == n \div (needles + 1)

\* distribute_filler_repetitions, of n notes, for segment k.
Repetitions(n, k) ==
    n \div (needles + 1) + (IF k < n % (needles + 1) THEN 1 ELSE 0)

\* A turn of build_recall_prompt's loop; needle k + 1 follows segment k.
PlaceSegment ==
    /\ task = "build"
    /\ nextRecord' = nextRecord + Repetitions(filler, placed)
    /\ document' = [document EXCEPT ![placed] = [from |-> nextRecord, to |-> nextRecord']]
    /\ placed' = placed + 1
    /\ task' = IF placed = needles THEN "measure" ELSE "build"
    /\ UNCHANGED <<recallArgs, filler, measures, measured, judged, failedCases,
                   recallExit, cacheVars>>

\* build_recall_prompt begins anew, with n notes and after m measurements.
Rebuild(n, m) ==
    /\ filler' = n
    /\ measures' = m
    /\ placed' = 0
    /\ nextRecord' = 0
    /\ task' = "build"

\* /tokenize answers.  The document is near the size, or the notes are scaled by
\* the error, to a number that depends on the tokenizer; after the last turn this
\* number is not used.
Measure ==
    /\ task = "measure"
    /\ \E near \in BOOLEAN :
          /\ measured' = [notes |-> document[needles].to, near |-> near]
          /\ IF near \/ measures + 1 = calibrations
               THEN /\ task' = "ask"
                    /\ measures' = measures + 1
                    /\ IF near THEN UNCHANGED filler ELSE filler' \in 1..MaxNotes
                    /\ UNCHANGED <<placed, nextRecord>>
               ELSE \E n \in 1..MaxNotes : Rebuild(n, measures + 1)
    /\ UNCHANGED <<recallArgs, document, judged, failedCases, recallExit, cacheVars>>

\* What raw_decode makes of an answer at each of its opening brackets: an error, a
\* list with more than strings in it, the needles in order, or other strings.
Readings == {"error", "mixed", "needles", "strings"}
Answers == UNION {[1..n -> Readings] : n \in 0..MaxArrays}

\* Where raw_decode finds a list of strings.
StringLists(answer) == {i \in DOMAIN answer : answer[i] \in {"needles", "strings"}}

FirstOf(places) == CHOOSE i \in places : \A j \in places : i <= j

\* parse_json_array returns the first list of strings: the needles.
Passed(answer) ==
    /\ StringLists(answer) # {}
    /\ answer[FirstOf(StringLists(answer))] = "needles"

\* chat_stream returns, the case is judged and printed, and the next one begins,
\* with needles and a nonce of its own.
Ask ==
    /\ task = "ask"
    /\ uuids' = uuids + 1
    /\ Serve(FreshKey)
    /\ \E answer \in Answers :
          /\ judged' = Append(judged, [answer |-> answer, cold |-> FreshKey \notin cached])
          /\ failedCases' = failedCases + (IF Passed(answer) THEN 0 ELSE 1)
    /\ IF Len(judged') = cases
         THEN /\ task' = "over"
              /\ recallExit' = IF failedCases' > 0 THEN "1" ELSE "0"
              /\ UNCHANGED <<filler, measures, placed, nextRecord>>
         ELSE /\ \E n \in 1..MaxNotes : Rebuild(n, 0)
              /\ UNCHANGED recallExit
    /\ UNCHANGED <<recallArgs, document, measured>>

\* /tokenize or the request fails, or a count of no tokens divides by zero:
\* nothing catches it.
RecallFails ==
    /\ task \in {"measure", "ask"}
    /\ task' = "over"
    /\ recallExit' = "1"
    /\ UNCHANGED <<recallArgs, building, measured, judged, failedCases, cacheVars>>

RecallNext == PlaceSegment \/ Measure \/ Ask \/ RecallFails

RecallSpec == RecallInit /\ [][RecallNext]_recallVars

-----------------------------------------------------------------------------

RecallTypeOK ==
    /\ CacheTypeOK
    /\ cases \in Nat \ {0}
    /\ needles \in Nat \ {0}
    /\ calibrations \in Nat \ {0}
    /\ task \in {"build", "measure", "ask", "over"}
    /\ filler \in Nat \ {0}
    /\ measures \in 0..calibrations
    /\ placed \in 0..(needles + 1)
    /\ nextRecord \in Nat
    /\ document \in [Segments -> [from : Nat, to : Nat]]
    /\ measured \in [notes : Nat, near : BOOLEAN]
    /\ judged \in Seq([answer : Seq(Readings), cold : BOOLEAN])
    /\ failedCases \in Nat
    /\ recallExit \in {"running", "0", "1"}

(* The document that is asked about is the one that was measured, with the  *)
(* number of notes that was built, not the number that the last error would *)
(* scale it to; it is near the size unless all turns are used up; and its   *)
(* needles lie evenly in it: the notes follow one another without a gap,    *)
(* and two segments differ by a note at most                                *)
(* (bench_long_context_recall.py:99-160, 186-202).                          *)
RecallIsMeasured ==
    task = "ask" =>
        /\ measured.near \/ measures = calibrations
        /\ measured.near => measured.notes = filler
        /\ document[0].from = 0 /\ document[needles].to = measured.notes
        /\ \A k \in Segments \ {0} : document[k].from = document[k - 1].to
        /\ \A j, k \in Segments :
              document[j].to - document[j].from <= document[k].to - document[k].from + 1

(* Every document is cold (bench_long_context_recall.py:227, 247).          *)
RecallIsCold == \A i \in DOMAIN judged : judged[i].cold

\* The needles are the first list of strings: text, broken arrays and lists that
\* hold anything else may come before them, and whatever there is after them.
Recalls(answer) ==
    \E i \in DOMAIN answer :
        /\ answer[i] = "needles"
        /\ \A j \in 1..(i - 1) : answer[j] \in {"error", "mixed"}

(* Exit code 0 means that each size was asked for and that in each answer   *)
(* the first list of strings was that of the needles, whole and in order;   *)
(* not that an answer held nothing else.  A run that judged all its cases   *)
(* and exits with 1 has an answer of which this is not so                   *)
(* (bench_long_context_recall.py:205-217, 267-300).                         *)
RecallExitTells ==
    /\ recallExit = "0" =>
          Len(judged) = cases /\ \A i \in DOMAIN judged : Recalls(judged[i].answer)
    /\ recallExit = "1" /\ Len(judged) = cases =>
          \E i \in DOMAIN judged : ~Recalls(judged[i].answer)

-----------------------------------------------------------------------------
(* The inductive invariant.                                                *)

\* Where segment k begins in a document of n notes.
Begin(n, k) ==
    k * (n \div (needles + 1))
        + (IF k < n % (needles + 1) THEN k ELSE n % (needles + 1))

\* The first p segments of a document of n notes are in their places.
LaidOut(n, p) ==
    \A k \in 0..(p - 1) : document[k] = [from |-> Begin(n, k), to |-> Begin(n, k + 1)]

\* What the count of failed cases says, and the exit code; a program that goes on
\* has a case to judge.
RecallBooks ==
    /\ failedCases = 0 <=> \A i \in DOMAIN judged : Passed(judged[i].answer)
    /\ task # "over" => recallExit = "running" /\ Len(judged) < cases
    /\ recallExit = "0" => failedCases = 0 /\ Len(judged) = cases
    /\ recallExit = "1" /\ Len(judged) = cases => failedCases # 0

RecallInv ==
    /\ RecallTypeOK
    /\ CacheInv
    /\ RecallIsCold
    /\ task = "build" => placed <= needles
    /\ task \in {"build", "measure"} => measures < calibrations
    /\ task = "build" => nextRecord = Begin(filler, placed) /\ LaidOut(filler, placed)
    /\ task = "measure" => LaidOut(filler, needles + 1)
    /\ task = "ask" =>
          /\ LaidOut(measured.notes, needles + 1)
          /\ measured.near \/ measures = calibrations
          /\ measured.near => measured.notes = filler
    /\ RecallBooks

\* A step judges a case, or measures its document, or places a segment of it: the
\* calibration may send the program back to build, but not for ever.
RecallOnward ==
    \/ Len(judged) < Len(judged') /\ Len(judged') <= cases
    \/ UNCHANGED judged /\ task # "over" /\ task' = "over"
    \/ UNCHANGED judged /\ measures < measures' /\ measures' <= calibrations
    \/ UNCHANGED <<judged, measures>> /\ placed < placed' /\ placed' <= needles + 1

=============================================================================
