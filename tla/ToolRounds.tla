------------------------------ MODULE ToolRounds ------------------------------
(***************************************************************************)
(* bench_tool_roundtrip.py: rounds of two streamed requests each, run one  *)
(* after another or by a pool of threads.  The first request must yield a  *)
(* tool call, which the client assembles from fragments; the second one    *)
(* sends the call back with a result and must yield text.  The server may  *)
(* send any fragments and break off at any of them.                        *)
(***************************************************************************)
EXTENDS Naturals, Sequences, FiniteSets

CONSTANTS
    MaxRounds,     \* bound on the rounds that the command line asks for
    MaxCalls       \* bound on the tool calls that the server sends in a round

ASSUME RoundsAssumption == MaxRounds \in Nat \ {0}
ASSUME CallsAssumption == MaxCalls \in Nat \ {0}

VARIABLES
    rounds,        \* --rounds
    concurrency,   \* --concurrency
    indexed,       \* the server numbers the calls of an answer
    step,          \* per round: where run_round is
    sent,          \* per round: the arguments sent so far of each tool call
    calls,         \* per round and index: what the client has assembled
    text,          \* per round: text has arrived after the tool result
    exit           \* the exit code, or "running"

commandVars == <<rounds, concurrency, indexed>>
roundVars == <<step, sent, calls, text>>
clientVars == <<commandVars, roundVars, exit>>

Rounds == 1..rounds
Slots == 0..(MaxCalls - 1)
Steps == {"queued", "call", "answer", "pass", "fail", "raise"}
Over == {"pass", "fail", "raise"}

\* A call begins with its id and name, and goes on with its arguments: the
\* object with the path asked for, in two halves, or another JSON value.
\* Partial holds what may have been sent of the arguments.
Pieces == {"half1", "half2", "list"}
Asked == <<"half1", "half2">>
Partial == {<<>>, <<"half1">>, Asked, <<"list">>}

\* An entry of calls: copies of the name (and of the id) and pieces of arguments.
Nothing == [name |-> 0, args |-> <<>>]

ClientInit ==
    /\ rounds \in 1..MaxRounds
    /\ concurrency \in 1..MaxRounds
    /\ indexed \in BOOLEAN
    /\ step = [i \in Rounds |-> "queued"]
    /\ sent = [i \in Rounds |-> <<>>]
    /\ calls = [i \in Rounds |-> [k \in Slots |-> Nothing]]
    /\ text = [i \in Rounds |-> FALSE]
    /\ exit = "running"

InFlight == {i \in Rounds : step[i] \in {"call", "answer"}}

\* An exception that run_round does not catch ends the loop over the rounds; a
\* pool runs the others all the same.
Aborted == concurrency = 1 /\ \E i \in Rounds : step[i] = "raise"

\* The loop, or an idle thread of the pool, can take round i next.
Takeable(i) ==
    /\ step[i] = "queued"
    /\ \A j \in 1..(i - 1) : step[j] # "queued"
    /\ Cardinality(InFlight) < concurrency
    /\ ~Aborted

\* Mutant: a single thread never gets a round.
StartNever(i) ==
    /\ step[i] = "queued"
    /\ \A j \in 1..(i - 1) : step[j] # "queued"
    /\ Cardinality(InFlight) + 1 < concurrency
    /\ ~Aborted
    /\ step' = [step EXCEPT ![i] = "call"]
    /\ UNCHANGED <<commandVars, sent, calls, text, exit>>

Start(i) ==
    /\ Takeable(i)
    /\ step' = [step EXCEPT ![i] = "call"]
    /\ UNCHANGED <<commandVars, sent, calls, text, exit>>

\* The index of the call in a delta, which defaults to 0: it is the n-th call.
Index(n) == IF indexed THEN n - 1 ELSE 0

\* The turn of stream_chat for a delta with the id and the name of a call.
CallBegins(i) ==
    /\ step[i] = "call"
    /\ Len(sent[i]) < MaxCalls
    /\ sent' = [sent EXCEPT ![i] = Append(@, <<>>)]
    /\ calls' = [calls EXCEPT ![i][Index(Len(sent[i]) + 1)].name = @ + 1]
    /\ UNCHANGED <<commandVars, step, text, exit>>

\* Its turn for a delta with more arguments of the last call.
CallGoesOn(i) ==
    LET n == Len(sent[i])
    IN  /\ step[i] = "call"
        /\ n > 0
        /\ \E p \in Pieces :
              /\ Append(sent[i][n], p) \in Partial
              /\ sent' = [sent EXCEPT ![i][n] = Append(@, p)]
              /\ calls' = [calls EXCEPT ![i][Index(n)].args = Append(@, p)]
        /\ UNCHANGED <<commandVars, step, text, exit>>

\* What is left of a round, at the step that run_round has come to: main() uses
\* nothing of a round that did not pass.
Proceed(i, s) ==
    /\ step' = [step EXCEPT ![i] = s]
    /\ IF s \in {"fail", "raise"}
         THEN /\ sent' = [sent EXCEPT ![i] = <<>>]
              /\ calls' = [calls EXCEPT ![i] = [k \in Slots |-> Nothing]]
              /\ text' = [text EXCEPT ![i] = FALSE]
         ELSE UNCHANGED <<sent, calls, text>>
    /\ UNCHANGED <<commandVars, exit>>

Entries(c) == {k \in Slots : c[k] # Nothing}

\* Mutant: the first call counts, however many there are.
FirstEntry(c, args) ==
    \E k \in Entries(c) :
        /\ \A j \in Entries(c) : k <= j
        /\ c[k] = [name |-> 1, args |-> args]

\* There is one call, with the name and the id once, and with these arguments.
OnlyEntry(c, args) ==
    \E k \in Slots :
        /\ Entries(c) = {k}
        /\ c[k] = [name |-> 1, args |-> args]

\* validate_tool_call.  JSON that is no object has no get(), which raises an
\* AttributeError that nobody catches.
Verdict(c) ==
    IF OnlyEntry(c, Asked) THEN "answer"
    ELSE IF OnlyEntry(c, <<"list">>) THEN "raise" ELSE "fail"

\* The first stream ends: by [DONE], or by a connection that closes between two
\* events or after an error object, which ends the loop over the lines as well.
EndCall(i) ==
    /\ step[i] = "call"
    /\ Proceed(i, Verdict(calls[i]))

\* A delta with content or reasoning_content answers the second request.
Text(i) ==
    /\ step[i] = "answer"
    /\ ~text[i]
    /\ text' = [text EXCEPT ![i] = TRUE]
    /\ UNCHANGED <<commandVars, step, sent, calls, exit>>

\* Mutant: an answer without text passes.
EndAnswerEmpty(i) ==
    /\ step[i] = "answer"
    /\ Proceed(i, "pass")

\* The second stream ends, in the same ways as the first.
EndAnswer(i) ==
    /\ step[i] = "answer"
    /\ Proceed(i, IF text[i] THEN "pass" ELSE "fail")

\* The request is refused, or reading from its stream raises.
RequestFails(i) ==
    /\ i \in InFlight
    /\ Proceed(i, "fail")

\* Mutant: main() does not wait for the pool after an exception.
FinishEarly ==
    /\ exit = "running"
    /\ \/ \A i \in Rounds : step[i] \in Over
       \/ \E i \in Rounds : step[i] = "raise"
    /\ exit' = IF \A i \in Rounds : step[i] = "pass" THEN "0" ELSE "1"
    /\ UNCHANGED <<commandVars, roundVars>>

\* The loop, or the pool, is over.
PoolIsThrough == Aborted \/ \A i \in Rounds : step[i] \in Over

\* main() counts the rounds that passed and returns; an exception of a round is
\* raised again, after the pool has run all of them.
Finish ==
    /\ exit = "running"
    /\ PoolIsThrough
    /\ exit' = IF \A i \in Rounds : step[i] = "pass" THEN "0" ELSE "1"
    /\ UNCHANGED <<commandVars, roundVars>>

Round(i) ==
    \/ Start(i)
    \/ CallBegins(i)
    \/ CallGoesOn(i)
    \/ EndCall(i)
    \/ Text(i)
    \/ EndAnswer(i)
    \/ RequestFails(i)

ClientNext == (\E i \in Rounds : Round(i)) \/ Finish

-----------------------------------------------------------------------------

ClientTypeOK ==
    /\ rounds \in 1..MaxRounds
    /\ concurrency \in 1..MaxRounds
    /\ indexed \in BOOLEAN
    /\ step \in [Rounds -> Steps]
    /\ sent \in [Rounds -> Seq(Partial)]
    /\ \A i \in Rounds : Len(sent[i]) <= MaxCalls
    /\ calls \in [Rounds -> [Slots -> [name : Nat, args : Seq(Pieces)]]]
    /\ text \in [Rounds -> BOOLEAN]
    /\ exit \in {"running", "0", "1"}

(* A round that goes on to its second request got from the server exactly   *)
(* the call it asked for, complete, and no other: what the client has       *)
(* assembled by index (bench_tool_roundtrip.py:140-152) never makes one     *)
(* call out of two, even if the server does not number them.                *)
OneWholeCall ==
    \A i \in Rounds : step[i] \in {"answer", "pass"} => sent[i] = <<Asked>>

(* The pool never has more rounds in flight than --concurrency, takes them  *)
(* in order, and leaves none in flight when the program ends, not even      *)
(* after an exception (bench_tool_roundtrip.py:267-273).                    *)
PoolKeepsBound ==
    /\ Cardinality(InFlight) <= concurrency
    /\ \A i, j \in Rounds : i < j /\ step[i] = "queued" => step[j] = "queued"
    /\ exit # "running" => InFlight = {}

(* Exit code 0 means that each round asked for got its whole call and then  *)
(* text; exit code 1 that some round did not pass                           *)
(* (bench_tool_roundtrip.py:299).                                           *)
ExitIsHonest ==
    /\ exit = "0" => \A i \in Rounds : sent[i] = <<Asked>> /\ text[i]
    /\ exit = "1" => \E i \in Rounds : step[i] # "pass"

-----------------------------------------------------------------------------
(* The parts of the inductive invariant.                                    *)

\* The client's entries are the calls sent: each its own if they are numbered,
\* or all in entry 0, where the name counts them.
Assembled(s, c) ==
    IF indexed
      THEN \A k \in Slots : c[k] = IF k < Len(s)
                                     THEN [name |-> 1, args |-> s[k + 1]]
                                     ELSE Nothing
      ELSE /\ c[0].name = Len(s)
           /\ Len(s) = 0 => c[0] = Nothing
           /\ Len(s) = 1 => c[0].args = s[1]
           /\ \A k \in Slots \ {0} : c[k] = Nothing

AssembledInv ==
    \A i \in Rounds :
        /\ step[i] = "queued" => sent[i] = <<>>
        /\ step[i] \in {"queued", "call"} => Assembled(sent[i], calls[i])
        /\ step[i] \in {"answer", "pass"} => sent[i] = <<Asked>>
        /\ step[i] = "pass" => text[i]

\* A single thread that raised had no other round in flight.
PoolInv ==
    /\ Cardinality(InFlight) <= concurrency
    /\ \A i, j \in Rounds : i < j /\ step[i] = "queued" => step[j] = "queued"
    /\ Aborted => InFlight = {}

ExitInv ==
    /\ exit # "running" => Aborted \/ \A i \in Rounds : step[i] \in Over
    /\ exit = "0" => \A i \in Rounds : step[i] = "pass"
    /\ exit = "1" => \E i \in Rounds : step[i] # "pass"

\* A client that runs has a round in flight, one to take, or is through: no
\* thread waits for a round that another one would have to give up.
ClientNeverStuck ==
    exit = "running" => InFlight # {} \/ PoolIsThrough \/ \E i \in Rounds : Takeable(i)

LastTurn == 3 * MaxCalls + 6

\* How far a round has come: a stream brings a bounded number of calls, and of
\* each its name and two pieces of its arguments.
Turn(i) ==
    CASE step[i] = "queued" -> 0
      [] step[i] = "call" -> 1 + 3 * Len(sent[i])
             + (IF sent[i] = <<>> THEN 0 ELSE Len(sent[i][Len(sent[i])]))
      [] step[i] = "answer" -> 3 * MaxCalls + 4 + (IF text[i] THEN 1 ELSE 0)
      [] OTHER -> LastTurn

ClientInv == ClientTypeOK /\ AssembledInv /\ PoolInv /\ ExitInv

=============================================================================
