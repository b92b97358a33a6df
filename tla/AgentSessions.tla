---------------------------- MODULE AgentSessions ----------------------------
(***************************************************************************)
(* bench_agent_trace.py and bench_session_concurrency.py: conversations    *)
(* that grow by a question and an answer per turn.  The first program      *)
(* keeps one, the second one several, whose requests of a turn go through  *)
(* a pool of as many threads and are waited for before the next turn.      *)
(***************************************************************************)
EXTENDS Naturals, Sequences

CONSTANTS
    MaxRequests,   \* bound on the number of sessions times that of turns
    Streamed       \* the sets of parts that a streamed answer may have

ASSUME RequestsAssumption == MaxRequests \in Nat \ {0}

VARIABLES
    traced,        \* the program is bench_agent_trace.py
    sessions,      \* --sessions
    turns,         \* turns, or --rounds
    replay,        \* --include-reasoning-history
    turn,          \* turn of the loop
    history,       \* per session: its messages after the system prompt
    observed,      \* per session: an observation is pending
    exchange,      \* per session: what the server was sent, and its answers
    request,       \* per session: where its request of this turn is
    sessionsExit   \* the exit code, or "running"

sessionsArgs == <<traced, sessions, turns, replay>>
sessionsVars == <<sessionsArgs, turn, history, observed, exchange, request,
                  sessionsExit>>

Conversations == 1..sessions

\* The parts of a streamed answer that a client keeps.
Parts == {"content", "reasoning"}

ASSUME StreamedAssumption == Streamed \subseteq SUBSET Parts

\* A turn's question, after the observation that is pending.
UserMessage(s, t, o) ==
    [session |-> s, turn |-> t,
     says |-> IF o THEN {"observation", "task"} ELSE {"task"}]

\* What is submitted again of an answer; if nothing, a line that names the turn.
HistoryAnswer(s, t, parts) ==
    [session |-> s, turn |-> t,
     says |-> IF replay THEN parts ELSE parts \ {"reasoning"}]

\* Turns after which an observation becomes pending.
Period == IF traced THEN 4 ELSE 2

SessionsInit ==
    /\ traced \in BOOLEAN
    /\ sessions \in 1..MaxRequests
    /\ turns \in 1..MaxRequests
    /\ sessions * turns <= MaxRequests
    /\ traced => sessions = 1
    /\ replay \in BOOLEAN
    /\ turn = 1
    /\ history = [s \in Conversations |-> <<>>]
    /\ observed = [s \in Conversations |-> FALSE]
    /\ exchange = [s \in Conversations |-> <<>>]
    /\ request = [s \in Conversations |-> "idle"]
    /\ sessionsExit = "running"

\* The loop over the sessions has come to session s.
Reached(s) == request[s] = "idle" /\ \A r \in 1..(s - 1) : request[r] # "idle"

\* The loop over the sessions: the question goes out at the end of the history.
Submit(s) ==
    /\ sessionsExit = "running"
    /\ Reached(s)
    /\ exchange' = [exchange EXCEPT ![s] = Append(@,
            [messages |-> Append(history[s], UserMessage(s, turn, observed[s])),
             answer |-> {}])]
    /\ observed' = [observed EXCEPT ![s] = FALSE]
    /\ request' = [request EXCEPT ![s] = "open"]
    /\ UNCHANGED <<sessionsArgs, turn, history, sessionsExit>>

\* The stream ends, by [DONE] or by a connection that closes, and these parts of
\* an answer have come.
EndStream(s, parts) ==
    /\ request[s] = "open"
    /\ exchange' = [exchange EXCEPT ![s][turn].answer = parts]
    /\ request' = [request EXCEPT ![s] = "done"]
    /\ UNCHANGED <<sessionsArgs, turn, history, observed, sessionsExit>>

\* The request is refused, or reading from its stream raises.
StreamFails(s) ==
    /\ request[s] = "open"
    /\ request' = [request EXCEPT ![s] = "failed"]
    /\ UNCHANGED <<sessionsArgs, turn, history, observed, exchange, sessionsExit>>

\* Mutant: the question that was submitted last.
AskedLast(s) == exchange[sessions][turn].messages[2 * turn - 1]

\* The question that session s put in this turn.
Asking(s) == exchange[s][turn].messages[2 * turn - 1]

\* The state after a turn that every request has answered.
Grown ==
    /\ sessionsExit = "running"
    /\ \A s \in Conversations : request[s] = "done"
    /\ history' = [s \in Conversations |-> history[s] \o
            <<Asking(s), HistoryAnswer(s, turn, exchange[s][turn].answer)>>]
    /\ observed' = [s \in Conversations |-> observed[s] \/ turn % Period = 0]
    /\ IF turn = turns
         THEN sessionsExit' = "0" /\ UNCHANGED <<turn, request>>
         ELSE /\ turn' = turn + 1
              /\ request' = [s \in Conversations |-> "idle"]
              /\ UNCHANGED sessionsExit
    /\ UNCHANGED <<sessionsArgs, exchange>>

\* Mutant: the sessions that are answered do not wait for the slowest.
RecordOnFirst ==
    /\ ~traced /\ turn < turns
    /\ \A s \in Conversations : request[s] # "idle"
    /\ \E s \in Conversations : request[s] = "done"
    /\ turn' = turn + 1
    /\ request' = [s \in Conversations |->
                     IF request[s] = "done" THEN "idle" ELSE request[s]]
    /\ UNCHANGED <<sessionsArgs, history, observed, exchange, sessionsExit>>

\* After the pool: question and answer join each history.
RecordRound == ~traced /\ Grown

\* The same of a single conversation.
RecordTurn == traced /\ Grown

\* The first result() of a failed request raises, when the pool has drained.
RaiseFailure ==
    /\ sessionsExit = "running"
    /\ \A s \in Conversations : request[s] \in {"done", "failed"}
    /\ \E s \in Conversations : request[s] = "failed"
    /\ sessionsExit' = "1"
    /\ UNCHANGED <<sessionsArgs, turn, history, observed, exchange, request>>

Converse(s) ==
    \/ Submit(s)
    \/ \E parts \in Streamed : EndStream(s, parts)
    \/ StreamFails(s)

SessionsNext ==
    \/ \E s \in Conversations : Converse(s)
    \/ RecordRound
    \/ RecordTurn
    \/ RaiseFailure

SessionsSpec == SessionsInit /\ [][SessionsNext]_sessionsVars

-----------------------------------------------------------------------------

Message == [session : Nat, turn : Nat, says : SUBSET (Parts \cup {"observation", "task"})]

SessionsTypeOK ==
    /\ traced \in BOOLEAN
    /\ sessions \in Nat \ {0}
    /\ turns \in Nat \ {0}
    /\ replay \in BOOLEAN
    /\ turn \in 1..turns
    /\ history \in [Conversations -> Seq(Message)]
    /\ observed \in [Conversations -> BOOLEAN]
    /\ exchange \in [Conversations -> Seq([messages : Seq(Message), answer : SUBSET Parts])]
    /\ request \in [Conversations -> {"idle", "open", "done", "failed"}]
    /\ sessionsExit \in {"running", "0", "1"}

\* An observation made after turn t - 1 goes out with turn t.
Due(t) == t > 1 /\ (t - 1) % Period = 0

\* What session s has said and been told in k turns, by position.
Told(s, k) ==
    [i \in 1..(2 * k) |->
        IF i % 2 = 1
          THEN UserMessage(s, (i + 1) \div 2, Due((i + 1) \div 2))
          ELSE HistoryAnswer(s, i \div 2, exchange[s][i \div 2].answer)]

(* Each request carries the whole conversation of its own session, each      *)
(* question with the answer that the server gave to it, and an observation   *)
(* exactly once, with the turn after the one that made it: nothing is lost,  *)
(* repeated or taken from another session by the pool                        *)
(* (bench_session_concurrency.py:80-139, bench_agent_trace.py:195-216).      *)
OwnHistory ==
    \A s \in Conversations : \A n \in 1..Len(exchange[s]) :
        exchange[s][n].messages =
            Append(Told(s, n - 1), UserMessage(s, n, Due(n)))

\* The server has answered the n-th request of session s.
Answered(s, n) ==
    \/ n < Len(exchange[s])
    \/ n = Len(exchange[s]) /\ request[s] \in {"idle", "done"}

(* The pool is a barrier: when a session is asked its next question, every  *)
(* session has been answered the previous one, so that the cache is        *)
(* measured with all conversations of one length, and no question follows  *)
(* a failed one (bench_session_concurrency.py:103).                        *)
RoundsInStep ==
    \A s, r \in Conversations : \A n \in 1..Len(exchange[s]) :
        n > 1 => Answered(r, n - 1)

(* Exit code 0 means that every request of every session was answered; exit *)
(* code 1 that one was not; neither leaves a request behind                 *)
(* (bench_session_concurrency.py:78-103).                                   *)
SessionsExitTells ==
    /\ sessionsExit = "0" => \A s \in Conversations : Answered(s, turns)
    /\ sessionsExit = "1" => \E s \in Conversations : request[s] = "failed"
    /\ sessionsExit # "running" => \A s \in Conversations : request[s] # "open"

-----------------------------------------------------------------------------
(* The inductive invariant.                                                *)

\* Between two turns, and while a session still waits to be asked, it has one
\* exchange less than the others.
Exchanges(s) == IF request[s] = "idle" THEN turn - 1 ELSE turn

\* A program that runs has a request to wait for, one to make, or all results.
SessionsNeverStuck ==
    sessionsExit = "running" =>
        \/ \E s \in Conversations : Reached(s) \/ request[s] = "open"
        \/ \A s \in Conversations : request[s] \in {"done", "failed"}

\* How far session s has come: a turn is to ask, to be answered, and to record.
Advance(s) ==
    3 * (turn - 1) + (CASE request[s] = "idle" -> 0 [] request[s] = "open" -> 1 [] OTHER -> 2)

\* Every step ends the program or brings a session on, and none back, up to the
\* last of the turns asked for.
SessionsOnward ==
    \/ sessionsExit = "running" /\ sessionsExit' # "running"
    \/ /\ \A s \in Conversations : Advance(s) <= Advance(s)' /\ Advance(s)' < 3 * turns
       /\ \E s \in Conversations : Advance(s) < Advance(s)'

SessionsAdvance == [][SessionsOnward]_sessionsVars

SessionsInv ==
    /\ SessionsTypeOK
    /\ OwnHistory
    /\ \A s \in Conversations : Len(exchange[s]) = Exchanges(s)
    /\ sessionsExit = "running" => \A s \in Conversations :
          /\ history[s] = Told(s, turn - 1)
          /\ observed[s] = (request[s] = "idle" /\ Due(turn))
    /\ sessionsExit # "running" => \A s \in Conversations : request[s] \in {"done", "failed"}
    /\ sessionsExit = "0" => turn = turns /\ \A s \in Conversations : request[s] = "done"
    /\ sessionsExit = "1" => \E s \in Conversations : request[s] = "failed"

=============================================================================
