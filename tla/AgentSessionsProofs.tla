-------------------------- MODULE AgentSessionsProofs --------------------------
(***************************************************************************)
(* Theorems about AgentSessions, for any numbers of sessions and turns and *)
(* whatever the server answers.                                            *)
(***************************************************************************)
EXTENDS AgentSessions, SequenceTheorems, WellFoundedInduction, TLAPS

Exchange == [messages : Seq(Message), answer : SUBSET Parts]

-----------------------------------------------------------------------------
(* Messages and conversations.                                             *)

LEMMA MessageTypes ==
    ASSUME NEW s \in Nat, NEW t \in Nat, NEW o \in BOOLEAN, NEW parts \in SUBSET Parts
    PROVE  UserMessage(s, t, o) \in Message /\ HistoryAnswer(s, t, parts) \in Message
<1>1. UserMessage(s, t, o) \in Message
  BY DEF UserMessage, Message
<1>2. (IF replay THEN parts ELSE parts \ {"reasoning"}) \in SUBSET (Parts \cup {"observation", "task"})
  OBVIOUS
<1>3. HistoryAnswer(s, t, parts) \in Message
  BY <1>2 DEF HistoryAnswer, Message
<1> QED BY <1>1, <1>3

LEMMA DueIsBoolean == ASSUME NEW t \in Nat PROVE Due(t) \in BOOLEAN
  BY DEF Due

\* A place in a conversation of k turns belongs to one of them.
LEMMA Places ==
    ASSUME NEW k \in Nat, NEW i \in 1..(2 * k)
    PROVE  /\ i % 2 = 1 => (i + 1) \div 2 \in 1..k
           /\ i % 2 # 1 => i \div 2 \in 1..k
  OBVIOUS

LEMMA ToldIsConversation ==
    ASSUME NEW s \in Nat, NEW k \in Nat,
           \A i \in 1..k : exchange[s][i].answer \in SUBSET Parts
    PROVE  Told(s, k) \in Seq(Message) /\ Len(Told(s, k)) = 2 * k
<1> DEFINE F(i) == IF i % 2 = 1
              THEN UserMessage(s, (i + 1) \div 2, Due((i + 1) \div 2))
              ELSE HistoryAnswer(s, i \div 2, exchange[s][i \div 2].answer)
<1>1. ASSUME NEW i \in 1..(2 * k) PROVE F(i) \in Message
  <2>1. CASE i % 2 = 1
    <3>1. (i + 1) \div 2 \in Nat
      BY <2>1, Places
    <3> QED BY <2>1, <3>1, DueIsBoolean, MessageTypes
  <2>2. CASE i % 2 # 1
    <3>1. i \div 2 \in 1..k
      BY <2>2, Places
    <3>2. exchange[s][i \div 2].answer \in SUBSET Parts /\ i \div 2 \in Nat
      BY <3>1
    <3> QED BY <2>2, <3>2, MessageTypes
  <2> QED BY <2>1, <2>2
<1>2. Told(s, k) = [i \in 1..(2 * k) |-> F(i)]
  BY DEF Told
<1> HIDE DEF F
<1>3. 2 * k \in Nat
  OBVIOUS
<1> QED BY <1>1, <1>2, <1>3

\* The answers so far are all that a conversation depends on.
LEMMA ToldStays ==
    ASSUME NEW s \in Nat, NEW k \in Nat, UNCHANGED sessionsArgs,
           \A i \in 1..k : exchange'[s][i].answer = exchange[s][i].answer
    PROVE  Told(s, k)' = Told(s, k)
<1>1. ASSUME NEW i \in 1..(2 * k), i % 2 # 1
      PROVE  exchange'[s][i \div 2].answer = exchange[s][i \div 2].answer
  BY <1>1, Places
<1> QED BY <1>1 DEF Told, UserMessage, HistoryAnswer, Due, Period, sessionsArgs

\* A turn adds its question and its answer.
LEMMA ToldGrows ==
    ASSUME NEW s \in Nat, NEW k \in Nat \ {0},
           \A i \in 1..k : exchange[s][i].answer \in SUBSET Parts
    PROVE  Told(s, k - 1) \o <<UserMessage(s, k, Due(k)),
                               HistoryAnswer(s, k, exchange[s][k].answer)>>
             = Told(s, k)
<1> DEFINE T == Told(s, k - 1)
           u == UserMessage(s, k, Due(k))
           a == HistoryAnswer(s, k, exchange[s][k].answer)
           W == Told(s, k)
<1>1. T \in Seq(Message) /\ Len(T) = 2 * (k - 1)
  BY ToldIsConversation
<1>2. W \in Seq(Message) /\ Len(W) = 2 * k
  BY ToldIsConversation
<1>3. u \in Message /\ a \in Message
  BY MessageTypes, DueIsBoolean
<1>4. \A i \in 1..(2 * (k - 1)) : T[i] = W[i]
  BY DEF Told
<1>5. W[2 * k - 1] = u
  <2>1. 2 * k - 1 \in 1..(2 * k) /\ (2 * k - 1) % 2 = 1 /\ (2 * k - 1 + 1) \div 2 = k
    OBVIOUS
  <2> QED BY <2>1 DEF Told
<1>6. W[2 * k] = a
  <2>1. 2 * k \in 1..(2 * k) /\ (2 * k) % 2 # 1 /\ (2 * k) \div 2 = k
    OBVIOUS
  <2> QED BY <2>1 DEF Told
<1> HIDE DEF T, u, a, W
<1>7. T \o <<u, a>> \in Seq(Message) /\ Len(T \o <<u, a>>) = 2 * k
  BY <1>1, <1>3
<1>8. ASSUME NEW i \in 1..(2 * k) PROVE (T \o <<u, a>>)[i] = W[i]
  <2>1. CASE i \in 1..(2 * (k - 1))
    BY <1>1, <1>3, <1>4, <2>1
  <2>2. CASE i = 2 * k - 1
    <3>1. Len(T) + 1 = i /\ (T \o <<u, a>>)[Len(T) + 1] = u
      BY <1>1, <1>3, <2>2
    <3> QED BY <1>5, <2>2, <3>1
  <2>3. CASE i = 2 * k
    <3>1. Len(T) + 2 = i /\ (T \o <<u, a>>)[Len(T) + 2] = a
      BY <1>1, <1>3, <2>3
    <3> QED BY <1>6, <2>3, <3>1
  <2>4. i \in 1..(2 * (k - 1)) \/ i = 2 * k - 1 \/ i = 2 * k
    OBVIOUS
  <2> QED BY <2>1, <2>2, <2>3, <2>4
<1>9. T \o <<u, a>> = W
  BY <1>2, <1>7, <1>8, SeqEqual
<1> QED BY <1>9 DEF T, u, a, W

-----------------------------------------------------------------------------
(* The inductive invariant.                                                *)

LEMMA SessionsInitially == SessionsInit => SessionsInv
<1> SUFFICES ASSUME SessionsInit PROVE SessionsInv
  OBVIOUS
<1> USE RequestsAssumption
<1>1. SessionsTypeOK
  BY DEF SessionsInit, SessionsTypeOK
<1>2. \A s \in Conversations : Len(exchange[s]) = 0 /\ Exchanges(s) = 0
  BY DEF SessionsInit, Exchanges
<1>3. OwnHistory
  BY <1>2 DEF OwnHistory
<1>4. ASSUME NEW s \in Conversations PROVE history[s] = Told(s, turn - 1)
  <2>1. history[s] = <<>> /\ turn - 1 = 0
    BY DEF SessionsInit
  <2>2. Told(s, 0) \in Seq(Message) /\ Len(Told(s, 0)) = 0
    BY ToldIsConversation DEF Conversations
  <2> QED BY <2>1, <2>2
<1>5. Due(turn) = FALSE
  BY DEF SessionsInit, Due
<1> QED BY <1>1, <1>2, <1>3, <1>4, <1>5 DEF SessionsInit, SessionsInv

\* What the invariant says of the conversations, in one place.
LEMMA SessionFacts ==
    ASSUME SessionsInv, NEW s \in Conversations
    PROVE  /\ s \in Nat /\ turn \in Nat \ {0} /\ turn - 1 \in Nat
           /\ Len(exchange[s]) \in {turn - 1, turn}
           /\ exchange[s] \in Seq(Exchange)
           /\ \A n \in 1..Len(exchange[s]) : exchange[s][n].answer \in SUBSET Parts
<1>1. s \in Nat /\ turn \in Nat \ {0} /\ turn - 1 \in Nat
  BY DEF SessionsInv, SessionsTypeOK, Conversations
<1>2. Len(exchange[s]) \in {turn - 1, turn}
  BY DEF SessionsInv, Exchanges
<1>3. exchange[s] \in Seq(Exchange)
  BY DEF SessionsInv, SessionsTypeOK, Exchange
<1>4. \A n \in 1..Len(exchange[s]) : exchange[s][n] \in Exchange
  BY <1>3
<1> QED BY <1>1, <1>2, <1>3, <1>4 DEF Exchange

LEMMA SubmitStep ==
    ASSUME SessionsInv, NEW s \in Conversations, Submit(s) PROVE SessionsInv'
<1> DEFINE u == UserMessage(s, turn, observed[s])
           e == [messages |-> Append(history[s], u), answer |-> {}]
<1>1. /\ exchange' = [exchange EXCEPT ![s] = Append(@, e)]
      /\ observed' = [observed EXCEPT ![s] = FALSE]
      /\ request' = [request EXCEPT ![s] = "open"]
      /\ request[s] = "idle" /\ sessionsExit = "running"
      /\ UNCHANGED <<traced, sessions, turns, replay, turn, history, sessionsExit>>
  BY DEF Submit, Reached, sessionsArgs
<1>2. u \in Message /\ history[s] \in Seq(Message)
  BY MessageTypes, SessionFacts DEF SessionsInv, SessionsTypeOK
<1>3. e \in Exchange /\ e.messages = Append(history[s], u) /\ e.answer = {}
  BY <1>2 DEF Exchange
<1>4. u = UserMessage(s, turn, Due(turn)) /\ history[s] = Told(s, turn - 1)
  <2>1. observed[s] = (request[s] = "idle" /\ Due(turn)) /\ history[s] = Told(s, turn - 1)
    BY <1>1 DEF SessionsInv
  <2>2. (request[s] = "idle" /\ Due(turn)) = Due(turn)
    BY <1>1, DueIsBoolean, SessionFacts
  <2> QED BY <2>1, <2>2
<1> HIDE DEF e, u
<1>5. Len(exchange[s]) = turn - 1
  BY <1>1 DEF SessionsInv, Exchanges
<1>6. /\ exchange'[s] \in Seq(Exchange) /\ Len(exchange'[s]) = turn
      /\ exchange'[s][turn] = e
      /\ \A n \in 1..(turn - 1) : exchange'[s][n] = exchange[s][n]
  <2>1. exchange'[s] = Append(exchange[s], e) /\ exchange[s] \in Seq(Exchange)
    BY <1>1, SessionFacts DEF SessionsInv, SessionsTypeOK
  <2>2. turn \in Nat /\ Len(exchange[s]) + 1 = turn
    BY <1>5, SessionFacts
  <2> QED BY <1>3, <2>1, <2>2
<1>7. \A r \in Conversations : r # s =>
          exchange'[r] = exchange[r] /\ request'[r] = request[r] /\ observed'[r] = observed[r]
  BY <1>1 DEF SessionsInv, SessionsTypeOK
<1>8. SessionsTypeOK'
  <2>1. exchange' \in [Conversations -> Seq(Exchange)]
    BY <1>1, <1>6, <1>7 DEF SessionsInv, SessionsTypeOK, Exchange
  <2> QED BY <1>1, <2>1 DEF SessionsInv, SessionsTypeOK, Conversations, Exchange, Message
<1>9. ASSUME NEW r \in Conversations PROVE Len(exchange'[r]) = Exchanges(r)'
  BY <1>1, <1>6, <1>7 DEF SessionsInv, Exchanges, SessionsTypeOK
<1>10. ASSUME NEW r \in Conversations, NEW k \in Nat, k <= Len(exchange[r])
       PROVE  Told(r, k)' = Told(r, k)
  <2>1. \A i \in 1..k : exchange'[r][i].answer = exchange[r][i].answer
    BY <1>5, <1>6, <1>7, <1>10, SessionFacts
  <2> QED BY <1>1, <2>1, ToldStays, SessionFacts DEF sessionsArgs
<1>11. OwnHistory'
  <2> SUFFICES ASSUME NEW r \in Conversations, NEW n \in 1..Len(exchange'[r])
               PROVE  exchange'[r][n].messages =
                        Append(Told(r, n - 1)', UserMessage(r, n, Due(n))')
    BY <1>1 DEF OwnHistory, Conversations
  <2>1. UserMessage(r, n, Due(n))' = UserMessage(r, n, Due(n))
    BY <1>1 DEF UserMessage, Due, Period
  <2>2. CASE r = s /\ n = turn
    <3>1. Told(s, n - 1)' = Told(s, n - 1)
      BY <1>5, <1>10, <2>2, SessionFacts
    <3> QED BY <1>3, <1>4, <1>6, <2>1, <2>2, <3>1
  <2>3. CASE ~(r = s /\ n = turn)
    <3>1. n \in 1..Len(exchange[r]) /\ exchange'[r][n] = exchange[r][n]
      BY <1>5, <1>6, <1>7, <2>3, SessionFacts
    <3>2. Told(r, n - 1)' = Told(r, n - 1)
      BY <1>10, <3>1, SessionFacts
    <3> QED BY <2>1, <3>1, <3>2 DEF SessionsInv, OwnHistory
  <2> QED BY <2>2, <2>3
<1>12. ASSUME NEW r \in Conversations
       PROVE  /\ history'[r] = Told(r, turn - 1)'
              /\ observed'[r] = (request'[r] = "idle" /\ Due(turn)')
  <2>1. Told(r, turn - 1)' = Told(r, turn - 1)
    <3>1. \A k \in Nat : k <= Len(exchange[r]) => Told(r, k)' = Told(r, k)
      BY <1>10
    <3>2. turn - 1 \in Nat /\ turn - 1 <= Len(exchange[r])
      BY SessionFacts
    <3> QED BY <1>1, <3>1, <3>2
  <2>2. Due(turn)' = Due(turn)
    BY <1>1 DEF Due, Period
  <2>3. observed'[r] = (request'[r] = "idle" /\ Due(turn))
    BY <1>1, <1>7 DEF SessionsInv, SessionsTypeOK
  <2>4. history'[r] = Told(r, turn - 1)
    BY <1>1 DEF SessionsInv
  <2> QED BY <2>1, <2>2, <2>3, <2>4
<1> QED BY <1>1, <1>8, <1>9, <1>11, <1>12 DEF SessionsInv, Conversations

\* The stream's end writes an answer into the exchange of this turn.
LEMMA EndStreamStep ==
    ASSUME SessionsInv, NEW s \in Conversations, NEW parts \in Streamed, EndStream(s, parts)
    PROVE  SessionsInv'
<1>1. /\ exchange' = [exchange EXCEPT ![s][turn].answer = parts]
      /\ request' = [request EXCEPT ![s] = "done"]
      /\ request[s] = "open"
      /\ UNCHANGED <<traced, sessions, turns, replay, turn, history, observed, sessionsExit>>
  BY DEF EndStream, sessionsArgs
<1>2. parts \in SUBSET Parts
  BY StreamedAssumption
<1>3. sessionsExit = "running"
  BY <1>1 DEF SessionsInv, SessionsTypeOK
<1>4. Len(exchange[s]) = turn /\ turn \in 1..Len(exchange[s])
  BY <1>1, SessionFacts DEF SessionsInv, Exchanges
<1> DEFINE e == [exchange[s][turn] EXCEPT !.answer = parts]
<1>5. exchange[s][turn] \in Exchange
  BY <1>4, SessionFacts
<1>6. e \in Exchange /\ e.messages = exchange[s][turn].messages
  BY <1>2, <1>5 DEF Exchange
<1>7. exchange'[s] = [exchange[s] EXCEPT ![turn] = e]
  BY <1>1 DEF SessionsInv, SessionsTypeOK
<1> HIDE DEF e
<1>8. /\ exchange'[s] \in Seq(Exchange) /\ Len(exchange'[s]) = Len(exchange[s])
      /\ \A n \in 1..Len(exchange[s]) : exchange'[s][n] = IF n = turn THEN e ELSE exchange[s][n]
  BY <1>4, <1>6, <1>7, SessionFacts, ExceptSeq
<1>9. \A r \in Conversations : r # s =>
          exchange'[r] = exchange[r] /\ request'[r] = request[r]
  BY <1>1 DEF SessionsInv, SessionsTypeOK
<1>10. SessionsTypeOK'
  <2>1. exchange' \in [Conversations -> Seq(Exchange)]
    BY <1>1, <1>8, <1>9 DEF SessionsInv, SessionsTypeOK, Exchange
  <2> QED BY <1>1, <2>1 DEF SessionsInv, SessionsTypeOK, Conversations, Exchange, Message
<1>11. ASSUME NEW r \in Conversations PROVE Len(exchange'[r]) = Exchanges(r)'
  BY <1>1, <1>4, <1>8, <1>9 DEF SessionsInv, Exchanges, SessionsTypeOK
<1>12. ASSUME NEW r \in Conversations, NEW k \in Nat, k <= Len(exchange[r]), k < turn
       PROVE  Told(r, k)' = Told(r, k)
  <2>1. \A i \in 1..k : exchange'[r][i].answer = exchange[r][i].answer
    BY <1>4, <1>8, <1>9, <1>12, SessionFacts
  <2> QED BY <1>1, <2>1, ToldStays, SessionFacts DEF sessionsArgs
<1>13. OwnHistory'
  <2> SUFFICES ASSUME NEW r \in Conversations, NEW n \in 1..Len(exchange'[r])
               PROVE  exchange'[r][n].messages =
                        Append(Told(r, n - 1)', UserMessage(r, n, Due(n))')
    BY <1>1 DEF OwnHistory, Conversations
  <2>1. UserMessage(r, n, Due(n))' = UserMessage(r, n, Due(n))
    BY <1>1 DEF UserMessage, Due, Period
  <2>2. n \in 1..Len(exchange[r]) /\ exchange'[r][n].messages = exchange[r][n].messages
    BY <1>6, <1>8, <1>9
  <2>3. Told(r, n - 1)' = Told(r, n - 1)
    BY <1>12, <2>2, SessionFacts
  <2> QED BY <2>1, <2>2, <2>3 DEF SessionsInv, OwnHistory
<1>14. ASSUME NEW r \in Conversations
       PROVE  /\ history'[r] = Told(r, turn - 1)'
              /\ observed'[r] = (request'[r] = "idle" /\ Due(turn)')
  <2>1. Told(r, turn - 1)' = Told(r, turn - 1)
    <3>1. \A k \in Nat : k <= Len(exchange[r]) /\ k < turn => Told(r, k)' = Told(r, k)
      BY <1>12
    <3>2. turn - 1 \in Nat /\ turn - 1 <= Len(exchange[r]) /\ turn - 1 < turn
      BY SessionFacts
    <3> QED BY <1>1, <3>1, <3>2
  <2>2. Due(turn)' = Due(turn)
    BY <1>1 DEF Due, Period
  <2>3. observed'[r] = (request'[r] = "idle" /\ Due(turn))
    <3>1. (request'[r] = "idle") = (request[r] = "idle")
      BY <1>1, <1>9 DEF SessionsInv, SessionsTypeOK
    <3>2. observed[r] = (request[r] = "idle" /\ Due(turn)) /\ observed' = observed
      BY <1>1, <1>3 DEF SessionsInv
    <3> QED BY <3>1, <3>2
  <2>4. history'[r] = Told(r, turn - 1)
    BY <1>1, <1>3 DEF SessionsInv
  <2> QED BY <2>1, <2>2, <2>3, <2>4
<1> QED BY <1>1, <1>3, <1>10, <1>11, <1>13, <1>14 DEF SessionsInv, Conversations

\* A step that writes nothing into an exchange changes no conversation.
LEMMA ToldUnchanged ==
    ASSUME NEW s \in Nat, NEW k \in Nat, UNCHANGED <<sessionsArgs, exchange>>
    PROVE  Told(s, k)' = Told(s, k)
  BY ToldStays

LEMMA OwnHistoryUnchanged ==
    ASSUME SessionsInv, UNCHANGED <<sessionsArgs, exchange>> PROVE OwnHistory'
<1> SUFFICES ASSUME NEW s \in Conversations, NEW n \in 1..Len(exchange[s])
             PROVE  exchange[s][n].messages =
                      Append(Told(s, n - 1)', UserMessage(s, n, Due(n))')
  BY DEF OwnHistory, Conversations, sessionsArgs
<1>1. UserMessage(s, n, Due(n))' = UserMessage(s, n, Due(n))
  BY DEF UserMessage, Due, Period, sessionsArgs
<1>2. Told(s, n - 1)' = Told(s, n - 1)
  BY ToldUnchanged, SessionFacts
<1> QED BY <1>1, <1>2 DEF SessionsInv, OwnHistory

\* The steps that only move requests between being open, failed and given up.
LEMMA RequestStep ==
    ASSUME SessionsInv, UNCHANGED <<sessionsArgs, turn, history, observed, exchange>>,
           \A s \in Conversations : request'[s] = "idle" <=> request[s] = "idle",
           SessionsTypeOK',
           sessionsExit' = "running" => sessionsExit = "running",
           sessionsExit' # "running" =>
               \A s \in Conversations : request'[s] \in {"done", "failed"},
           sessionsExit' = "0" => turn = turns /\ \A s \in Conversations : request'[s] = "done",
           sessionsExit' = "1" => \E s \in Conversations : request'[s] = "failed"
    PROVE  SessionsInv'
<1>1. Conversations' = Conversations
  BY DEF Conversations, sessionsArgs
<1>2. ASSUME NEW s \in Conversations PROVE Len(exchange[s]) = Exchanges(s)'
  BY DEF SessionsInv, Exchanges
<1>3. ASSUME NEW s \in Conversations, sessionsExit' = "running"
      PROVE  history[s] = Told(s, turn - 1)' /\ observed[s] = (request'[s] = "idle" /\ Due(turn)')
  <2>1. Told(s, turn - 1)' = Told(s, turn - 1)
    BY ToldUnchanged, SessionFacts
  <2>2. Due(turn)' = Due(turn)
    BY DEF Due, Period, sessionsArgs
  <2>3. (request'[s] = "idle") = (request[s] = "idle")
    OBVIOUS
  <2>4. history[s] = Told(s, turn - 1) /\ observed[s] = (request[s] = "idle" /\ Due(turn))
    BY <1>3 DEF SessionsInv
  <2> QED BY <2>1, <2>2, <2>3, <2>4
<1> QED BY <1>1, <1>2, <1>3, OwnHistoryUnchanged DEF SessionsInv, sessionsArgs

LEMMA StreamFailsStep ==
    ASSUME SessionsInv, NEW s \in Conversations, StreamFails(s) PROVE SessionsInv'
<1>1. /\ request' = [request EXCEPT ![s] = "failed"]
      /\ request[s] = "open"
      /\ UNCHANGED <<sessionsArgs, turn, history, observed, exchange, sessionsExit>>
  BY DEF StreamFails
<1>2. SessionsTypeOK'
  BY <1>1 DEF SessionsInv, SessionsTypeOK, Conversations, sessionsArgs, Message
<1>3. sessionsExit = "running"
  BY <1>1 DEF SessionsInv, SessionsTypeOK
<1>4. \A r \in Conversations : request'[r] = "idle" <=> request[r] = "idle"
  BY <1>1 DEF SessionsInv, SessionsTypeOK
<1> QED BY <1>1, <1>2, <1>3, <1>4, RequestStep

LEMMA RaiseFailureStep == ASSUME SessionsInv, RaiseFailure PROVE SessionsInv'
<1>1. SessionsTypeOK'
  BY DEF RaiseFailure, SessionsInv, SessionsTypeOK, Conversations, sessionsArgs, Message
<1> QED BY <1>1, RequestStep DEF RaiseFailure

LEMMA StutterStep == ASSUME SessionsInv, UNCHANGED sessionsVars PROVE SessionsInv'
<1>1. SessionsTypeOK'
  BY DEF sessionsVars, SessionsInv, SessionsTypeOK, Conversations, sessionsArgs, Message
<1> QED BY <1>1, RequestStep DEF sessionsVars, SessionsInv

\* A turn that everybody has answered joins each history.
LEMMA GrownStep == ASSUME SessionsInv, Grown PROVE SessionsInv'
<1>1. /\ sessionsExit = "running"
      /\ \A s \in Conversations : request[s] = "done"
      /\ history' = [s \in Conversations |-> history[s] \o
              <<Asking(s), HistoryAnswer(s, turn, exchange[s][turn].answer)>>]
      /\ observed' = [s \in Conversations |-> observed[s] \/ turn % Period = 0]
      /\ UNCHANGED <<sessionsArgs, exchange>>
  BY DEF Grown
<1>2. \/ turn = turns /\ sessionsExit' = "0" /\ UNCHANGED <<turn, request>>
      \/ /\ turn # turns /\ turn' = turn + 1 /\ sessionsExit' = "running"
         /\ request' = [s \in Conversations |-> "idle"]
  BY <1>1 DEF Grown
<1>3. ASSUME NEW s \in Conversations
      PROVE  /\ Len(exchange[s]) = turn
             /\ exchange[s] \in Seq(Exchange)
             /\ exchange[s][turn].answer \in SUBSET Parts
             /\ \A i \in 1..turn : exchange[s][i].answer \in SUBSET Parts
  BY <1>1, SessionFacts DEF SessionsInv, Exchanges
<1>4. ASSUME NEW s \in Conversations PROVE Asking(s) = UserMessage(s, turn, Due(turn))
  <2> DEFINE T == Told(s, turn - 1)
             u == UserMessage(s, turn, Due(turn))
  <2>1. exchange[s][turn].messages = Append(T, u)
    <3>1. turn \in 1..Len(exchange[s])
      BY <1>3, SessionFacts
    <3> QED BY <3>1 DEF SessionsInv, OwnHistory
  <2>2. T \in Seq(Message) /\ Len(T) = 2 * (turn - 1)
    <3>1. \A i \in 1..(turn - 1) : exchange[s][i].answer \in SUBSET Parts
      BY <1>3, SessionFacts
    <3>2. turn - 1 \in Nat /\ s \in Nat
      BY SessionFacts
    <3> QED BY <3>1, <3>2, ToldIsConversation
  <2>3. u \in Message
    BY MessageTypes, DueIsBoolean, SessionFacts
  <2> HIDE DEF T, u
  <2>4. Len(T) + 1 = 2 * turn - 1 /\ Append(T, u)[Len(T) + 1] = u
    BY <2>2, <2>3, SessionFacts
  <2> QED BY <2>1, <2>4 DEF Asking, u
<1>5. ASSUME NEW s \in Conversations
      PROVE  history'[s] = Told(s, turn) /\ history'[s] \in Seq(Message)
  <2>1. history[s] = Told(s, turn - 1)
    BY <1>1 DEF SessionsInv
  <2>2. history'[s] = Told(s, turn)
    BY <1>1, <1>3, <1>4, <2>1, SessionFacts, ToldGrows
  <2> QED BY <1>3, <2>2, SessionFacts, ToldIsConversation
<1>6. ASSUME NEW s \in Conversations PROVE observed'[s] = (turn % Period = 0)
  <2>1. observed[s] = (request[s] = "idle" /\ Due(turn)) /\ request[s] = "done"
    BY <1>1 DEF SessionsInv
  <2>2. observed'[s] = (observed[s] \/ turn % Period = 0)
    BY <1>1
  <2> QED BY <2>1, <2>2
<1>7. SessionsTypeOK'
  <2>1. history' \in [Conversations -> Seq(Message)]
    BY <1>1, <1>5
  <2>2. observed' \in [Conversations -> BOOLEAN]
    BY <1>1
  <2>3. turn' \in 1..turns
    BY <1>2 DEF SessionsInv, SessionsTypeOK
  <2>4. request' \in [Conversations -> {"idle", "open", "done", "failed"}]
    BY <1>2 DEF SessionsInv, SessionsTypeOK
  <2> QED BY <1>1, <1>2, <2>1, <2>2, <2>3, <2>4
          DEF SessionsInv, SessionsTypeOK, Conversations, sessionsArgs, Message
<1>8. OwnHistory'
  BY <1>1, OwnHistoryUnchanged
<1>9. Conversations' = Conversations
  BY <1>1 DEF Conversations, sessionsArgs
<1>10. ASSUME NEW s \in Conversations PROVE Len(exchange'[s]) = Exchanges(s)'
  BY <1>1, <1>2, <1>3, SessionFacts DEF Exchanges
<1>11. ASSUME NEW s \in Conversations, sessionsExit' = "running"
       PROVE  /\ history'[s] = Told(s, turn - 1)'
              /\ observed'[s] = (request'[s] = "idle" /\ Due(turn)')
  <2>1. turn' = turn + 1 /\ turn' - 1 = turn /\ request'[s] = "idle" /\ turn \in Nat \ {0}
    BY <1>2, <1>11, SessionFacts
  <2>2. Told(s, turn - 1)' = Told(s, turn)
    <3>1. \A k \in Nat : Told(s, k)' = Told(s, k)
      BY <1>1, ToldUnchanged, SessionFacts
    <3> QED BY <2>1, <3>1
  <2>3. Due(turn)' = (turn % Period = 0)
    <3>1. Period' = Period
      BY <1>1 DEF Period, sessionsArgs
    <3> QED BY <2>1, <3>1 DEF Due
  <2> QED BY <1>5, <1>6, <2>1, <2>2, <2>3
<1> QED BY <1>1, <1>2, <1>7, <1>8, <1>9, <1>10, <1>11 DEF SessionsInv, sessionsArgs

LEMMA SessionsStep == SessionsInv /\ [SessionsNext]_sessionsVars => SessionsInv'
<1> SUFFICES ASSUME SessionsInv, [SessionsNext]_sessionsVars PROVE SessionsInv'
  OBVIOUS
<1>1. ASSUME NEW s \in Conversations, Converse(s) PROVE SessionsInv'
  BY <1>1, SubmitStep, EndStreamStep, StreamFailsStep DEF Converse
<1>2. CASE RecordRound \/ RecordTurn
  BY <1>2, GrownStep DEF RecordRound, RecordTurn
<1>3. CASE RaiseFailure
  BY <1>3, RaiseFailureStep
<1>4. CASE UNCHANGED sessionsVars
  BY <1>4, StutterStep
<1> QED BY <1>1, <1>2, <1>3, <1>4 DEF SessionsNext

\* What the sessions exchanged is why they exit as they do.
LEMMA AnswersEarnExit == SessionsInv => SessionsExitTells
<1> SUFFICES ASSUME SessionsInv PROVE SessionsExitTells
  OBVIOUS
<1>1. ASSUME sessionsExit = "0", NEW s \in Conversations PROVE Answered(s, turns)
  <2>1. request[s] = "done" /\ turn = turns /\ Len(exchange[s]) = turn
    BY <1>1 DEF SessionsInv, Exchanges
  <2> QED BY <2>1 DEF Answered
<1> QED BY <1>1 DEF SessionsInv, SessionsExitTells

-----------------------------------------------------------------------------
(* Every step goes on, and there is one to take.                           *)

\* If some session is yet to be asked, the loop has come to one of them.
LEMMA FirstIdleIsReached ==
    ASSUME SessionsInv, NEW s \in Conversations, request[s] = "idle"
    PROVE  \E r \in Conversations : Reached(r)
<1> DEFINE Idle == {r \in Conversations : request[r] = "idle"}
<1>1. Idle \subseteq Nat /\ Idle # {}
  BY DEF Conversations
<1>2. PICK m \in Idle : \A k \in Idle : <<k, m>> \notin OpToRel(<, Nat)
  BY <1>1, WFMin, NatLessThanWellFounded, Zenon
<1>3. ASSUME NEW k \in Idle PROVE ~(k < m)
  BY <1>1, <1>2, <1>3, Zenon DEF OpToRel
<1>4. \A k \in 1..(m - 1) : request[k] # "idle"
  <2> SUFFICES ASSUME NEW k \in 1..(m - 1), request[k] = "idle" PROVE FALSE
    OBVIOUS
  <2>1. k \in Idle /\ k < m
    BY <1>1 DEF Conversations, SessionsInv, SessionsTypeOK
  <2> QED BY <1>3, <2>1
<1> QED BY <1>2, <1>4 DEF Reached

LEMMA SessionsGoOn == SessionsInv => SessionsNeverStuck
<1> SUFFICES ASSUME SessionsInv PROVE SessionsNeverStuck
  OBVIOUS
<1>1. \A s \in Conversations : request[s] \in {"idle", "open", "done", "failed"}
  BY DEF SessionsInv, SessionsTypeOK
<1> QED BY <1>1, FirstIdleIsReached DEF SessionsNeverStuck

\* A request that moves on within its turn brings its session on, and no other.
LEMMA RequestAdvances ==
    ASSUME SessionsInv, UNCHANGED <<sessionsArgs, turn>>, NEW s \in Conversations,
           NEW here \in {"open", "done", "failed"},
           request' = [request EXCEPT ![s] = here],
           request[s] = IF here = "open" THEN "idle" ELSE "open"
    PROVE  /\ \A r \in Conversations : Advance(r) <= Advance(r)' /\ Advance(r)' < 3 * turns
           /\ \E r \in Conversations : Advance(r) < Advance(r)'
<1> DEFINE Stage(x) == CASE x = "idle" -> 0 [] x = "open" -> 1 [] OTHER -> 2
<1>1. \A r \in Conversations :
          /\ Advance(r) = 3 * (turn - 1) + Stage(request[r])
          /\ Advance(r)' = 3 * (turn - 1) + Stage(request'[r])
  BY DEF Advance, sessionsArgs
<1>2. \A x : Stage(x) \in 0..2
  OBVIOUS
<1>3. Stage(request[s]) < Stage(request'[s])
  BY DEF SessionsInv, SessionsTypeOK
<1>4. \A r \in Conversations : r # s => request'[r] = request[r]
  BY DEF SessionsInv, SessionsTypeOK
<1>5. turn \in Nat /\ turns \in Nat /\ turn <= turns
  BY DEF SessionsInv, SessionsTypeOK
<1> HIDE DEF Stage
<1>6. ASSUME NEW r \in Conversations
      PROVE  Advance(r) <= Advance(r)' /\ Advance(r)' < 3 * turns
  <2>1. Stage(request[r]) <= Stage(request'[r]) /\ Stage(request'[r]) <= 2
    BY <1>2, <1>3, <1>4
  <2> QED BY <1>1, <1>2, <1>5, <2>1
<1>7. Advance(s) < Advance(s)'
  BY <1>1, <1>2, <1>3, <1>5
<1> QED BY <1>6, <1>7

\* The next turn brings every session on.
LEMMA TurnAdvances ==
    ASSUME SessionsInv, Grown, sessionsExit' = "running"
    PROVE  /\ \A r \in Conversations : Advance(r) <= Advance(r)' /\ Advance(r)' < 3 * turns
           /\ \E r \in Conversations : Advance(r) < Advance(r)'
<1>1. /\ turn # turns /\ turn' = turn + 1
      /\ request' = [s \in Conversations |-> "idle"]
      /\ \A s \in Conversations : request[s] = "done"
  BY DEF Grown
<1>2. turn \in Nat /\ turns \in Nat /\ turn < turns
  BY <1>1 DEF SessionsInv, SessionsTypeOK
<1>3. ASSUME NEW r \in Conversations
      PROVE  Advance(r) = 3 * (turn - 1) + 2 /\ Advance(r)' = 3 * turn
  BY <1>1, <1>2 DEF Advance
<1>4. 1 \in Conversations
  BY DEF Conversations, SessionsInv, SessionsTypeOK
<1> QED BY <1>2, <1>3, <1>4

LEMMA SessionsGoOnward == SessionsInv /\ SessionsNext => SessionsOnward
<1> SUFFICES ASSUME SessionsInv, SessionsNext PROVE SessionsOnward
  OBVIOUS
<1> USE DEF SessionsOnward
<1>1. ASSUME NEW s \in Conversations, Submit(s) PROVE SessionsOnward
  BY <1>1, RequestAdvances DEF Submit, Reached
<1>2. ASSUME NEW s \in Conversations, NEW parts \in Streamed, EndStream(s, parts)
      PROVE  SessionsOnward
  BY <1>2, RequestAdvances DEF EndStream
<1>3. ASSUME NEW s \in Conversations, StreamFails(s) PROVE SessionsOnward
  BY <1>3, RequestAdvances DEF StreamFails
<1>4. ASSUME Grown PROVE SessionsOnward
  <2>1. CASE sessionsExit' = "running"
    BY <1>4, <2>1, TurnAdvances
  <2>2. CASE sessionsExit' # "running"
    BY <1>4, <2>2 DEF Grown
  <2> QED BY <2>1, <2>2
<1>5. ASSUME RaiseFailure PROVE SessionsOnward
  BY <1>5 DEF RaiseFailure
<1> QED BY <1>1, <1>2, <1>3, <1>4, <1>5 DEF SessionsNext, Converse, RecordRound, RecordTurn

-----------------------------------------------------------------------------
(* The theorems.                                                           *)

LEMMA SessionsAlways == SessionsSpec => []SessionsInv
  BY SessionsInitially, SessionsStep, PTL DEF SessionsSpec

\* Histories, exchanges and requests of the session benchmarks keep their types.
THEOREM SessionsTypes == SessionsSpec => []SessionsTypeOK
<1>1. SessionsInv => SessionsTypeOK
  BY DEF SessionsInv
<1> QED BY SessionsAlways, <1>1, PTL

\* Every request carries its own session's whole conversation, and nothing else.
THEOREM HistoriesAreOwn == SessionsSpec => []OwnHistory
<1>1. SessionsInv => OwnHistory
  BY DEF SessionsInv
<1> QED BY SessionsAlways, <1>1, PTL

\* A question is asked only when every session has been answered the previous one.
THEOREM PoolIsABarrier == SessionsSpec => []RoundsInStep
<1>1. SessionsInv => RoundsInStep
  <2> SUFFICES ASSUME SessionsInv,
                      NEW s \in Conversations, NEW r \in Conversations,
                      NEW n \in 1..Len(exchange[s]), n > 1
               PROVE  Answered(r, n - 1)
    BY DEF RoundsInStep
  <2>1. n <= turn /\ n \in Nat /\ turn \in Nat
    BY SessionFacts
  <2>2. CASE request[r] = "idle"
    BY <2>1, <2>2, SessionFacts DEF SessionsInv, Exchanges, Answered
  <2>3. CASE request[r] # "idle"
    BY <2>1, <2>3, SessionFacts DEF SessionsInv, Exchanges, Answered
  <2> QED BY <2>2, <2>3
<1> QED BY SessionsAlways, <1>1, PTL

\* The exit code tells whether every request was answered.
THEOREM SessionsExitHolds == SessionsSpec => []SessionsExitTells
  BY SessionsAlways, AnswersEarnExit, PTL

\* A program that runs has a request open, one to make, or all of its results:
\* the pool's barrier never keeps the loop waiting for a session that it has not
\* asked (bench_session_concurrency.py:78-103).
THEOREM SessionsAreNeverStuck == SessionsSpec => []SessionsNeverStuck
  BY SessionsAlways, SessionsGoOn, PTL

\* Every step ends the program or brings a session on, and none back, through the
\* turns asked for: a run has at most so many steps (bench_agent_trace.py:184-216).
THEOREM SessionsAreBounded == SessionsSpec => SessionsAdvance
<1>1. SessionsInv /\ [SessionsNext]_sessionsVars => [SessionsOnward]_sessionsVars
  BY SessionsGoOnward
<1> QED BY <1>1, SessionsAlways, PTL DEF SessionsSpec, SessionsAdvance

=============================================================================
