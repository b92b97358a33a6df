----------------------------- MODULE WarmupProofs -----------------------------
(***************************************************************************)
(* Proofs about Warmup and the ToolRounds it extends, for any numbers of   *)
(* rounds, threads and calls, and any time to wait.                        *)
(***************************************************************************)
EXTENDS Warmup, FiniteSetTheorems, SequenceTheorems, WellFoundedInduction, TLAPS

USE RoundsAssumption, CallsAssumption, WaitAssumption

-----------------------------------------------------------------------------
(* Verdicts.                                                                *)

LEMMA NothingIsTyped == Nothing \in [name : Nat, args : Seq(Pieces)]
  BY DEF Nothing, Pieces

LEMMA PartialIsTyped == Partial \subseteq Seq(Pieces)
  BY DEF Partial, Asked, Pieces

LEMMA NamedIsSomething == \A a : [name |-> 1, args |-> a] # Nothing
<1> SUFFICES ASSUME NEW a PROVE [name |-> 1, args |-> a].name # Nothing.name
  OBVIOUS
<1> QED
  BY DEF Nothing

LEMMA VerdictIsStep ==
    ASSUME NEW c PROVE Verdict(c) \in {"answer", "raise", "fail"}
  BY DEF Verdict

LEMMA VerdictAnswers ==
    ASSUME NEW c, Verdict(c) = "answer"
    PROVE  OnlyEntry(c, Asked)
  BY DEF Verdict

\* Whatever the server numbers, only the whole call on its own is answered.
LEMMA AnswerIsOneCall ==
    ASSUME NEW s \in Seq(Partial), NEW c, Len(s) <= MaxCalls,
           indexed \in BOOLEAN, Assembled(s, c), Verdict(c) = "answer"
    PROVE  s = <<Asked>>
<1>1. PICK k \in Slots : Entries(c) = {k} /\ c[k] = [name |-> 1, args |-> Asked]
  BY VerdictAnswers DEF OnlyEntry
<1>2. PICK n \in Nat : n = Len(s)
  OBVIOUS
<1>3. n = 1 /\ s[1] = Asked
  <2>1. CASE indexed
    <3>1. \A j \in Slots : c[j] = IF j < n THEN [name |-> 1, args |-> s[j + 1]]
                                           ELSE Nothing
      BY <1>2, <2>1 DEF Assembled
    <3>2. \A j \in Slots : j < n => j \in Entries(c)
      BY <3>1, NamedIsSomething DEF Entries
    <3>3. k < n /\ s[k + 1] = Asked
      <4>1. c[k] # Nothing
        BY <1>1, NamedIsSomething
      <4>2. k < n
        BY <3>1, <4>1
      <4>3. c[k] = [name |-> 1, args |-> s[k + 1]]
        BY <3>1, <4>2
      <4>4. [name |-> 1, args |-> s[k + 1]].args = [name |-> 1, args |-> Asked].args
        BY <1>1, <4>3
      <4> QED
        BY <4>2, <4>4
    <3>4. 0 \in Slots /\ (n > 1 => 1 \in Slots)
      BY <1>2 DEF Slots
    <3>5. k = 0
      BY <1>1, <1>2, <3>2, <3>3, <3>4 DEF Slots
    <3>6. ~(n > 1)
      BY <1>1, <3>2, <3>4, <3>5
    <3> QED
      BY <3>3, <3>5, <3>6
  <2>2. CASE ~indexed
    <3>1. k = 0
      BY <1>1, <2>2 DEF Assembled, Entries
    <3>2. n = 1
      BY <1>1, <1>2, <2>2, <3>1 DEF Assembled
    <3>3. n = 1 => c[0].args = s[1]
      BY <1>2, <2>2 DEF Assembled
    <3> QED
      BY <1>1, <3>1, <3>2, <3>3
  <2> QED
    BY <2>1, <2>2
<1>4. \A i \in 1..1 : s[i] = <<Asked>>[i]
  BY <1>3
<1>5. <<Asked>> \in Seq(Partial) /\ Len(<<Asked>>) = 1
  BY DEF Partial
<1> QED
  BY <1>2, <1>3, <1>4, <1>5, SeqEqual

-----------------------------------------------------------------------------
(* What the client assembles.                                               *)

Entry == [name : Nat, args : Seq(Pieces)]

LEMMA EntryExcept ==
    ASSUME NEW e \in Entry, NEW v
    PROVE  /\ [e EXCEPT !.name = v] = [name |-> v, args |-> e.args]
           /\ [e EXCEPT !.args = v] = [name |-> e.name, args |-> v]
  BY DEF Entry

LEMMA ZeroIsASlot == 0 \in Slots
  BY DEF Slots

LEMMA NothingAssembled == Assembled(<<>>, [k \in Slots |-> Nothing])
<1>1. Len(<<>>) = 0 /\ \A k \in Slots : ~(k < 0)
  BY DEF Slots
<1>2. Nothing.name = 0
  BY DEF Nothing
<1> QED
  BY <1>1, <1>2, ZeroIsASlot DEF Assembled

\* The index of the n-th call is a slot.
LEMMA IndexIsASlot ==
    ASSUME NEW n \in 1..MaxCalls, indexed \in BOOLEAN
    PROVE  Index(n) \in Slots
  BY DEF Index, Slots

\* A delta with a name keeps the entries those of the calls sent.
LEMMA BeginAssembles ==
    ASSUME NEW s \in Seq(Partial), Len(s) < MaxCalls, indexed \in BOOLEAN,
           NEW c \in [Slots -> Entry], Assembled(s, c)
    PROVE  LET d == [c EXCEPT ![Index(Len(s) + 1)].name = @ + 1]
           IN  d \in [Slots -> Entry] /\ Assembled(Append(s, <<>>), d)
<1> DEFINE t == Append(s, <<>>)
<1>1. PICK n \in Nat : n = Len(s)
  OBVIOUS
<1> DEFINE j == Index(n + 1)
           d == [c EXCEPT ![j].name = @ + 1]
<1>2. j \in Slots
  BY <1>1, IndexIsASlot
<1>3. Len(t) = n + 1 /\ t[n + 1] = <<>> /\ \A m \in 1..n : t[m] = s[m]
  BY <1>1
<1>4. d \in [Slots -> Entry]
  <2>1. c[j] \in Entry
    BY <1>2
  <2>2. c[j].name + 1 \in Nat /\ c[j].args \in Seq(Pieces)
    BY <2>1 DEF Entry
  <2>3. [name |-> c[j].name + 1, args |-> c[j].args] \in Entry
    BY <2>2 DEF Entry
  <2>4. d = [c EXCEPT ![j] = [c[j] EXCEPT !.name = c[j].name + 1]]
    OBVIOUS
  <2>5. [c[j] EXCEPT !.name = c[j].name + 1]
          = [name |-> c[j].name + 1, args |-> c[j].args]
    BY <2>1, EntryExcept
  <2> HIDE DEF d
  <2> QED
    BY <1>2, <2>3, <2>4, <2>5
<1>5. \A k \in Slots : k # j => d[k] = c[k]
  BY <1>2
<1>6. d[j] = [name |-> c[j].name + 1, args |-> c[j].args]
  BY <1>2 DEF Entry
<1> HIDE DEF t, d
<1>7. ASSUME indexed PROVE Assembled(t, d)
  <2>1. j = n
    BY <1>7 DEF Index
  <2>2. c[j] = Nothing
    BY <1>1, <1>2, <1>7, <2>1 DEF Assembled
  <2>3. d[j] = [name |-> 1, args |-> <<>>]
    BY <1>6, <2>2 DEF Nothing
  <2>4. ASSUME NEW k \in Slots
        PROVE  d[k] = IF k < n + 1 THEN [name |-> 1, args |-> t[k + 1]] ELSE Nothing
    <3>1. CASE k = n
      BY <1>3, <2>1, <2>3, <3>1
    <3>2. CASE k < n
      <4>1. d[k] = [name |-> 1, args |-> s[k + 1]]
        BY <1>1, <1>5, <1>7, <2>1, <3>2 DEF Assembled
      <4>2. k + 1 \in 1..n
        BY <3>2 DEF Slots
      <4> QED
        BY <1>3, <3>2, <4>1, <4>2 DEF Slots
    <3>3. CASE k > n
      BY <1>1, <1>5, <1>7, <2>1, <3>3 DEF Assembled, Slots
    <3> QED
      BY <3>1, <3>2, <3>3 DEF Slots
  <2>5. n + 1 \in Nat /\ n + 1 = Len(t)
    BY <1>3
  <2> QED
    BY <1>7, <2>4, <2>5 DEF Assembled
<1>8. ASSUME ~indexed PROVE Assembled(t, d)
  <2>1. j = 0
    BY <1>8 DEF Index
  <2>2. d[0].name = n + 1
    BY <1>1, <1>6, <1>8, <2>1 DEF Assembled
  <2>3. n = 0 => d[0].args = <<>>
    BY <1>1, <1>6, <1>8, <2>1 DEF Assembled, Nothing
  <2>4. \A k \in Slots \ {0} : d[k] = Nothing
    BY <1>5, <1>8, <2>1 DEF Assembled
  <2>5. n + 1 = 1 => d[0].args = t[1]
    BY <1>3, <2>3
  <2>6. n + 1 \in Nat \ {0} /\ n + 1 = Len(t)
    BY <1>3
  <2> QED
    BY <1>8, <2>2, <2>4, <2>5, <2>6 DEF Assembled
<1> QED
  BY <1>1, <1>4, <1>7, <1>8 DEF t, d

-----------------------------------------------------------------------------
(* Steps of the client.                                                     *)

\* A round that proceeds keeps the types and what the entries are.
LEMMA ProceedAssembles ==
    ASSUME ClientTypeOK, AssembledInv, NEW i \in Rounds,
           NEW s \in {"answer", "pass", "fail", "raise"}, Proceed(i, s),
           s \in {"answer", "pass"} => sent[i] = <<Asked>>,
           s = "pass" => text[i]
    PROVE  ClientTypeOK' /\ AssembledInv'
<1> USE DEF Proceed, commandVars, Rounds
<1>1. ClientTypeOK'
  <2>1. CASE s \in {"fail", "raise"}
    <3>1. [k \in Slots |-> Nothing] \in [Slots -> [name : Nat, args : Seq(Pieces)]]
      BY NothingIsTyped
    <3>2. <<>> \in Seq(Partial) /\ Len(<<>>) <= MaxCalls
      OBVIOUS
    <3>3. /\ step' \in [Rounds -> Steps] /\ text' \in [Rounds -> BOOLEAN]
          /\ UNCHANGED <<rounds, concurrency, indexed, exit>>
      BY <2>1 DEF ClientTypeOK, Steps
    <3>4. sent' \in [Rounds -> Seq(Partial)] /\ \A j \in Rounds : Len(sent'[j]) <= MaxCalls
      BY <2>1, <3>2 DEF ClientTypeOK
    <3>5. calls' \in [Rounds -> [Slots -> [name : Nat, args : Seq(Pieces)]]]
      BY <2>1, <3>1 DEF ClientTypeOK
    <3> QED
      BY <3>3, <3>4, <3>5 DEF ClientTypeOK, Slots
  <2>2. CASE s \in {"answer", "pass"}
    BY <2>2 DEF ClientTypeOK, Steps, Slots
  <2> QED
    BY <2>1, <2>2
<1>2. AssembledInv'
  <2> SUFFICES ASSUME NEW j \in Rounds
               PROVE  /\ step'[j] = "queued" => sent'[j] = <<>>
                      /\ step'[j] \in {"queued", "call"} => Assembled(sent[j], calls[j])'
                      /\ step'[j] \in {"answer", "pass"} => sent'[j] = <<Asked>>
                      /\ step'[j] = "pass" => text'[j]
    BY DEF AssembledInv
  <2>1. CASE j = i
    BY <2>1 DEF ClientTypeOK
  <2>2. CASE j # i
    <3>1. /\ step'[j] = step[j] /\ sent'[j] = sent[j]
          /\ calls'[j] = calls[j] /\ text'[j] = text[j]
      BY <2>2 DEF ClientTypeOK
    <3>2. Assembled(sent[j], calls[j]) => Assembled(sent[j], calls[j])'
      BY <3>1 DEF Assembled, Slots
    <3> QED
      BY <3>1, <3>2 DEF AssembledInv
  <2> QED
    BY <2>1, <2>2
<1> QED
  BY <1>1, <1>2

\* The calls that a round has been sent and assembled.
LEMMA SentIsTyped ==
    ASSUME ClientTypeOK, NEW i \in Rounds
    PROVE  /\ sent[i] \in Seq(Partial) /\ Len(sent[i]) \in Nat
           /\ Len(sent[i]) <= MaxCalls
           /\ calls[i] \in [Slots -> Entry]
           /\ indexed \in BOOLEAN
  BY DEF ClientTypeOK, Entry

\* So does one that gets another fragment.
LEMMA FragmentAssembles ==
    ASSUME ClientTypeOK, AssembledInv, NEW i \in Rounds, step[i] = "call",
           NEW s \in Seq(Partial), Len(s) <= MaxCalls,
           NEW d \in [Slots -> Entry], Assembled(s, d),
           sent' = [sent EXCEPT ![i] = s], calls' = [calls EXCEPT ![i] = d],
           UNCHANGED <<commandVars, step, text, exit>>
    PROVE  ClientTypeOK' /\ AssembledInv'
<1> USE DEF commandVars, Rounds
<1>1. ClientTypeOK'
  BY DEF ClientTypeOK, Entry, Slots
<1>2. AssembledInv'
  <2> SUFFICES ASSUME NEW j \in Rounds
               PROVE  /\ step'[j] = "queued" => sent'[j] = <<>>
                      /\ step'[j] \in {"queued", "call"} => Assembled(sent[j], calls[j])'
                      /\ step'[j] \in {"answer", "pass"} => sent'[j] = <<Asked>>
                      /\ step'[j] = "pass" => text'[j]
    BY DEF AssembledInv
  <2>1. CASE j = i
    <3>1. sent'[i] = s /\ calls'[i] = d
      BY DEF ClientTypeOK
    <3>2. Assembled(sent[i], calls[i])'
      BY <3>1 DEF Assembled, Slots
    <3> QED
      BY <2>1, <3>2
  <2>2. CASE j # i
    <3>1. sent'[j] = sent[j] /\ calls'[j] = calls[j]
      BY <2>2 DEF ClientTypeOK
    <3>2. Assembled(sent[j], calls[j]) => Assembled(sent[j], calls[j])'
      BY <3>1 DEF Assembled, Slots
    <3> QED
      BY <3>1, <3>2 DEF AssembledInv
  <2> QED
    BY <2>1, <2>2
<1> QED
  BY <1>1, <1>2

\* So does one that gets more arguments.
LEMMA ArgumentsAssemble ==
    ASSUME ClientTypeOK, AssembledInv, NEW i \in Rounds, CallGoesOn(i)
    PROVE  ClientTypeOK' /\ AssembledInv'
<1>1. PICK s \in Seq(Partial), c \in [Slots -> Entry] :
        /\ s = sent[i] /\ c = calls[i]
        /\ indexed \in BOOLEAN /\ Assembled(s, c)
  BY SentIsTyped DEF AssembledInv, CallGoesOn
<1>2. PICK n \in 1..MaxCalls : n = Len(s)
  <2>1. PICK m \in Nat : m = Len(sent[i])
    BY SentIsTyped
  <2> QED
    BY <1>1, <2>1, SentIsTyped DEF CallGoesOn
<1>3. PICK p \in Pieces :
        /\ Append(s[n], p) \in Partial
        /\ sent' = [sent EXCEPT ![i][n] = Append(@, p)]
        /\ calls' = [calls EXCEPT ![i][Index(n)].args = Append(@, p)]
  BY <1>1, <1>2 DEF CallGoesOn
<1> DEFINE j == Index(n)
           t == [s EXCEPT ![n] = Append(s[n], p)]
           d == [c EXCEPT ![j] = [name |-> c[j].name, args |-> Append(c[j].args, p)]]
<1>4. sent' = [sent EXCEPT ![i] = t] /\ calls' = [calls EXCEPT ![i] = d]
  <2>1. c[j] \in Entry
    BY <1>1, <1>2, IndexIsASlot
  <2>2. [c[j] EXCEPT !.args = Append(c[j].args, p)]
          = [name |-> c[j].name, args |-> Append(c[j].args, p)]
    BY <2>1, EntryExcept
  <2>3. sent' = [sent EXCEPT ![i] = t]
    BY <1>1, <1>3 DEF ClientTypeOK
  <2>4. calls' = [calls EXCEPT ![i] = [c EXCEPT ![j] = [c[j] EXCEPT !.args = Append(c[j].args, p)]]]
    BY <1>1, <1>3 DEF ClientTypeOK
  <2> QED
    BY <2>2, <2>3, <2>4
<1>5. j \in Slots
  BY <1>1, IndexIsASlot
<1>6. /\ t \in Seq(Partial) /\ Len(t) = n
      /\ \A m \in 1..n : t[m] = IF m = n THEN Append(s[n], p) ELSE s[m]
  <2>1. n \in 1..Len(s) /\ Len(s) = n
    BY <1>2
  <2> QED
    BY <1>3, <2>1, ExceptSeq
<1>7. d \in [Slots -> Entry]
  <2>1. c[j] \in Entry
    BY <1>5
  <2>2. Append(c[j].args, p) \in Seq(Pieces)
    BY <2>1 DEF Entry
  <2>3. [name |-> c[j].name, args |-> Append(c[j].args, p)] \in Entry
    BY <2>1, <2>2 DEF Entry
  <2> QED
    BY <1>5, <2>3
<1>8. \A k \in Slots : k # j => d[k] = c[k]
  BY <1>5
<1>9. d[j] = [name |-> c[j].name, args |-> Append(c[j].args, p)]
  BY <1>5 DEF Entry
<1> HIDE DEF t, d
<1>10. ASSUME indexed PROVE Assembled(t, d)
  <2>1. j = n - 1
    BY <1>10 DEF Index
  <2>2. c[j] = [name |-> 1, args |-> s[n]]
    <3>1. j < Len(s)
      BY <1>2, <2>1
    <3>2. c[j] = [name |-> 1, args |-> s[j + 1]]
      BY <1>1, <1>5, <1>10, <3>1 DEF Assembled
    <3> QED
      BY <2>1, <3>2
  <2>3. d[j] = [name |-> 1, args |-> t[n]]
    <3>1. c[j].name = 1 /\ c[j].args = s[n]
      BY <2>2
    <3>2. t[n] = Append(s[n], p)
      <4>1. n \in 1..n
        OBVIOUS
      <4> QED
        BY <1>6, <4>1
    <3> QED
      BY <1>9, <3>1, <3>2
  <2>4. ASSUME NEW k \in Slots
        PROVE  d[k] = IF k < n THEN [name |-> 1, args |-> t[k + 1]] ELSE Nothing
    <3>1. CASE k = j
      BY <2>1, <2>3, <3>1
    <3>2. CASE k # j
      <4>1. d[k] = IF k < n THEN [name |-> 1, args |-> s[k + 1]] ELSE Nothing
        BY <1>1, <1>2, <1>8, <1>10, <3>2 DEF Assembled
      <4>2. k < n => t[k + 1] = s[k + 1]
        BY <1>6, <2>1, <3>2 DEF Slots
      <4> QED
        BY <4>1, <4>2
    <3> QED
      BY <3>1, <3>2
  <2>5. n \in Nat /\ n = Len(t)
    BY <1>6
  <2> QED
    BY <1>10, <2>4, <2>5 DEF Assembled
<1>11. ASSUME ~indexed PROVE Assembled(t, d)
  <2>1. j = 0
    BY <1>11 DEF Index
  <2>2. d[0].name = n
    BY <1>1, <1>2, <1>9, <1>11, <2>1 DEF Assembled
  <2>3. n = 1 => d[0].args = t[1]
    <3>1. n = 1 => c[0].args = s[1]
      BY <1>1, <1>2, <1>11 DEF Assembled
    <3>2. d[0].args = Append(c[0].args, p)
      BY <1>9, <2>1
    <3>3. n = 1 => t[1] = Append(s[1], p)
      BY <1>6
    <3> QED
      BY <3>1, <3>2, <3>3
  <2>4. \A k \in Slots \ {0} : d[k] = Nothing
    BY <1>1, <1>8, <1>11, <2>1 DEF Assembled
  <2>5. n \in Nat \ {0} /\ n = Len(t)
    BY <1>6
  <2> QED
    BY <1>11, <2>2, <2>3, <2>4, <2>5 DEF Assembled
<1> QED
  <2>1. Len(t) <= MaxCalls /\ Assembled(t, d)
    BY <1>1, <1>6, <1>10, <1>11
  <2> QED
    BY <1>4, <1>6, <1>7, <2>1, FragmentAssembles DEF CallGoesOn

LEMMA ClientAssembles ==
    ASSUME ClientTypeOK, AssembledInv, ClientNext
    PROVE  ClientTypeOK' /\ AssembledInv'
<1>1. ASSUME NEW i \in Rounds, Start(i) PROVE ClientTypeOK' /\ AssembledInv'
  <2>1. ClientTypeOK'
    BY <1>1 DEF Start, Takeable, ClientTypeOK, commandVars, Steps, Rounds, Slots
  <2>2. \A j \in Rounds : Assembled(sent[j], calls[j]) => Assembled(sent[j], calls[j])'
    BY <1>1 DEF Start, Assembled, commandVars, Slots
  <2> QED
    BY <1>1, <2>1, <2>2 DEF Start, Takeable, AssembledInv, ClientTypeOK, commandVars, Rounds
<1>2. ASSUME NEW i \in Rounds, CallBegins(i) PROVE ClientTypeOK' /\ AssembledInv'
  <2> DEFINE s == Append(sent[i], <<>>)
             d == [calls[i] EXCEPT ![Index(Len(sent[i]) + 1)].name = @ + 1]
  <2>1. Assembled(sent[i], calls[i])
    BY <1>2 DEF AssembledInv, CallBegins
  <2>2. d \in [Slots -> Entry] /\ Assembled(s, d)
    BY <1>2, <2>1, SentIsTyped, BeginAssembles DEF CallBegins
  <2>3. s \in Seq(Partial) /\ Len(s) <= MaxCalls
    BY <1>2, SentIsTyped DEF CallBegins, Partial
  <2>4. sent' = [sent EXCEPT ![i] = s] /\ calls' = [calls EXCEPT ![i] = d]
    BY <1>2 DEF CallBegins, ClientTypeOK
  <2> HIDE DEF s, d
  <2> QED
    BY <1>2, <2>2, <2>3, <2>4, FragmentAssembles DEF CallBegins
<1>3. ASSUME NEW i \in Rounds, CallGoesOn(i) PROVE ClientTypeOK' /\ AssembledInv'
  BY <1>3, ArgumentsAssemble
<1>4. ASSUME NEW i \in Rounds, EndCall(i) PROVE ClientTypeOK' /\ AssembledInv'
  <2>1. Assembled(sent[i], calls[i]) /\ Proceed(i, Verdict(calls[i]))
    BY <1>4 DEF AssembledInv, EndCall
  <2>2. Verdict(calls[i]) = "answer" => sent[i] = <<Asked>>
    BY <2>1, SentIsTyped, AnswerIsOneCall
  <2>3. Verdict(calls[i]) \in {"answer", "raise", "fail"}
    BY VerdictIsStep
  <2> QED
    BY <2>1, <2>2, <2>3, ProceedAssembles
<1>5. ASSUME NEW i \in Rounds, Text(i) PROVE ClientTypeOK' /\ AssembledInv'
  <2>1. ClientTypeOK'
    BY <1>5 DEF Text, ClientTypeOK, commandVars, Rounds, Slots
  <2>2. \A j \in Rounds : Assembled(sent[j], calls[j]) => Assembled(sent[j], calls[j])'
    BY <1>5 DEF Text, Assembled, commandVars, Slots
  <2> QED
    BY <1>5, <2>1, <2>2 DEF Text, AssembledInv, ClientTypeOK, commandVars, Rounds
<1>6. ASSUME NEW i \in Rounds, EndAnswer(i) PROVE ClientTypeOK' /\ AssembledInv'
  BY <1>6, ProceedAssembles DEF EndAnswer, AssembledInv
<1>7. ASSUME NEW i \in Rounds, RequestFails(i) PROVE ClientTypeOK' /\ AssembledInv'
  BY <1>7, ProceedAssembles DEF RequestFails
<1>8. ASSUME Finish PROVE ClientTypeOK' /\ AssembledInv'
  <2>1. ClientTypeOK'
    BY <1>8 DEF Finish, ClientTypeOK, commandVars, roundVars, Rounds, Slots
  <2>2. \A j \in Rounds : Assembled(sent[j], calls[j]) => Assembled(sent[j], calls[j])'
    BY <1>8 DEF Finish, Assembled, commandVars, roundVars, Slots
  <2> QED
    BY <1>8, <2>1, <2>2 DEF Finish, AssembledInv, commandVars, roundVars, Rounds
<1> QED
  BY <1>1, <1>2, <1>3, <1>4, <1>5, <1>6, <1>7, <1>8 DEF ClientNext, Round

-----------------------------------------------------------------------------
(* The pool and the exit code.                                              *)

LEMMA InFlightIsFinite ==
    ASSUME ClientTypeOK
    PROVE  IsFiniteSet(InFlight) /\ Cardinality(InFlight) \in Nat
<1>1. IsFiniteSet(Rounds)
  BY FS_Interval DEF ClientTypeOK, Rounds
<1> QED
  BY <1>1, FS_Subset, FS_CardinalityType DEF InFlight

\* A round in flight that proceeds keeps the bound of the pool.
LEMMA ProceedKeepsPool ==
    ASSUME ClientTypeOK, PoolInv, NEW i \in InFlight,
           NEW s \in {"answer", "pass", "fail", "raise"}, Proceed(i, s)
    PROVE  PoolInv'
<1> USE DEF Proceed, commandVars
<1>1. i \in Rounds /\ Rounds' = Rounds /\ concurrency' = concurrency
  BY DEF InFlight, Rounds
<1>2. step' = [step EXCEPT ![i] = s] /\ step \in [Rounds -> Steps]
  BY DEF ClientTypeOK
<1>3. concurrency \in Nat
  BY DEF ClientTypeOK
<1>4. Cardinality(InFlight') <= concurrency
  <2>1. InFlight' \subseteq InFlight
    BY <1>1, <1>2 DEF InFlight
  <2>2. Cardinality(InFlight') <= Cardinality(InFlight) /\ Cardinality(InFlight') \in Nat
    BY <2>1, InFlightIsFinite, FS_Subset, FS_CardinalityType
  <2> QED
    BY <1>3, <2>2, InFlightIsFinite DEF PoolInv
<1>5. \A j, k \in Rounds : j < k /\ step'[j] = "queued" => step'[k] = "queued"
  BY <1>1, <1>2 DEF PoolInv, InFlight
<1>6. ASSUME Aborted' PROVE InFlight' = {}
  <2>1. ~Aborted
    BY DEF PoolInv
  <2>2. concurrency = 1 /\ s = "raise"
    BY <1>1, <1>2, <1>6, <2>1 DEF Aborted
  <2>3. InFlight' = InFlight \ {i}
    BY <1>1, <1>2, <2>2 DEF InFlight
  <2>4. Cardinality(InFlight \ {i}) = Cardinality(InFlight) - 1 /\ IsFiniteSet(InFlight \ {i})
    BY InFlightIsFinite, FS_RemoveElement
  <2>5. Cardinality(InFlight \ {i}) \in Nat
    BY <2>4, FS_CardinalityType
  <2>6. Cardinality(InFlight \ {i}) = 0
    BY <2>2, <2>4, <2>5, InFlightIsFinite DEF PoolInv
  <2> QED
    BY <2>3, <2>4, <2>6, FS_EmptySet
<1> QED
  BY <1>1, <1>4, <1>5, <1>6 DEF PoolInv

LEMMA StartKeepsPool ==
    ASSUME ClientTypeOK, PoolInv, NEW i \in Rounds, Start(i)
    PROVE  PoolInv'
<1> USE DEF Start, Takeable, commandVars
<1>1. Rounds' = Rounds /\ concurrency' = concurrency
  BY DEF Rounds
<1>2. step' = [step EXCEPT ![i] = "call"] /\ step \in [Rounds -> Steps]
  BY DEF ClientTypeOK
<1>3. Cardinality(InFlight') <= concurrency
  <2>1. InFlight' = InFlight \cup {i} /\ i \notin InFlight
    BY <1>1, <1>2 DEF InFlight
  <2>2. Cardinality(InFlight') = Cardinality(InFlight) + 1
    BY <2>1, InFlightIsFinite, FS_AddElement
  <2>3. concurrency \in Nat
    BY DEF ClientTypeOK
  <2> QED
    BY <2>2, <2>3, InFlightIsFinite
<1>4. \A j, k \in Rounds : j < k /\ step'[j] = "queued" => step'[k] = "queued"
  BY <1>1, <1>2 DEF PoolInv, Rounds, ClientTypeOK
<1>5. ~Aborted'
  BY <1>1, <1>2 DEF Aborted
<1> QED
  BY <1>1, <1>3, <1>4, <1>5 DEF PoolInv

\* After main() has its exit code, no round moves.
LEMMA ExitIsFinal ==
    ASSUME ClientTypeOK, PoolInv, ExitInv, NEW i \in Rounds, Round(i)
    PROVE  exit = "running"
<1>1. (step[i] = "queued" /\ ~Aborted) \/ i \in InFlight
  BY DEF Round, Start, Takeable, CallBegins, CallGoesOn, EndCall, Text, EndAnswer, RequestFails, InFlight
<1> QED
  BY <1>1 DEF ExitInv, PoolInv, InFlight, Over

LEMMA RoundKeepsPool ==
    ASSUME ClientTypeOK, PoolInv, NEW i \in Rounds, Round(i)
    PROVE  PoolInv' /\ exit' = exit
<1>1. CASE Start(i)
  BY <1>1, StartKeepsPool DEF Start
<1>2. ASSUME UNCHANGED <<rounds, concurrency, step>> PROVE PoolInv'
  BY <1>2 DEF PoolInv, InFlight, Aborted, Rounds
<1>3. CASE CallBegins(i)
  BY <1>2, <1>3 DEF CallBegins, commandVars
<1>4. CASE CallGoesOn(i)
  BY <1>2, <1>4 DEF CallGoesOn, commandVars
<1>5. CASE Text(i)
  BY <1>2, <1>5 DEF Text, commandVars
<1>6. CASE EndCall(i)
  <2>1. i \in InFlight /\ Proceed(i, Verdict(calls[i]))
    BY <1>6 DEF EndCall, InFlight
  <2> QED
    BY <2>1, VerdictIsStep, ProceedKeepsPool DEF Proceed
<1>7. CASE EndAnswer(i)
  <2>1. i \in InFlight /\ Proceed(i, IF text[i] THEN "pass" ELSE "fail")
    BY <1>7 DEF EndAnswer, InFlight
  <2> QED
    BY <2>1, ProceedKeepsPool DEF Proceed
<1>8. CASE RequestFails(i)
  BY <1>8, ProceedKeepsPool DEF RequestFails, Proceed
<1> QED
  BY <1>1, <1>3, <1>4, <1>5, <1>6, <1>7, <1>8 DEF Round

LEMMA ClientInduction ==
    ASSUME ClientInv, ClientNext
    PROVE  ClientInv'
<1> USE DEF ClientInv
<1>1. ClientTypeOK' /\ AssembledInv'
  BY ClientAssembles
<1>2. ASSUME NEW i \in Rounds, Round(i) PROVE PoolInv' /\ ExitInv'
  <2>1. exit = "running" /\ exit' = exit
    BY <1>2, ExitIsFinal, RoundKeepsPool
  <2> QED
    BY <1>2, <2>1, RoundKeepsPool DEF ExitInv
<1>3. ASSUME Finish PROVE PoolInv' /\ ExitInv'
  <2> USE <1>3 DEF Finish, PoolIsThrough, commandVars, roundVars
  <2>1. PoolInv'
    BY DEF PoolInv, InFlight, Aborted, Rounds
  <2>2. ExitInv'
    BY DEF ExitInv, Aborted, Rounds
  <2> QED
    BY <2>1, <2>2
<1> QED
  BY <1>1, <1>2, <1>3 DEF ClientNext

-----------------------------------------------------------------------------
(* The script.                                                              *)

\* What WarmupInv says of the script's own variables.
ScriptTypes ==
    /\ phase \in {"wait", "probe", "hung", "decode", "tools", "snapshot"} \cup Ended
    /\ tries \in 0..WaitSeconds
    /\ healthy \in BOOLEAN
    /\ answered \in 0..DecodeRequests
    /\ persist \in BOOLEAN

LEMMA SixRequests == DecodeRequests = 6
  BY DEF DecodeRequests

LEMMA WarmupInit == Init => WarmupInv
<1> SUFFICES ASSUME Init PROVE WarmupInv
  OBVIOUS
<1> USE DEF Init, ClientInit
<1>1. ClientTypeOK
  <2>1. [k \in Slots |-> Nothing] \in [Slots -> [name : Nat, args : Seq(Pieces)]]
    BY NothingIsTyped
  <2>2. <<>> \in Seq(Partial) /\ Len(<<>>) <= MaxCalls
    OBVIOUS
  <2> QED
    BY <2>1, <2>2 DEF ClientTypeOK, Steps
<1>2. AssembledInv
  BY NothingAssembled DEF AssembledInv
<1>3. PoolInv
  <2>1. InFlight = {} /\ ~Aborted
    BY DEF InFlight, Aborted
  <2>2. Cardinality(InFlight) = 0 /\ concurrency \in Nat
    BY <2>1, FS_EmptySet
  <2> QED
    BY <2>1, <2>2 DEF PoolInv
<1>4. ExitInv
  BY DEF ExitInv
<1>5. ScriptTypes
  <2>1. phase \in {"wait", "probe", "hung", "decode", "tools", "snapshot"} \cup Ended
    OBVIOUS
  <2>2. tries \in 0..WaitSeconds /\ answered \in 0..DecodeRequests
    BY SixRequests
  <2>3. healthy \in BOOLEAN /\ persist \in BOOLEAN
    BY Zenon
  <2> QED
    BY <2>1, <2>2, <2>3 DEF ScriptTypes
<1> QED
  BY <1>1, <1>2, <1>3, <1>4, <1>5, SixRequests
    DEF WarmupInv, ClientInv, TypeOK, ScriptTypes

LEMMA ClientStutters ==
    ASSUME ClientInv, UNCHANGED clientVars PROVE ClientInv'
<1> USE DEF clientVars, commandVars, roundVars, Rounds
<1>1. ClientTypeOK'
  BY DEF ClientInv, ClientTypeOK, Slots
<1>2. \A i \in Rounds : Assembled(sent[i], calls[i]) => Assembled(sent[i], calls[i])'
  BY DEF Assembled, Slots
<1>3. AssembledInv'
  BY <1>2 DEF ClientInv, AssembledInv
<1>4. PoolInv' /\ ExitInv'
  BY DEF ClientInv, PoolInv, ExitInv, InFlight, Aborted
<1> QED
  BY <1>1, <1>3, <1>4 DEF ClientInv

LEMMA WarmupStep == WarmupInv /\ [Next]_vars => WarmupInv'
<1> SUFFICES ASSUME WarmupInv, [Next]_vars PROVE WarmupInv'
  OBVIOUS
<1>1. ClientInv'
  <2>1. CASE Tools
    BY <2>1, ClientInduction DEF Tools, WarmupInv
  <2>2. CASE ~Tools
    <3>1. UNCHANGED clientVars
      BY <2>2 DEF Next, Wait, Hang, Probe, Decode, ToolsEnd, Snapshot, vars
    <3> QED
      BY <3>1, ClientStutters DEF WarmupInv
  <2> QED
    BY <2>1, <2>2
<1>2. ScriptTypes
  BY DEF WarmupInv, TypeOK, ScriptTypes
<1>3. ClientTypeOK'
  BY <1>1 DEF ClientInv
<1> USE SixRequests DEF ScriptTypes, Ended
<1> DEFINE Rest == /\ ScriptTypes
                   /\ phase = "decode" => healthy /\ answered < DecodeRequests
                   /\ phase = "tools" /\ persist => healthy /\ answered = DecodeRequests
                   /\ phase \in {"snapshot", "saved"} =>
                         persist /\ healthy /\ answered = DecodeRequests /\ exit = "0"
                   /\ phase \in {"wait", "probe"} => answered = 0
<1>4. Rest
  BY <1>2 DEF WarmupInv
<1>5. ASSUME Wait PROVE Rest'
  BY <1>4, <1>5 DEF Wait
<1>6. ASSUME Probe PROVE Rest'
  BY <1>4, <1>6 DEF Probe
<1>7. ASSUME Decode PROVE Rest'
  BY <1>4, <1>7 DEF Decode
<1>8. ASSUME Tools PROVE Rest'
  BY <1>4, <1>8 DEF Tools, scriptVars
<1>9. ASSUME ToolsEnd PROVE Rest'
  BY <1>4, <1>9 DEF ToolsEnd, clientVars
<1>10. ASSUME Snapshot PROVE Rest'
  BY <1>4, <1>10 DEF Snapshot, clientVars
<1>11. ASSUME UNCHANGED vars PROVE Rest'
  BY <1>4, <1>11 DEF vars, clientVars, scriptVars
<1>12. ASSUME Hang PROVE Rest'
  BY <1>4, <1>12 DEF Hang
<1>13. Rest'
  BY <1>5, <1>6, <1>7, <1>8, <1>9, <1>10, <1>11, <1>12 DEF Next
<1> QED
  BY <1>1, <1>3, <1>13 DEF WarmupInv, TypeOK

-----------------------------------------------------------------------------
(* A client that runs can go on.                                            *)

\* The loop has come to the first of the rounds that are queued.
LEMMA FirstQueuedIsNext ==
    ASSUME rounds \in Nat, NEW i \in Rounds, step[i] = "queued"
    PROVE  \E m \in Rounds : step[m] = "queued" /\ \A j \in 1..(m - 1) : step[j] # "queued"
<1> DEFINE Queued == {m \in Rounds : step[m] = "queued"}
<1>1. Queued \subseteq Nat /\ Queued # {}
  BY DEF Rounds
<1>2. PICK m \in Queued : \A k \in Queued : <<k, m>> \notin OpToRel(<, Nat)
  BY <1>1, WFMin, NatLessThanWellFounded, Zenon
<1>3. ASSUME NEW k \in Queued PROVE ~(k < m)
  BY <1>1, <1>2, <1>3, Zenon DEF OpToRel
<1>4. \A k \in 1..(m - 1) : step[k] # "queued"
  <2> SUFFICES ASSUME NEW k \in 1..(m - 1), step[k] = "queued" PROVE FALSE
    OBVIOUS
  <2>1. k \in Queued /\ k < m
    BY DEF Rounds
  <2> QED
    BY <1>3, <2>1
<1> QED
  BY <1>2, <1>4

LEMMA ClientGoesOn == ClientInv => ClientNeverStuck
<1> SUFFICES ASSUME ClientInv, InFlight = {}, ~PoolIsThrough
             PROVE  \E i \in Rounds : Takeable(i)
  BY DEF ClientNeverStuck
<1>1. PICK i \in Rounds : step[i] = "queued"
  BY DEF PoolIsThrough, InFlight, Over, Steps, ClientInv, ClientTypeOK
<1>2. PICK m \in Rounds : step[m] = "queued" /\ \A j \in 1..(m - 1) : step[j] # "queued"
  BY <1>1, FirstQueuedIsNext DEF ClientInv, ClientTypeOK
<1>3. Cardinality(InFlight) = 0 /\ concurrency \in Nat \ {0}
  BY FS_EmptySet DEF ClientInv, ClientTypeOK
<1> QED
  BY <1>2, <1>3 DEF Takeable, PoolIsThrough

-----------------------------------------------------------------------------
(* Every step of a round brings it on.                                      *)

\* How much of an answer has been sent.
Size(s) == 3 * Len(s) + (IF s = <<>> THEN 0 ELSE Len(s[Len(s)]))

TurnAt(here, s, t) ==
    CASE here = "queued" -> 0
      [] here = "call" -> 1 + Size(s)
      [] here = "answer" -> 3 * MaxCalls + 4 + (IF t THEN 1 ELSE 0)
      [] OTHER -> LastTurn

LEMMA PartialIsShort == \A a \in Partial : Len(a) \in 0..2
  BY DEF Partial, Asked

LEMMA SizeIsBounded ==
    ASSUME NEW s \in Seq(Partial), Len(s) <= MaxCalls
    PROVE  Size(s) \in 0..(3 * MaxCalls + 2) /\ Size(s) \in (3 * Len(s))..(3 * Len(s) + 2)
<1>1. PICK n \in Nat : n = Len(s)
  OBVIOUS
<1>2. CASE s = <<>>
  BY <1>1, <1>2 DEF Size
<1>3. CASE s # <<>>
  <2>1. n \in 1..Len(s) /\ s[n] \in Partial
    BY <1>1, <1>3
  <2>2. PICK l \in 0..2 : l = Len(s[n])
    BY <2>1, PartialIsShort
  <2>3. Size(s) = 3 * n + l
    BY <1>1, <1>3, <2>2 DEF Size
  <2> HIDE DEF Size
  <2>4. PICK m \in Nat : m = MaxCalls
    OBVIOUS
  <2>5. n <= m
    BY <1>1, <2>4
  <2>6. Size(s) \in 0..(3 * m + 2) /\ Size(s) \in (3 * n)..(3 * n + 2)
    <3>1. 3 * n + l \in 0..(3 * m + 2) /\ 3 * n + l \in (3 * n)..(3 * n + 2)
      BY <2>5
    <3> QED
      BY <2>3, <3>1
  <2> QED
    BY <1>1, <2>4, <2>6
<1> QED
  BY <1>2, <1>3

LEMMA BeginIsMore ==
    ASSUME NEW s \in Seq(Partial), Len(s) < MaxCalls
    PROVE  Size(s) < Size(Append(s, <<>>))
<1> DEFINE b == Append(s, <<>>)
<1>1. PICK n \in Nat : n = Len(s)
  OBVIOUS
<1>2. Size(s) \in (3 * n)..(3 * n + 2)
  BY <1>1, SizeIsBounded
<1>3. <<>> \in Partial
  BY DEF Partial
<1>4. b \in Seq(Partial) /\ Len(b) = n + 1 /\ b[n + 1] = <<>>
  BY <1>1, <1>3
<1>5. b # <<>> /\ Len(b[Len(b)]) = 0
  BY <1>4
<1> HIDE DEF b
<1>6. Size(b) = 3 * (n + 1)
  BY <1>4, <1>5 DEF Size
<1> QED
  BY <1>2, <1>6 DEF b

LEMMA PieceIsMore ==
    ASSUME NEW s \in Seq(Partial), NEW n \in Nat \ {0}, n = Len(s),
           NEW p \in Pieces, Append(s[n], p) \in Partial,
           NEW next, next = [s EXCEPT ![n] = Append(@, p)]
    PROVE  Size(s) < Size(next)
<1> DEFINE a == Append(s[n], p)
           b == [s EXCEPT ![n] = a]
<1>1. s[n] \in Partial /\ s[n] \in Seq(Pieces)
  BY PartialIsTyped
<1>2. PICK l \in 0..2 : l = Len(s[n])
  BY <1>1, PartialIsShort
<1>3. Len(a) = l + 1
  BY <1>1, <1>2
<1> HIDE DEF a
<1>4. b \in Seq(Partial) /\ Len(b) = n /\ b[n] = a
  <2>1. a \in Partial /\ n \in 1..Len(s)
    BY DEF a
  <2> QED
    BY <2>1, ExceptSeq
<1> HIDE DEF b
<1>5. Size(s) = 3 * n + l
  BY <1>2 DEF Size
<1>6. Size(b) = 3 * n + l + 1
  <2>1. b # <<>> /\ Len(b[Len(b)]) = l + 1 /\ 3 * Len(b) = 3 * n
    BY <1>3, <1>4
  <2>2. Size(b) = 3 * Len(b) + Len(b[Len(b)])
    BY <2>1 DEF Size
  <2> QED
    BY <1>4, <2>1, <2>2
<1>7. b = next
  BY DEF a, b
<1> QED
  BY <1>5, <1>6, <1>7

LEMMA TurnIsTurnAt ==
    ASSUME NEW i
    PROVE  /\ Turn(i) = TurnAt(step[i], sent[i], text[i])
           /\ Turn(i)' = TurnAt(step'[i], sent'[i], text'[i])
  BY DEF Turn, TurnAt, Size, LastTurn

LEMMA TurnsAreBounded ==
    ASSUME NEW here \in Steps, NEW s \in Seq(Partial), Len(s) <= MaxCalls, NEW t \in BOOLEAN
    PROVE  /\ TurnAt(here, s, t) \in 0..LastTurn
           /\ here \in {"call", "answer"} => TurnAt(here, s, t) < LastTurn
           /\ here = "call" => TurnAt(here, s, t) \in 1..(3 * MaxCalls + 3)
<1>1. PICK m \in Nat : m = MaxCalls
  OBVIOUS
<1>2. Size(s) \in 0..(3 * m + 2)
  BY <1>1, SizeIsBounded
<1>3. LastTurn = 3 * m + 6
  BY <1>1 DEF LastTurn
<1> HIDE DEF Size
<1> QED
  BY <1>1, <1>2, <1>3 DEF TurnAt, Steps

LEMMA RoundAdvances ==
    ASSUME ClientInv, ClientTypeOK', NEW i \in Rounds, Round(i)
    PROVE  Turn(i) < Turn(i)'
<1> DEFINE now == TurnAt(step[i], sent[i], text[i])
           next == TurnAt(step'[i], sent'[i], text'[i])
<1>1. ClientTypeOK /\ AssembledInv
  BY DEF ClientInv
<1>2. step[i] \in Steps /\ sent[i] \in Seq(Partial) /\ Len(sent[i]) <= MaxCalls /\ text[i] \in BOOLEAN
  BY <1>1 DEF ClientTypeOK
<1>3. i \in Rounds'
  BY DEF Round, Start, CallBegins, CallGoesOn, EndCall, Text, EndAnswer, RequestFails, Proceed,
         commandVars, Rounds
<1>4. step'[i] \in Steps /\ sent'[i] \in Seq(Partial) /\ Len(sent'[i]) <= MaxCalls /\ text'[i] \in BOOLEAN
  BY <1>3 DEF ClientTypeOK
<1>5. now < next
  <2>1. ASSUME NEW s \in {"answer", "pass", "fail", "raise"}, Proceed(i, s),
               step[i] \in {"call", "answer"}, step[i] = "answer" => s # "answer"
        PROVE  now < next
    <3>1. step'[i] = s
      BY <1>1, <2>1 DEF Proceed, ClientTypeOK
    <3>2. CASE s = "answer"
      <4>1. now \in 1..(3 * MaxCalls + 3)
        BY <1>2, <2>1, <3>2, TurnsAreBounded
      <4>2. next \in {3 * MaxCalls + 4, 3 * MaxCalls + 5}
        BY <1>4, <3>1, <3>2 DEF TurnAt
      <4> HIDE DEF now, next
      <4> QED
        BY <4>1, <4>2
    <3>3. CASE s # "answer"
      <4>1. now < LastTurn
        BY <1>2, <2>1, TurnsAreBounded
      <4>2. next = LastTurn
        BY <2>1, <3>1, <3>3 DEF TurnAt
      <4> QED
        BY <4>1, <4>2
    <3> QED
      BY <3>2, <3>3
  <2>2. CASE Start(i)
    <3>1. step[i] = "queued" /\ step'[i] = "call"
      BY <1>1, <2>2 DEF Start, Takeable, ClientTypeOK
    <3>2. now = 0
      BY <3>1 DEF TurnAt
    <3>3. next \in 1..(3 * MaxCalls + 3)
      BY <1>4, <3>1, TurnsAreBounded
    <3> QED
      BY <3>2, <3>3
  <2>3. ASSUME step[i] = "call", step'[i] = "call", Size(sent[i]) < Size(sent'[i])
        PROVE  now < next
    <3>1. now = 1 + Size(sent[i]) /\ next = 1 + Size(sent'[i])
      BY <2>3 DEF TurnAt
    <3>2. Size(sent[i]) \in Nat /\ Size(sent'[i]) \in Nat
      BY <1>2, <1>4, SizeIsBounded
    <3> QED
      BY <2>3, <3>1, <3>2
  <2>4. CASE CallBegins(i)
    <3>1. step[i] = "call" /\ step' = step /\ sent'[i] = Append(sent[i], <<>>)
      BY <1>1, <2>4 DEF CallBegins, ClientTypeOK
    <3> QED
      BY <1>2, <2>3, <2>4, <3>1, BeginIsMore DEF CallBegins
  <2>5. CASE CallGoesOn(i)
    <3>1. PICK p \in Pieces :
            /\ Append(sent[i][Len(sent[i])], p) \in Partial
            /\ sent' = [sent EXCEPT ![i][Len(sent[i])] = Append(@, p)]
      BY <2>5 DEF CallGoesOn
    <3>2. step[i] = "call" /\ step' = step /\ Len(sent[i]) \in Nat \ {0}
      BY <1>2, <2>5 DEF CallGoesOn
    <3>3. sent'[i] = [sent[i] EXCEPT ![Len(sent[i])] = Append(@, p)]
      BY <1>1, <3>1 DEF ClientTypeOK
    <3>4. Size(sent[i]) < Size(sent'[i])
      <4>1. PICK n \in Nat \ {0} : n = Len(sent[i])
        BY <3>2
      <4>2. Append(sent[i][n], p) \in Partial /\ sent'[i] = [sent[i] EXCEPT ![n] = Append(@, p)]
        BY <3>1, <3>3, <4>1
      <4> HIDE DEF now, next
      <4> QED
        BY <1>2, <4>1, <4>2, PieceIsMore
    <3> QED
      BY <2>3, <3>2, <3>4
  <2>6. CASE Text(i)
    <3>1. step[i] = "answer" /\ step'[i] = "answer" /\ text[i] = FALSE /\ text'[i] = TRUE
      BY <1>1, <2>6 DEF Text, ClientTypeOK
    <3> QED
      BY <3>1 DEF TurnAt
  <2>7. CASE EndCall(i)
    BY <2>1, <2>7, VerdictIsStep DEF EndCall
  <2>8. CASE EndAnswer(i)
    BY <2>1, <2>8 DEF EndAnswer
  <2>9. CASE RequestFails(i)
    BY <2>1, <2>9 DEF RequestFails, InFlight
  <2> QED
    BY <2>2, <2>4, <2>5, <2>6, <2>7, <2>8, <2>9 DEF Round
<1> QED
  BY <1>5, TurnIsTurnAt

\* What a step does not do to a round.
LEMMA OtherRoundsRest ==
    ASSUME ClientInv, ClientNext, NEW j \in Rounds, ~Round(j)
    PROVE  step'[j] = step[j] /\ sent'[j] = sent[j] /\ text'[j] = text[j]
<1> USE DEF ClientInv, ClientTypeOK
<1>1. ASSUME NEW i \in Rounds, i # j, Round(i)
      PROVE  step'[j] = step[j] /\ sent'[j] = sent[j] /\ text'[j] = text[j]
  <2>1. ASSUME NEW s, Proceed(i, s)
        PROVE  step'[j] = step[j] /\ sent'[j] = sent[j] /\ text'[j] = text[j]
    BY <1>1, <2>1 DEF Proceed
  <2> QED
    BY <1>1, <2>1 DEF Round, Start, CallBegins, CallGoesOn, EndCall, Text, EndAnswer, RequestFails
<1>2. CASE Finish
  BY <1>2 DEF Finish, roundVars
<1> QED
  BY <1>1, <1>2 DEF ClientNext

LEMMA RoundsAdvanceStep ==
    ASSUME WarmupInv, [Next]_vars, NEW i \in Rounds
    PROVE  Turn(i) <= Turn(i)' /\ Turn(i)' <= LastTurn /\ (Round(i) => Turn(i) < Turn(i)')
<1>1. ClientInv /\ ClientInv'
  BY WarmupStep DEF WarmupInv
<1>2. rounds' = rounds
  BY DEF Next, Tools, ClientNext, Finish, Round, Start, CallBegins, CallGoesOn, EndCall, Text,
         EndAnswer, RequestFails, Proceed, Wait, Hang, Probe, Decode, ToolsEnd, Snapshot,
         commandVars, clientVars, vars
<1>3. /\ TurnAt(step[i], sent[i], text[i]) \in 0..LastTurn
      /\ TurnAt(step'[i], sent'[i], text'[i]) \in 0..LastTurn
  BY <1>1, <1>2, TurnsAreBounded DEF ClientInv, ClientTypeOK, Rounds
<1>4. Turn(i) \in 0..LastTurn /\ Turn(i)' \in 0..LastTurn
  BY <1>3, TurnIsTurnAt
<1>5. Round(i) => Turn(i) < Turn(i)'
  BY <1>1, RoundAdvances DEF ClientInv
<1>6. ~Round(i) => Turn(i) = Turn(i)'
  <2> SUFFICES ASSUME ~Round(i)
               PROVE  step'[i] = step[i] /\ sent'[i] = sent[i] /\ text'[i] = text[i]
    BY TurnIsTurnAt
  <2>1. CASE Tools
    BY <1>1, <2>1, OtherRoundsRest DEF Tools
  <2>2. CASE ~Tools
    BY <2>2 DEF Next, Wait, Hang, Probe, Decode, ToolsEnd, Snapshot, vars, clientVars, roundVars
  <2> QED
    BY <2>1, <2>2
<1> QED
  BY <1>4, <1>5, <1>6 DEF LastTurn

\* Every step of the script brings it on.
LEMMA WarmupGoesOnward == WarmupInv /\ Next => WarmupOnward
<1> SUFFICES ASSUME WarmupInv, Next PROVE WarmupOnward
  OBVIOUS
<1> USE DEF WarmupOnward
<1>1. CASE Wait
  <2>1. CASE phase' = "probe"
    BY <1>1, <2>1 DEF Wait, PhaseRank
  <2>2. CASE UNCHANGED phase /\ tries' = tries + 1 /\ tries # WaitSeconds
    BY <2>2 DEF WarmupInv, TypeOK
  <2> QED
    BY <1>1, <2>1, <2>2 DEF Wait
<1>2. CASE Probe
  BY <1>2 DEF Probe, PhaseRank
<1>3. CASE Decode
  <2>1. CASE phase' # "decode"
    BY <1>3, <2>1, SixRequests DEF Decode, PhaseRank
  <2>2. CASE phase' = "decode"
    BY <1>3, <2>2, SixRequests DEF Decode, WarmupInv, TypeOK
  <2> QED
    BY <2>1, <2>2
<1>4. CASE Tools
  <2>1. ASSUME NEW i \in Rounds, Round(i) PROVE WarmupOnward
    <3>1. UNCHANGED <<phase, tries, answered, exit>>
      BY <1>4, <2>1, RoundKeepsPool DEF Tools, scriptVars, WarmupInv, ClientInv
    <3>2. \A j \in Rounds : Turn(j) <= Turn(j)' /\ Turn(j)' <= LastTurn
      BY RoundsAdvanceStep
    <3>3. Turn(i) < Turn(i)'
      BY <2>1, RoundsAdvanceStep
    <3> QED
      BY <2>1, <3>1, <3>2, <3>3
  <2>2. CASE Finish
    BY <1>4, <2>2 DEF Finish, Tools, scriptVars
  <2> QED
    BY <1>4, <2>1, <2>2 DEF Tools, ClientNext
<1>5. CASE ToolsEnd
  BY <1>5 DEF ToolsEnd, PhaseRank
<1>6. CASE Snapshot
  BY <1>6 DEF Snapshot, PhaseRank
<1>7. CASE Hang
  BY <1>7 DEF Hang, PhaseRank
<1> QED
  BY <1>1, <1>2, <1>3, <1>4, <1>5, <1>6, <1>7 DEF Next

\* The inductive invariant of client and script (bench_tool_roundtrip.py,
\* warmup_runtime.sh).
THEOREM WarmupIsInductive == Spec => []WarmupInv
  BY WarmupInit, WarmupStep, PTL DEF Spec

-----------------------------------------------------------------------------

(* The client and the script keep their types, for any numbers of rounds,   *)
(* threads and calls (bench_tool_roundtrip.py, warmup_runtime.sh).          *)
THEOREM WarmupTypes == Spec => []TypeOK
<1>1. WarmupInv => TypeOK
  BY DEF WarmupInv
<1> QED
  BY <1>1, WarmupIsInductive, PTL

(* A round that goes on to its second request got exactly one call from the *)
(* server, whole, however many calls it sends and whether or not it numbers *)
(* them (bench_tool_roundtrip.py:140-195).                                  *)
THEOREM CallsNeverMerge == Spec => []OneWholeCall
<1>1. WarmupInv => OneWholeCall
  BY DEF WarmupInv, ClientInv, AssembledInv, OneWholeCall
<1> QED
  BY <1>1, WarmupIsInductive, PTL

(* No more rounds in flight than asked for, in order, and none at the end   *)
(* (bench_tool_roundtrip.py:267-273).                                       *)
THEOREM PoolIsBounded == Spec => []PoolKeepsBound
<1>1. WarmupInv => PoolKeepsBound
  BY DEF WarmupInv, ClientInv, PoolInv, ExitInv, PoolKeepsBound, InFlight, Over
<1> QED
  BY <1>1, WarmupIsInductive, PTL

(* The exit code tells of every round (bench_tool_roundtrip.py:299).        *)
THEOREM ExitCodeIsHonest == Spec => []ExitIsHonest
<1>1. WarmupInv => ExitIsHonest
  BY DEF WarmupInv, ClientInv, AssembledInv, ExitInv, ExitIsHonest
<1> QED
  BY <1>1, WarmupIsInductive, PTL

(* An archive of a warm-up follows a good health, a full decode stage and a *)
(* whole round trip (warmup_runtime.sh:17-28).                              *)
THEOREM ArchiveFollowsRoundTrip == Spec => []SavedAfterRoundTrip
<1>1. WarmupInv => SavedAfterRoundTrip
  BY DEF WarmupInv, ClientInv, AssembledInv, ExitInv, SavedAfterRoundTrip
<1> QED
  BY <1>1, WarmupIsInductive, PTL

(* A client that runs has a round in flight, one to take, or is through     *)
(* (bench_tool_roundtrip.py:267-273).                                       *)
THEOREM ClientIsNeverStuck == Spec => []ClientNeverStuck
<1>1. WarmupInv => ClientNeverStuck
  BY ClientGoesOn DEF WarmupInv
<1> QED
  BY <1>1, WarmupIsInductive, PTL

(* Every step of a round brings it on, no step of another one sets it back, *)
(* and its end is a bounded number of steps away: whatever a server sends,  *)
(* a run of the client has at most so many steps as its rounds have turns   *)
(* (bench_tool_roundtrip.py:205-250).                                       *)
THEOREM RoundsAreBounded == Spec => RoundsAdvance
<1> DEFINE Onward == \A i \in Rounds : /\ Turn(i) <= Turn(i)' /\ Turn(i)' <= LastTurn
                                       /\ Round(i) => Turn(i) < Turn(i)'
<1>1. WarmupInv /\ [Next]_vars => [Onward]_vars
  BY RoundsAdvanceStep
<1>2. Spec => [][Onward]_vars
  BY <1>1, WarmupIsInductive, PTL DEF Spec
<1> QED
  BY <1>2 DEF RoundsAdvance, Onward

=============================================================================
