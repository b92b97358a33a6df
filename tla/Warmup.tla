-------------------------------- MODULE Warmup --------------------------------
(***************************************************************************)
(* warmup_runtime.sh: wait for the server's health, decode, make a tool    *)
(* round trip (ToolRounds), and archive the runtime if asked to.  The      *)
(* server may vanish and come back between any two requests, so that each  *)
(* of them may fail.  The client may also be run by hand.                  *)
(***************************************************************************)
EXTENDS ToolRounds

CONSTANT WaitSeconds   \* WARMUP_WAIT_SECONDS

ASSUME WaitAssumption == WaitSeconds \in Nat

VARIABLES
    phase,         \* the command of the script; "hung" in a curl without an answer
    tries,         \* turns of the loop that waits
    healthy,       \* the last answer to /health was good
    answered,      \* requests that the decode stage has had an answer to
    persist        \* SNAPSHOT_AFTER_WARMUP

scriptVars == <<phase, tries, healthy, answered, persist>>
vars == <<clientVars, scriptVars>>

\* stage_decode reads the metrics, asks and reads the metrics, for two lengths.
DecodeRequests == 2 * 3

Ended == {"done", "saved", "failed"}

\* The warm-up asks for one round; "tools" is also where a run by hand begins.
Init ==
    /\ ClientInit
    /\ phase \in {"wait", "tools"}
    /\ phase = "wait" => rounds = 1 /\ concurrency = 1
    /\ persist \in BOOLEAN
    /\ phase = "tools" => ~persist
    /\ tries = 0
    /\ healthy = FALSE
    /\ answered = 0

\* Mutant: one turn more than WARMUP_WAIT_SECONDS.
WaitOnceMore ==
    /\ phase = "wait"
    /\ IF tries > WaitSeconds
         THEN phase' = "probe" /\ UNCHANGED tries
         ELSE \/ phase' = "probe" /\ UNCHANGED tries
              \/ tries' = tries + 1 /\ UNCHANGED phase
    /\ UNCHANGED <<clientVars, healthy, answered, persist>>

\* A turn of the loop: curl succeeds and breaks it, or fails.
Wait ==
    /\ phase = "wait"
    /\ IF tries = WaitSeconds
         THEN phase' = "probe" /\ UNCHANGED tries
         ELSE \/ phase' = "probe" /\ UNCHANGED tries
              \/ tries' = tries + 1 /\ UNCHANGED phase
    /\ UNCHANGED <<clientVars, healthy, answered, persist>>

\* curl has no --max-time: a server that accepts the connection and is silent
\* keeps the script in its first command, whatever WARMUP_WAIT_SECONDS says.
Hang ==
    /\ \/ phase = "wait" /\ tries < WaitSeconds
       \/ phase = "probe"
    /\ phase' = "hung"
    /\ UNCHANGED <<clientVars, tries, healthy, answered, persist>>

\* The curl after the loop decides.
Probe ==
    /\ phase = "probe"
    /\ healthy' \in BOOLEAN
    /\ phase' = IF healthy' THEN "decode" ELSE "failed"
    /\ UNCHANGED <<clientVars, tries, answered, persist>>

\* A request of the decode stage; nothing catches its failure.
Decode ==
    /\ phase = "decode"
    /\ \/ /\ answered' = answered + 1
          /\ phase' = IF answered' = DecodeRequests THEN "tools" ELSE "decode"
       \/ phase' = "failed" /\ UNCHANGED answered
    /\ UNCHANGED <<clientVars, tries, healthy, persist>>

Tools == phase = "tools" /\ ClientNext /\ UNCHANGED scriptVars

\* Mutant: the script goes on after a client that failed.
ToolsEndTolerant ==
    /\ phase = "tools"
    /\ exit # "running"
    /\ phase' = IF persist THEN "snapshot" ELSE "done"
    /\ UNCHANGED <<clientVars, tries, healthy, answered, persist>>

\* The client returns: set -e stops the script if its exit code is not 0.
ToolsEnd ==
    /\ phase = "tools"
    /\ exit # "running"
    /\ phase' = IF exit # "0" THEN "failed"
                ELSE IF persist THEN "snapshot" ELSE "done"
    /\ UNCHANGED <<clientVars, tries, healthy, answered, persist>>

\* snapshot_runtime_state.sh, which RuntimeSnapshot details.
Snapshot ==
    /\ phase = "snapshot"
    /\ phase' \in {"saved", "failed"}
    /\ UNCHANGED <<clientVars, tries, healthy, answered, persist>>

Next == Wait \/ Hang \/ Probe \/ Decode \/ Tools \/ ToolsEnd \/ Snapshot

Spec == Init /\ [][Next]_vars

-----------------------------------------------------------------------------

TypeOK ==
    /\ ClientTypeOK
    /\ phase \in {"wait", "probe", "hung", "decode", "tools", "snapshot"} \cup Ended
    /\ tries \in 0..WaitSeconds
    /\ healthy \in BOOLEAN
    /\ answered \in 0..DecodeRequests
    /\ persist \in BOOLEAN

(* An archive is made only if it was asked for, of a server that said it is *)
(* healthy, answered every request of the decode stage, and then completed  *)
(* a round trip: a call sent whole, and text (warmup_runtime.sh:17-28).     *)
SavedAfterRoundTrip ==
    phase \in {"snapshot", "saved"} =>
        /\ persist /\ healthy
        /\ answered = DecodeRequests
        /\ \A i \in Rounds : sent[i] = <<Asked>> /\ text[i]

\* Every step of a round brings it nearer to its end, which is a bounded number
\* of steps away, and nothing takes it back.
RoundsAdvance ==
    [][\A i \in Rounds : /\ Turn(i) <= Turn(i)' /\ Turn(i)' <= LastTurn
                         /\ Round(i) => Turn(i) < Turn(i)']_vars

\* The inductive invariant: what the script has established at each command.
WarmupInv ==
    /\ TypeOK
    /\ ClientInv
    /\ phase = "decode" => healthy /\ answered < DecodeRequests
    /\ phase = "tools" /\ persist => healthy /\ answered = DecodeRequests
    /\ phase \in {"snapshot", "saved"} =>
          persist /\ healthy /\ answered = DecodeRequests /\ exit = "0"
    /\ phase \in {"wait", "probe"} => answered = 0

\* The commands of the script in their order, and its ends; nothing follows on a
\* curl that hangs.
PhaseRank ==
    CASE phase = "wait" -> 0
      [] phase = "probe" -> 1
      [] phase = "decode" -> 2
      [] phase = "tools" -> 3
      [] phase = "snapshot" -> 4
      [] OTHER -> 5

\* A step brings the script to a later command, or its wait, its decode stage or
\* its client on: no command can go on forever.
WarmupOnward ==
    \/ PhaseRank < PhaseRank'
    \/ UNCHANGED phase /\ tries < tries' /\ tries' <= WaitSeconds
    \/ UNCHANGED <<phase, tries>> /\ answered < answered' /\ answered' <= DecodeRequests
    \/ UNCHANGED <<phase, tries, answered>> /\ exit = "running" /\ exit' # "running"
    \/ /\ UNCHANGED <<phase, tries, answered, exit>>
       /\ \A i \in Rounds : Turn(i) <= Turn(i)' /\ Turn(i)' <= LastTurn
       /\ \E i \in Rounds : Turn(i) < Turn(i)'

=============================================================================
