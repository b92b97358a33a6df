--------------------------- MODULE RuntimeSnapshot ---------------------------
(***************************************************************************)
(* snapshot_runtime_state.sh and snapshot_runtime_caches.sh: the venv and  *)
(* then every compiler cache is archived to OUT.tmp.$$, listed, and moved  *)
(* over OUT on persistent storage.  Archive 0 is the venv; 1..NumCaches    *)
(* are the caches in the order of the script.  A run of the scripts can    *)
(* fail, be killed, or meet directories that the server or a reinstall     *)
(* changes; each change is a new generation, and 0 is a missing or empty   *)
(* directory.                                                              *)
(***************************************************************************)
EXTENDS Naturals

CONSTANTS
    Runs,          \* the executions of the scripts, with distinct process ids
    NumCaches,     \* the caches archived after the venv
    MaxGen,        \* bound: the changes of a live directory
    NoFile,        \* no file under a name
    Exclusive      \* TRUE: nobody starts a run while another is going on

ASSUME NumCachesAssumption == NumCaches \in Nat
ASSUME MaxGenAssumption == MaxGen \in Nat
ASSUME ExclusiveAssumption == Exclusive \in BOOLEAN

Archives == 0..NumCaches
Gens == 1..MaxGen

\* An archive file: the generation tar began to read, and whether everything
\* tar wrote is there.
Files == [gen : Gens, whole : BOOLEAN]

ASSUME NoFileAssumption == NoFile \notin Files \cup Gens

VARIABLES
    live,          \* the generation of each archived directory
    out,           \* the file under each archive's final name
    tmp,           \* the file under OUT.tmp.$$, per run and archive
    pc,            \* the next command of each run
    at,            \* the archive each run works on
    first,         \* 0 for snapshot_runtime_state.sh, 1 for the caches alone
    seen           \* history: live when the run started

vars == <<live, out, tmp, pc, at, first, seen>>

Working == {"check", "tar", "tarring", "verify", "move"}
Ended == {"done", "failed", "killed"}

Init ==
    /\ live \in [Archives -> {0, 1} \cap 0..MaxGen]
    /\ out = [a \in Archives |-> NoFile]
    /\ tmp = [r \in Runs |-> [a \in Archives |-> NoFile]]
    /\ pc = [r \in Runs |-> "idle"]
    /\ at = [r \in Runs |-> 0]
    /\ first = [r \in Runs |-> 0]
    /\ seen = [r \in Runs |-> live]

\* A JIT compilation, a reinstall or a warm-up changes a directory.
Change(a) ==
    /\ live[a] < MaxGen
    /\ live' = [live EXCEPT ![a] = @ + 1]
    /\ UNCHANGED <<out, tmp, pc, at, first, seen>>

Start(r, a) ==
    /\ pc[r] = "idle"
    /\ Exclusive => \A s \in Runs : pc[s] \notin Working
    /\ pc' = [pc EXCEPT ![r] = "check"]
    /\ at' = [at EXCEPT ![r] = a]
    /\ first' = [first EXCEPT ![r] = a]
    /\ seen' = [seen EXCEPT ![r] = live]
    /\ UNCHANGED <<live, out, tmp>>

\* Mutant: the run goes on past the last archive.
GoOnPastEnd(r) ==
    /\ pc' = [pc EXCEPT ![r] = IF at[r] <= NumCaches THEN "check" ELSE "done"]
    /\ at' = [at EXCEPT ![r] = IF at[r] <= NumCaches THEN @ + 1 ELSE @]

\* The run goes on with the next archive, if there is one.
GoOn(r) ==
    /\ pc' = [pc EXCEPT ![r] = IF at[r] < NumCaches THEN "check" ELSE "done"]
    /\ at' = [at EXCEPT ![r] = IF at[r] < NumCaches THEN @ + 1 ELSE @]

\* A missing venv ends the script; a missing cache is a warning.
Missing(r) ==
    /\ pc[r] = "check"
    /\ live[at[r]] = 0
    /\ IF at[r] = 0
         THEN pc' = [pc EXCEPT ![r] = "failed"] /\ UNCHANGED at
         ELSE GoOn(r)
    /\ UNCHANGED <<live, out, tmp, first, seen>>

Present(r) ==
    /\ pc[r] = "check"
    /\ live[at[r]] # 0
    /\ pc' = [pc EXCEPT ![r] = "tar"]
    /\ UNCHANGED <<live, out, tmp, at, first, seen>>

TarBegin(r) ==
    /\ pc[r] = "tar"
    /\ tmp' = [tmp EXCEPT ![r][at[r]] = [gen |-> live[at[r]], whole |-> FALSE]]
    /\ pc' = [pc EXCEPT ![r] = "tarring"]
    /\ UNCHANGED <<live, out, at, first, seen>>

\* tar reports success; whether the network storage kept every byte shows only
\* when the archive is read.
TarEnd(r) ==
    /\ pc[r] = "tarring"
    /\ \E kept \in BOOLEAN : tmp' = [tmp EXCEPT ![r][at[r]].whole = kept]
    /\ pc' = [pc EXCEPT ![r] = "verify"]
    /\ UNCHANGED <<live, out, at, first, seen>>

\* set -e ends the script on the failure of tar, which also fails on a file
\* that changes while it is read.  The EXIT trap of the state script removes
\* its temporary file; the RETURN trap of the function snapshot does not run
\* when the shell exits from inside the function.
Abort(r) ==
    /\ pc' = [pc EXCEPT ![r] = "failed"]
    /\ tmp' = [tmp EXCEPT ![r][at[r]] = IF at[r] = 0 THEN NoFile ELSE @]
    /\ UNCHANGED <<live, out, at, first, seen>>

TarFails(r) == pc[r] = "tarring" /\ Abort(r)

\* Mutant: whatever tar -tf says, the script goes on.
ListAnyway(r) ==
    /\ pc[r] = "verify"
    /\ pc' = [pc EXCEPT ![r] = "move"]
    /\ UNCHANGED <<live, out, tmp, at, first, seen>>

\* tar -tf reads the archive back.
List(r) ==
    /\ pc[r] = "verify"
    /\ tmp[r][at[r]].whole
    /\ pc' = [pc EXCEPT ![r] = "move"]
    /\ UNCHANGED <<live, out, tmp, at, first, seen>>

ListFails(r) ==
    /\ pc[r] = "verify"
    /\ ~tmp[r][at[r]].whole
    /\ Abort(r)

\* Mutant: the archive is kept if there is one already.
MoveNoClobber(r) ==
    /\ pc[r] = "move"
    /\ out' = [out EXCEPT ![at[r]] = IF @ = NoFile THEN tmp[r][at[r]] ELSE @]
    /\ tmp' = [tmp EXCEPT ![r][at[r]] = NoFile]
    /\ GoOn(r)
    /\ UNCHANGED <<live, first, seen>>

\* mv -f, a rename within the directory.
Move(r) ==
    /\ pc[r] = "move"
    /\ out' = [out EXCEPT ![at[r]] = tmp[r][at[r]]]
    /\ tmp' = [tmp EXCEPT ![r][at[r]] = NoFile]
    /\ GoOn(r)
    /\ UNCHANGED <<live, first, seen>>

\* SIGKILL or the end of the machine: no trap runs.
Kill(r) ==
    /\ pc[r] \in Working
    /\ pc' = [pc EXCEPT ![r] = "killed"]
    /\ UNCHANGED <<live, out, tmp, at, first, seen>>

Next ==
    \/ \E a \in Archives : Change(a)
    \/ \E r \in Runs :
        \/ \E a \in {0, 1} \cap Archives : Start(r, a)
        \/ Missing(r)
        \/ Present(r)
        \/ TarBegin(r)
        \/ TarEnd(r)
        \/ TarFails(r)
        \/ List(r)
        \/ ListFails(r)
        \/ Move(r)
        \/ Kill(r)

Spec == Init /\ [][Next]_vars

-----------------------------------------------------------------------------
(* Properties.                                                             *)

\* Directories, archives and runs have their types.
TypeOK ==
    /\ live \in [Archives -> 0..MaxGen]
    /\ out \in [Archives -> Files \cup {NoFile}]
    /\ tmp \in [Runs -> [Archives -> Files \cup {NoFile}]]
    /\ pc \in [Runs -> {"idle"} \cup Working \cup Ended]
    /\ at \in [Runs -> Archives]
    /\ first \in [Runs -> {0, 1}]
    /\ seen \in [Runs -> [Archives -> 0..MaxGen]]

\* The archives as a restoring machine sees them: a file that is not whole is
\* none of the values an AtomicArchive has.
Restorable == [a \in Archives |->
    IF out[a] = NoFile THEN NoFile ELSE IF out[a].whole THEN out[a].gen ELSE 0]

Archive == INSTANCE AtomicArchive WITH
    out <- Restorable, Generations <- Gens, NoArchive <- NoFile, Ordered <- Exclusive

\* Each archive is replaced whole, in one step, by one that is not older,
\* wherever runs fail or are killed.
RefinesArchive == Archive!Spec

\* The archives of existing directories that a run has behind it.
Passed(r, a) ==
    /\ pc[r] # "idle"
    /\ first[r] <= a
    /\ a < at[r] \/ pc[r] = "done"
    /\ seen[r][a] # 0

\* What a run has behind it is persisted, in the state it had when the run
\* began or a later one, whether the run then succeeds, fails or is killed: a
\* cache is never archived on top of a venv older than its run found.
PrefixIsFresh ==
    \A r \in Runs, a \in Archives :
        Passed(r, a) => out[a] # NoFile /\ out[a].gen >= seen[r][a]

\* What a run has behind it is persisted and whole, even when runs overlap.
PrefixIsWhole ==
    \A r \in Runs, a \in Archives : Passed(r, a) => out[a] # NoFile /\ out[a].whole

\* A run that ended on its own leaves no temporary archive behind.
NoLeftovers ==
    \A r \in Runs, a \in Archives : pc[r] \in {"done", "failed"} => tmp[r][a] = NoFile

-----------------------------------------------------------------------------
(* The inductive strengthening that the proofs use.                        *)

AtMostOne ==
    Exclusive => \A r, s \in Runs :
        pc[r] \in Working /\ pc[s] \in Working => r = s

\* What each command of a run has established about its temporary file.
TmpProgress ==
    \A r \in Runs :
        /\ pc[r] = "tar" => live[at[r]] # 0
        /\ pc[r] \in {"tarring", "verify", "move"} => tmp[r][at[r]] \in Files
        /\ pc[r] = "move" => tmp[r][at[r]].whole
        /\ Exclusive /\ pc[r] \in {"tarring", "verify", "move"} /\ out[at[r]] # NoFile =>
             out[at[r]].gen <= tmp[r][at[r]].gen
        /\ pc[r] \in {"tarring", "verify", "move"} =>
             tmp[r][at[r]].gen <= live[at[r]]

OutIsWhole ==
    \A a \in Archives : out[a] # NoFile => out[a].whole /\ out[a].gen <= live[a]

ArchiveInv == TypeOK /\ AtMostOne /\ TmpProgress /\ OutIsWhole

\* Directories only move on from what a run saw and then archived.
SeenIsPast ==
    \A r \in Runs :
        /\ \A a \in Archives : seen[r][a] <= live[a]
        /\ pc[r] \in {"tarring", "verify", "move"} =>
             seen[r][at[r]] <= tmp[r][at[r]].gen

\* What a run has behind it is there, and fresh if runs do not overlap.
PrefixIsKept ==
    \A r \in Runs, a \in Archives :
        Passed(r, a) => out[a] # NoFile /\ (Exclusive => out[a].gen >= seen[r][a])

FreshInv == ArchiveInv /\ SeenIsPast /\ PrefixIsKept

=============================================================================
