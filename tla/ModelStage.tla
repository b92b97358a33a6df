------------------------------ MODULE ModelStage ------------------------------
(***************************************************************************)
(* The checkpoint on disk and who touches it: the download that fills the  *)
(* persistent directory, stage_model_local.sh, which copies it to a hot    *)
(* directory on local disk through a temporary one, and the launchers that *)
(* choose between the two and load what they chose.  A directory is the    *)
(* set of its files: the shards, the index, "config" for the files that    *)
(* the stager compares byte by byte, and "other" for those it never names. *)
(***************************************************************************)
EXTENDS FiniteSets

CONSTANTS
    Stagers,       \* executions of stage_model_local.sh, with distinct pids
    Launchers,     \* executions of 02_serve_vllm.sh or 02_serve_sglang.sh
    Shards,        \* the model-*.safetensors files (48 of them)
    Serial         \* TRUE: a stager starts only when no other is running

Verified == Shards \cup {"index", "config"}

Files == Verified \cup {"other"}

\* The contents of a path without a directory: no set of files.
NoDir == {"no directory"}

ASSUME SerialAssumption == Serial \in BOOLEAN
ASSUME ShardsAssumption ==
    Shards # {} /\ {"index", "config", "other", "no directory"} \cap Shards = {}

VARIABLES
    src,           \* the persistent directory
    dst,           \* the hot directory
    nested,        \* a temporary directory was moved into the hot one
    \* per stager
    stage,         \* its next command
    tmp,           \* its directory DST.tmp.$$
    todo,          \* what its cp has listed and not copied yet
    \* per launcher
    launch,        \* its next command
    choice,        \* the directory it serves from: "hot" or "persistent"
    loaded         \* the files it has read

stagerVars == <<stage, tmp, todo>>
launcherVars == <<launch, choice, loaded>>
vars == <<src, dst, nested, stagerVars, launcherVars>>

Staging == {"source", "target", "copy", "compare", "remove", "move"}
Launching == {"test", "shards", "index", "recount", "load"}

\* What count_shards and count_model_shards count are all the shards.
AllShards(d) == Shards \subseteq d

\* The test of the scripts: all shards and the index.
Complete(d) == AllShards(d) /\ "index" \in d

\* Every file that a stager compares with its source is there.
Whole(d) == Verified \subseteq d

\* The hot directory may hold what an interrupted copy left there.
Init ==
    /\ src = {}
    /\ dst \in {NoDir} \cup {d \in SUBSET Files : ~Complete(d)}
    /\ nested = FALSE
    /\ stage = [s \in Stagers |-> "idle"]
    /\ tmp = [s \in Stagers |-> NoDir]
    /\ todo = [s \in Stagers |-> {}]
    /\ launch = [l \in Launchers |-> "idle"]
    /\ choice = [l \in Launchers |-> "persistent"]
    /\ loaded = [l \in Launchers |-> {}]

\* modelscope download keeps the files that are there and fetches one more.
Download(f) ==
    /\ f \notin src
    /\ src' = src \cup {f}
    /\ UNCHANGED <<dst, nested, stagerVars, launcherVars>>

-----------------------------------------------------------------------------
(* stage_model_local.sh                                                    *)

StartStager(s) ==
    /\ stage[s] = "idle"
    /\ Serial => \A t \in Stagers : stage[t] \notin Staging
    /\ stage' = [stage EXCEPT ![s] = "source"]
    /\ UNCHANGED <<src, dst, nested, tmp, todo, launcherVars>>

TestSource(s) ==
    /\ stage[s] = "source"
    /\ stage' = [stage EXCEPT ![s] = IF Complete(src) THEN "target" ELSE "failed"]
    /\ UNCHANGED <<src, dst, nested, tmp, todo, launcherVars>>

\* Mutant: the script copies again what is complete already.
TestTargetNever(s) ==
    /\ stage[s] = "target"
    /\ stage' = [stage EXCEPT ![s] = "copy"]
    /\ tmp' = [tmp EXCEPT ![s] = {}]
    /\ todo' = [todo EXCEPT ![s] = src]
    /\ UNCHANGED <<src, dst, nested, launcherVars>>

\* Mutant: the temporary directory is not made.
TestTargetNoMkdir(s) ==
    /\ stage[s] = "target"
    /\ stage' = [stage EXCEPT ![s] = IF Complete(dst) THEN "done" ELSE "copy"]
    /\ todo' = [todo EXCEPT ![s] = IF Complete(dst) THEN @ ELSE src]
    /\ UNCHANGED <<src, dst, nested, tmp, launcherVars>>

\* "already complete"; or mkdir of the temporary directory, and cp lists the
\* source.
TestTarget(s) ==
    /\ stage[s] = "target"
    /\ IF Complete(dst)
         THEN stage' = [stage EXCEPT ![s] = "done"] /\ UNCHANGED <<tmp, todo>>
         ELSE /\ stage' = [stage EXCEPT ![s] = "copy"]
              /\ tmp' = [tmp EXCEPT ![s] = {}]
              /\ todo' = [todo EXCEPT ![s] = src]
    /\ UNCHANGED <<src, dst, nested, launcherVars>>

CopyFile(s, f) ==
    /\ stage[s] = "copy"
    /\ f \in todo[s]
    /\ tmp' = [tmp EXCEPT ![s] = @ \cup {f}]
    /\ todo' = [todo EXCEPT ![s] = @ \ {f}]
    /\ UNCHANGED <<src, dst, nested, stage, launcherVars>>

CopyEnds(s) ==
    /\ stage[s] = "copy"
    /\ todo[s] = {}
    /\ stage' = [stage EXCEPT ![s] = "compare"]
    /\ UNCHANGED <<src, dst, nested, tmp, todo, launcherVars>>

CopyFails(s) ==
    /\ stage[s] = "copy"
    /\ stage' = [stage EXCEPT ![s] = "failed"]
    /\ todo' = [todo EXCEPT ![s] = {}]
    /\ UNCHANGED <<src, dst, nested, tmp, launcherVars>>

\* Mutant: only the shards are counted.
CountOnly(s) == AllShards(tmp[s])

\* The inventories agree, all shards are there, and so are the metadata files
\* that cmp reads on both sides.
Agrees(s) ==
    /\ tmp[s] = src
    /\ AllShards(tmp[s])
    /\ {"index", "config"} \subseteq tmp[s]

Compare(s) ==
    /\ stage[s] = "compare"
    /\ stage' = [stage EXCEPT ![s] = IF Agrees(s) THEN "remove" ELSE "failed"]
    /\ UNCHANGED <<src, dst, nested, tmp, todo, launcherVars>>

\* rm -rf unlinks file after file, then the directory.
RemoveFile(s, f) ==
    /\ stage[s] = "remove"
    /\ f \in dst
    /\ dst' = dst \ {f}
    /\ UNCHANGED <<src, nested, stagerVars, launcherVars>>

RemoveEnds(s) ==
    /\ stage[s] = "remove"
    /\ dst \in {NoDir, {}}
    /\ dst' = NoDir
    /\ nested' = FALSE
    /\ stage' = [stage EXCEPT ![s] = "move"]
    /\ UNCHANGED <<src, tmp, todo, launcherVars>>

\* Mutant: mv gives way to a second copy.
MoveByCopying(s) ==
    /\ stage[s] = "move"
    /\ \E part \in SUBSET tmp[s] : dst' = part
    /\ stage' = [stage EXCEPT ![s] = "done"]
    /\ UNCHANGED <<src, nested, tmp, todo, launcherVars>>

\* mv renames, unless the target exists by now: then it moves into it.
Move(s) ==
    /\ stage[s] = "move"
    /\ dst' = IF dst = NoDir THEN tmp[s] ELSE dst
    /\ nested' = (dst # NoDir)
    /\ tmp' = [tmp EXCEPT ![s] = NoDir]
    /\ stage' = [stage EXCEPT ![s] = "done"]
    /\ UNCHANGED <<src, todo, launcherVars>>

KillStager(s) ==
    /\ stage[s] \in Staging
    /\ stage' = [stage EXCEPT ![s] = "killed"]
    /\ todo' = [todo EXCEPT ![s] = {}]
    /\ UNCHANGED <<src, dst, nested, tmp, launcherVars>>

Stager(s) ==
    \/ TestSource(s)
    \/ TestTarget(s)
    \/ \E f \in Files : CopyFile(s, f)
    \/ CopyEnds(s)
    \/ CopyFails(s)
    \/ Compare(s)
    \/ \E f \in Files : RemoveFile(s, f)
    \/ RemoveEnds(s)
    \/ Move(s)

-----------------------------------------------------------------------------
(* The model selection of the launchers, and the load that follows.        *)

Chosen(l) == IF choice[l] = "hot" THEN dst ELSE src

\* With MODEL_BASE set the persistent path is authoritative.  Else the vLLM
\* launcher tests that there is a hot directory before it counts shards in it;
\* the SGLang launcher counts at once.
StartLauncher(l) ==
    /\ launch[l] = "idle"
    /\ \E first \in {"recount", "test", "shards"} : launch' = [launch EXCEPT ![l] = first]
    /\ UNCHANGED <<src, dst, nested, stagerVars, choice, loaded>>

TestHotDirectory(l) ==
    /\ launch[l] = "test"
    /\ launch' = [launch EXCEPT ![l] = IF dst = NoDir THEN "recount" ELSE "shards"]
    /\ UNCHANGED <<src, dst, nested, stagerVars, choice, loaded>>

\* find fails if there is no directory, or none any more: under errexit and
\* pipefail the script ends there.
CountHotShards(l) ==
    /\ launch[l] = "shards"
    /\ launch' = [launch EXCEPT ![l] =
                    IF dst = NoDir THEN "died"
                    ELSE IF AllShards(dst) THEN "index" ELSE "recount"]
    /\ UNCHANGED <<src, dst, nested, stagerVars, choice, loaded>>

\* Mutant: the shards alone make the hot copy eligible.
SkipHotIndex(l) ==
    /\ launch[l] = "index"
    /\ choice' = [choice EXCEPT ![l] = "hot"]
    /\ launch' = [launch EXCEPT ![l] = "recount"]
    /\ UNCHANGED <<src, dst, nested, stagerVars, loaded>>

TestHotIndex(l) ==
    /\ launch[l] = "index"
    /\ choice' = [choice EXCEPT ![l] =
                    IF "index" \in dst THEN "hot" ELSE "persistent"]
    /\ launch' = [launch EXCEPT ![l] = "recount"]
    /\ UNCHANGED <<src, dst, nested, stagerVars, loaded>>

\* SHARD_COUNT of the path chosen: the launcher refuses an incomplete one, and
\* ends with the same status where a missing one makes find fail.
Recount(l) ==
    /\ launch[l] = "recount"
    /\ launch' = [launch EXCEPT ![l] = IF AllShards(Chosen(l)) THEN "load" ELSE "refused"]
    /\ UNCHANGED <<src, dst, nested, stagerVars, choice, loaded>>

\* The server reads the files one by one, in any order; a missing one ends it.
LoadFile(l, f) ==
    /\ launch[l] = "load"
    /\ f \notin loaded[l]
    /\ IF f \in Chosen(l)
         THEN loaded' = [loaded EXCEPT ![l] = @ \cup {f}] /\ UNCHANGED launch
         ELSE launch' = [launch EXCEPT ![l] = "crashed"] /\ UNCHANGED loaded
    /\ UNCHANGED <<src, dst, nested, stagerVars, choice>>

LoadEnds(l) ==
    /\ launch[l] = "load"
    /\ loaded[l] = Files
    /\ launch' = [launch EXCEPT ![l] = "serving"]
    /\ UNCHANGED <<src, dst, nested, stagerVars, choice, loaded>>

Launcher(l) ==
    \/ StartLauncher(l)
    \/ TestHotDirectory(l)
    \/ CountHotShards(l)
    \/ TestHotIndex(l)
    \/ Recount(l)
    \/ \E f \in Files : LoadFile(l, f)
    \/ LoadEnds(l)

Next ==
    \/ \E f \in Files : Download(f)
    \/ \E s \in Stagers : StartStager(s) \/ Stager(s) \/ KillStager(s)
    \/ \E l \in Launchers : Launcher(l)

Spec == Init /\ [][Next]_vars

-----------------------------------------------------------------------------
(* Properties.                                                             *)

\* Directories, stagers and launchers have their types.
TypeOK ==
    /\ src \subseteq Files
    /\ dst \in {NoDir} \cup SUBSET Files
    /\ nested \in BOOLEAN
    /\ stage \in [Stagers -> {"idle", "done", "failed", "killed"} \cup Staging]
    /\ tmp \in [Stagers -> {NoDir} \cup SUBSET Files]
    /\ todo \in [Stagers -> SUBSET Files]
    /\ launch \in [Launchers ->
         {"idle", "died", "refused", "crashed", "serving"} \cup Launching]
    /\ choice \in [Launchers -> {"hot", "persistent"}]
    /\ loaded \in [Launchers -> SUBSET Files]

\* The test that launchers and stagers make, all shards and the index, is
\* sound: a hot directory that passes it has every file the stager verifies.
TestIsSound == Complete(dst) => Whole(dst)

\* "The launcher only auto-selects the hot copy when it is complete": what it
\* selected stays whole while it loads.
HotIsWhole ==
    \A l \in Launchers :
        choice[l] = "hot" /\ launch[l] \in {"recount", "load"} => Whole(dst)

\* Nothing that stagers do fails a launch that has chosen the hot copy: the
\* second count does not refuse what the first accepted, and a server that dies
\* for want of a file has lost none to them.  What it may lack is a file that
\* stagers never name, in a copy published before the download had fetched it.
StagingSparesHotLaunch ==
    \A l \in Launchers :
        choice[l] = "hot" =>
            /\ launch[l] \notin {"died", "refused"}
            /\ launch[l] = "crashed" => Whole(dst) /\ "other" \notin dst \cup loaded[l]

\* A stager that says "ready" or "already complete" has left a whole copy,
\* and no directory inside it.
DoneIsWhole ==
    \A s \in Stagers : stage[s] = "done" => Whole(dst) /\ ~nested

\* No step takes a file out of a whole hot copy.
WholeStays == [][Whole(dst) => Whole(dst')]_vars

\* However many stagers run, the hot directory gains a file only when there was
\* none, and then every file that the stager verifies at once: "renames
\* atomically".
FillsWhole == [][\A f \in Files : f \in dst' \ dst => dst = NoDir /\ Whole(dst')]_vars

-----------------------------------------------------------------------------
(* The inductive strengthening that the proofs use.                        *)

OneStager ==
    Serial => \A s, t \in Stagers : stage[s] \in Staging /\ stage[t] \in Staging => s = t

\* A stager past its mkdir has a temporary directory.
HasDirectory ==
    \A s \in Stagers :
        stage[s] \in {"copy", "compare", "remove", "move"} => tmp[s] \in SUBSET Files

\* What it is about to publish has passed the comparison.
ComparedIsWhole ==
    \A s \in Stagers : stage[s] \in {"remove", "move"} => Whole(tmp[s])

\* It found the hot copy incomplete, and nobody else has filled it since.
StageProgress ==
    \A s \in Stagers :
        /\ stage[s] \in {"copy", "compare", "remove", "move"} => ~Complete(dst)
        /\ stage[s] \in {"remove", "move"} => Whole(tmp[s])
        /\ stage[s] = "move" => dst = NoDir

\* After the shards were counted, an index that is there is that of a whole copy.
LaunchProgress ==
    \A l \in Launchers :
        /\ launch[l] \in {"idle", "test", "shards", "index", "died"} => choice[l] = "persistent"
        /\ launch[l] = "index" /\ "index" \in dst => Whole(dst)

TypeInv == TypeOK /\ HasDirectory

StageInv ==
    /\ TypeInv
    /\ OneStager
    /\ StageProgress
    /\ LaunchProgress
    /\ nested = FALSE
    /\ TestIsSound
    /\ HotIsWhole
    /\ StagingSparesHotLaunch
    /\ DoneIsWhole

=============================================================================
