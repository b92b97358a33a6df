--------------------------- MODULE RuntimeInstall ---------------------------
(***************************************************************************)
(* install_vllm_nightly.sh, which builds the runtime in the venv from the  *)
(* wheels and from the patch checkout, audit_runtime.py, which judges it,  *)
(* and the loss of a GPU host, whose local disk goes while the persistent  *)
(* storage stays.  Wheels and the project's own overlays never change.     *)
(***************************************************************************)
EXTENDS PatchRepo

CONSTANTS
    Upstream,   \* overlays taken as they are from the patch checkout
    Own         \* overlays that this project provides

ASSUME OverlaysAssumption ==
    /\ Own \cap Upstream = {}
    /\ {"mxfp4", "topk", "dist", "opus", "table", "jit"} \cap (Upstream \cup Own) = {}

VARIABLES
    site,       \* the content of the installed files, and of /opt/cj-moe ("jit")
    artifact,   \* the decompressed top-k library in the patch checkout
    step,       \* the next step of the installer, or how it ended
    archive,    \* the files in the persistent vllm.tar.gz
    unaudited,  \* history: the archive was taken by hand, of a venv not Validated
    passed      \* audit_runtime.py has passed the present state

vars == <<repoVars, site, artifact, step, archive, unaudited, passed>>

Overlays == Upstream \cup Own \cup {"mxfp4"}

\* The files that the wheels bring, "dist" being their metadata.
PipFiles == Overlays \cup {"topk", "dist"}

VenvFiles == PipFiles \cup {"opus", "table"}

SiteFiles == VenvFiles \cup {"jit"}

\* "compat" is the pinned mxfp4 overlay with the signature edit.
Contents == {"absent", "wheel", "torn", "pinned", "other", "compat"}

NoArchive == [f \in VenvFiles |-> "absent"]

Installing ==
    {"gate", "pip", "topk", "overlays", "opus", "table", "jit", "compat", "snapshot"}

Init ==
    /\ RepoInit
    /\ site = [f \in SiteFiles |-> "absent"]
    /\ artifact = "absent"
    /\ step = "idle"
    /\ archive = NoArchive
    /\ unaudited = FALSE
    /\ passed = FALSE

\* The content of overlay o in its source: this project's, or the checkout's.
Source(o) == IF o \in Own THEN "pinned" ELSE RepoContent

\* The steps of the installer that copy, and the files that each writes.
Copying == {"pip", "overlays", "opus", "table", "jit"}

Files(s) ==
    CASE s = "pip" -> PipFiles
      [] s = "overlays" -> Overlays \cup {"topk"}
      [] OTHER -> {s}

\* What step s writes to f.
New(s, f) ==
    IF s = "pip" THEN "wheel"
    ELSE IF f = "topk" THEN artifact ELSE Source(f)

After(s) ==
    CASE s = "pip" -> "topk"
      [] s = "overlays" -> "opus"
      [] s = "opus" -> "table"
      [] s = "table" -> "jit"
      [] s = "jit" -> "compat"

-----------------------------------------------------------------------------
(* install_vllm_nightly.sh                                                 *)

StartInstall ==
    /\ step \notin Installing
    /\ Quiet => prep \notin Preparing
    /\ step' = "gate"
    /\ passed' = FALSE
    /\ UNCHANGED <<repoVars, site, artifact, archive, unaudited>>

\* Mutant: local changes of the checkout are let through.
GateOnRevision ==
    /\ step = "gate"
    /\ step' = IF head = Rev THEN "pip" ELSE "stopped"
    /\ UNCHANGED <<repoVars, site, artifact, archive, unaudited, passed>>

\* The checkout is at the pinned revision and clean.
Gate ==
    /\ step = "gate"
    /\ step' = IF head = Rev /\ ~StatusPrints THEN "pip" ELSE "stopped"
    /\ UNCHANGED <<repoVars, site, artifact, archive, unaudited, passed>>

\* Steps 3, 5 with the top-k library, 6, 7 and 8.
Write(s) ==
    /\ step = s
    /\ site' = [f \in SiteFiles |-> IF f \in Files(s) THEN New(s, f) ELSE site[f]]
    /\ step' = After(s)
    /\ UNCHANGED <<repoVars, artifact, archive, unaudited, passed>>

\* Mutant: an artifact that is there is taken without its checksum.
TrustArtifact ==
    /\ step = "topk"
    /\ artifact' = IF artifact = "absent" THEN "pinned" ELSE artifact
    /\ step' = "overlays"
    /\ UNCHANGED <<repoVars, site, archive, unaudited, passed>>

\* Step 4: a verified artifact is kept, anything else is decompressed again.
TopK ==
    /\ step = "topk"
    /\ artifact' = "pinned"
    /\ step' = "overlays"
    /\ UNCHANGED <<repoVars, site, archive, unaudited, passed>>

\* Mutant: the snapshot takes the host's kernel source along.
SnapshotWithKernels ==
    /\ step = "snapshot"
    /\ archive' = site
    /\ unaudited' = FALSE
    /\ step' = "done"
    /\ UNCHANGED <<repoVars, site, artifact, passed>>

\* Mutant: the edit is made only on what the wheel brought.
CompatOnWheel ==
    /\ step = "compat"
    /\ site' = [site EXCEPT !["mxfp4"] = IF @ = "wheel" THEN "compat" ELSE @]
    /\ step' = "snapshot"
    /\ UNCHANGED <<repoVars, artifact, archive, unaudited, passed>>

\* Step 9: sed replaces the file by an edited one, unless it has the edit.
Compat ==
    /\ step = "compat"
    /\ site' = [site EXCEPT !["mxfp4"] = IF @ = "pinned" THEN "compat" ELSE @]
    /\ step' = "snapshot"
    /\ UNCHANGED <<repoVars, artifact, archive, unaudited, passed>>

\* Step 10: snapshot_runtime_state.sh publishes the venv, all or nothing.
Snapshot ==
    /\ step = "snapshot"
    /\ archive' = [f \in VenvFiles |-> site[f]]
    /\ unaudited' = FALSE
    /\ step' = "done"
    /\ UNCHANGED <<repoVars, site, artifact, passed>>

\* What step s has made of the files when only part of it has run: of the files
\* it writes some are written, at most one is cut short, the others are as before.
PartOf(s) ==
    IF s \in Copying
      THEN {[f \in SiteFiles |->
               IF f \in written THEN New(s, f) ELSE IF f \in torn THEN "torn" ELSE site[f]] :
             written \in SUBSET Files(s), torn \in {{}} \cup {{f} : f \in Files(s)}}
      ELSE {site}

\* A kill, or a command that fails.
Interrupt ==
    /\ step \in Installing
    /\ site' \in PartOf(step)
    /\ artifact' \in IF step = "topk" THEN {artifact, "torn"} ELSE {artifact}
    /\ step' = "stopped"
    /\ UNCHANGED <<repoVars, archive, unaudited, passed>>

Install ==
    \/ StartInstall
    \/ Gate
    \/ \E s \in Copying : Write(s)
    \/ TopK
    \/ Compat
    \/ Snapshot
    \/ Interrupt

-----------------------------------------------------------------------------
(* audit_runtime.py, run while no installer runs.                          *)

\* Mutant: an overlay is accepted when it is there.
AcceptedIfThere(o) == site[o] # "absent"

\* The byte comparison of overlay o, with the tolerance for the signature edit.
Accepted(o) == site[o] = Source(o) \/ (o = "mxfp4" /\ site[o] = "compat")

AuditPasses ==
    /\ site["dist"] = "wheel"
    /\ head = Rev
    /\ \A o \in Overlays : Accepted(o)
    /\ site["topk"] = "pinned"
    /\ site["opus"] # "absent"
    /\ site["jit"] # "absent"
    /\ archive # NoArchive

Audit ==
    /\ step \notin Installing
    /\ passed' = AuditPasses
    /\ UNCHANGED <<repoVars, site, artifact, step, archive, unaudited>>

-----------------------------------------------------------------------------
(* The host, the launcher's copy of the kernel source, and the operator.   *)

\* The documented order before a snapshot by hand: an audit, then a server that
\* starts, which it does not without the signature edit, and its warm-up.
Validated == passed /\ site["mxfp4"] = "compat"

\* snapshot_runtime_state.sh, by hand or at the end of warmup_runtime.sh, asks of
\* the venv only that the vllm wheel has been there, and reads whatever is there
\* while it runs.
SnapshotByHand ==
    /\ \E f \in PipFiles : site[f] # "absent"
    /\ \E s \in PartOf(step) : archive' = [f \in VenvFiles |-> s[f]]
    /\ unaudited' = ~Validated
    /\ UNCHANGED <<repoVars, site, artifact, step, passed>>

\* A new GPU host: the local disk is empty, and the scripts were killed before.
LoseHost ==
    /\ prep \notin Preparing
    /\ step \notin Installing
    /\ site' = [f \in SiteFiles |-> "absent"]
    /\ step' = "idle"
    /\ passed' = FALSE
    /\ UNCHANGED <<repoVars, artifact, archive, unaudited>>

\* The bootstrap unpacks the archive into the venv directory.
Restore ==
    /\ step = "idle"
    /\ archive # NoArchive
    /\ site' = [f \in SiteFiles |-> IF f \in VenvFiles THEN archive[f] ELSE site[f]]
    /\ passed' = FALSE
    /\ UNCHANGED <<repoVars, artifact, step, archive, unaudited>>

\* 02_serve_vllm.sh copies the kernel source when the directory is missing; a
\* copy that is cut short is a directory, and stays.
CopyKernelSource ==
    /\ step \notin Installing
    /\ site["jit"] = "absent"
    /\ index # "empty"
    /\ \E c \in {"torn", RepoContent} : site' = [site EXCEPT !["jit"] = c]
    /\ passed' = FALSE
    /\ UNCHANGED <<repoVars, artifact, step, archive, unaudited>>

\* Someone else changes the checkout.
Checkouts ==
    /\ Quiet => step \notin Installing
    /\ Prepare \/ Operator
    /\ passed' = FALSE
    /\ UNCHANGED <<site, artifact, step, archive, unaudited>>

Host == Install \/ Audit \/ LoseHost \/ Restore \/ CopyKernelSource

Next == Checkouts \/ Host \/ SnapshotByHand

Spec == Init /\ [][Next]_vars

-----------------------------------------------------------------------------
(* Properties.                                                             *)

\* The checkout, the files and the scripts have their types.
TypeOK ==
    /\ head \in {"absent", "unborn"} \cup Revs
    /\ index \in {"empty"} \cup Revs
    /\ dirty \in BOOLEAN
    /\ prep \in {"idle", "done", "refused", "stopped"} \cup Preparing
    /\ site \in [SiteFiles -> Contents]
    /\ artifact \in {"absent", "torn", "pinned"}
    /\ step \in {"idle", "done", "stopped"} \cup Installing
    /\ archive \in [VenvFiles -> Contents]
    /\ unaudited \in BOOLEAN
    /\ passed \in BOOLEAN

\* The declared runtime: every overlay as pinned, mxfp4 with its edit, the
\* artifacts whole.
Declared(s) ==
    /\ s["dist"] = "wheel"
    /\ \A o \in Upstream \cup Own : s[o] = "pinned"
    /\ s["mxfp4"] = "compat"
    /\ \A f \in {"topk", "opus", "table"} : s[f] = "pinned"

\* An installer that ends well has built the declared runtime, whatever earlier
\* installers that were cut short had left in the venv.
DoneIsDeclared == step = "done" => Declared(site)

\* The persistent archive is that of the declared runtime, whoever of installers
\* and operators replaced it how often, unless its last writer was a snapshot by
\* hand of a venv that was not audited or not served from.
ArchiveIsDeclared == archive # NoArchive /\ ~unaudited => Declared(archive)

\* A runtime that no step has left half-built: every file is there, none is
\* torn or that of the wheel, and what does not come from the checkout is as
\* declared.
Finished(s) ==
    /\ s["dist"] = "wheel"
    /\ \A f \in Own \cup {"topk"} : s[f] = "pinned"
    /\ \A f \in Upstream \cup {"opus", "table"} : s[f] \in {"pinned", "other"}
    /\ s["mxfp4"] \in {"compat", "other"}

\* Whoever changes the checkout or takes snapshots meanwhile, an installer that
\* ends well has left nothing half-built.
NeverHalfBuilt == step = "done" => Finished(site)

\* Nor does it publish anything half-built itself.
PublishesFinished == [][Snapshot => Finished(archive')]_vars

\* "Refusing to mix an unpinned overlay source into the validated dev306
\* runtime": no file of the venv comes from another revision or an edited file.
NothingUnpinned == \A f \in VenvFiles : site[f] # "other"

\* The signature edit is all that the audit misses: a venv that it has passed and
\* that has the edit is the declared runtime, the tuning table that the audit does
\* not read and the module that it only looks for included, after any number of
\* installers cut short, lost hosts and restored archives.
EditedPassIsDeclared == passed /\ site["mxfp4"] = "compat" => Declared(site)

\* prepare_patch_repo.sh never loses an operator's edit.
EditsAreKept == [][dirty => dirty' \/ Reset]_vars

\* "AUDIT PASSED: runtime matches the declared stable dev306 port."
AuditIsSound == passed => Declared(site)

\* "has tracked local changes; refusing to switch revisions": what it refuses
\* has been checked out once, so that there is something to lose.
RefusesOnlyChanges ==
    [][prep = "status" /\ prep' = "refused" => dirty \/ index # "empty"]_vars

-----------------------------------------------------------------------------
(* The inductive strengthening that the proofs use.                        *)

\* From the gate on, the installer reads the pinned revision.
ReadsPinned ==
    /\ step \in Installing => prep \notin Preparing
    /\ step \in Installing \ {"gate"} => head = Rev /\ RepoContent = "pinned"

\* What the steps before the present one have written is still there.
Progress ==
    /\ step \in Installing \ {"gate", "pip"} => site["dist"] = "wheel"
    /\ step = "overlays" => artifact = "pinned"
    /\ step \in Installing \ {"gate", "pip", "topk", "overlays"} =>
         \A f \in Upstream \cup Own \cup {"topk"} : site[f] = "pinned"
    /\ step \in {"opus", "table", "jit", "compat"} => site["mxfp4"] = "pinned"
    /\ step \in {"table", "jit", "compat", "snapshot"} => site["opus"] = "pinned"
    /\ step \in {"jit", "compat", "snapshot"} => site["table"] = "pinned"
    /\ step = "snapshot" => site["mxfp4"] = "compat"

\* The same without what the checkout holds.
Steps ==
    /\ step \in Installing \ {"gate", "pip"} => site["dist"] = "wheel"
    /\ step = "overlays" => artifact = "pinned"
    /\ step \in Installing \ {"gate", "pip", "topk", "overlays"} =>
         /\ \A f \in Own \cup {"topk"} : site[f] = "pinned"
         /\ \A f \in Upstream : site[f] \in {"pinned", "other"}
    /\ step \in {"opus", "table", "jit", "compat"} => site["mxfp4"] \in {"pinned", "other"}
    /\ step \in {"table", "jit", "compat", "snapshot"} => site["opus"] \in {"pinned", "other"}
    /\ step \in {"jit", "compat", "snapshot"} => site["table"] \in {"pinned", "other"}
    /\ step = "snapshot" => site["mxfp4"] \in {"compat", "other"}

StepsInv == TypeOK /\ Steps /\ NeverHalfBuilt

\* The edit is the last change of an installation: a file that has it stands
\* beside the artifacts that were copied before it.
EditIsLast(s) == s["mxfp4"] = "compat" => s["opus"] = "pinned" /\ s["table"] = "pinned"

InstallInv ==
    /\ TypeOK
    /\ ReadsPinned
    /\ Progress
    /\ passed => step \notin Installing
    /\ DoneIsDeclared
    /\ ArchiveIsDeclared
    /\ NothingUnpinned
    /\ \A f \in VenvFiles : archive[f] # "other"
    /\ EditIsLast(site) /\ EditIsLast(archive)
    /\ EditedPassIsDeclared

=============================================================================
