------------------------------ MODULE PatchRepo ------------------------------
(***************************************************************************)
(* The checkout of the upstream patch repository and the script that       *)
(* prepares it, prepare_patch_repo.sh.  Git is external: a checkout is the *)
(* revision its HEAD names, the revision whose tree its index holds, and   *)
(* whether tracked files differ from the index.                            *)
(***************************************************************************)
CONSTANTS
    Rev,        \* PATCH_REPO_REV, the pinned revision
    Others,     \* other revisions, where the upstream branch may point
    Quiet       \* TRUE: nobody touches the checkout while an install runs

ASSUME RevAssumption == Rev \notin Others
ASSUME RevNames == {"absent", "unborn", "empty"} \cap ({Rev} \cup Others) = {}
ASSUME QuietAssumption == Quiet \in BOOLEAN

VARIABLES
    head,       \* "absent": no .git; "unborn": a HEAD without a commit
    index,      \* "empty" or a revision
    dirty,      \* tracked files of the work tree differ from the index
    prep        \* the next command of prepare_patch_repo.sh, or how it ended

repoVars == <<head, index, dirty, prep>>

Revs == {Rev} \cup Others

Preparing == {"clone", "status", "fetch", "checkout", "verify"}

\* git status --porcelain --untracked-files=no prints something.  With HEAD at
\* a commit and an empty index it lists every file as deleted; without a commit
\* there is nothing to compare with.
StatusPrints ==
    \/ dirty
    \/ index # head /\ ~(head = "unborn" /\ index = "empty")

\* What a file of the checkout holds: that of the pinned revision, or not.
RepoContent == IF index = Rev /\ ~dirty THEN "pinned" ELSE "other"

\* A host without the checkout, or with a clean one.
RepoInit ==
    /\ \/ head = "absent" /\ index = "empty"
       \/ head \in Revs /\ index = head
    /\ dirty = FALSE
    /\ prep = "idle"

StartPrepare ==
    /\ prep \notin Preparing
    /\ prep' = IF head = "absent" THEN "clone" ELSE "status"
    /\ UNCHANGED <<head, index, dirty>>

\* git clone --no-checkout leaves HEAD at the upstream branch and no index.
Clone ==
    /\ prep = "clone"
    /\ \E r \in Revs : head' = r
    /\ prep' = "status"
    /\ UNCHANGED <<index, dirty>>

Status ==
    /\ prep = "status"
    /\ prep' = IF StatusPrints THEN "refused" ELSE "fetch"
    /\ UNCHANGED <<head, index, dirty>>

Fetch ==
    /\ prep = "fetch"
    /\ prep' \in {"checkout", "stopped"}
    /\ UNCHANGED <<head, index, dirty>>

\* Mutant: checkout --force, which drops what stands in its way.
ForceCheckout ==
    /\ prep = "checkout"
    /\ head' = Rev
    /\ index' = Rev
    /\ dirty' = FALSE
    /\ prep' = "verify"

\* git checkout carries a local change along, or fails: when a changed file
\* differs between the revisions, among others.
Checkout ==
    /\ prep = "checkout"
    /\ \/ /\ prep' = "stopped"
          /\ UNCHANGED <<head, index>>
       \/ /\ head' = Rev
          /\ index' = Rev
          /\ prep' = "verify"
    /\ UNCHANGED dirty

\* rev-parse HEAD, and every required file is there.
Verify ==
    /\ prep = "verify"
    /\ prep' = IF head = Rev THEN "done" ELSE "stopped"
    /\ UNCHANGED <<head, index, dirty>>

\* A killed clone leaves a repository without commits or none; a killed checkout
\* leaves files, the index and HEAD at either revision.
KillPrepare ==
    /\ prep \in Preparing
    /\ prep' = "stopped"
    /\ CASE prep = "clone" ->
              head' \in {"absent", "unborn"} /\ UNCHANGED <<index, dirty>>
         [] prep = "checkout" ->
              /\ index' \in {index, Rev}
              /\ dirty' \in IF index' = "empty" THEN {dirty} ELSE {dirty, TRUE}
              /\ UNCHANGED head
         [] OTHER -> UNCHANGED <<head, index, dirty>>

-----------------------------------------------------------------------------
(* The operator.                                                           *)

Edit ==
    /\ index \in Revs
    /\ dirty' = TRUE
    /\ UNCHANGED <<head, index, prep>>

\* git checkout of another revision, or git reset --hard, by hand.
Reset ==
    /\ head # "absent"
    /\ \E r \in Revs : head' = r /\ index' = r
    /\ dirty' = FALSE
    /\ UNCHANGED prep

Prepare ==
    \/ StartPrepare
    \/ Clone
    \/ Status
    \/ Fetch
    \/ Checkout
    \/ Verify
    \/ KillPrepare

Operator == Edit \/ Reset

=============================================================================
