------------------------- MODULE RuntimeInstallProofs -------------------------
(***************************************************************************)
(* Proofs about RuntimeInstall, for any overlays and upstream revisions.   *)
(* Types hold in every instance; what an installer builds is the declared  *)
(* runtime when nobody touches the patch checkout while it runs.           *)
(***************************************************************************)
EXTENDS RuntimeInstall, TLAPS

USE OverlaysAssumption, RevAssumption, RevNames

\* The files and the steps are what they are.
LEMMA FileFacts ==
    /\ \A o \in Overlays : o \in PipFiles /\ o \in VenvFiles /\ o \in SiteFiles
    /\ PipFiles \subseteq VenvFiles /\ VenvFiles \subseteq SiteFiles
    /\ {"mxfp4", "topk", "dist", "opus", "table"} \subseteq VenvFiles
    /\ "jit" \in SiteFiles \ VenvFiles
    /\ "topk" \notin Overlays /\ "mxfp4" \in Overlays
  BY DEF Overlays, PipFiles, VenvFiles, SiteFiles

\* Whatever a step writes is a content a file can have.
LEMMA NewContents ==
    ASSUME TypeOK, NEW s, NEW f PROVE New(s, f) \in Contents
  BY DEF TypeOK, New, Source, RepoContent, Contents

\* Each file of a step that has run in part is written, cut short or as before.
LEMMA PartFacts ==
    ASSUME TypeOK, NEW s \in PartOf(step)
    PROVE  /\ s \in [SiteFiles -> Contents]
           /\ step \notin Copying => s = site
           /\ \A f \in SiteFiles :
                \/ s[f] = site[f]
                \/ f \in Files(step) /\ s[f] \in {"torn", New(step, f)}
<1>1. CASE step \in Copying
  <2>1. PICK written \in SUBSET Files(step), torn \in {{}} \cup {{f} : f \in Files(step)} :
          s = [f \in SiteFiles |-> IF f \in written THEN New(step, f)
                                   ELSE IF f \in torn THEN "torn" ELSE site[f]]
    BY <1>1 DEF PartOf
  <2>2. torn \subseteq Files(step)
    OBVIOUS
  <2> QED
    BY <1>1, <2>1, <2>2, NewContents DEF TypeOK, Contents
<1>2. CASE step \notin Copying
  BY <1>2 DEF PartOf, TypeOK
<1> QED
  BY <1>1, <1>2

-----------------------------------------------------------------------------

LEMMA TypeInit == Init => TypeOK
  BY DEF Init, RepoInit, TypeOK, NoArchive, Contents, Revs, Preparing, Installing

\* The checkout's own steps keep the types.
LEMMA RepoTypes ==
    ASSUME TypeOK, Checkouts PROVE TypeOK'
<1> USE DEF TypeOK
<1>1. UNCHANGED <<site, artifact, step, archive, unaudited>> /\ passed' = FALSE
  BY DEF Checkouts
<1>2. head' \in {"absent", "unborn"} \cup Revs /\ index' \in {"empty"} \cup Revs
      /\ dirty' \in BOOLEAN
      /\ prep' \in {"idle", "done", "refused", "stopped"} \cup Preparing
  <2>1. CASE StartPrepare
    BY <2>1 DEF StartPrepare, Preparing
  <2>2. CASE Clone
    BY <2>2 DEF Clone, Preparing
  <2>3. CASE Status
    BY <2>3 DEF Status, Preparing
  <2>4. CASE Fetch
    BY <2>4 DEF Fetch, Preparing
  <2>5. CASE Checkout
    BY <2>5 DEF Checkout, Preparing, Revs
  <2>6. CASE Verify
    BY <2>6 DEF Verify
  <2>7. CASE KillPrepare
    BY <2>7 DEF KillPrepare, Revs
  <2>8. CASE Edit
    BY <2>8 DEF Edit
  <2>9. CASE Reset
    BY <2>9 DEF Reset
  <2> QED
    BY <2>1, <2>2, <2>3, <2>4, <2>5, <2>6, <2>7, <2>8, <2>9 DEF Checkouts, Prepare, Operator
<1> QED
  BY <1>1, <1>2

LEMMA TypeStep == TypeOK /\ [Next]_vars => TypeOK'
<1> SUFFICES ASSUME TypeOK, [Next]_vars PROVE TypeOK'
  OBVIOUS
<1> USE DEF TypeOK, Installing
<1>1. CASE Checkouts
  BY <1>1, RepoTypes
<1>2. CASE StartInstall
  BY <1>2 DEF StartInstall, repoVars
<1>3. CASE Gate
  BY <1>3 DEF Gate, repoVars
<1>4. ASSUME NEW s \in Copying, Write(s) PROVE TypeOK'
  <2>1. site' \in [SiteFiles -> Contents]
    BY <1>4, NewContents DEF Write
  <2>2. After(s) \in Installing
    BY <1>4 DEF After, Copying
  <2> QED
    BY <1>4, <2>1, <2>2 DEF Write, repoVars
<1>5. CASE TopK
  BY <1>5 DEF TopK, repoVars
<1>6. CASE Compat
  <2>1. site' \in [SiteFiles -> Contents]
    BY <1>6 DEF Compat, Contents
  <2> QED
    BY <1>6, <2>1 DEF Compat, repoVars
<1>7. CASE Snapshot
  <2>1. archive' \in [VenvFiles -> Contents]
    BY <1>7, FileFacts DEF Snapshot
  <2> QED
    BY <1>7, <2>1 DEF Snapshot, repoVars
<1>8. CASE Interrupt
  BY <1>8, PartFacts DEF Interrupt, repoVars
<1>9. CASE Audit
  BY <1>9 DEF Audit, AuditPasses, repoVars
<1>10. CASE LoseHost
  BY <1>10 DEF LoseHost, repoVars, Contents
<1>11. CASE Restore
  BY <1>11 DEF Restore, repoVars
<1>12. CASE CopyKernelSource
  <2>1. site' \in [SiteFiles -> Contents]
    BY <1>12 DEF CopyKernelSource, RepoContent, Contents
  <2> QED
    BY <1>12, <2>1 DEF CopyKernelSource, repoVars
<1>13. CASE SnapshotByHand
  <2>1. archive' \in [VenvFiles -> Contents]
    BY <1>13, PartFacts, FileFacts DEF SnapshotByHand
  <2> QED
    BY <1>13, <2>1 DEF SnapshotByHand, repoVars
<1>14. CASE UNCHANGED vars
  BY <1>14 DEF vars, repoVars
<1> QED
  BY <1>1, <1>2, <1>3, <1>4, <1>5, <1>6, <1>7, <1>8, <1>9, <1>10, <1>11, <1>12, <1>13, <1>14
     DEF Next, Host, Install

\* The checkout, the files and the scripts keep their types.
THEOREM InstallTypes == Spec => []TypeOK
  BY TypeInit, TypeStep, PTL DEF Spec

-----------------------------------------------------------------------------
(* What an installer builds.                                               *)

\* The invariant without its type part, which TypeStep keeps.
Built ==
    /\ ReadsPinned
    /\ Progress
    /\ passed => step \notin Installing
    /\ DoneIsDeclared
    /\ ArchiveIsDeclared
    /\ NothingUnpinned
    /\ \A f \in VenvFiles : archive[f] # "other"
    /\ EditIsLast(site) /\ EditIsLast(archive)
    /\ EditedPassIsDeclared

LEMMA InstallInit == Init => InstallInv
<1> SUFFICES ASSUME Init PROVE InstallInv
  OBVIOUS
<1>1. TypeOK
  BY TypeInit
<1>2. \A f \in VenvFiles : site[f] = "absent" /\ archive[f] = "absent"
  BY FileFacts DEF Init, NoArchive
<1>3. EditIsLast(site) /\ EditIsLast(archive)
  BY <1>2, FileFacts DEF EditIsLast
<1> QED
  BY <1>1, <1>2, <1>3 DEF Init, RepoInit, InstallInv, ReadsPinned, Progress, Installing, Preparing,
     DoneIsDeclared, ArchiveIsDeclared, NothingUnpinned, EditedPassIsDeclared

\* A step that leaves the files and the archive alone, and is not an audit.
LEMMA SameFiles ==
    ASSUME InstallInv, UNCHANGED <<site, archive, unaudited>>, passed' => passed,
           passed' => step' \notin Installing
    PROVE  /\ ArchiveIsDeclared'
           /\ NothingUnpinned'
           /\ (\A f \in VenvFiles : archive[f] # "other")'
           /\ EditIsLast(site') /\ EditIsLast(archive')
           /\ EditedPassIsDeclared'
           /\ passed' => step' \notin Installing
  BY DEF InstallInv, ArchiveIsDeclared, NothingUnpinned, EditedPassIsDeclared

\* A step of the installer that writes to the venv and leaves the archive alone.
LEMMA SameArchive ==
    ASSUME InstallInv, UNCHANGED <<archive, unaudited>>, ~passed'
    PROVE  /\ ArchiveIsDeclared'
           /\ (\A f \in VenvFiles : archive[f] # "other")'
           /\ EditIsLast(archive')
           /\ EditedPassIsDeclared'
  BY DEF InstallInv, ArchiveIsDeclared, EditedPassIsDeclared

\* While an installer copies, what it has written so far is pinned, and the
\* edited mxfp4 overlay stands beside the artifacts of the build it comes from.
LEMMA PartIsPinned ==
    ASSUME InstallInv, NEW s \in PartOf(step)
    PROVE  (\A f \in VenvFiles : s[f] # "other") /\ EditIsLast(s)
<1>0. TypeOK
  BY DEF InstallInv
<1>1. CASE step \notin Copying
  BY <1>0, <1>1, PartFacts DEF InstallInv, NothingUnpinned
<1>2. CASE step \in Copying
  <2>1. \A f \in SiteFiles : \/ s[f] = site[f]
                             \/ f \in Files(step) /\ s[f] \in {"torn", New(step, f)}
    BY <1>0, PartFacts
  <2>2. RepoContent = "pinned"
    BY <1>2 DEF InstallInv, ReadsPinned, Installing, Copying
  <2>3. \A f : New(step, f) \notin {"other", "compat"}
    BY <1>0, <2>2 DEF New, Source, TypeOK
  <2>4. \A f \in VenvFiles : s[f] # "other"
    BY <2>1, <2>3, FileFacts DEF InstallInv, NothingUnpinned
  <2>5. ASSUME s["mxfp4"] = "compat" PROVE s["opus"] = "pinned" /\ s["table"] = "pinned"
    <3>1. site["mxfp4"] = "compat"
      BY <2>1, <2>3, <2>5, FileFacts
    <3>2. step \in {"pip", "overlays"}
      BY <1>2, <3>1 DEF InstallInv, Progress, Copying
    <3>3. {"opus", "table"} \cap Files(step) = {}
      BY <3>2 DEF Files, PipFiles, Overlays
    <3>4. site["opus"] = "pinned" /\ site["table"] = "pinned"
      BY <3>1 DEF InstallInv, EditIsLast
    <3> QED
      BY <2>1, <3>3, <3>4, FileFacts
  <2> QED
    BY <2>4, <2>5 DEF EditIsLast
<1> QED
  BY <1>1, <1>2

\* A venv that the audit has passed and that has the edit is the declared runtime.
LEMMA PassedIsDeclared ==
    ASSUME InstallInv, AuditPasses, site["mxfp4"] = "compat"
    PROVE  Declared(site)
<1>1. RepoContent \in {"pinned", "other"}
  BY DEF RepoContent
<1>2. \A o \in Upstream \cup Own : site[o] = "pinned"
  <2> SUFFICES ASSUME NEW o \in Upstream \cup Own PROVE site[o] = "pinned"
    OBVIOUS
  <2>1. o \in Overlays /\ o # "mxfp4" /\ site[o] # "other"
    BY FileFacts DEF Overlays, InstallInv, NothingUnpinned
  <2> QED
    BY <1>1, <2>1 DEF AuditPasses, Accepted, Source
<1> QED
  BY <1>2 DEF AuditPasses, Declared, InstallInv, EditIsLast

LEMMA InstallStep == ASSUME Quiet PROVE InstallInv /\ [Next]_vars => InstallInv'
<1> SUFFICES ASSUME InstallInv, [Next]_vars PROVE InstallInv'
  OBVIOUS
<1>0. TypeOK /\ TypeOK'
  BY TypeStep DEF InstallInv
<1>a. SUFFICES Built'
  BY <1>0 DEF InstallInv, Built
<1>1. CASE Checkouts
  <2>1. step \notin Installing /\ UNCHANGED <<site, artifact, step, archive, unaudited>> /\ ~passed'
    BY <1>1, <1>0 DEF Checkouts
  <2> QED
    BY <2>1, SameFiles DEF InstallInv, Built, ReadsPinned, Progress, Installing, DoneIsDeclared
<1>2. CASE StartInstall
  <2>1. ReadsPinned' /\ Progress' /\ DoneIsDeclared'
    BY <1>2, <1>0 DEF StartInstall, ReadsPinned, Progress, DoneIsDeclared, Installing, repoVars
  <2> QED
    BY <1>2, <2>1, SameFiles DEF StartInstall, Built
<1>3. CASE Gate
  <2>1. ReadsPinned'
    BY <1>3, <1>0 DEF Gate, InstallInv, ReadsPinned, Installing, repoVars, StatusPrints,
       RepoContent, TypeOK, Revs
  <2>2. Progress' /\ DoneIsDeclared'
    BY <1>3, <1>0 DEF Gate, Progress, DoneIsDeclared, Installing
  <2>3. passed' => step' \notin Installing
    BY <1>3 DEF Gate, InstallInv, Installing
  <2> QED
    BY <1>3, <2>1, <2>2, <2>3, SameFiles DEF Gate, Built
<1>4. ASSUME NEW s \in Copying, Write(s) PROVE Built'
  <2>1. step = s /\ step' = After(s) /\ UNCHANGED <<repoVars, artifact, archive, unaudited, passed>>
        /\ s \in Installing \ {"gate"}
    BY <1>4 DEF Write, Copying, Installing
  <2>2. head = Rev /\ RepoContent = "pinned" /\ prep \notin Preparing /\ ~passed
    BY <2>1 DEF InstallInv, ReadsPinned
  <2>3. ReadsPinned'
    BY <2>1, <2>2 DEF ReadsPinned, RepoContent, repoVars
  <2>4. \A f \in SiteFiles : site'[f] = IF f \in Files(s) THEN New(s, f) ELSE site[f]
    BY <1>4 DEF Write
  <2>5. \A o \in Overlays : Source(o) = "pinned"
    BY <2>2 DEF Source
  <2>6. Progress' /\ DoneIsDeclared'
    <3>1. CASE s = "pip"
      <4>1. step' = "topk" /\ site'["dist"] = "wheel"
        BY <2>1, <2>4, <3>1, FileFacts DEF After, Files, New, PipFiles
      <4> QED
        BY <4>1 DEF Progress, Installing, DoneIsDeclared
    <3>2. CASE s = "overlays"
      <4>1. step' = "opus" /\ site["dist"] = "wheel" /\ artifact = "pinned"
        BY <2>1, <3>2 DEF After, InstallInv, Progress
      <4>2. \A o \in Overlays \cup {"topk"} : site'[o] = "pinned"
        BY <2>4, <2>5, <3>2, <4>1, FileFacts DEF Files, New
      <4>3. \A f \in SiteFiles \ (Overlays \cup {"topk"}) : site'[f] = site[f]
        BY <2>4, <3>2 DEF Files
      <4>4. site'["dist"] = "wheel"
        BY <4>1, <4>3, FileFacts DEF Overlays
      <4> QED
        BY <4>1, <4>2, <4>4 DEF Progress, Installing, DoneIsDeclared, Overlays
    <3>3. CASE s \in {"opus", "table", "jit"}
      <4>1. site'[s] = "pinned"
        BY <2>2, <2>4, <3>3, FileFacts DEF Files, New, Source
      <4>2. \A f \in SiteFiles : f # s => site'[f] = site[f]
        BY <2>4, <3>3 DEF Files
      <4>3. s \notin Overlays \cup {"topk", "dist"}
        BY <3>3 DEF Overlays
      <4>5. site'["dist"] = "wheel" /\ site'["mxfp4"] = "pinned"
            /\ \A f \in Upstream \cup Own \cup {"topk"} : site'[f] = "pinned"
        BY <2>1, <3>3, <4>2, <4>3, FileFacts DEF InstallInv, Progress, Installing, Overlays
      <4>6. CASE s = "opus"
        BY <2>1, <4>1, <4>5, <4>6 DEF After, Progress, Installing, DoneIsDeclared
      <4>7. CASE s = "table"
        BY <2>1, <4>1, <4>2, <4>5, <4>7, FileFacts
           DEF After, InstallInv, Progress, Installing, DoneIsDeclared
      <4>8. CASE s = "jit"
        BY <2>1, <4>1, <4>2, <4>5, <4>8, FileFacts
           DEF After, InstallInv, Progress, Installing, DoneIsDeclared
      <4> QED
        BY <3>3, <4>6, <4>7, <4>8
    <3> QED
      BY <3>1, <3>2, <3>3 DEF Copying
  <2>7. site' \in PartOf(step)
    <3> DEFINE Mix(written, torn) ==
          [f \in SiteFiles |-> IF f \in written THEN New(s, f)
                               ELSE IF f \in torn THEN "torn" ELSE site[f]]
    <3>1. site' = Mix(Files(s), {})
      BY <1>4 DEF Write
    <3>2. PartOf(s) = {Mix(written, torn) : written \in SUBSET Files(s),
                                           torn \in {{}} \cup {{f} : f \in Files(s)}}
      BY <1>4 DEF PartOf
    <3> HIDE DEF Mix
    <3>3. Files(s) \in SUBSET Files(s) /\ {} \in {{}} \cup {{f} : f \in Files(s)}
      OBVIOUS
    <3> QED
      BY <2>1, <3>1, <3>2, <3>3
  <2>8. NothingUnpinned' /\ EditIsLast(site')
    BY <2>7, PartIsPinned DEF NothingUnpinned
  <2> QED
    BY <2>1, <2>2, <2>3, <2>6, <2>8, SameArchive DEF Built
<1>5. CASE TopK
  <2>1. ReadsPinned' /\ Progress' /\ DoneIsDeclared' /\ ~passed
    BY <1>5, <1>0 DEF TopK, InstallInv, ReadsPinned, RepoContent, repoVars, Progress,
       DoneIsDeclared, Installing
  <2> QED
    BY <1>5, <2>1, SameFiles DEF TopK, Built
<1>6. CASE Compat
  <2>1. step = "compat" /\ step' = "snapshot" /\ ~passed
        /\ UNCHANGED <<repoVars, artifact, archive, unaudited, passed>>
    BY <1>6 DEF Compat, InstallInv, Installing
  <2>2. site["mxfp4"] = "pinned"
    BY <2>1 DEF InstallInv, Progress
  <2>3. site'["mxfp4"] = "compat" /\ \A f \in SiteFiles : f # "mxfp4" => site'[f] = site[f]
    BY <1>6, <1>0, <2>2, FileFacts DEF Compat, TypeOK
  <2>4. ReadsPinned'
    BY <2>1 DEF InstallInv, ReadsPinned, RepoContent, repoVars, Installing
  <2>5. Progress' /\ DoneIsDeclared'
    BY <2>1, <2>3, FileFacts DEF InstallInv, Progress, Installing, DoneIsDeclared, Overlays
  <2>6. NothingUnpinned' /\ EditIsLast(site')
    BY <2>1, <2>3, FileFacts DEF InstallInv, NothingUnpinned, Progress, EditIsLast
  <2> QED
    BY <2>1, <2>4, <2>5, <2>6, SameArchive DEF Built
<1>7. CASE Snapshot
  <2>1. step = "snapshot" /\ step' = "done" /\ ~passed
        /\ UNCHANGED <<repoVars, site, artifact, passed>>
    BY <1>7 DEF Snapshot, InstallInv, Installing
  <2>2. Declared(site)
    BY <2>1 DEF InstallInv, Progress, Installing, Declared
  <2>3. \A f \in VenvFiles : archive'[f] = site[f]
    BY <1>7 DEF Snapshot
  <2>4. Declared(archive')
    BY <2>2, <2>3, FileFacts DEF Declared, Overlays
  <2>5. (\A f \in VenvFiles : archive'[f] # "other") /\ EditIsLast(archive')
    BY <2>3, <2>4 DEF InstallInv, NothingUnpinned, Declared, EditIsLast
  <2>6. ReadsPinned' /\ Progress' /\ DoneIsDeclared'
    BY <2>1, <2>2 DEF InstallInv, ReadsPinned, Progress, Installing, DoneIsDeclared, Declared
  <2> QED
    BY <2>1, <2>4, <2>5, <2>6 DEF Built, InstallInv, ArchiveIsDeclared, NothingUnpinned,
       EditedPassIsDeclared
<1>8. CASE Interrupt
  <2>1. step \in Installing /\ step' = "stopped" /\ ~passed
        /\ UNCHANGED <<repoVars, archive, unaudited, passed>>
    BY <1>8 DEF Interrupt, InstallInv
  <2>2. NothingUnpinned' /\ EditIsLast(site')
    BY <1>8, PartIsPinned DEF Interrupt, NothingUnpinned
  <2>3. ReadsPinned' /\ Progress' /\ DoneIsDeclared'
    BY <2>1 DEF ReadsPinned, Progress, Installing, DoneIsDeclared
  <2> QED
    BY <2>1, <2>2, <2>3, SameArchive DEF Built
<1>9. CASE Audit
  <2>1. UNCHANGED <<repoVars, site, artifact, step, archive, unaudited>> /\ step \notin Installing
        /\ (passed' => AuditPasses)
    BY <1>9 DEF Audit
  <2>2. EditedPassIsDeclared'
    BY <2>1, PassedIsDeclared DEF EditedPassIsDeclared, Declared
  <2>3. ReadsPinned' /\ Progress' /\ DoneIsDeclared'
    BY <2>1 DEF InstallInv, ReadsPinned, RepoContent, repoVars, Progress, DoneIsDeclared, Declared
  <2> QED
    BY <2>1, <2>2, <2>3 DEF Built, InstallInv, ArchiveIsDeclared, NothingUnpinned
<1>10. CASE LoseHost
  <2>1. \A f \in VenvFiles : site'[f] = "absent"
    BY <1>10, FileFacts DEF LoseHost
  <2>2. ~passed' /\ step' = "idle" /\ UNCHANGED <<repoVars, archive, unaudited>>
    BY <1>10 DEF LoseHost
  <2>3. NothingUnpinned' /\ EditIsLast(site')
    BY <2>1, FileFacts DEF NothingUnpinned, EditIsLast
  <2>4. ReadsPinned' /\ Progress' /\ DoneIsDeclared'
    BY <2>2 DEF ReadsPinned, Progress, Installing, DoneIsDeclared
  <2> QED
    BY <2>2, <2>3, <2>4, SameArchive DEF Built
<1>11. CASE Restore
  <2>1. \A f \in VenvFiles : site'[f] = archive[f]
    BY <1>11, FileFacts DEF Restore
  <2>2. ~passed' /\ step' = "idle" /\ UNCHANGED <<repoVars, archive, unaudited>>
    BY <1>11 DEF Restore
  <2>3. NothingUnpinned' /\ EditIsLast(site')
    BY <2>1, FileFacts DEF InstallInv, NothingUnpinned, EditIsLast
  <2>4. ReadsPinned' /\ Progress' /\ DoneIsDeclared'
    BY <2>2 DEF ReadsPinned, Progress, Installing, DoneIsDeclared
  <2> QED
    BY <2>2, <2>3, <2>4, SameArchive DEF Built
<1>12. CASE CopyKernelSource
  <2>1. step \notin Installing /\ ~passed'
        /\ UNCHANGED <<repoVars, artifact, step, archive, unaudited>>
    BY <1>12 DEF CopyKernelSource
  <2>2. \A f \in VenvFiles : site'[f] = site[f]
    BY <1>12, <1>0, FileFacts DEF CopyKernelSource, TypeOK
  <2>3. Declared(site) => Declared(site')
    BY <2>2, FileFacts DEF Declared, Overlays
  <2>4. NothingUnpinned' /\ EditIsLast(site')
    BY <2>2, FileFacts DEF InstallInv, NothingUnpinned, EditIsLast
  <2>5. ReadsPinned' /\ Progress' /\ DoneIsDeclared'
    BY <2>1, <2>3 DEF InstallInv, ReadsPinned, RepoContent, repoVars, Progress, DoneIsDeclared,
       Installing
  <2> QED
    BY <2>1, <2>4, <2>5, SameArchive DEF Built
<1>13. CASE SnapshotByHand
  <2>1. UNCHANGED <<repoVars, site, artifact, step, passed>> /\ unaudited' = ~Validated
    BY <1>13 DEF SnapshotByHand
  <2>2. PICK s \in PartOf(step) : archive' = [f \in VenvFiles |-> s[f]]
    BY <1>13 DEF SnapshotByHand
  <2>3. \A f \in VenvFiles : archive'[f] = s[f]
    BY <2>2
  <2>4. (\A f \in VenvFiles : archive'[f] # "other") /\ EditIsLast(archive')
    BY <2>3, PartIsPinned, FileFacts DEF EditIsLast
  <2>5. ASSUME Validated PROVE Declared(archive')
    <3>1. Declared(site) /\ step \notin Installing
      BY <2>5 DEF Validated, InstallInv, EditedPassIsDeclared
    <3>2. s = site
      BY <1>0, <3>1, PartFacts DEF Installing, Copying
    <3> QED
      BY <2>3, <3>1, <3>2, FileFacts DEF Declared, Overlays
  <2>6. ArchiveIsDeclared'
    BY <2>1, <2>5 DEF ArchiveIsDeclared
  <2>7. ReadsPinned' /\ Progress' /\ DoneIsDeclared'
    BY <2>1 DEF InstallInv, ReadsPinned, RepoContent, repoVars, Progress, DoneIsDeclared, Declared
  <2> QED
    BY <2>1, <2>4, <2>6, <2>7 DEF Built, InstallInv, NothingUnpinned, EditedPassIsDeclared
<1>14. CASE UNCHANGED vars
  <2>1. UNCHANGED <<repoVars, site, artifact, step, archive, unaudited, passed>>
    BY <1>14 DEF vars
  <2>2. ReadsPinned' /\ Progress' /\ DoneIsDeclared'
    BY <2>1 DEF InstallInv, ReadsPinned, RepoContent, repoVars, Progress, DoneIsDeclared, Declared
  <2> QED
    BY <2>1, <2>2, SameFiles DEF Built, InstallInv
<1> QED
  BY <1>1, <1>2, <1>3, <1>4, <1>5, <1>6, <1>7, <1>8, <1>9, <1>10, <1>11, <1>12, <1>13, <1>14
     DEF Next, Host, Install

-----------------------------------------------------------------------------
(* What holds even while others change the checkout.                       *)

\* Whatever the checkout holds, an overlay is the pinned one or another.
LEMMA SourceIsWhole ==
    /\ \A o : Source(o) \in {"pinned", "other"}
    /\ \A o \in Own : Source(o) = "pinned"
  BY DEF Source, RepoContent

LEMMA StepsInit == Init => StepsInv
<1> SUFFICES ASSUME Init PROVE StepsInv
  OBVIOUS
<1> QED
  BY TypeInit DEF Init, StepsInv, Steps, NeverHalfBuilt, Installing

\* A step that ends outside an installation and before success has nothing to
\* account for.
LEMMA NothingUnderway ==
    ASSUME TypeOK', step' \notin Installing \cup {"done"}
    PROVE  StepsInv'
  BY DEF StepsInv, Steps, NeverHalfBuilt, Finished, Installing

\* A step that leaves every file of the venv and the installer alone.
LEMMA SameVenv ==
    ASSUME StepsInv, TypeOK', UNCHANGED <<step, artifact>>,
           \A f \in VenvFiles : site'[f] = site[f]
    PROVE  StepsInv'
<1>1. \A f \in Upstream \cup Own \cup {"topk", "dist", "mxfp4", "opus", "table"} :
        site'[f] = site[f]
  BY FileFacts DEF Overlays
<1>2. Steps'
  BY <1>1 DEF StepsInv, Steps
<1>3. NeverHalfBuilt'
  BY <1>1 DEF StepsInv, NeverHalfBuilt, Finished
<1> QED
  BY <1>2, <1>3 DEF StepsInv

LEMMA StepsStep == StepsInv /\ [Next]_vars => StepsInv'
<1> SUFFICES ASSUME StepsInv, [Next]_vars PROVE StepsInv'
  OBVIOUS
<1>0. TypeOK /\ TypeOK'
  BY TypeStep DEF StepsInv
<1>1. CASE Checkouts
  BY <1>0, <1>1, SameVenv DEF Checkouts
<1>2. CASE StartInstall
  BY <1>0, <1>2 DEF StartInstall, StepsInv, Steps, NeverHalfBuilt, Finished, Installing
<1>3. CASE Gate
  BY <1>0, <1>3 DEF Gate, StepsInv, Steps, NeverHalfBuilt, Finished, Installing
<1>4. ASSUME NEW s \in Copying, Write(s) PROVE StepsInv'
  <2>1. step = s /\ step' = After(s) /\ UNCHANGED <<repoVars, artifact, archive, passed>>
    BY <1>4 DEF Write
  <2>2. \A f \in SiteFiles : site'[f] = IF f \in Files(s) THEN New(s, f) ELSE site[f]
    BY <1>4 DEF Write
  <2>3. step' # "done"
    BY <2>1 DEF After, Copying
  <2>4. NeverHalfBuilt'
    BY <2>1, <2>3 DEF StepsInv, NeverHalfBuilt, Finished
  <2>5. Steps'
    <3>1. CASE s = "pip"
      <4>1. step' = "topk" /\ site'["dist"] = "wheel"
        BY <2>1, <2>2, <3>1, FileFacts DEF After, Files, New, PipFiles
      <4> QED
        BY <4>1 DEF Steps, Installing
    <3>2. CASE s = "overlays"
      <4>1. step' = "opus" /\ site["dist"] = "wheel" /\ artifact = "pinned"
        BY <2>1, <3>2 DEF After, StepsInv, Steps, Installing
      <4>2. \A o \in Overlays : site'[o] = Source(o)
        BY <2>2, <3>2, FileFacts DEF Files, New
      <4>3. site'["topk"] = "pinned"
        BY <2>2, <3>2, <4>1, FileFacts DEF Files, New
      <4>4. site'["dist"] = "wheel"
        BY <2>2, <3>2, <4>1, FileFacts DEF Files, Overlays
      <4>5. \A f \in Own \cup {"topk"} : site'[f] = "pinned"
        BY <4>2, <4>3, SourceIsWhole DEF Overlays
      <4>6. \A f \in Upstream \cup {"mxfp4"} : site'[f] \in {"pinned", "other"}
        BY <4>2, SourceIsWhole DEF Overlays
      <4> QED
        BY <4>1, <4>4, <4>5, <4>6 DEF Steps, Installing
    <3>3. CASE s \in {"opus", "table", "jit"}
      <4>1. site'[s] \in {"pinned", "other"}
        <5>1. site'[s] = Source(s)
          BY <2>2, <3>3, FileFacts DEF Files, New
        <5> QED
          BY <5>1, SourceIsWhole
      <4>2. \A f \in SiteFiles : f # s => site'[f] = site[f]
        BY <2>2, <3>3 DEF Files
      <4>3. s \notin Upstream \cup Own \cup {"topk", "dist", "mxfp4"}
        BY <3>3
      <4>4. \A f \in Upstream \cup Own \cup {"topk", "dist", "mxfp4"} : site'[f] = site[f]
        BY <4>2, <4>3, FileFacts DEF Overlays
      <4>5. /\ site'["dist"] = "wheel" /\ site'["mxfp4"] \in {"pinned", "other"}
            /\ \A f \in Own \cup {"topk"} : site'[f] = "pinned"
            /\ \A f \in Upstream : site'[f] \in {"pinned", "other"}
        BY <2>1, <3>3, <4>4 DEF StepsInv, Steps, Installing
      <4>6. CASE s = "opus"
        BY <2>1, <4>1, <4>5, <4>6 DEF After, Steps, Installing
      <4>7. CASE s = "table"
        BY <2>1, <4>1, <4>2, <4>5, <4>7, FileFacts DEF After, StepsInv, Steps, Installing
      <4>8. CASE s = "jit"
        BY <2>1, <4>1, <4>2, <4>5, <4>8, FileFacts DEF After, StepsInv, Steps, Installing
      <4> QED
        BY <3>3, <4>6, <4>7, <4>8
    <3> QED
      BY <3>1, <3>2, <3>3 DEF Copying
  <2> QED
    BY <1>0, <2>4, <2>5 DEF StepsInv
<1>5. CASE TopK
  BY <1>0, <1>5 DEF TopK, StepsInv, Steps, NeverHalfBuilt, Finished, Installing
<1>6. CASE Compat
  <2>1. step = "compat" /\ step' = "snapshot" /\ archive' = archive
    BY <1>6 DEF Compat
  <2>2. site'["mxfp4"] \in {"compat", "other"}
        /\ \A f \in SiteFiles : f # "mxfp4" => site'[f] = site[f]
    BY <1>0, <1>6, <2>1, FileFacts DEF Compat, TypeOK, StepsInv, Steps
  <2>3. \A f \in Upstream \cup Own \cup {"topk", "dist", "opus", "table"} : site'[f] = site[f]
    BY <2>2, FileFacts DEF Overlays
  <2>4. Steps'
    BY <2>1, <2>2, <2>3 DEF StepsInv, Steps, Installing
  <2>5. NeverHalfBuilt'
    BY <2>1 DEF StepsInv, NeverHalfBuilt, Finished
  <2> QED
    BY <1>0, <2>4, <2>5 DEF StepsInv
<1>7. CASE Snapshot
  <2>1. step = "snapshot" /\ step' = "done" /\ site' = site
    BY <1>7 DEF Snapshot
  <2>2. Finished(site)
    BY <2>1 DEF StepsInv, Steps, Installing, Finished
  <2> QED
    BY <1>0, <2>1, <2>2 DEF StepsInv, Steps, NeverHalfBuilt, Finished, Installing
<1>8. CASE Interrupt
  BY <1>0, <1>8, NothingUnderway DEF Interrupt, StepsInv, Installing
<1>9. CASE Audit
  BY <1>0, <1>9, SameVenv DEF Audit
<1>10. CASE LoseHost
  BY <1>0, <1>10, NothingUnderway DEF LoseHost, StepsInv, Installing
<1>11. CASE Restore
  BY <1>0, <1>11, NothingUnderway DEF Restore, StepsInv, Installing
<1>12. CASE CopyKernelSource
  <2>1. \A f \in VenvFiles : site'[f] = site[f]
    BY <1>0, <1>12, FileFacts DEF CopyKernelSource, TypeOK
  <2> QED
    BY <1>0, <1>12, <2>1, SameVenv DEF CopyKernelSource
<1>13. CASE SnapshotByHand
  BY <1>0, <1>13, SameVenv DEF SnapshotByHand
<1>14. CASE UNCHANGED vars
  BY <1>0, <1>14, SameVenv DEF vars
<1> QED
  BY <1>1, <1>2, <1>3, <1>4, <1>5, <1>6, <1>7, <1>8, <1>9, <1>10, <1>11, <1>12, <1>13, <1>14
     DEF Next, Host, Install

-----------------------------------------------------------------------------
(* The theorems.                                                           *)

\* In every instance, whoever changes the checkout or takes snapshots while an
\* installer runs, a run that ends well leaves nothing half-built and publishes
\* nothing half-built.
THEOREM RuntimesAreFinished == Spec => []NeverHalfBuilt /\ PublishesFinished
<1>1. StepsInv => NeverHalfBuilt
  BY DEF StepsInv
<1>2. StepsInv /\ [Next]_vars => [Snapshot => Finished(archive')]_vars
  <2> SUFFICES ASSUME StepsInv, Snapshot PROVE Finished(archive')
    OBVIOUS
  <2>1. Finished(site)
    BY DEF Snapshot, StepsInv, Steps, Installing, Finished
  <2>2. \A f \in VenvFiles : archive'[f] = site[f]
    BY DEF Snapshot
  <2> QED
    BY <2>1, <2>2, FileFacts DEF Finished, Overlays
<1> QED
  BY <1>1, <1>2, StepsInit, StepsStep, PTL DEF Spec, PublishesFinished

\* When nobody touches the checkout while an installer runs, an installer that
\* ends well has built the declared runtime on whatever was there.
THEOREM InstallIsDeclared == ASSUME Quiet PROVE Spec => []DoneIsDeclared
<1>1. InstallInv => DoneIsDeclared
  BY DEF InstallInv
<1> QED
  BY <1>1, InstallInit, InstallStep, PTL DEF Spec

\* Under the same assumption a restored host starts from the declared runtime,
\* unless the last snapshot was taken by hand of a venv that had not been audited
\* and served from.
THEOREM ArchivesAreDeclared == ASSUME Quiet PROVE Spec => []ArchiveIsDeclared
<1>1. InstallInv => ArchiveIsDeclared
  BY DEF InstallInv
<1> QED
  BY <1>1, InstallInit, InstallStep, PTL DEF Spec

\* Under the same assumption no unpinned source reaches the venv.
THEOREM VenvIsPinned == ASSUME Quiet PROVE Spec => []NothingUnpinned
<1>1. InstallInv => NothingUnpinned
  BY DEF InstallInv
<1> QED
  BY <1>1, InstallInit, InstallStep, PTL DEF Spec

\* Under the same assumption, whatever snapshots were taken and restored, a venv
\* that the audit has passed and that has the signature edit is the declared one.
THEOREM AuditVouches == ASSUME Quiet PROVE Spec => []EditedPassIsDeclared
<1>1. InstallInv => EditedPassIsDeclared
  BY DEF InstallInv
<1> QED
  BY <1>1, InstallInit, InstallStep, PTL DEF Spec

\* prepare_patch_repo.sh never loses an operator's edit, in any instance.
THEOREM PrepareKeepsEdits == Spec => EditsAreKept
<1>1. [Next]_vars => [dirty => dirty' \/ Reset]_vars
  <2> SUFFICES ASSUME Next, dirty PROVE dirty' \/ Reset
    OBVIOUS
  <2>1. CASE Checkouts
    <3>1. CASE KillPrepare
      BY <3>1 DEF KillPrepare
    <3> QED
      BY <2>1, <3>1 DEF Checkouts, Prepare, Operator, StartPrepare, Clone, Status, Fetch,
         Checkout, Verify, Edit
  <2>2. CASE ~Checkouts
    BY <2>2 DEF Next, Install, StartInstall, Gate, Write, TopK, Compat, Snapshot, Interrupt,
       Audit, LoseHost, Restore, CopyKernelSource, SnapshotByHand, Host, repoVars
  <2> QED
    BY <2>1, <2>2
<1> QED
  BY <1>1, PTL DEF Spec, EditsAreKept

=============================================================================
