--------------------------- MODULE ModelStageProofs ---------------------------
(***************************************************************************)
(* Proofs about ModelStage.  Types hold for every instance; that the hot   *)
(* directory is sound needs executions of stage_model_local.sh that do not *)
(* overlap, for any number of them, of launchers and of shards.            *)
(***************************************************************************)
EXTENDS ModelStage, TLAPS

USE SerialAssumption, ShardsAssumption

\* A path without a directory has none of the files.
LEMMA NoDirIsEmpty ==
    /\ NoDir \notin SUBSET Files
    /\ \A f \in Files : f \notin NoDir
    /\ ~AllShards(NoDir)
    /\ ~Complete(NoDir)
    /\ ~Whole(NoDir)
  BY DEF NoDir, Files, Verified, AllShards, Complete, Whole

\* What is whole passes the test of the scripts.
LEMMA WholeIsComplete == ASSUME NEW d, Whole(d) PROVE Complete(d)
  BY DEF Whole, Complete, AllShards, Verified

-----------------------------------------------------------------------------

LEMMA TypeInit == Init => TypeInv
  BY DEF Init, TypeInv, TypeOK, HasDirectory, Staging, Launching

LEMMA TypeStep == TypeInv /\ [Next]_vars => TypeInv'
<1> SUFFICES ASSUME TypeInv, [Next]_vars PROVE TypeInv'
  OBVIOUS
<1> USE DEF TypeInv, TypeOK, HasDirectory, Staging, Launching
<1>1. ASSUME NEW f \in Files, Download(f) PROVE TypeInv'
  BY <1>1 DEF Download, stagerVars, launcherVars
<1>2. ASSUME NEW s \in Stagers, StartStager(s) PROVE TypeInv'
  BY <1>2 DEF StartStager, launcherVars
<1>3. ASSUME NEW s \in Stagers, TestSource(s) PROVE TypeInv'
  BY <1>3 DEF TestSource, launcherVars
<1>4. ASSUME NEW s \in Stagers, TestTarget(s) PROVE TypeInv'
  BY <1>4 DEF TestTarget, launcherVars
<1>5. ASSUME NEW s \in Stagers, NEW f \in Files, CopyFile(s, f) PROVE TypeInv'
  BY <1>5 DEF CopyFile, launcherVars
<1>6. ASSUME NEW s \in Stagers, CopyEnds(s) PROVE TypeInv'
  BY <1>6 DEF CopyEnds, launcherVars
<1>7. ASSUME NEW s \in Stagers, CopyFails(s) PROVE TypeInv'
  BY <1>7 DEF CopyFails, launcherVars
<1>8. ASSUME NEW s \in Stagers, Compare(s) PROVE TypeInv'
  BY <1>8 DEF Compare, launcherVars
<1>9. ASSUME NEW s \in Stagers, NEW f \in Files, RemoveFile(s, f) PROVE TypeInv'
  BY <1>9, NoDirIsEmpty DEF RemoveFile, stagerVars, launcherVars
<1>10. ASSUME NEW s \in Stagers, RemoveEnds(s) PROVE TypeInv'
  BY <1>10 DEF RemoveEnds, launcherVars
<1>11. ASSUME NEW s \in Stagers, Move(s) PROVE TypeInv'
  BY <1>11 DEF Move, launcherVars
<1>12. ASSUME NEW s \in Stagers, KillStager(s) PROVE TypeInv'
  BY <1>12 DEF KillStager, launcherVars
<1>13. ASSUME NEW l \in Launchers, StartLauncher(l) PROVE TypeInv'
  BY <1>13 DEF StartLauncher, stagerVars
<1>14. ASSUME NEW l \in Launchers, CountHotShards(l) PROVE TypeInv'
  BY <1>14 DEF CountHotShards, stagerVars
<1>20. ASSUME NEW l \in Launchers, TestHotDirectory(l) PROVE TypeInv'
  BY <1>20 DEF TestHotDirectory, stagerVars
<1>15. ASSUME NEW l \in Launchers, TestHotIndex(l) PROVE TypeInv'
  BY <1>15 DEF TestHotIndex, stagerVars
<1>16. ASSUME NEW l \in Launchers, Recount(l) PROVE TypeInv'
  BY <1>16 DEF Recount, stagerVars
<1>17. ASSUME NEW l \in Launchers, NEW f \in Files, LoadFile(l, f) PROVE TypeInv'
  <2>1. CASE f \in Chosen(l)
    <3>1. loaded' \in [Launchers -> SUBSET Files]
      <4>1. loaded' = [loaded EXCEPT ![l] = loaded[l] \cup {f}]
        BY <1>17, <2>1 DEF LoadFile
      <4>2. loaded[l] \cup {f} \in SUBSET Files
        OBVIOUS
      <4> QED
        BY <4>1, <4>2
    <3> QED
      BY <1>17, <2>1, <3>1 DEF LoadFile, stagerVars
  <2>2. CASE f \notin Chosen(l)
    BY <1>17, <2>2 DEF LoadFile, stagerVars
  <2> QED
    BY <2>1, <2>2
<1>18. ASSUME NEW l \in Launchers, LoadEnds(l) PROVE TypeInv'
  BY <1>18 DEF LoadEnds, stagerVars
<1>19. CASE UNCHANGED vars
  BY <1>19 DEF vars, stagerVars, launcherVars
<1> QED
  BY <1>1, <1>2, <1>3, <1>4, <1>5, <1>6, <1>7, <1>8, <1>9, <1>10, <1>11, <1>12,
     <1>13, <1>14, <1>15, <1>16, <1>17, <1>18, <1>19, <1>20 DEF Next, Stager, Launcher

\* Directories, stagers and launchers keep their types, in every instance.
THEOREM StageTypes == Spec => []TypeOK
<1>1. TypeInv => TypeOK
  BY DEF TypeInv
<1> QED
  BY <1>1, TypeInit, TypeStep, PTL DEF Spec

-----------------------------------------------------------------------------
(* The soundness of the hot copy.                                          *)

LEMMA StageInit == Init => StageInv
<1> SUFFICES ASSUME Init PROVE StageInv
  OBVIOUS
<1>1. TypeInv
  BY TypeInit
<1>2. ~Complete(dst)
  BY NoDirIsEmpty DEF Init
<1> QED
  BY <1>1, <1>2 DEF Init, StageInv, OneStager, StageProgress, LaunchProgress, Staging,
     TestIsSound, HotIsWhole, StagingSparesHotLaunch, DoneIsWhole

\* A step that leaves the hot directory and the launchers alone has only the
\* stagers to account for.
LEMMA StagersOnly ==
    ASSUME StageInv, UNCHANGED <<dst, nested, launcherVars>>, TypeInv', OneStager',
           StageProgress', DoneIsWhole'
    PROVE  StageInv'
  BY DEF StageInv, launcherVars, LaunchProgress, TestIsSound, HotIsWhole, StagingSparesHotLaunch,
     Whole, Complete, AllShards

\* A step of a launcher has only the launchers to account for.
LEMMA LaunchersOnly ==
    ASSUME StageInv, UNCHANGED <<src, dst, nested, stagerVars>>, TypeInv',
           LaunchProgress', HotIsWhole', StagingSparesHotLaunch'
    PROVE  StageInv'
  BY DEF StageInv, stagerVars, OneStager, StageProgress, TestIsSound, DoneIsWhole,
     Whole, Complete, AllShards

\* Only a start can bring a second stager.
LEMMA NoNewStager ==
    ASSUME OneStager, \A t \in Stagers : stage'[t] \in Staging => stage[t] \in Staging
    PROVE  OneStager'
  BY DEF OneStager

LEMMA StageStep == ASSUME Serial PROVE StageInv /\ [Next]_vars => StageInv'
<1> SUFFICES ASSUME StageInv, [Next]_vars PROVE StageInv'
  OBVIOUS
<1>0. TypeInv /\ TypeInv'
  BY TypeStep DEF StageInv
<1>1. ASSUME NEW f \in Files, Download(f) PROVE StageInv'
  BY <1>0, <1>1, StagersOnly DEF Download, stagerVars, StageInv, OneStager,
     StageProgress, DoneIsWhole, Whole, Complete, AllShards
<1>2. ASSUME NEW s \in Stagers, StartStager(s) PROVE StageInv'
  <2>1. OneStager'
    BY <1>0, <1>2 DEF StartStager, OneStager, Staging, TypeInv, TypeOK
  <2>2. StageProgress' /\ DoneIsWhole'
    BY <1>0, <1>2 DEF StartStager, StageInv, StageProgress, DoneIsWhole, Staging, TypeInv,
       TypeOK, Whole, Complete, AllShards
  <2> QED
    BY <1>0, <1>2, <2>1, <2>2, StagersOnly DEF StartStager
<1>3. ASSUME NEW s \in Stagers, TestSource(s) PROVE StageInv'
  <2>1. OneStager'
    <3>1. \A t \in Stagers : stage'[t] \in Staging => stage[t] \in Staging
      BY <1>0, <1>3 DEF TestSource, Staging, TypeInv, TypeOK
    <3> QED
      BY <3>1, NoNewStager DEF StageInv
  <2>2. StageProgress' /\ DoneIsWhole'
    BY <1>0, <1>3 DEF TestSource, StageInv, TestIsSound, StageProgress, DoneIsWhole, Staging,
       TypeInv, TypeOK, Whole, Complete, AllShards
  <2> QED
    BY <1>0, <1>3, <2>1, <2>2, StagersOnly DEF TestSource
<1>4. ASSUME NEW s \in Stagers, TestTarget(s) PROVE StageInv'
  <2>1. OneStager'
    <3>1. \A t \in Stagers : stage'[t] \in Staging => stage[t] \in Staging
      BY <1>0, <1>4 DEF TestTarget, Staging, TypeInv, TypeOK
    <3> QED
      BY <3>1, NoNewStager DEF StageInv
  <2>2. StageProgress' /\ DoneIsWhole'
    <3>1. CASE Complete(dst)
      BY <1>0, <1>4, <3>1 DEF TestTarget, StageInv, TestIsSound, StageProgress, DoneIsWhole,
         TypeInv, TypeOK, Whole, Complete, AllShards
    <3>2. CASE ~Complete(dst)
      <4>1. \A t \in Stagers : t # s => stage'[t] = stage[t] /\ tmp'[t] = tmp[t]
        BY <1>0, <1>4, <3>2 DEF TestTarget, TypeInv, TypeOK
      <4>2. stage'[s] = "copy" /\ UNCHANGED <<dst, nested>>
        BY <1>0, <1>4, <3>2 DEF TestTarget, TypeInv, TypeOK
      <4> QED
        BY <3>2, <4>1, <4>2 DEF StageInv, StageProgress, DoneIsWhole, Whole, Complete, AllShards
    <3> QED
      BY <3>1, <3>2
  <2> QED
    BY <1>0, <1>4, <2>1, <2>2, StagersOnly DEF TestTarget
<1>5. ASSUME NEW s \in Stagers, CopyEnds(s) PROVE StageInv'
  <2>1. OneStager'
    <3>1. \A t \in Stagers : stage'[t] \in Staging => stage[t] \in Staging
      BY <1>0, <1>5 DEF CopyEnds, Staging, TypeInv, TypeOK
    <3> QED
      BY <3>1, NoNewStager DEF StageInv
  <2>2. StageProgress' /\ DoneIsWhole'
    BY <1>0, <1>5 DEF CopyEnds, StageInv, TestIsSound, StageProgress, DoneIsWhole, Staging,
       TypeInv, TypeOK, Whole, Complete, AllShards
  <2> QED
    BY <1>0, <1>5, <2>1, <2>2, StagersOnly DEF CopyEnds
<1>6. ASSUME NEW s \in Stagers, CopyFails(s) PROVE StageInv'
  <2>1. OneStager'
    <3>1. \A t \in Stagers : stage'[t] \in Staging => stage[t] \in Staging
      BY <1>0, <1>6 DEF CopyFails, Staging, TypeInv, TypeOK
    <3> QED
      BY <3>1, NoNewStager DEF StageInv
  <2>2. StageProgress' /\ DoneIsWhole'
    BY <1>0, <1>6 DEF CopyFails, StageInv, TestIsSound, StageProgress, DoneIsWhole, Staging,
       TypeInv, TypeOK, Whole, Complete, AllShards
  <2> QED
    BY <1>0, <1>6, <2>1, <2>2, StagersOnly DEF CopyFails
<1>7. ASSUME NEW s \in Stagers, Compare(s) PROVE StageInv'
  <2>1. OneStager'
    <3>1. \A t \in Stagers : stage'[t] \in Staging => stage[t] \in Staging
      BY <1>0, <1>7 DEF Compare, Staging, TypeInv, TypeOK
    <3> QED
      BY <3>1, NoNewStager DEF StageInv
  <2>2. StageProgress' /\ DoneIsWhole'
    BY <1>0, <1>7 DEF Compare, Agrees, StageInv, TestIsSound, StageProgress, DoneIsWhole, Staging,
       TypeInv, TypeOK, Whole, Complete, AllShards, Verified
  <2> QED
    BY <1>0, <1>7, <2>1, <2>2, StagersOnly DEF Compare
<1>8. ASSUME NEW s \in Stagers, KillStager(s) PROVE StageInv'
  <2>1. OneStager'
    <3>1. \A t \in Stagers : stage'[t] \in Staging => stage[t] \in Staging
      BY <1>0, <1>8 DEF KillStager, Staging, TypeInv, TypeOK
    <3> QED
      BY <3>1, NoNewStager DEF StageInv
  <2>2. StageProgress' /\ DoneIsWhole'
    BY <1>0, <1>8 DEF KillStager, StageInv, TestIsSound, StageProgress, DoneIsWhole, Staging,
       TypeInv, TypeOK, Whole, Complete, AllShards
  <2> QED
    BY <1>0, <1>8, <2>1, <2>2, StagersOnly DEF KillStager
<1>9. ASSUME NEW s \in Stagers, NEW f \in Files, CopyFile(s, f) PROVE StageInv'
  <2>1. OneStager' /\ StageProgress' /\ DoneIsWhole'
    BY <1>0, <1>9 DEF CopyFile, StageInv, OneStager, StageProgress, DoneIsWhole, TypeInv, TypeOK,
       Whole, Complete, AllShards
  <2> QED
    BY <1>0, <1>9, <2>1, StagersOnly DEF CopyFile
<1>10. ASSUME NEW s \in Stagers, NEW f \in Files, RemoveFile(s, f) PROVE StageInv'
  <2>1. ~Complete(dst) /\ ~Whole(dst)
    BY <1>10, WholeIsComplete DEF RemoveFile, StageInv, StageProgress
  <2>2. ~Complete(dst') /\ ~Whole(dst')
    BY <1>10, <2>1, WholeIsComplete DEF RemoveFile, Complete, AllShards
  <2>3. ~nested' /\ OneStager'
    BY <1>10 DEF RemoveFile, StageInv, stagerVars, OneStager
  <2>4. StageProgress'
    <3>1. stage[s] = "remove" /\ dst # NoDir
      BY <1>10, NoDirIsEmpty DEF RemoveFile
    <3>2. \A t \in Stagers : stage[t] # "move"
      BY <3>1 DEF StageInv, StageProgress
    <3> QED
      BY <1>10, <2>2, <3>2 DEF RemoveFile, stagerVars, StageInv, StageProgress, Whole, Complete, AllShards
  <2>5. LaunchProgress'
    BY <1>10, <2>1 DEF RemoveFile, launcherVars, StageInv, LaunchProgress
  <2>6. TestIsSound' /\ HotIsWhole' /\ StagingSparesHotLaunch' /\ DoneIsWhole'
    BY <1>10, <2>1, <2>2 DEF RemoveFile, stagerVars, launcherVars, StageInv, TestIsSound,
       HotIsWhole, StagingSparesHotLaunch, DoneIsWhole, Complete, Whole, AllShards
  <2> QED
    BY <1>0, <1>10, <2>3, <2>4, <2>5, <2>6 DEF StageInv, RemoveFile
<1>11. ASSUME NEW s \in Stagers, RemoveEnds(s) PROVE StageInv'
  <2>1. ~Complete(dst) /\ ~Whole(dst)
    BY <1>11, WholeIsComplete DEF RemoveEnds, StageInv, StageProgress
  <2>2. dst' = NoDir /\ nested' = FALSE
    BY <1>11 DEF RemoveEnds
  <2>3. OneStager'
    <3>1. \A t \in Stagers : stage'[t] \in Staging => stage[t] \in Staging
      BY <1>0, <1>11 DEF RemoveEnds, Staging, TypeInv, TypeOK
    <3> QED
      BY <3>1, NoNewStager DEF StageInv
  <2>4. StageProgress'
    BY <1>0, <1>11, <2>2, NoDirIsEmpty DEF RemoveEnds, StageInv, StageProgress, TypeInv, TypeOK, Whole
  <2>5. LaunchProgress'
    BY <1>11, <2>2 DEF RemoveEnds, launcherVars, StageInv, LaunchProgress, NoDir
  <2>6. TestIsSound'
    BY <2>2, NoDirIsEmpty DEF TestIsSound, Complete, AllShards
  <2>7. HotIsWhole' /\ StagingSparesHotLaunch' /\ DoneIsWhole'
    BY <1>0, <1>11, <2>1 DEF RemoveEnds, launcherVars, StageInv,
       HotIsWhole, StagingSparesHotLaunch, DoneIsWhole, TypeInv, TypeOK
  <2> QED
    BY <1>0, <2>2, <2>3, <2>4, <2>5, <2>6, <2>7 DEF StageInv
<1>12. ASSUME NEW s \in Stagers, Move(s) PROVE StageInv'
  <2>1. dst = NoDir /\ Whole(tmp[s]) /\ ~Whole(dst)
    BY <1>12, NoDirIsEmpty DEF Move, StageInv, StageProgress
  <2>2. dst' = tmp[s] /\ nested' = FALSE /\ Whole(dst')
    BY <1>12, <2>1 DEF Move, Whole
  <2>3. OneStager'
    <3>1. \A t \in Stagers : stage'[t] \in Staging => stage[t] \in Staging
      BY <1>0, <1>12 DEF Move, Staging, TypeInv, TypeOK
    <3> QED
      BY <3>1, NoNewStager DEF StageInv
  <2>4. StageProgress'
    <3>1. \A t \in Stagers : t # s => stage[t] \notin Staging
      BY <1>12 DEF Move, StageInv, OneStager, Staging
    <3>2. \A t \in Stagers : stage'[t] \notin Staging
      BY <1>0, <1>12, <3>1 DEF Move, Staging, TypeInv, TypeOK
    <3> QED
      BY <3>2 DEF StageProgress, Staging
  <2>5. LaunchProgress' /\ TestIsSound' /\ DoneIsWhole'
    BY <1>12, <2>2 DEF Move, launcherVars, StageInv, LaunchProgress, TestIsSound, DoneIsWhole, Whole
  <2>6. HotIsWhole' /\ StagingSparesHotLaunch'
    BY <1>12, <2>1, <2>2 DEF Move, launcherVars, StageInv, HotIsWhole, StagingSparesHotLaunch, Whole
  <2> QED
    BY <1>0, <2>2, <2>3, <2>4, <2>5, <2>6 DEF StageInv
<1>13. ASSUME NEW l \in Launchers, StartLauncher(l) PROVE StageInv'
  <2>1. LaunchProgress' /\ HotIsWhole' /\ StagingSparesHotLaunch'
    BY <1>0, <1>13 DEF StartLauncher, StageInv, LaunchProgress, TestIsSound, HotIsWhole,
       StagingSparesHotLaunch, TypeInv, TypeOK, Whole, AllShards
  <2> QED
    BY <1>0, <1>13, <2>1, LaunchersOnly DEF StartLauncher
<1>14. ASSUME NEW l \in Launchers, CountHotShards(l) PROVE StageInv'
  <2>1. LaunchProgress' /\ HotIsWhole' /\ StagingSparesHotLaunch'
    BY <1>0, <1>14 DEF CountHotShards, Complete, StageInv, LaunchProgress, TestIsSound, HotIsWhole,
       StagingSparesHotLaunch, TypeInv, TypeOK, Whole, AllShards
  <2> QED
    BY <1>0, <1>14, <2>1, LaunchersOnly DEF CountHotShards
<1>20. ASSUME NEW l \in Launchers, TestHotDirectory(l) PROVE StageInv'
  <2>1. LaunchProgress' /\ HotIsWhole' /\ StagingSparesHotLaunch'
    BY <1>0, <1>20 DEF TestHotDirectory, StageInv, LaunchProgress, HotIsWhole,
       StagingSparesHotLaunch, TypeInv, TypeOK, Whole, AllShards
  <2> QED
    BY <1>0, <1>20, <2>1, LaunchersOnly DEF TestHotDirectory
<1>15. ASSUME NEW l \in Launchers, TestHotIndex(l) PROVE StageInv'
  <2>1. LaunchProgress' /\ HotIsWhole' /\ StagingSparesHotLaunch'
    BY <1>0, <1>15 DEF TestHotIndex, StageInv, LaunchProgress, TestIsSound, HotIsWhole,
       StagingSparesHotLaunch, TypeInv, TypeOK, Whole, AllShards
  <2> QED
    BY <1>0, <1>15, <2>1, LaunchersOnly DEF TestHotIndex
<1>16. ASSUME NEW l \in Launchers, Recount(l) PROVE StageInv'
  <2>1. LaunchProgress' /\ HotIsWhole' /\ StagingSparesHotLaunch'
    BY <1>0, <1>16 DEF Recount, Chosen, Verified, StageInv, LaunchProgress, TestIsSound, HotIsWhole,
       StagingSparesHotLaunch, TypeInv, TypeOK, Whole, AllShards
  <2> QED
    BY <1>0, <1>16, <2>1, LaunchersOnly DEF Recount
<1>17. ASSUME NEW l \in Launchers, LoadEnds(l) PROVE StageInv'
  <2>1. LaunchProgress' /\ HotIsWhole' /\ StagingSparesHotLaunch'
    BY <1>0, <1>17 DEF LoadEnds, StageInv, LaunchProgress, TestIsSound, HotIsWhole,
       StagingSparesHotLaunch, TypeInv, TypeOK, Whole, AllShards
  <2> QED
    BY <1>0, <1>17, <2>1, LaunchersOnly DEF LoadEnds
<1>18. ASSUME NEW l \in Launchers, NEW f \in Files, LoadFile(l, f) PROVE StageInv'
  <2>1. LaunchProgress' /\ HotIsWhole'
    BY <1>0, <1>18 DEF LoadFile, StageInv, LaunchProgress, HotIsWhole, TypeInv, TypeOK, Whole
  <2>2. StagingSparesHotLaunch'
    BY <1>0, <1>18 DEF LoadFile, Chosen, StageInv, HotIsWhole, StagingSparesHotLaunch, TypeInv, TypeOK,
       Whole, Files
  <2> QED
    BY <1>0, <1>18, <2>1, <2>2, LaunchersOnly DEF LoadFile
<1>19. CASE UNCHANGED vars
  BY <1>0, <1>19, StagersOnly DEF vars, stagerVars, StageInv, OneStager, StageProgress, DoneIsWhole,
     Whole, Complete, AllShards
<1> QED
  BY <1>1, <1>2, <1>3, <1>4, <1>5, <1>6, <1>7, <1>8, <1>9, <1>10, <1>11, <1>12, <1>13, <1>14, <1>15, <1>16, <1>17, <1>18, <1>19, <1>20
     DEF Next, Stager, Launcher

-----------------------------------------------------------------------------
(* What holds however many stagers run.                                    *)

LEMMA ComparedInit == Init => ComparedIsWhole
  BY DEF Init, ComparedIsWhole

\* Nobody writes to the directory of another stager, and from the comparison to
\* the rename nobody writes to it at all.
LEMMA ComparedStep ==
    TypeInv /\ ComparedIsWhole /\ [Next]_vars => ComparedIsWhole'
<1> SUFFICES ASSUME TypeInv, ComparedIsWhole, [Next]_vars,
                    NEW t \in Stagers, stage'[t] \in {"remove", "move"}
             PROVE  Whole(tmp'[t])
  BY DEF ComparedIsWhole, Whole
<1> USE DEF TypeInv, TypeOK
<1>1. CASE \E s \in Stagers : TestSource(s) \/ TestTarget(s) \/ CopyEnds(s) \/ CopyFails(s)
                              \/ StartStager(s) \/ KillStager(s)
  BY <1>1 DEF TestSource, TestTarget, CopyEnds, CopyFails, StartStager, KillStager,
     ComparedIsWhole
<1>2. CASE \E s \in Stagers : \E f \in Files : CopyFile(s, f)
  BY <1>2 DEF CopyFile, ComparedIsWhole
<1>3. ASSUME NEW s \in Stagers, Compare(s) PROVE Whole(tmp'[t])
  BY <1>3 DEF Compare, Agrees, ComparedIsWhole, Whole, AllShards, Verified
<1>4. CASE \E s \in Stagers : \E f \in Files : RemoveFile(s, f)
  BY <1>4 DEF RemoveFile, stagerVars, ComparedIsWhole
<1>5. CASE \E s \in Stagers : RemoveEnds(s) \/ Move(s)
  BY <1>5 DEF RemoveEnds, Move, ComparedIsWhole
<1>6. CASE UNCHANGED stagerVars
  BY <1>6 DEF stagerVars, ComparedIsWhole
<1>7. (\E f \in Files : Download(f)) \/ (\E l \in Launchers : Launcher(l)) \/ UNCHANGED vars
        => UNCHANGED stagerVars
  BY DEF Download, Launcher, StartLauncher, TestHotDirectory, CountHotShards, TestHotIndex, Recount, LoadFile,
     LoadEnds, vars, stagerVars
<1> QED
  BY <1>1, <1>2, <1>3, <1>4, <1>5, <1>6, <1>7 DEF Next, Stager

-----------------------------------------------------------------------------
(* The theorems.                                                           *)

\* In every instance, however many stagers overlap, the hot directory gains
\* files only by the rename of a whole copy to a path where there was nothing.
THEOREM HotCopyFillsWhole == Spec => FillsWhole
<1>1. TypeInv /\ ComparedIsWhole /\ [Next]_vars
        => [\A f \in Files : f \in dst' \ dst => dst = NoDir /\ Whole(dst')]_vars
  <2> SUFFICES ASSUME TypeInv, ComparedIsWhole, Next, NEW f \in Files, f \in dst' \ dst
               PROVE  dst = NoDir /\ Whole(dst')
    BY DEF Whole
  <2>1. CASE \E s \in Stagers : Move(s)
    BY <2>1 DEF Move, ComparedIsWhole, Whole
  <2>2. CASE \E s \in Stagers : RemoveEnds(s) \/ \E g \in Files : RemoveFile(s, g)
    BY <2>2, NoDirIsEmpty DEF RemoveEnds, RemoveFile
  <2>3. CASE dst' = dst
    BY <2>3
  <2> QED
    BY <2>1, <2>2, <2>3 DEF Next, Stager, Launcher, Download, StartStager, TestSource,
       TestTarget, CopyFile, CopyEnds, CopyFails, Compare, KillStager, StartLauncher,
       TestHotDirectory, CountHotShards, TestHotIndex, Recount, LoadFile, LoadEnds
<1> QED
  BY <1>1, TypeInit, TypeStep, ComparedInit, ComparedStep, PTL DEF Spec, FillsWhole

\* When stagers do not overlap, a hot directory with all shards and the index
\* has every file that the stager verifies, however often it was killed.
THEOREM HotTestIsSound == ASSUME Serial PROVE Spec => []TestIsSound
<1>1. StageInv => TestIsSound
  BY DEF StageInv
<1> QED
  BY <1>1, StageInit, StageStep, PTL DEF Spec

\* When stagers do not overlap, the copy a launcher has selected stays whole
\* until it has loaded it.
THEOREM SelectedStaysWhole == ASSUME Serial PROVE Spec => []HotIsWhole
<1>1. StageInv => HotIsWhole
  BY DEF StageInv
<1> QED
  BY <1>1, StageInit, StageStep, PTL DEF Spec

\* When stagers do not overlap, no launch from the hot copy fails by anything that
\* they do to it, for any number of launchers and shards.
THEOREM HotLaunchIsSpared == ASSUME Serial PROVE Spec => []StagingSparesHotLaunch
<1>1. StageInv => StagingSparesHotLaunch
  BY DEF StageInv
<1> QED
  BY <1>1, StageInit, StageStep, PTL DEF Spec

\* When stagers do not overlap, one that reports success has left a whole copy.
THEOREM SuccessIsWhole == ASSUME Serial PROVE Spec => []DoneIsWhole
<1>1. StageInv => DoneIsWhole
  BY DEF StageInv
<1> QED
  BY <1>1, StageInit, StageStep, PTL DEF Spec

\* When stagers do not overlap, no step takes a file out of a whole hot copy.
THEOREM HotCopyIsKept == ASSUME Serial PROVE Spec => WholeStays
<1>1. StageInv /\ [Next]_vars => [Whole(dst) => Whole(dst')]_vars
  <2> SUFFICES ASSUME StageInv, Next, Whole(dst) PROVE Whole(dst')
    BY DEF Next
  <2>1. ~ \E s \in Stagers : stage[s] \in {"remove", "move"}
    BY WholeIsComplete DEF StageInv, StageProgress
  <2>2. dst' = dst
    BY <2>1 DEF Next, Stager, Launcher, Download, StartStager, TestSource, TestTarget, CopyFile,
       CopyEnds, CopyFails, Compare, RemoveFile, RemoveEnds, Move, KillStager, StartLauncher,
       TestHotDirectory, CountHotShards, TestHotIndex, Recount, LoadFile, LoadEnds
  <2> QED
    BY <2>2 DEF Whole
<1> QED
  BY <1>1, StageInit, StageStep, PTL DEF Spec, WholeStays

===============================================================================
