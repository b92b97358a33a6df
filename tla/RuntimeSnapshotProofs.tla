------------------------ MODULE RuntimeSnapshotProofs ------------------------
(***************************************************************************)
(* The snapshot scripts implement AtomicArchive, for any number of runs,   *)
(* caches and changes, whether or not runs are taken one at a time.  What a *)
(* run has behind it is persisted and whole, and fresh if runs are taken   *)
(* one at a time; what could be restored once can be restored from then on. *)
(***************************************************************************)
EXTENDS RuntimeSnapshot, TLAPS

-----------------------------------------------------------------------------
(* The inductive invariant.                                                *)

LEMMA ArchiveInit == Init => ArchiveInv
  BY NumCachesAssumption, MaxGenAssumption
     DEF Init, ArchiveInv, TypeOK, AtMostOne, TmpProgress, OutIsWhole, Archives, Working

LEMMA GensArePositive == \A g : g \in Gens <=> g \in 0..MaxGen /\ g # 0
  BY MaxGenAssumption DEF Gens

LEMMA ArchiveStep == ArchiveInv /\ [Next]_vars => ArchiveInv'
<1> SUFFICES ASSUME ArchiveInv, [Next]_vars PROVE ArchiveInv'
  OBVIOUS
<1> USE NumCachesAssumption, MaxGenAssumption, ExclusiveAssumption, NoFileAssumption,
        GensArePositive
    DEF ArchiveInv, TypeOK, AtMostOne, TmpProgress, OutIsWhole, Working
<1>1. ASSUME NEW a \in Archives, Change(a) PROVE ArchiveInv'
  <2>1. \A b \in Archives : live'[b] \in 0..MaxGen /\ live'[b] >= live[b] /\ live[b] \in Nat
    BY <1>1 DEF Change
  <2> QED BY <1>1, <2>1 DEF Change, Files
<1>2. ASSUME NEW r \in Runs, NEW a \in {0, 1} \cap Archives, Start(r, a) PROVE ArchiveInv'
  BY <1>2 DEF Start
<1>3. ASSUME NEW r \in Runs, GoOn(r), pc[r] \in Working, UNCHANGED <<live, first, seen>>
      PROVE  /\ pc' \in [Runs -> {"idle"} \cup Working \cup Ended]
             /\ at' \in [Runs -> Archives]
             /\ pc'[r] \in {"check", "done"}
             /\ \A s \in Runs : s # r => pc'[s] = pc[s] /\ at'[s] = at[s]
  <2>1. CASE at[r] < NumCaches
    <3>1. at[r] + 1 \in Archives
      BY <2>1 DEF Archives
    <3> QED BY <1>3, <2>1, <3>1 DEF GoOn
  <2>2. CASE ~(at[r] < NumCaches)
    BY <1>3, <2>2 DEF GoOn, Ended
  <2> QED BY <2>1, <2>2
<1>4. ASSUME NEW r \in Runs, Missing(r) PROVE ArchiveInv'
  <2>1. CASE at[r] = 0
    BY <1>4, <2>1 DEF Missing, Ended
  <2>2. CASE at[r] # 0
    <3>1. GoOn(r) /\ pc[r] = "check" /\ UNCHANGED <<live, out, tmp, first, seen>>
      BY <1>4, <2>2 DEF Missing
    <3> QED BY <1>3, <3>1
  <2> QED BY <2>1, <2>2
<1>5. ASSUME NEW r \in Runs, Present(r) PROVE ArchiveInv'
  BY <1>5 DEF Present
<1>6. ASSUME NEW r \in Runs, TarBegin(r) PROVE ArchiveInv'
  <2>1. [gen |-> live[at[r]], whole |-> FALSE] \in Files
    BY <1>6 DEF TarBegin, Files
  <2> DEFINE new == [gen |-> live[at[r]], whole |-> FALSE]
  <2>2. /\ tmp' = [tmp EXCEPT ![r][at[r]] = new]
        /\ pc' = [pc EXCEPT ![r] = "tarring"]
        /\ pc[r] = "tar"
        /\ UNCHANGED <<live, out, at, first, seen>>
        /\ new.gen = live[at[r]]
        /\ new \in Files
    BY <1>6, <2>1 DEF TarBegin
  <2>3. /\ tmp'[r][at[r]] = new
        /\ tmp' \in [Runs -> [Archives -> Files \cup {NoFile}]]
        /\ \A s \in Runs : s # r => tmp'[s] = tmp[s]
    BY <2>1, <2>2
  <2> HIDE DEF new
  <2>4. TypeOK' /\ AtMostOne' /\ OutIsWhole'
    BY <2>2, <2>3
  <2>5. TmpProgress'
    <3>1. out[at[r]] # NoFile => out[at[r]].gen <= live[at[r]]
      BY DEF Files
    <3> QED BY <2>2, <2>3, <3>1
  <2> QED BY <2>4, <2>5
<1>7. ASSUME NEW r \in Runs, TarEnd(r) PROVE ArchiveInv'
  <2>1. PICK kept \in BOOLEAN : tmp' = [tmp EXCEPT ![r][at[r]].whole = kept]
    BY <1>7 DEF TarEnd
  <2>2. /\ tmp'[r][at[r]] \in Files
        /\ tmp'[r][at[r]].gen = tmp[r][at[r]].gen
        /\ tmp' \in [Runs -> [Archives -> Files \cup {NoFile}]]
        /\ \A s \in Runs : s # r => tmp'[s] = tmp[s]
    BY <1>7, <2>1 DEF TarEnd, Files
  <2> QED BY <1>7, <2>2 DEF TarEnd
<1>8. ASSUME NEW r \in Runs, Abort(r), pc[r] \in Working PROVE ArchiveInv'
  <2>1. /\ pc' = [pc EXCEPT ![r] = "failed"]
        /\ tmp' \in [Runs -> [Archives -> Files \cup {NoFile}]]
        /\ \A s \in Runs : s # r => tmp'[s] = tmp[s]
        /\ UNCHANGED <<live, out, at, first, seen>>
    BY <1>8 DEF Abort
  <2>2. TypeOK' /\ AtMostOne' /\ OutIsWhole'
    BY <2>1 DEF Ended
  <2>3. TmpProgress'
    BY <2>1
  <2> QED BY <2>2, <2>3
<1>9. ASSUME NEW r \in Runs, List(r) PROVE ArchiveInv'
  BY <1>9 DEF List
<1>10. ASSUME NEW r \in Runs, Move(r) PROVE ArchiveInv'
  <2>1. /\ tmp[r][at[r]] \in Files
        /\ tmp[r][at[r]].whole
        /\ tmp[r][at[r]].gen <= live[at[r]]
        /\ at[r] \in Archives
    BY <1>10 DEF Move
  <2>2. /\ out' = [out EXCEPT ![at[r]] = tmp[r][at[r]]]
        /\ tmp' = [tmp EXCEPT ![r][at[r]] = NoFile]
        /\ GoOn(r) /\ pc[r] = "move"
        /\ UNCHANGED <<live, first, seen>>
    BY <1>10 DEF Move
  <2>3. OutIsWhole' /\ TypeOK'
    BY <1>3, <2>1, <2>2
  <2>4. AtMostOne'
    BY <1>3, <2>2
  <2>5. Exclusive => \A s \in Runs : s # r => pc'[s] \notin Working
    BY <1>3, <2>2
  <2>6. TmpProgress'
    BY <1>3, <2>2, <2>5
  <2> QED BY <2>3, <2>4, <2>6
<1>11. ASSUME NEW r \in Runs, Kill(r) PROVE ArchiveInv'
  BY <1>11 DEF Kill, Ended
<1>12. CASE UNCHANGED vars
  BY <1>12 DEF vars
<1> QED BY <1>1, <1>2, <1>4, <1>5, <1>6, <1>7, <1>8, <1>9, <1>10, <1>11, <1>12
        DEF Next, TarFails, ListFails

\* Directories, archives and runs of the scripts have their types.
THEOREM SnapshotTypes == Spec => []TypeOK
<1>1. ArchiveInv => TypeOK
  BY DEF ArchiveInv
<1> QED BY ArchiveInit, ArchiveStep, <1>1, PTL DEF Spec

-----------------------------------------------------------------------------
(* Refinement.                                                             *)

LEMMA RestorableInit == Init => Archive!Init
  BY DEF Init, Archive!Init, Restorable

LEMMA RestorableStep ==
    ArchiveInv /\ [Next]_vars => [Archive!Next]_Restorable
<1> SUFFICES ASSUME ArchiveInv, [Next]_vars PROVE [Archive!Next]_Restorable
  OBVIOUS
<1>1. CASE out' = out
  BY <1>1 DEF Restorable
<1>2. ASSUME NEW r \in Runs, Move(r) PROVE Archive!Next
  <2> DEFINE a == at[r]
             g == tmp[r][a].gen
  <2>1. /\ a \in Archives
        /\ tmp[r][a] \in Files
        /\ tmp[r][a].whole
        /\ Exclusive /\ out[a] # NoFile => out[a].gen <= g
        /\ out[a] # NoFile => out[a].whole
        /\ out' = [out EXCEPT ![a] = tmp[r][a]]
        /\ out \in [Archives -> Files \cup {NoFile}]
    BY <1>2 DEF Move, ArchiveInv, TypeOK, TmpProgress, OutIsWhole
  <2>2. g \in Gens
    BY <2>1 DEF Files
  <2>3. tmp[r][a] # NoFile
    BY <2>1, NoFileAssumption
  <2>4. Restorable' = [Restorable EXCEPT ![a] = g]
    BY <2>1, <2>3 DEF Restorable
  <2>5. Exclusive /\ Restorable[a] # NoFile => Restorable[a] <= g
    BY <2>1 DEF Restorable
  <2> QED BY <2>1, <2>2, <2>4, <2>5 DEF Archive!Next, Archive!Publish
<1> QED BY <1>1, <1>2 DEF Next, vars, Change, Start, Missing, Present, TarBegin, TarEnd,
        TarFails, List, ListFails, Abort, Kill

\* However runs fail, are killed or overlap, a restoring machine sees archives
\* that are replaced whole and in one step, and never by an older one if runs
\* do not overlap.
THEOREM ScriptsImplementArchive == Spec => RefinesArchive
  BY ArchiveInit, ArchiveStep, RestorableInit, RestorableStep, PTL
     DEF Spec, RefinesArchive, Archive!Spec
-----------------------------------------------------------------------------
(* What a run has behind it: there, whole, and fresh if runs do not overlap. *)

LEMMA FreshInit == Init => FreshInv
  BY ArchiveInit, MaxGenAssumption
     DEF Init, FreshInv, SeenIsPast, PrefixIsKept, Passed, Archives

\* An archive never vanishes, and is never replaced by an older one if runs do
\* not overlap.
LEMMA OutGrows ==
    ASSUME FreshInv, [Next]_vars, NEW a \in Archives, out[a] # NoFile
    PROVE  out'[a] # NoFile /\ (Exclusive => out'[a].gen >= out[a].gen)
<1>1. out[a] \in Files /\ out[a].gen \in Nat
  BY MaxGenAssumption DEF FreshInv, ArchiveInv, TypeOK, Files, Gens
<1>2. CASE out' = out
  BY <1>1, <1>2
<1>3. ASSUME NEW r \in Runs, Move(r)
      PROVE  out'[a] # NoFile /\ (Exclusive => out'[a].gen >= out[a].gen)
  <2>1. /\ tmp[r][at[r]] \in Files
        /\ out' = [out EXCEPT ![at[r]] = tmp[r][at[r]]]
        /\ Exclusive /\ out[at[r]] # NoFile => out[at[r]].gen <= tmp[r][at[r]].gen
    BY <1>3 DEF Move, FreshInv, ArchiveInv, TmpProgress
  <2>2. tmp[r][at[r]].gen \in Nat /\ tmp[r][at[r]] # NoFile
    BY <2>1, NoFileAssumption, MaxGenAssumption DEF Files, Gens
  <2> QED BY <1>1, <2>1, <2>2 DEF FreshInv, ArchiveInv, TypeOK
<1> QED BY <1>2, <1>3 DEF Next, vars, Change, Start, Missing, Present, TarBegin, TarEnd,
        TarFails, List, ListFails, Abort, Kill

\* Where GoOn leads: the archive it leaves is the only one it adds to the
\* prefix.
LEMMA GoOnLeads ==
    ASSUME ArchiveInv, NEW r \in Runs, GoOn(r), NEW a \in Archives,
           a < at'[r] \/ pc'[r] = "done"
    PROVE  a < at[r] \/ a = at[r]
<1>1. at[r] \in Archives /\ a \in 0..NumCaches
  BY DEF ArchiveInv, TypeOK, Archives
<1>2. CASE at[r] < NumCaches
  <2>1. at'[r] = at[r] + 1 /\ pc'[r] = "check"
    BY <1>2 DEF GoOn, ArchiveInv, TypeOK
  <2> QED BY <2>1, <1>1, NumCachesAssumption DEF Archives
<1>3. CASE ~(at[r] < NumCaches)
  BY <1>1, <1>3, NumCachesAssumption DEF Archives
<1> QED BY <1>2, <1>3

LEMMA FreshStep == FreshInv /\ [Next]_vars => FreshInv'
<1> SUFFICES ASSUME FreshInv, [Next]_vars PROVE SeenIsPast' /\ PrefixIsKept'
  BY ArchiveStep DEF FreshInv
<1> USE NumCachesAssumption, MaxGenAssumption
    DEF FreshInv, ArchiveInv, TypeOK, Working
<1>0. \A s \in Runs, a \in Archives :
        seen[s][a] \in Nat /\ live[a] \in Nat
  OBVIOUS
\* Whatever a step does, what is kept stays kept.
<1>1. ASSUME NEW s \in Runs, NEW a \in Archives,
             out[a] # NoFile, Exclusive => out[a].gen >= seen[s][a]
      PROVE  out'[a] # NoFile /\ (Exclusive => out'[a].gen >= seen[s][a])
  <2>1. out'[a] # NoFile /\ (Exclusive => out'[a].gen >= out[a].gen)
    BY <1>1, OutGrows
  <2>2. out[a].gen \in Nat
    BY <1>1 DEF Files, Gens
  <2>3. ArchiveInv'
    BY ArchiveStep
  <2>4. out'[a] \in Files
    BY <2>1, <2>3
  <2>5. out'[a].gen \in Nat
    BY <2>4 DEF Files, Gens
  <2> QED BY <1>0, <1>1, <2>1, <2>2, <2>5
\* A step that leaves the runs' progress alone, or takes it away.
<1>2. /\ UNCHANGED <<at, first, seen>>
      /\ \A s \in Runs : pc'[s] # pc[s] => pc'[s] # "done" /\ pc[s] # "idle"
      => PrefixIsKept'
  <2> SUFFICES ASSUME UNCHANGED <<at, first, seen>>,
                      \A s \in Runs : pc'[s] # pc[s] => pc'[s] # "done" /\ pc[s] # "idle"
               PROVE  PrefixIsKept'
    OBVIOUS
  <2> QED BY <1>1 DEF PrefixIsKept, Passed
<1>3. ASSUME NEW a \in Archives, Change(a) PROVE SeenIsPast' /\ PrefixIsKept'
  <2>1. \A b \in Archives : live'[b] \in Nat /\ live'[b] >= live[b]
    BY <1>3 DEF Change
  <2>2. SeenIsPast'
    BY <1>0, <1>3, <2>1 DEF Change, SeenIsPast
  <2> QED BY <1>2, <1>3, <2>2 DEF Change
<1>4. ASSUME NEW r \in Runs, NEW a \in {0, 1} \cap Archives, Start(r, a)
      PROVE  SeenIsPast' /\ PrefixIsKept'
  <2>1. SeenIsPast'
    BY <1>0, <1>4 DEF Start, SeenIsPast
  <2>2. \A s \in Runs : s # r => /\ pc'[s] = pc[s] /\ at'[s] = at[s]
                                /\ first'[s] = first[s] /\ seen'[s] = seen[s]
    BY <1>4 DEF Start
  <2>3. pc'[r] = "check" /\ at'[r] = first'[r] /\ first'[r] \in {0, 1}
    BY <1>4 DEF Start
  <2>4. ASSUME NEW s \in Runs, NEW b \in Archives, s # r,
               pc[s] # "idle", first[s] <= b, b < at[s] \/ pc[s] = "done", seen[s][b] # 0
        PROVE  out'[b] # NoFile /\ (Exclusive => out'[b].gen >= seen[s][b])
    BY <1>1, <2>4 DEF PrefixIsKept, Passed
  <2>5. ASSUME NEW b \in Archives, first'[r] <= b PROVE ~(b < at'[r] \/ pc'[r] = "done")
    BY <2>3, <2>5 DEF Archives
  <2> QED BY <2>1, <2>2, <2>3, <2>4, <2>5 DEF PrefixIsKept, Passed
\* A run that goes on has put its archive there or found the directory missing.
<1>5. ASSUME NEW r \in Runs, GoOn(r), pc[r] \in Working,
             seen[r][at[r]] # 0 =>
               out'[at[r]] # NoFile /\ (Exclusive => out'[at[r]].gen >= seen[r][at[r]]),
             UNCHANGED <<first, seen>>
      PROVE  PrefixIsKept'
  <2>1. \A s \in Runs : s # r => pc'[s] = pc[s] /\ at'[s] = at[s]
    BY <1>5 DEF GoOn
  <2>2. ASSUME NEW s \in Runs, NEW b \in Archives, s # r,
               pc[s] # "idle", first[s] <= b, b < at[s] \/ pc[s] = "done", seen[s][b] # 0
        PROVE  out'[b] # NoFile /\ (Exclusive => out'[b].gen >= seen[s][b])
    BY <1>1, <2>2 DEF PrefixIsKept, Passed
  <2>3. ASSUME NEW b \in Archives, first[r] <= b, b < at'[r] \/ pc'[r] = "done", seen[r][b] # 0
        PROVE  out'[b] # NoFile /\ (Exclusive => out'[b].gen >= seen[r][b])
    <3>1. b < at[r] \/ b = at[r]
      BY <1>5, <2>3, GoOnLeads
    <3> QED BY <1>1, <1>5, <2>3, <3>1 DEF PrefixIsKept, Passed
  <2> QED BY <1>5, <2>1, <2>2, <2>3 DEF PrefixIsKept, Passed
<1>6. ASSUME NEW r \in Runs, Missing(r) PROVE SeenIsPast' /\ PrefixIsKept'
  <2>1. CASE at[r] = 0
    BY <1>2, <1>6, <2>1 DEF Missing, SeenIsPast
  <2>2. CASE at[r] # 0
    <3>1. GoOn(r) /\ pc[r] = "check" /\ live[at[r]] = 0
          /\ UNCHANGED <<live, out, tmp, first, seen>>
      BY <1>6, <2>2 DEF Missing
    <3>2. seen[r][at[r]] = 0
      BY <1>0, <3>1 DEF SeenIsPast
    <3>3. SeenIsPast'
      BY <3>1 DEF SeenIsPast, GoOn
    <3> QED BY <1>5, <3>1, <3>2, <3>3
  <2> QED BY <2>1, <2>2
<1>7. ASSUME NEW r \in Runs, Present(r) PROVE SeenIsPast' /\ PrefixIsKept'
  BY <1>2, <1>7 DEF Present, SeenIsPast
<1>8. ASSUME NEW r \in Runs, TarBegin(r) PROVE SeenIsPast' /\ PrefixIsKept'
  <2>1. /\ tmp'[r][at[r]].gen = live[at[r]]
        /\ \A s \in Runs : s # r => tmp'[s] = tmp[s]
    BY <1>8 DEF TarBegin
  <2>2. SeenIsPast'
    BY <1>8, <2>1 DEF TarBegin, SeenIsPast
  <2> QED BY <1>2, <1>8, <2>2 DEF TarBegin
<1>9. ASSUME NEW r \in Runs, TarEnd(r) PROVE SeenIsPast' /\ PrefixIsKept'
  <2>1. PICK kept \in BOOLEAN : tmp' = [tmp EXCEPT ![r][at[r]].whole = kept]
    BY <1>9 DEF TarEnd
  <2>2. /\ tmp'[r][at[r]].gen = tmp[r][at[r]].gen
        /\ \A s \in Runs : s # r => tmp'[s] = tmp[s]
    BY <1>9, <2>1 DEF TarEnd, TmpProgress, Files
  <2>3. SeenIsPast'
    BY <1>9, <2>2 DEF TarEnd, SeenIsPast
  <2> QED BY <1>2, <1>9, <2>3 DEF TarEnd
<1>10. ASSUME NEW r \in Runs, Abort(r), pc[r] \in Working PROVE SeenIsPast' /\ PrefixIsKept'
  <2>1. \A s \in Runs : s # r => tmp'[s] = tmp[s] /\ pc'[s] = pc[s]
    BY <1>10 DEF Abort
  <2>2. SeenIsPast'
    BY <1>10, <2>1 DEF Abort, SeenIsPast
  <2> QED BY <1>2, <1>10, <2>2 DEF Abort
<1>11. ASSUME NEW r \in Runs, List(r) PROVE SeenIsPast' /\ PrefixIsKept'
  BY <1>2, <1>11 DEF List, SeenIsPast
<1>12. ASSUME NEW r \in Runs, Move(r) PROVE SeenIsPast' /\ PrefixIsKept'
  <2>1. /\ tmp[r][at[r]] \in Files
        /\ seen[r][at[r]] <= tmp[r][at[r]].gen
        /\ out' = [out EXCEPT ![at[r]] = tmp[r][at[r]]]
        /\ tmp' = [tmp EXCEPT ![r][at[r]] = NoFile]
        /\ GoOn(r) /\ pc[r] = "move" /\ UNCHANGED <<live, first, seen>>
    BY <1>12 DEF Move, TmpProgress, SeenIsPast
  <2>2. /\ out'[at[r]] # NoFile
        /\ (Exclusive => out'[at[r]].gen >= seen[r][at[r]])
    <3>1. tmp[r][at[r]].gen \in Nat /\ tmp[r][at[r]] # NoFile
      BY <2>1, NoFileAssumption DEF Files, Gens
    <3> QED BY <1>0, <2>1, <3>1
  <2>3. /\ \A s \in Runs : s # r => tmp'[s] = tmp[s] /\ pc'[s] = pc[s] /\ at'[s] = at[s]
        /\ pc'[r] \in {"check", "done"}
    BY <2>1 DEF GoOn
  <2>4. SeenIsPast'
    BY <2>1, <2>3 DEF SeenIsPast
  <2> QED BY <1>5, <2>1, <2>2, <2>4
<1>13. ASSUME NEW r \in Runs, Kill(r) PROVE SeenIsPast' /\ PrefixIsKept'
  BY <1>2, <1>13 DEF Kill, SeenIsPast
<1>14. CASE UNCHANGED vars
  BY <1>2, <1>14 DEF vars, SeenIsPast
<1> QED BY <1>3, <1>4, <1>6, <1>7, <1>8, <1>9, <1>10, <1>11, <1>12, <1>13, <1>14
        DEF Next, TarFails, ListFails

\* Taken one at a time, a run has persisted everything it has behind it, also
\* when it then fails or is killed.
THEOREM RunsLeaveAFreshPrefix == Exclusive => (Spec => []PrefixIsFresh)
<1> SUFFICES ASSUME Exclusive PROVE Spec => []PrefixIsFresh
  OBVIOUS
<1>1. FreshInv => PrefixIsFresh
  BY DEF FreshInv, PrefixIsKept, PrefixIsFresh
<1> QED BY FreshInit, FreshStep, <1>1, PTL DEF Spec

\* Runs that overlap remove nothing of each other: what a run has behind it
\* is persisted and whole, though it may be what another run wrote.
THEOREM RunsLeaveAWholePrefix == Spec => []PrefixIsWhole
<1>1. FreshInv => PrefixIsWhole
  BY DEF FreshInv, ArchiveInv, OutIsWhole, PrefixIsKept, PrefixIsWhole
<1> QED BY FreshInit, FreshStep, <1>1, PTL DEF Spec

-----------------------------------------------------------------------------
(* What follows from the abstract store alone.                             *)

LEMMA ArchiveTypes == Archive!Spec => []Archive!TypeOK
<1>1. Archive!Init => Archive!TypeOK
  BY DEF Archive!Init, Archive!TypeOK
<1>2. Archive!TypeOK /\ [Archive!Next]_Restorable => Archive!TypeOK'
  BY DEF Archive!TypeOK, Archive!Next, Archive!Publish
<1> QED BY <1>1, <1>2, PTL DEF Archive!Spec

\* What a machine could restore once it can restore from then on, and no older
\* state of it if runs do not overlap (snapshot_runtime_state.sh:17-22,
\* snapshot_runtime_caches.sh:25-31).
THEOREM ArchivesNeverWorsen == Spec => Archive!NeverWorse
<1>1. Archive!TypeOK /\ [Archive!Next]_Restorable =>
        [\A a \in Archives : Restorable[a] # NoFile =>
           Restorable'[a] # NoFile /\ (Exclusive => Restorable[a] <= Restorable'[a])]_Restorable
  <2> SUFFICES ASSUME Archive!TypeOK, NEW b \in Archives, NEW g \in Gens, Archive!Publish(b, g),
                      NEW a \in Archives, Restorable[a] # NoFile
               PROVE  Restorable'[a] # NoFile /\ (Exclusive => Restorable[a] <= Restorable'[a])
    BY DEF Archive!Next
  <2>1. g # NoFile /\ Restorable[a] \in Nat
    BY NoFileAssumption, MaxGenAssumption DEF Archive!TypeOK, Gens
  <2>2. Restorable'[a] = IF a = b THEN g ELSE Restorable[a]
    BY DEF Archive!TypeOK, Archive!Publish
  <2> QED BY <2>1, <2>2 DEF Archive!Publish
<1> QED BY ScriptsImplementArchive, ArchiveTypes, <1>1, PTL
        DEF RefinesArchive, Archive!Spec, Archive!NeverWorse

=============================================================================
