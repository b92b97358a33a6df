------------------------- MODULE OffloadRegionProofs -------------------------
(***************************************************************************)
(* Theorems about OffloadRegion, for any number of launches, ranks, engine *)
(* ids, sizes and polls.  The first two hold however servers overlap and   *)
(* however early cleanup starts; the others assume the operator's and the  *)
(* executor's discipline, ~Overlap and Orderly.                            *)
(***************************************************************************)
EXTENDS OffloadRegion, TLAPS

LEMMA LaunchInLaunches ==
    ASSUME NEW p \in Procs PROVE Launch(p) \in Launches
  BY DEF Procs, Launch

-----------------------------------------------------------------------------
(* Types.                                                                  *)

LEMMA TypeInit == Init => TypeOK
  BY PollsAssumption, LaunchesAssumption DEF Init, TypeOK, PCs, Launches

LEMMA TypeStep == TypeOK /\ [Next]_vars => TypeOK'
<1> SUFFICES ASSUME TypeOK, [Next]_vars PROVE TypeOK'
  OBVIOUS
<1> USE LaunchesAssumption, PollsAssumption, SizesAssumption DEF TypeOK
<1>1. CASE StartServer
  BY <1>1 DEF StartServer, Swept, use, handles, PCs, Initialising
<1>2. ASSUME NEW l \in Launches, StopServer(l) PROVE TypeOK'
  BY <1>2 DEF StopServer, files, handles, use
<1>3. ASSUME NEW p \in Procs, Construct(p) PROVE TypeOK'
  <2> USE LaunchInLaunches DEF host, files, handles, use, PCs, Initialising, Attached, Gone
  <2>1. CASE CreateExclusive(p)   BY <2>1 DEF CreateExclusive
  <2>2. CASE FileExists(p)        BY <2>2 DEF FileExists
  <2>3. CASE Truncate(p)          BY <2>3 DEF Truncate, SizeOf
  <2>4. CASE Reopen(p)            BY <2>4 DEF Reopen, PathOf
  <2>5. CASE SizeReached(p)       BY <2>5 DEF SizeReached
  <2>6. CASE PollAgain(p)         BY <2>6 DEF PollAgain
  <2>7. CASE TimeOut(p)           BY <2>7 DEF TimeOut
  <2>8. CASE Mmap(p)              BY <2>8 DEF Mmap
  <2>9. CASE Populate(p)          BY <2>9 DEF Populate, AfterPopulate
  <2> QED BY <1>3, <2>1, <2>2, <2>3, <2>4, <2>5, <2>6, <2>7, <2>8, <2>9 DEF Construct
<1>4. ASSUME NEW p \in Procs, Cleanup(p) PROVE TypeOK'
  <2> USE DEF host, files, handles, use, PCs, Attached, Gone
  <2>1. CASE Unregister(p)        BY <2>1 DEF Unregister
  <2>2. CASE CloseMapping(p)      BY <2>2 DEF CloseMapping
  <2>3. CASE CloseFd(p)           BY <2>3 DEF CloseFd
  <2>4. CASE Unlink(p)            BY <2>4 DEF Unlink
  <2>5. CASE Exit(p)              BY <2>5 DEF Exit, Ends
  <2> QED BY <1>4, <2>1, <2>2, <2>3, <2>4, <2>5 DEF Cleanup
<1>5. ASSUME NEW p \in Procs, Callers(p) PROVE TypeOK'
  <2> USE DEF host, files, handles
  <2>1. CASE Pin(p)               BY <2>1 DEF Pin
  <2>2. CASE Export(p)            BY <2>2 DEF Export
  <2>3. CASE DropViews(p)         BY <2>3 DEF DropViews
  <2> QED BY <1>5, <2>1, <2>2, <2>3 DEF Callers
<1>6. ASSUME NEW p \in Procs, Kill(p) PROVE TypeOK'
  BY <1>6 DEF Kill, Ends, host, files, PCs, Gone
<1>8. ASSUME NEW p \in Procs, Failing(p) PROVE TypeOK'
  <2> USE DEF host, files, handles, use, PCs, Attached, Gone
  <2>1. CASE CallFails(p)         BY <2>1 DEF CallFails, Ends
  <2>2. CASE UnregisterFails(p)   BY <2>2 DEF UnregisterFails
  <2>3. CASE UnlinkFails(p)       BY <2>3 DEF UnlinkFails
  <2> QED BY <1>8, <2>1, <2>2, <2>3 DEF Failing
<1>7. CASE UNCHANGED vars
  BY <1>7 DEF vars, host, files, handles, use
<1> QED BY <1>1, <1>2, <1>3, <1>4, <1>5, <1>6, <1>7, <1>8 DEF Next

\* Every variable of the region protocol keeps its type in every reachable state.
THEOREM TypeCorrect == Spec => []TypeOK
  BY TypeInit, TypeStep, PTL DEF Spec
-----------------------------------------------------------------------------
(* Sizes: a mapping never reaches past the end of its file.                *)

LEMMA BackedInit == Init => BackedInv
<1>1. \A p \in Procs : Launch(p) > 0
  BY LaunchInLaunches DEF Launches
<1> QED BY TypeInit, <1>1 DEF Init, BackedInv, Progress, FullyBacked

LEMMA BackedStep == BackedInv /\ [Next]_vars => BackedInv'
<1> SUFFICES ASSUME BackedInv, [Next]_vars PROVE Progress' /\ FullyBacked'
  BY TypeStep DEF BackedInv
<1> USE NoInodeAssumption DEF BackedInv, TypeOK, Progress, FullyBacked, SizeOf
<1>1. CASE StartServer
  <2>1. \A p \in Procs : Launch(p) \in Nat
    BY LaunchInLaunches DEF Launches
  <2>2. \A p \in Procs : Launch(p) = cur + 1 => pc[p] = "idle"
    BY <2>1
  <2> QED BY <1>1, <2>1, <2>2 DEF StartServer, handles
<1>2. ASSUME NEW l \in Launches, StopServer(l) PROVE Progress' /\ FullyBacked'
  BY <1>2 DEF StopServer, files, handles
<1>3. ASSUME NEW p \in Procs, Construct(p) PROVE Progress' /\ FullyBacked'
  <2> USE LaunchInLaunches, SizesAssumption DEF host, files, handles
  <2>1. CASE CreateExclusive(p)   BY <2>1 DEF CreateExclusive
  <2>2. CASE FileExists(p)        BY <2>2 DEF FileExists
  <2>3. CASE Truncate(p)
    <3>1. /\ fd[p] = p
          /\ size' = [size EXCEPT ![p] = total[Launch(p)]]
          /\ total[Launch(p)] \in Nat
          /\ size[p] = 0
      BY <2>3 DEF Truncate
    <3>2. \A i \in Procs : size'[i] \in Nat /\ size'[i] >= size[i]
      BY <3>1
    <3>5. \A q \in Procs : total[Launch(q)] \in Nat
      OBVIOUS
    <3>3. Progress'
      BY <2>3, <3>1, <3>2, <3>5 DEF Truncate
    <3>4. FullyBacked'
      BY <2>3, <3>2, <3>5 DEF Truncate
    <3> QED BY <3>3, <3>4
  <2>4. CASE Reopen(p)            BY <2>4 DEF Reopen, PathOf
  <2>5. CASE SizeReached(p)       BY <2>5 DEF SizeReached, BigEnough, SizeOf
  <2>6. CASE PollAgain(p)         BY <2>6 DEF PollAgain
  <2>7. CASE TimeOut(p)           BY <2>7 DEF TimeOut
  <2>8. CASE Mmap(p)              BY <2>8 DEF Mmap
  <2>9. CASE Populate(p)          BY <2>9 DEF Populate, AfterPopulate
  <2> QED BY <1>3, <2>1, <2>2, <2>3, <2>4, <2>5, <2>6, <2>7, <2>8, <2>9 DEF Construct
<1>4. ASSUME NEW p \in Procs, Cleanup(p) PROVE Progress' /\ FullyBacked'
  <2> USE DEF host, files, handles
  <2>1. CASE Unregister(p)        BY <2>1 DEF Unregister
  <2>2. CASE CloseMapping(p)      BY <2>2 DEF CloseMapping
  <2>3. CASE CloseFd(p)           BY <2>3 DEF CloseFd
  <2>4. CASE Unlink(p)            BY <2>4 DEF Unlink
  <2>5. CASE Exit(p)              BY <2>5 DEF Exit, Ends
  <2> QED BY <1>4, <2>1, <2>2, <2>3, <2>4, <2>5 DEF Cleanup
<1>5. ASSUME NEW p \in Procs, Callers(p) PROVE Progress' /\ FullyBacked'
  <2> USE DEF host, files, handles
  <2>1. CASE Pin(p)               BY <2>1 DEF Pin
  <2>2. CASE Export(p)            BY <2>2 DEF Export
  <2>3. CASE DropViews(p)         BY <2>3 DEF DropViews
  <2> QED BY <1>5, <2>1, <2>2, <2>3 DEF Callers
<1>6. ASSUME NEW p \in Procs, Kill(p) PROVE Progress' /\ FullyBacked'
  BY <1>6 DEF Kill, Ends, host, files, handles, Initialising, Attached
<1>8. ASSUME NEW p \in Procs, Failing(p) PROVE Progress' /\ FullyBacked'
  <2> USE DEF host, files, handles, use
  <2>1. CASE CallFails(p)         BY <2>1 DEF CallFails, Calls, Ends
  <2>2. CASE UnregisterFails(p)   BY <2>2 DEF UnregisterFails
  <2>3. CASE UnlinkFails(p)       BY <2>3 DEF UnlinkFails
  <2> QED BY <1>8, <2>1, <2>2, <2>3 DEF Failing
<1>7. CASE UNCHANGED vars
  BY <1>7 DEF vars, host, files, handles, use
<1> QED BY <1>1, <1>2, <1>3, <1>4, <1>5, <1>6, <1>7, <1>8 DEF Next

\* Whatever overlaps and whoever is killed, a mapped region is backed by its
\* file up to its last byte.
THEOREM MappingsAreBacked == Spec => []FullyBacked
<1>1. BackedInv => FullyBacked
  BY DEF BackedInv
<1> QED BY BackedInit, BackedStep, <1>1, PTL DEF Spec

-----------------------------------------------------------------------------
(* Registrations with the device.                                          *)

LEMMA PinStep == PinInv /\ [Next]_vars => PinInv'
<1> SUFFICES ASSUME PinInv, [Next]_vars
             PROVE  \A p \in Procs :
                      /\ pinned'[p] => pc'[p] = "ready"
                      /\ kept'[p] => pc'[p] \in {"unmap", "closefd", "unlink", "closed"}
                      /\ pc'[p] \in {"populate", "ready", "unmap"} => mapped'[p] \in Procs
  BY BackedStep DEF PinInv
<1> USE DEF PinInv, BackedInv, TypeOK, Progress
<1>1. CASE StartServer
  <2>1. \A q \in Procs : Launch(q) = cur + 1 => pc[q] = "idle"
    BY LaunchInLaunches, LaunchesAssumption DEF Launches
  <2> QED BY <1>1, <2>1 DEF StartServer, handles, use
<1>2. ASSUME NEW l \in Launches, StopServer(l)
      PROVE  pc' = pc /\ UNCHANGED <<pinned, kept, mapped>>
  BY <1>2 DEF StopServer, handles, use
<1>3. ASSUME NEW q \in Procs,
             Construct(q) \/ Cleanup(q) \/ Failing(q) \/ Callers(q) \/ Kill(q),
             NEW p \in Procs
      PROVE  /\ pinned'[p] => pc'[p] = "ready"
             /\ kept'[p] => pc'[p] \in {"unmap", "closefd", "unlink", "closed"}
             /\ pc'[p] \in {"populate", "ready", "unmap"} => mapped'[p] \in Procs
  <2> USE DEF host, files, handles, use
  <2>1. CASE CreateExclusive(q)   BY <2>1 DEF CreateExclusive
  <2>2. CASE FileExists(q)        BY <2>2 DEF FileExists
  <2>3. CASE Truncate(q)          BY <2>3 DEF Truncate
  <2>4. CASE Reopen(q)            BY <2>4 DEF Reopen
  <2>5. CASE SizeReached(q)       BY <2>5 DEF SizeReached
  <2>6. CASE PollAgain(q)         BY <2>6 DEF PollAgain
  <2>7. CASE TimeOut(q)           BY <2>7 DEF TimeOut
  <2>8. CASE Mmap(q)
    <3>1. fd[q] \in Procs
      BY <2>8, NoInodeAssumption DEF Mmap
    <3> QED BY <2>8, <3>1 DEF Mmap
  <2>9. CASE Populate(q)          BY <2>9 DEF Populate, AfterPopulate
  <2>10. CASE Unregister(q)       BY <2>10 DEF Unregister
  <2>11. CASE CloseMapping(q)     BY <2>11 DEF CloseMapping
  <2>12. CASE CloseFd(q)          BY <2>12 DEF CloseFd
  <2>13. CASE Unlink(q)           BY <2>13 DEF Unlink
  <2>14. CASE Exit(q)             BY <2>14 DEF Exit, Ends
  <2>15. CASE Pin(q)              BY <2>15 DEF Pin
  <2>16. CASE Export(q)           BY <2>16 DEF Export
  <2>17. CASE DropViews(q)        BY <2>17 DEF DropViews, Attached
  <2>18. CASE Kill(q)             BY <2>18 DEF Kill, Ends
  <2>19. CASE CallFails(q)        BY <2>19 DEF CallFails, Ends
  <2>20. CASE UnregisterFails(q)  BY <2>20 DEF UnregisterFails
  <2>21. CASE UnlinkFails(q)      BY <2>21 DEF UnlinkFails
  <2> QED BY <1>3, <2>1, <2>2, <2>3, <2>4, <2>5, <2>6, <2>7, <2>8, <2>9, <2>10, <2>11,
             <2>12, <2>13, <2>14, <2>15, <2>16, <2>17, <2>18, <2>19, <2>20, <2>21
          DEF Construct, Cleanup, Failing, Callers
<1>4. CASE UNCHANGED vars
  BY <1>4 DEF vars, handles, use
<1> QED BY <1>1, <1>2, <1>3, <1>4 DEF Next

\* What a process counts as registered it still has mapped: cleanup has the device
\* forget the mapping, or gives the registration up, before it closes it, however
\* servers overlap and whoever is killed.
THEOREM PinnedStaysMapped == Spec => []PinnedIsMapped
<1>1. Init => PinInv
  BY BackedInit DEF Init, PinInv
<1>2. PinInv => PinnedIsMapped
  BY NoInodeAssumption DEF PinInv, PinnedIsMapped
<1> QED BY <1>1, PinStep, <1>2, PTL DEF Spec

-----------------------------------------------------------------------------
(* The calls make progress: the safety part of their termination.          *)

\* StartServer begins what is idle, and a step of a process moves no other.
LEMMA TurnsAdvance ==
    ASSUME BackedInv, [Next]_vars
    PROVE  \A p \in Procs : /\ Turn(p) <= Turn(p)' /\ Turn(p)' <= LastTurn
                            /\ Construct(p) \/ Cleanup(p) \/ Failing(p) => Turn(p) < Turn(p)'
<1> SUFFICES ASSUME NEW p \in Procs
             PROVE  /\ Turn(p) <= Turn(p)' /\ Turn(p)' <= LastTurn
                    /\ Construct(p) \/ Cleanup(p) \/ Failing(p) => Turn(p) < Turn(p)'
  OBVIOUS
<1> USE PollsAssumption DEF BackedInv, TypeOK, LastTurn
<1>0. TypeOK'
  BY TypeStep
<1>1. Turn(p) \in Nat /\ Turn(p) <= LastTurn /\ Turn(p)' \in Nat /\ Turn(p)' <= LastTurn
  BY <1>0 DEF Turn
<1>2. UNCHANGED <<pc, polls>> => Turn(p) = Turn(p)'
  BY DEF Turn
<1>3. pc'[p] = pc[p] /\ polls'[p] = polls[p] => Turn(p) = Turn(p)'
  BY DEF Turn
<1>4. CASE Construct(p)
  <2> USE DEF Turn, host, files, handles
  <2>1. CASE CreateExclusive(p)   BY <2>1 DEF CreateExclusive
  <2>2. CASE FileExists(p)        BY <2>2 DEF FileExists
  <2>3. CASE Truncate(p)          BY <2>3 DEF Truncate
  <2>4. CASE Reopen(p)
    <3>1. pc[p] = "reopen" /\ pc'[p] \in {"failed", "wait"} /\ polls'[p] \in 0..MaxPolls
      BY <2>4 DEF Reopen
    <3>2. Turn(p) = 2
      BY <3>1
    <3>3. Turn(p)' > 2
      <4>1. CASE pc'[p] = "failed"
        BY <4>1
      <4>2. CASE pc'[p] = "wait"
        BY <3>1, <4>2
      <4> QED BY <3>1, <4>1, <4>2
    <3> QED BY <1>1, <3>2, <3>3
  <2>5. CASE SizeReached(p)       BY <2>5 DEF SizeReached
  <2>6. CASE PollAgain(p)         BY <2>6 DEF PollAgain
  <2>7. CASE TimeOut(p)           BY <2>7 DEF TimeOut
  <2>8. CASE Mmap(p)              BY <2>8 DEF Mmap
  <2>9. CASE Populate(p)          BY <2>9 DEF Populate, AfterPopulate
  <2> QED BY <1>1, <1>4, <2>1, <2>2, <2>3, <2>4, <2>5, <2>6, <2>7, <2>8, <2>9 DEF Construct
<1>5. CASE Cleanup(p)
  <2> USE DEF Turn, host, files, handles
  <2>1. CASE Unregister(p)        BY <2>1 DEF Unregister
  <2>2. CASE CloseMapping(p)      BY <2>2 DEF CloseMapping
  <2>3. CASE CloseFd(p)           BY <2>3 DEF CloseFd
  <2>4. CASE Unlink(p)            BY <2>4 DEF Unlink
  <2>5. CASE Exit(p)              BY <2>5 DEF Exit, Ends
  <2> QED BY <1>1, <1>5, <2>1, <2>2, <2>3, <2>4, <2>5 DEF Cleanup
<1>7. CASE Failing(p)
  <2> USE DEF Turn, host, files, handles
  <2>1. CASE CallFails(p)         BY <2>1 DEF CallFails, Calls, Ends
  <2>2. CASE UnregisterFails(p)   BY <2>2 DEF UnregisterFails
  <2>3. CASE UnlinkFails(p)       BY <2>3 DEF UnlinkFails
  <2> QED BY <1>1, <1>7, <2>1, <2>2, <2>3 DEF Failing
<1>6. CASE ~Construct(p) /\ ~Cleanup(p) /\ ~Failing(p)
  <2> SUFFICES Turn(p) <= Turn(p)'
    BY <1>1, <1>6
  <2>1. CASE StartServer
    <3>1. Launch(p) = cur + 1 => pc[p] = "idle"
      BY LaunchInLaunches, LaunchesAssumption DEF Launches, Progress
    <3>2. polls' = polls /\ pc'[p] = IF Launch(p) = cur + 1 THEN "open" ELSE pc[p]
      BY <2>1 DEF StartServer
    <3> QED BY <1>1, <3>1, <3>2 DEF Turn
  <2>2. ASSUME NEW l \in Launches, StopServer(l) PROVE Turn(p) <= Turn(p)'
    BY <1>1, <1>2, <2>2 DEF StopServer
  <2>3. ASSUME NEW q \in Procs, Callers(q) PROVE Turn(p) <= Turn(p)'
    BY <1>1, <1>2, <2>3 DEF Callers, Pin, Export, DropViews
  <2>4. ASSUME NEW q \in Procs, q # p,
               Construct(q) \/ Cleanup(q) \/ Failing(q) \/ Kill(q)
        PROVE  Turn(p) <= Turn(p)'
    <3>1. pc'[p] = pc[p] /\ polls'[p] = polls[p]
      BY <2>4 DEF Construct, Cleanup, Failing, Kill, CallFails, UnregisterFails,
         UnlinkFails, CreateExclusive, FileExists, Truncate, Reopen,
         SizeReached, PollAgain, TimeOut, Mmap, Populate, Unregister, CloseMapping, CloseFd,
         Unlink, Exit, Ends
    <3> QED BY <1>1, <1>3, <3>1
  <2>5. CASE Kill(p)
    <3>1. pc'[p] = "killed"
      BY <2>5 DEF Kill, Ends
    <3>2. Turn(p)' = LastTurn
      BY <3>1 DEF Turn
    <3> QED BY <1>1, <3>2
  <2>6. CASE UNCHANGED vars
    BY <1>1, <1>2, <2>6 DEF vars
  <2> QED BY <1>6, <2>1, <2>2, <2>3, <2>4, <2>5, <2>6 DEF Next
<1> QED BY <1>1, <1>4, <1>5, <1>6, <1>7

\* A constructor and a cleanup take a bounded number of steps, none of which
\* undoes another, whatever overlaps and whoever is killed.
THEOREM CallsAreBounded == Spec => CallsAdvance
<1>1. BackedInv /\ [Next]_vars =>
        [\A p \in Procs : /\ Turn(p) <= Turn(p)' /\ Turn(p)' <= LastTurn
                          /\ Construct(p) \/ Cleanup(p) \/ Failing(p) => Turn(p) < Turn(p)']_vars
  BY TurnsAdvance
<1> QED BY BackedInit, BackedStep, <1>1, PTL DEF Spec, CallsAdvance

-----------------------------------------------------------------------------
(* Leaks: only a kill or a failed system call leaves a file behind.        *)

LEMMA LeakInit == Init => LeakInv
  BY BackedInit DEF Init, LeakInv, NamedByCreator, OrphansHaveACause

LEMMA LeakStep == LeakInv /\ [Next]_vars => LeakInv'
<1> SUFFICES ASSUME LeakInv, [Next]_vars
             PROVE NamedByCreator' /\ OrphansHaveACause'
  BY BackedStep DEF LeakInv
<1> USE NoInodeAssumption DEF LeakInv, BackedInv, TypeOK, NamedByCreator,
        OrphansHaveACause, PathOf, Initialising, Attached
<1>1. CASE StartServer
  BY <1>1 DEF StartServer, Swept
<1>2. ASSUME NEW l \in Launches, StopServer(l)
      PROVE NamedByCreator' /\ OrphansHaveACause'
  BY <1>2 DEF StopServer, files
<1>3. ASSUME NEW p \in Procs, Construct(p)
      PROVE NamedByCreator' /\ OrphansHaveACause'
  <2> USE LaunchInLaunches DEF host, files, handles, Progress
  <2>1. CASE CreateExclusive(p)   BY <2>1 DEF CreateExclusive
  <2>2. CASE FileExists(p)        BY <2>2 DEF FileExists
  <2>3. CASE Truncate(p)          BY <2>3 DEF Truncate
  <2>4. CASE Reopen(p)            BY <2>4 DEF Reopen
  <2>5. CASE SizeReached(p)       BY <2>5 DEF SizeReached
  <2>6. CASE PollAgain(p)         BY <2>6 DEF PollAgain
  <2>7. CASE TimeOut(p)           BY <2>7 DEF TimeOut
  <2>8. CASE Mmap(p)              BY <2>8 DEF Mmap
  <2>9. CASE Populate(p)          BY <2>9 DEF Populate, AfterPopulate
  <2> QED BY <1>3, <2>1, <2>2, <2>3, <2>4, <2>5, <2>6, <2>7, <2>8, <2>9 DEF Construct
<1>4. ASSUME NEW p \in Procs, Cleanup(p)
      PROVE NamedByCreator' /\ OrphansHaveACause'
  <2> USE DEF host, files, handles
  <2>1. CASE Unregister(p)        BY <2>1 DEF Unregister
  <2>2. CASE CloseMapping(p)      BY <2>2 DEF CloseMapping
  <2>3. CASE CloseFd(p)           BY <2>3 DEF CloseFd
  <2>4. CASE Unlink(p)            BY <2>4 DEF Unlink
  <2>5. CASE Exit(p)              BY <2>5 DEF Exit, Ends
  <2> QED BY <1>4, <2>1, <2>2, <2>3, <2>4, <2>5 DEF Cleanup
<1>5. ASSUME NEW p \in Procs, Callers(p)
      PROVE NamedByCreator' /\ OrphansHaveACause'
  <2> USE DEF host, files
  <2>1. CASE Pin(p)               BY <2>1 DEF Pin
  <2>2. CASE Export(p)            BY <2>2 DEF Export
  <2>3. CASE DropViews(p)         BY <2>3 DEF DropViews
  <2> QED BY <1>5, <2>1, <2>2, <2>3 DEF Callers
<1>6. ASSUME NEW p \in Procs, Kill(p)
      PROVE NamedByCreator' /\ OrphansHaveACause'
  BY <1>6 DEF Kill, Ends, host, files
<1>8. ASSUME NEW p \in Procs, Failing(p)
      PROVE NamedByCreator' /\ OrphansHaveACause'
  <2> USE DEF host, files, handles, use
  <2>1. CASE CallFails(p)         BY <2>1 DEF CallFails, Ends
  <2>2. CASE UnregisterFails(p)   BY <2>2 DEF UnregisterFails
  <2>3. CASE UnlinkFails(p)       BY <2>3 DEF UnlinkFails
  <2> QED BY <1>8, <2>1, <2>2, <2>3 DEF Failing
<1>7. CASE UNCHANGED vars
  BY <1>7 DEF vars, host, files
<1> QED BY <1>1, <1>2, <1>3, <1>4, <1>5, <1>6, <1>7, <1>8 DEF Next

\* A name in /dev/shm has a creator that will still unlink it, or that was
\* killed or met an error of a system call, whatever overlaps.
THEOREM LeaksNeedACause == Spec => []OrphansHaveACause
<1>1. LeakInv => OrphansHaveACause
  BY DEF LeakInv
<1> QED BY LeakInit, LeakStep, <1>1, PTL DEF Spec
-----------------------------------------------------------------------------
(* One region per server, when servers do not overlap and cleanup excludes *)
(* construction.                                                           *)

\* Outside the latest launch nobody holds anything.
LEMMA EarlierHoldNothing ==
    ASSUME LeakInv, OneAtATime, HandlesOf, NEW p \in Procs, Launch(p) # cur
    PROVE  /\ pc[p] \in Gone \cup {"idle"}
           /\ fd[p] = NoInode
           /\ mapped[p] = NoInode
           /\ ~creator[p]
<1>1. Launch(p) \in Nat /\ cur \in Nat
  BY LaunchInLaunches, LaunchesAssumption DEF Launches, LeakInv, BackedInv, TypeOK
<1>2. Launch(p) < cur \/ Launch(p) > cur
  BY <1>1
<1>3. pc[p] \in Gone \cup {"idle"}
  BY <1>2 DEF OneAtATime, LeakInv, BackedInv, Progress
<1> QED BY <1>3 DEF HandlesOf, LeakInv, BackedInv, Progress

LEMMA OthersHoldNothing ==
    ASSUME SharedInv, NEW p \in Procs, Launch(p) # cur
    PROVE  /\ pc[p] \in Gone \cup {"idle"}
           /\ fd[p] = NoInode
           /\ mapped[p] = NoInode
           /\ ~creator[p]
  BY EarlierHoldNothing DEF SharedInv, Sharing

\* A process that has not ended belongs to the latest launch, and to a server
\* that is not stopping while the process is in its constructor.
LEMMA LiveIsCurrent ==
    ASSUME SharedInv, NEW p \in Procs, pc[p] \in Initialising \cup Attached
    PROVE  /\ Launch(p) = cur
           /\ pc[p] \in Initialising => cur \notin stopping
<1>1. Launch(p) \in Nat /\ cur \in Nat
  BY LaunchInLaunches, LaunchesAssumption
     DEF Launches, SharedInv, LeakInv, BackedInv, TypeOK
<1>2. pc[p] \notin Gone /\ pc[p] # "idle"
  BY DEF Initialising, Attached, Gone
<1>3. ~(Launch(p) < cur) /\ ~(Launch(p) > cur)
  BY <1>2 DEF SharedInv, Sharing, OneAtATime, LeakInv, BackedInv, Progress
<1>4. Launch(p) = cur
  BY <1>1, <1>3
<1> QED BY <1>4 DEF SharedInv, Sharing, CleanupExcludesConstruction

LEMMA SharedInit == Init => SharedInv
<1> SUFFICES ASSUME Init PROVE Sharing
  BY LeakInit DEF SharedInv
<1>1. \A p \in Procs : Launch(p) \in Nat /\ ~(Launch(p) < 0)
  BY LaunchInLaunches DEF Launches
<1> QED BY <1>1 DEF Init, Sharing, OneAtATime, CleanupExcludesConstruction,
    HandlesOf, HeldIsNamed, FilesAreCurrent, OneRegion, FailsForAReason,
    Initialising

LEMMA SharedStep ==
    ASSUME ~Overlap, Orderly PROVE SharedInv /\ [Next]_vars => SharedInv'
<1> SUFFICES ASSUME SharedInv, [Next]_vars PROVE Sharing'
  BY LeakStep DEF SharedInv
<1> USE NoInodeAssumption DEF SharedInv, LeakInv, BackedInv, TypeOK, Sharing,
        OneAtATime, CleanupExcludesConstruction, HandlesOf, HeldIsNamed,
        FilesAreCurrent, OneRegion, FailsForAReason, PathOf
<1>1. CASE StartServer
  <2>1. \A p \in Procs : Launch(p) \in Launches
    BY LaunchInLaunches
  <2>2. \A p \in Procs : pc[p] \in Gone \cup {"idle"}
    BY <1>1 DEF StartServer
  <2>3. \A p \in Procs : fd[p] = NoInode /\ mapped[p] = NoInode /\ ~creator[p]
    BY <2>2 DEF Progress
  <2>4. OneAtATime' /\ CleanupExcludesConstruction'
    <3>1. cur \in Nat /\ cur' = cur + 1 /\ \A l \in stopping : l \in Nat /\ l <= cur
      BY <1>1, LaunchesAssumption DEF StartServer, Launches
    <3>2. ASSUME NEW p \in Procs
          PROVE  /\ Launch(p) < cur + 1 => pc[p] \in Gone /\ pc'[p] = pc[p]
                 /\ Launch(p) = cur + 1 => pc'[p] = "open"
                 /\ Launch(p) > cur + 1 => pc'[p] = "idle"
      <4>1. Launch(p) \in Nat
        BY <2>1 DEF Launches
      <4>2. Launch(p) < cur + 1 => pc[p] # "idle"
        BY <3>1, <4>1 DEF Progress
      <4>3. Launch(p) > cur + 1 => pc[p] = "idle"
        BY <3>1, <4>1 DEF Progress
      <4> QED BY <1>1, <2>2, <3>1, <4>1, <4>2, <4>3 DEF StartServer
    <3>3. OneAtATime'
      BY <3>1, <3>2
    <3>4. CleanupExcludesConstruction'
      BY <1>1, <2>1, <3>1, <3>2 DEF StartServer, Launches, Gone, Initialising
    <3> QED BY <3>3, <3>4
  <2>5. HandlesOf' /\ HeldIsNamed' /\ OneRegion'
    BY <1>1, <2>2, <2>3 DEF StartServer, handles, Gone
  <2>6. FilesAreCurrent' /\ FailsForAReason'
    BY <1>1, <2>2, <2>3 DEF StartServer, Swept, Gone
  <2> QED BY <2>4, <2>5, <2>6
<1>2. ASSUME NEW l \in Launches, StopServer(l) PROVE Sharing'
  BY <1>2 DEF StopServer, files, handles, MembersOf
<1>3. ASSUME NEW p \in Procs, Construct(p) PROVE Sharing'
  <2> USE DEF host, files, handles, Progress, Gone, Initialising, Attached
  <2>0. pc[p] \in Initialising /\ Launch(p) = cur /\ cur \notin stopping
    <3>1. pc[p] \in Initialising
      BY <1>3 DEF Construct, CreateExclusive, FileExists, Truncate, Reopen,
         SizeReached, PollAgain, TimeOut, Mmap, Populate
    <3> QED BY <3>1, LiveIsCurrent
  <2>1. CASE CreateExclusive(p)
    <3>1. \A q \in Procs :
            fd[q] = NoInode /\ mapped[q] = NoInode /\ ~creator[q] /\ pc[q] # "reopen"
      <4>1. ASSUME NEW q \in Procs, Launch(q) = cur
            PROVE fd[q] = NoInode /\ mapped[q] = NoInode /\ ~creator[q] /\ pc[q] # "reopen"
        BY <2>0, <2>1, <4>1 DEF CreateExclusive
      <4>2. ASSUME NEW q \in Procs, Launch(q) # cur
            PROVE fd[q] = NoInode /\ mapped[q] = NoInode /\ ~creator[q] /\ pc[q] # "reopen"
        BY <4>2, OthersHoldNothing
      <4> QED BY <4>1, <4>2
    <3>2. OneAtATime' /\ CleanupExcludesConstruction' /\ HandlesOf'
      BY <2>0, <2>1 DEF CreateExclusive
    <3>6. fd'[p] = p /\ mapped'[p] = NoInode /\ pc'[p] = "truncate" /\ dir'[engine'[Launch(p)]] = p
      BY <2>1, <3>1, LaunchInLaunches DEF CreateExclusive
    <3>7. \A q \in Procs : /\ ~creator'[q] /\ mapped'[q] = NoInode
                           /\ q # p => fd'[q] = NoInode /\ pc'[q] # "reopen"
      BY <2>1, <3>1 DEF CreateExclusive
    <3>3. HeldIsNamed'
      BY <3>6, <3>7
    <3>4. FilesAreCurrent'
      BY <2>0, <2>1, <3>1 DEF CreateExclusive
    <3>5. OneRegion' /\ FailsForAReason'
      BY <2>0, <2>1, <3>1 DEF CreateExclusive
    <3> QED BY <3>2, <3>3, <3>4, <3>5
  <2>2. CASE FileExists(p)        BY <2>0, <2>2 DEF FileExists
  <2>3. CASE Truncate(p)          BY <2>0, <2>3 DEF Truncate
  <2>4. CASE Reopen(p)            BY <2>0, <2>4 DEF Reopen
  <2>5. CASE SizeReached(p)       BY <2>0, <2>5 DEF SizeReached
  <2>6. CASE PollAgain(p)         BY <2>0, <2>6 DEF PollAgain
  <2>7. CASE TimeOut(p)           BY <2>0, <2>7 DEF TimeOut
  <2>8. CASE Mmap(p)              BY <2>0, <2>8 DEF Mmap
  <2>9. CASE Populate(p)          BY <2>0, <2>9 DEF Populate, AfterPopulate
  <2> QED BY <1>3, <2>1, <2>2, <2>3, <2>4, <2>5, <2>6, <2>7, <2>8, <2>9 DEF Construct
<1>4. ASSUME NEW p \in Procs, Cleanup(p) PROVE Sharing'
  <2> USE DEF host, files, handles, Gone, Initialising, Attached
  <2>1. CASE Unregister(p)        BY <2>1 DEF Unregister
  <2>2. CASE CloseMapping(p)      BY <2>2 DEF CloseMapping
  <2>3. CASE CloseFd(p)           BY <2>3 DEF CloseFd
  <2>4. CASE Unlink(p)
    <3>1. Launch(p) = cur /\ cur \in stopping
      BY <2>4, LiveIsCurrent DEF Unlink
    <3>2. OneAtATime' /\ CleanupExcludesConstruction' /\ HandlesOf'
      BY <2>4, <3>1 DEF Unlink
    <3>3. ASSUME NEW q \in Procs, Launch(q) \notin stopping
          PROVE fd[q] = NoInode /\ mapped[q] = NoInode /\ pc[q] # "reopen" /\ ~creator[q]
      BY <3>1, <3>3, OthersHoldNothing
    <3>4. HeldIsNamed'
      BY <2>4, <3>3 DEF Unlink
    <3>5. FilesAreCurrent' /\ OneRegion' /\ FailsForAReason'
      BY <2>4, <3>1 DEF Unlink
    <3> QED BY <3>2, <3>4, <3>5
  <2>5. CASE Exit(p)              BY <2>5 DEF Exit, Ends
  <2> QED BY <1>4, <2>1, <2>2, <2>3, <2>4, <2>5 DEF Cleanup
<1>5. ASSUME NEW p \in Procs, Callers(p) PROVE Sharing'
  <2> USE DEF host, files
  <2>1. CASE Pin(p)               BY <2>1 DEF Pin, handles
  <2>2. CASE Export(p)            BY <2>2 DEF Export, handles
  <2>3. CASE DropViews(p)         BY <2>3 DEF DropViews
  <2> QED BY <1>5, <2>1, <2>2, <2>3 DEF Callers
<1>6. ASSUME NEW p \in Procs, Kill(p) PROVE Sharing'
  BY <1>6 DEF Kill, Ends, host, files, Gone, Initialising, Attached
<1>8. ASSUME NEW p \in Procs, Failing(p) PROVE Sharing'
  <2> USE DEF host, files, handles, use, Gone, Initialising, Attached
  <2>1. CASE CallFails(p)         BY <2>1 DEF CallFails, Calls, Ends
  <2>2. CASE UnregisterFails(p)   BY <2>2 DEF UnregisterFails
  <2>3. CASE UnlinkFails(p)       BY <2>3 DEF UnlinkFails
  <2> QED BY <1>8, <2>1, <2>2, <2>3 DEF Failing
<1>7. CASE UNCHANGED vars
  BY <1>7 DEF vars, host, files, handles
<1> QED BY <1>1, <1>2, <1>3, <1>4, <1>5, <1>6, <1>7, <1>8 DEF Next
\* Two processes of a server never map different inodes: the region is shared
\* by all of its workers.
THEOREM RegionIsShared == (~Overlap /\ Orderly) => (Spec => []OneRegion)
<1> SUFFICES ASSUME ~Overlap, Orderly PROVE Spec => []OneRegion
  OBVIOUS
<1>1. SharedInv /\ [Next]_vars => SharedInv'
  BY SharedStep
<1>2. SharedInv => OneRegion
  BY DEF SharedInv, Sharing
<1> QED BY SharedInit, <1>1, <1>2, PTL DEF Spec

\* The constructor fails by an error of one of its calls or at the end of its
\* deadline; no path vanishes between its two opens, and no answer of madvise
\* fails it.
THEOREM ConstructorFailsForAReason == (~Overlap /\ Orderly) => (Spec => []FailsForAReason)
<1> SUFFICES ASSUME ~Overlap, Orderly PROVE Spec => []FailsForAReason
  OBVIOUS
<1>1. SharedInv /\ [Next]_vars => SharedInv'
  BY SharedStep
<1>2. SharedInv => FailsForAReason
  BY DEF SharedInv, Sharing
<1> QED BY SharedInit, <1>1, <1>2, PTL DEF Spec

-----------------------------------------------------------------------------
(* What needs no more than that servers do not overlap.                    *)

\* A live process belongs to the latest launch.
LEMMA LiveIsLatest ==
    ASSUME ServingInv, NEW p \in Procs, pc[p] \in Initialising \cup Attached
    PROVE  Launch(p) = cur
  BY EarlierHoldNothing DEF ServingInv, Initialising, Attached, Gone

\* A process of a server that has not been told to stop, other than the latest,
\* holds nothing and is not about to.
LEMMA StoppedHoldNothing ==
    ASSUME ServingInv, cur \in stopping, NEW q \in Procs, Launch(q) \notin stopping
    PROVE  /\ fd[q] = NoInode /\ mapped[q] = NoInode /\ ~creator[q]
           /\ pc[q] \in Gone \cup {"idle"}
  BY EarlierHoldNothing DEF ServingInv

LEMMA ServingInit == Init => ServingInv
<1> SUFFICES ASSUME Init PROVE ServingInv
  OBVIOUS
<1>1. \A p \in Procs : Launch(p) \in Nat /\ ~(Launch(p) < 0)
  BY LaunchInLaunches DEF Launches
<1>2. LeakInv
  BY LeakInit
<1> QED BY <1>1, <1>2 DEF Init, ServingInv, OneAtATime, CleanupFollowsStop, HandlesOf,
    HeldIsNamed, OwnersAreNamed, PolledIsOwn, OneRegionUntilStop, ReasonOrStop

\* The invariant without its first part, which LeakStep keeps.
Serving ==
    /\ OneAtATime
    /\ CleanupFollowsStop
    /\ HandlesOf
    /\ HeldIsNamed
    /\ OwnersAreNamed
    /\ PolledIsOwn
    /\ OneRegionUntilStop
    /\ ReasonOrStop

LEMMA ServingStep ==
    ASSUME ~Overlap PROVE ServingInv /\ [Next]_vars => ServingInv'
<1> SUFFICES ASSUME ServingInv, [Next]_vars PROVE Serving'
  BY LeakStep DEF ServingInv, Serving
<1> USE NoInodeAssumption DEF Serving, ServingInv, LeakInv, BackedInv, TypeOK, OneAtATime,
        CleanupFollowsStop, HandlesOf, HeldIsNamed, OwnersAreNamed, PolledIsOwn,
        OneRegionUntilStop, ReasonOrStop, PathOf, SizeOf, BigEnough
<1>1. CASE StartServer
  <2>1. \A p \in Procs : Launch(p) \in Launches
    BY LaunchInLaunches
  <2>2. \A p \in Procs : pc[p] \in Gone \cup {"idle"}
    BY <1>1 DEF StartServer
  <2>3. \A p \in Procs : fd[p] = NoInode /\ mapped[p] = NoInode /\ ~creator[p]
    BY <2>2 DEF Progress
  <2>4. OneAtATime' /\ CleanupFollowsStop'
    <3>1. cur \in Nat /\ cur' = cur + 1 /\ \A l \in stopping : l \in Nat /\ l <= cur
      BY <1>1, LaunchesAssumption DEF StartServer, Launches
    <3>2. ASSUME NEW p \in Procs
          PROVE  /\ Launch(p) < cur + 1 => pc[p] \in Gone /\ pc'[p] = pc[p]
                 /\ Launch(p) = cur + 1 => pc'[p] = "open"
                 /\ Launch(p) > cur + 1 => pc'[p] = "idle"
      <4>1. Launch(p) \in Nat
        BY <2>1 DEF Launches
      <4>2. Launch(p) < cur + 1 => pc[p] # "idle"
        BY <3>1, <4>1 DEF Progress
      <4>3. Launch(p) > cur + 1 => pc[p] = "idle"
        BY <3>1, <4>1 DEF Progress
      <4> QED BY <1>1, <2>2, <3>1, <4>1, <4>2, <4>3 DEF StartServer
    <3>3. OneAtATime'
      BY <3>1, <3>2
    <3>4. CleanupFollowsStop'
      BY <1>1, <2>1, <3>1, <3>2 DEF StartServer, Launches, Gone
    <3> QED BY <3>3, <3>4
  <2>5. HandlesOf' /\ HeldIsNamed' /\ OneRegionUntilStop'
    BY <1>1, <2>2, <2>3 DEF StartServer, handles, Gone
  <2>6. OwnersAreNamed' /\ ReasonOrStop' /\ PolledIsOwn'
    BY <1>1, <2>2, <2>3 DEF StartServer, Swept, Gone
  <2> QED BY <2>4, <2>5, <2>6
<1>2. ASSUME NEW l \in Launches, StopServer(l) PROVE Serving'
  BY <1>2 DEF StopServer, files, handles
<1>3. ASSUME NEW p \in Procs, Construct(p) PROVE Serving'
  <2> USE DEF host, files, handles, Progress, Gone, Initialising, Attached
  <2>0. pc[p] \in Initialising /\ Launch(p) = cur
    <3>1. pc[p] \in Initialising
      BY <1>3 DEF Construct, CreateExclusive, FileExists, Truncate, Reopen,
         SizeReached, PollAgain, TimeOut, Mmap, Populate
    <3> QED BY <3>1, LiveIsLatest
  <2>1. CASE CreateExclusive(p)
    <3>1. \A q \in Procs : Launch(q) \notin stopping =>
            fd[q] = NoInode /\ mapped[q] = NoInode /\ ~creator[q] /\ pc[q] # "reopen"
      <4>1. ASSUME NEW q \in Procs, Launch(q) = cur, cur \notin stopping
            PROVE fd[q] = NoInode /\ mapped[q] = NoInode /\ ~creator[q] /\ pc[q] # "reopen"
        BY <2>0, <2>1, <4>1 DEF CreateExclusive
      <4>2. ASSUME NEW q \in Procs, Launch(q) # cur
            PROVE fd[q] = NoInode /\ mapped[q] = NoInode /\ ~creator[q] /\ pc[q] # "reopen"
        BY <4>2, EarlierHoldNothing
      <4> QED BY <4>1, <4>2
    <3>2. OneAtATime' /\ CleanupFollowsStop' /\ HandlesOf'
      BY <2>0, <2>1 DEF CreateExclusive
    <3>3. fd'[p] = p /\ mapped'[p] = NoInode /\ pc'[p] = "truncate" /\ dir'[engine'[Launch(p)]] = p
          /\ ~creator[p]
      BY <2>1, LaunchInLaunches DEF CreateExclusive
    <3>4. \A q \in Procs : q # p => fd'[q] = fd[q] /\ pc'[q] = pc[q]
      BY <2>1 DEF CreateExclusive
    <3>5. HeldIsNamed'
      BY <2>1, <3>1, <3>3, <3>4 DEF CreateExclusive
    <3>6. \A q \in Procs : q # p => (~creator[q] /\ pc[q] # "truncate") \/ PathOf(q) # PathOf(p)
      BY <2>1 DEF CreateExclusive
    <3>7. OwnersAreNamed'
      <4>1. \A e \in EngineIds : dir'[e] # NoInode => Launch(dir'[e]) = cur
        BY <2>0, <2>1 DEF CreateExclusive
      <4>2. \A q \in Procs : q # p /\ (creator[q] \/ pc[q] = "truncate")
                => dir'[engine[Launch(q)]] = q
        BY <2>1, <3>6 DEF CreateExclusive
      <4> QED BY <2>1, <3>3, <3>4, <4>1, <4>2 DEF CreateExclusive
    <3>8. PolledIsOwn' /\ OneRegionUntilStop' /\ ReasonOrStop'
      BY <2>1, <3>3, <3>4 DEF CreateExclusive
    <3> QED BY <3>2, <3>5, <3>7, <3>8
  <2>2. CASE FileExists(p)        BY <2>0, <2>2 DEF FileExists
  <2>3. CASE Truncate(p)
    <3>1. fd[p] = p /\ size'[p] = SizeOf(p)
      BY <2>3 DEF Truncate
    <3>2. PolledIsOwn'
      <4>0. \A q \in Procs : total[Launch(q)] \in Nat
        <5>1. ASSUME NEW q \in Procs PROVE total[Launch(q)] \in Sizes
          <6>1. Launch(q) \in Launches
            BY LaunchInLaunches
          <6>2. total \in [Launches -> Sizes]
            OBVIOUS
          <6> HIDE DEF Serving, ServingInv, LeakInv, BackedInv, TypeOK
          <6> QED BY <6>1, <6>2
        <5> HIDE DEF Serving, ServingInv, LeakInv, BackedInv, TypeOK
        <5> QED BY <5>1, SizesAssumption
      <4>1. /\ size' = [size EXCEPT ![p] = total[Launch(p)]] /\ UNCHANGED <<dir, total, fd>>
            /\ pc' = [pc EXCEPT ![p] = "mmap"]
        BY <2>3, <3>1 DEF Truncate
      <4>2. ASSUME NEW i \in Procs
            PROVE  \/ size[i] >= total[Launch(i)]
                   \/ pc[i] \in {"truncate", "killed", "failed"}
                   => \/ size'[i] >= total[Launch(i)]
                      \/ pc'[i] \in {"truncate", "killed", "failed"}
        BY <4>0, <4>1
      <4>3. ASSUME NEW e \in EngineIds, dir[e] # NoInode
            PROVE  \/ size'[dir[e]] >= total[Launch(dir[e])]
                   \/ pc'[dir[e]] \in {"truncate", "killed", "failed"}
        BY <4>2, <4>3
      <4>4. ASSUME NEW q \in Procs, pc'[q] = "wait"
            PROVE  /\ Launch(fd[q]) = Launch(q)
                   /\ \/ size'[fd[q]] >= total[Launch(q)]
                      \/ pc'[fd[q]] \in {"truncate", "killed", "failed"}
        <5>1. /\ fd[q] \in Procs /\ Launch(fd[q]) = Launch(q)
              /\ \/ size[fd[q]] >= total[Launch(q)]
                 \/ pc[fd[q]] \in {"truncate", "killed", "failed"}
          BY <4>1, <4>4
        <5> QED BY <4>2, <5>1
      <4> QED BY <4>1, <4>3, <4>4
    <3> QED BY <2>0, <2>3, <3>1, <3>2 DEF Truncate
  <2>4. CASE Reopen(p)
    <3>1. PolledIsOwn'
      <4>1. ASSUME NEW i \in Procs, i = dir[PathOf(p)]
            PROVE  /\ Launch(i) = Launch(p)
                   /\ size[i] >= SizeOf(p) \/ pc[i] \in {"truncate", "killed", "failed"}
        <5>1. PathOf(p) \in EngineIds
          BY LaunchInLaunches
        <5>2. Launch(i) = cur
          BY <4>1, <5>1
        <5>3. pc[i] \in {"truncate", "killed", "failed"} \/ size[i] >= total[Launch(i)]
          BY <4>1, <5>1
        <5> QED BY <2>0, <5>2, <5>3
      <4>2. \A q \in Procs : q # p => fd'[q] = fd[q] /\ pc'[q] = pc[q]
        BY <2>4 DEF Reopen
      <4>3. PathOf(p) \in EngineIds
        BY LaunchInLaunches
      <4>4. pc'[p] = "wait" => fd'[p] \in Procs /\ fd'[p] = dir[PathOf(p)]
        BY <2>4, <4>3 DEF Reopen
      <4> QED BY <2>4, <4>1, <4>2, <4>4 DEF Reopen
    <3>2. HandlesOf' /\ HeldIsNamed' /\ ReasonOrStop'
      BY <2>0, <2>4 DEF Reopen
    <3> QED BY <2>0, <2>4, <3>1, <3>2 DEF Reopen
  <2>5. CASE SizeReached(p)       BY <2>0, <2>5 DEF SizeReached
  <2>6. CASE PollAgain(p)         BY <2>0, <2>6 DEF PollAgain
  <2>7. CASE TimeOut(p)           BY <2>0, <2>7 DEF TimeOut
  <2>8. CASE Mmap(p)              BY <2>0, <2>8 DEF Mmap
  <2>9. CASE Populate(p)          BY <2>0, <2>9 DEF Populate, AfterPopulate
  <2> QED BY <1>3, <2>1, <2>2, <2>3, <2>4, <2>5, <2>6, <2>7, <2>8, <2>9 DEF Construct
<1>4. ASSUME NEW p \in Procs, Cleanup(p) PROVE Serving'
  <2> USE DEF host, files, handles, Gone, Initialising, Attached
  <2>1. CASE Unregister(p)        BY <2>1 DEF Unregister
  <2>2. CASE CloseMapping(p)      BY <2>2 DEF CloseMapping
  <2>3. CASE CloseFd(p)           BY <2>3 DEF CloseFd
  <2>4. CASE Unlink(p)
    <3>1. Launch(p) = cur /\ cur \in stopping
      BY <2>4, LiveIsLatest DEF Unlink
    <3>2. OneAtATime' /\ CleanupFollowsStop' /\ HandlesOf' /\ PolledIsOwn'
      BY <2>4, <3>1 DEF Unlink
    <3>3. HeldIsNamed'
      BY <2>4, <3>1, StoppedHoldNothing DEF Unlink
    <3>4. OwnersAreNamed' /\ OneRegionUntilStop' /\ ReasonOrStop'
      BY <2>4, <3>1 DEF Unlink
    <3> QED BY <3>2, <3>3, <3>4
  <2>5. CASE Exit(p)              BY <2>5 DEF Exit, Ends
  <2> QED BY <1>4, <2>1, <2>2, <2>3, <2>4, <2>5 DEF Cleanup
<1>5. ASSUME NEW p \in Procs, Callers(p) PROVE Serving'
  <2> USE DEF host, files
  <2>1. CASE Pin(p)               BY <2>1 DEF Pin, handles
  <2>2. CASE Export(p)            BY <2>2 DEF Export, handles
  <2>3. CASE DropViews(p)         BY <2>3 DEF DropViews
  <2> QED BY <1>5, <2>1, <2>2, <2>3 DEF Callers
<1>6. ASSUME NEW p \in Procs, Kill(p) PROVE Serving'
  BY <1>6 DEF Kill, Ends, host, files, Gone, Initialising, Attached
<1>8. ASSUME NEW p \in Procs, Failing(p) PROVE Serving'
  <2> USE DEF host, files, handles, use, Gone, Initialising, Attached
  <2>1. CASE CallFails(p)         BY <2>1 DEF CallFails, Calls, Ends
  <2>2. CASE UnregisterFails(p)   BY <2>2 DEF UnregisterFails
  <2>3. CASE UnlinkFails(p)       BY <2>3 DEF UnlinkFails
  <2> QED BY <1>8, <2>1, <2>2, <2>3 DEF Failing
<1>7. CASE UNCHANGED vars
  BY <1>7 DEF vars, host, files, handles
<1> QED BY <1>1, <1>2, <1>3, <1>4, <1>5, <1>6, <1>7, <1>8 DEF Next

LEMMA ServingAlways == ASSUME ~Overlap PROVE Spec => []ServingInv
<1>1. ServingInv /\ [Next]_vars => ServingInv'
  BY ServingStep
<1> QED BY ServingInit, <1>1, PTL DEF Spec

\* A worker polls a short file only while a sibling is about to truncate it or
\* ended before it could: never a file of an earlier server.
THEOREM WaitersHaveACreator == ~Overlap => (Spec => []WaitsOnTheCreator)
<1> SUFFICES ASSUME ~Overlap PROVE Spec => []WaitsOnTheCreator
  OBVIOUS
<1>1. ServingInv => WaitsOnTheCreator
  BY DEF ServingInv, PolledIsOwn, WaitsOnTheCreator
<1> QED BY ServingAlways, <1>1, PTL

\* cleanup, which unlinks by path, never removes a file that another process
\* created, even if a server is told to stop while it starts.
THEOREM UnlinkIsOwn == ~Overlap => (Spec => UnlinksOwnFile)
<1> SUFFICES ASSUME ~Overlap PROVE Spec => UnlinksOwnFile
  OBVIOUS
<1>1. ServingInv =>
        [\A p \in Procs : pc[p] = "unlink" /\ pc'[p] = "closed" =>
           dir[PathOf(p)] \in {p, NoInode}]_vars
  BY DEF ServingInv, OwnersAreNamed
<1> QED BY ServingAlways, <1>1, PTL DEF Spec, UnlinksOwnFile

\* Until a server is told to stop its processes share one region, and none of
\* them has failed but by an error of a call or by its deadline, whatever the
\* executor does afterwards.
THEOREM RegionIsSharedUntilStop ==
    ~Overlap => (Spec => [](OneRegionUntilStop /\ ReasonOrStop))
<1> SUFFICES ASSUME ~Overlap PROVE Spec => [](OneRegionUntilStop /\ ReasonOrStop)
  OBVIOUS
<1>1. ServingInv => OneRegionUntilStop /\ ReasonOrStop
  BY DEF ServingInv
<1> QED BY ServingAlways, <1>1, PTL

-----------------------------------------------------------------------------
(* One buffer for each server: the refinement of ServerBuffer.             *)

LEMMA BufferInit == Init => BufferInv
  BY SharedInit, BackedInit DEF Init, BufferInv, PinInv, MadeOnce

\* Nobody but the creator's name stands between a server and a second file.
LEMMA MadeOnceStep ==
    ASSUME BufferInv, [Next]_vars PROVE MadeOnce'
<1> USE DEF BufferInv, SharedInv, LeakInv, BackedInv, TypeOK, MadeOnce, PathOf
<1>1. CASE StartServer
  <2>1. /\ cur' = cur + 1 /\ UNCHANGED <<size, engine>>
        /\ \A p \in Procs : pc'[p] = "truncate" => pc[p] = "truncate"
    BY <1>1 DEF StartServer
  <2>2. \A p \in Procs : Launch(p) = cur + 1 => pc[p] = "idle" /\ size[p] = 0
    BY <1>1, LaunchInLaunches, LaunchesAssumption DEF Launches, Progress
  <2>3. \A p \in Procs : Launch(p) = cur' => ~(size'[p] > 0) /\ pc'[p] # "truncate"
    BY <2>1, <2>2
  <2> QED
    BY <2>1, <2>3
<1>2. ASSUME NEW l \in Launches, StopServer(l) PROVE MadeOnce'
  BY <1>2 DEF StopServer, files
<1>3. ASSUME NEW p \in Procs, CreateExclusive(p) PROVE MadeOnce'
  <2>1. ASSUME NEW q \in Procs, Launch(q) = Launch(p), Launch(q) = cur, cur \notin stopping
        PROVE  ~(size[q] > 0) /\ pc[q] # "truncate"
    BY <1>3, <2>1, NoInodeAssumption DEF CreateExclusive
  <2>2. ASSUME NEW q \in Procs, Launch(q) = cur, cur \notin stopping,
               size[q] > 0 \/ pc'[q] = "truncate"
        PROVE  dir'[engine[Launch(q)]] = q
    <3>1. Launch(p) = cur
      BY <1>3, LiveIsCurrent DEF CreateExclusive, Initialising
    <3>2. q = p
      BY <1>3, <2>1, <2>2, <3>1 DEF CreateExclusive
    <3> QED
      BY <1>3, <3>2, LaunchInLaunches DEF CreateExclusive
  <2> QED
    BY <1>3, <2>2 DEF CreateExclusive, host
<1>4. ASSUME NEW p \in Procs, Truncate(p) PROVE MadeOnce'
  <2>1. Launch(p) = cur /\ cur \notin stopping /\ dir[engine[Launch(p)]] = p
    BY <1>4, LiveIsCurrent DEF Truncate, Initialising
  <2>2. fd[p] = p /\ \A q \in Procs : q # p => size'[q] = size[q] /\ pc'[q] = pc[q]
    BY <1>4 DEF Truncate, Progress
  <2>3. ASSUME NEW q \in Procs, Launch(q) = Launch(p), q # p PROVE ~(size[q] > 0)
    BY <2>1, <2>3
  <2> QED
    BY <1>4, <2>1, <2>2, <2>3 DEF Truncate, host
<1>5. ASSUME NEW p \in Procs, Unlink(p) PROVE MadeOnce'
  <2>1. Launch(p) = cur /\ cur \in stopping
    BY <1>5, LiveIsCurrent DEF Unlink, Attached, Sharing, CleanupExcludesConstruction
  <2> QED
    BY <1>5, <2>1 DEF Unlink, host
<1>6. ASSUME UNCHANGED <<host, files>>,
             \A p \in Procs : pc'[p] = "truncate" => pc[p] = "truncate"
      PROVE  MadeOnce'
  BY <1>6 DEF host, files
<1>7. ASSUME NEW p \in Procs,
             \/ Construct(p) /\ ~CreateExclusive(p) /\ ~Truncate(p)
             \/ Cleanup(p) /\ ~Unlink(p)
             \/ Failing(p)
             \/ Callers(p)
             \/ Kill(p)
      PROVE  /\ UNCHANGED <<host, files>>
             /\ \A q \in Procs : pc'[q] = "truncate" => pc[q] = "truncate"
  <2>1. CASE Construct(p) /\ ~CreateExclusive(p) /\ ~Truncate(p)
    BY <2>1 DEF Construct, FileExists, Reopen, SizeReached, PollAgain, TimeOut, Mmap,
                Populate, AfterPopulate
  <2>2. CASE Cleanup(p) /\ ~Unlink(p)
    BY <2>2 DEF Cleanup, Unregister, CloseMapping, CloseFd, Exit, Ends
  <2>3. CASE Callers(p)
    BY <2>3 DEF Callers, Pin, Export, DropViews
  <2>4. CASE Kill(p)
    BY <2>4 DEF Kill, Ends
  <2>5. CASE Failing(p)
    BY <2>5 DEF Failing, CallFails, UnregisterFails, UnlinkFails, Ends
  <2> QED BY <1>7, <2>1, <2>2, <2>3, <2>4, <2>5
<1>8. CASE UNCHANGED vars
  BY <1>6, <1>8 DEF vars
<1> QED BY <1>1, <1>2, <1>3, <1>4, <1>5, <1>6, <1>7, <1>8 DEF Next

LEMMA BufferStep ==
    ASSUME ~Overlap, Orderly PROVE BufferInv /\ [Next]_vars => BufferInv'
  BY SharedStep, PinStep, MadeOnceStep DEF BufferInv

\* The one file of a server that has its size is what the server was given.
LEMMA GivenIsMade ==
    ASSUME MadeOnce, NEW p \in Procs, size[p] > 0
    PROVE  Given[Launch(p)] = p
<1>1. p \in MembersOf(Launch(p)) /\ \A q \in MembersOf(Launch(p)) : size[q] > 0 => q = p
  BY DEF MembersOf, MadeOnce
<1>2. BufferOf(Launch(p)) = p
  BY <1>1 DEF BufferOf
<1> QED BY <1>2, LaunchInLaunches DEF Given

LEMMA NoneIsGiven ==
    ASSUME NEW l \in Launches, \A p \in Procs : Launch(p) = l => ~(size[p] > 0)
    PROVE  Given[l] = NoInode
  BY DEF Given, BufferOf, MembersOf

\* What was given was made for the server.
LEMMA GivenIsOwn ==
    ASSUME NEW l \in Launches, Given[l] # NoInode
    PROVE  Given[l] \in Procs /\ Launch(Given[l]) = l /\ size[Given[l]] > 0
<1>1. \E p \in MembersOf(l) : size[p] > 0
  BY DEF Given, BufferOf
<1>2. BufferOf(l) \in MembersOf(l) /\ size[BufferOf(l)] > 0
  BY <1>1 DEF BufferOf
<1> QED BY <1>2 DEF Given, MembersOf

LEMMA GivenStays == ASSUME size' = size PROVE Given' = Given
  BY DEF Given, BufferOf, MembersOf

\* Truncate provides the buffer: the first of its server.
LEMMA TruncateProvides ==
    ASSUME BufferInv, NEW p \in Procs, Truncate(p) PROVE Buffer!Provide(p)
<1> USE DEF BufferInv, SharedInv, LeakInv, BackedInv, TypeOK
<1>1. /\ Launch(p) = cur /\ cur \notin stopping /\ dir[PathOf(p)] = p
      /\ fd[p] = p /\ size[p] = 0
  BY LiveIsCurrent DEF Truncate, Initialising, MadeOnce, Progress
<1>2. /\ size' = [size EXCEPT ![p] = total[Launch(p)]]
      /\ total[Launch(p)] \in Nat /\ total[Launch(p)] > 0
  <2>1. total[Launch(p)] \in Nat \ {0}
    BY LaunchInLaunches, SizesAssumption
  <2>2. size' = [size EXCEPT ![p] = total[Launch(p)]]
    BY <1>1 DEF Truncate, SizeOf
  <2> QED BY <2>1, <2>2
<1>3. \A q \in Procs : Launch(q) = cur => ~(size[q] > 0)
  BY <1>1 DEF MadeOnce, PathOf
<1>4. cur \in Launches
  BY <1>1, LaunchInLaunches
<1>5. Given[cur] = NoInode
  BY <1>3, <1>4, NoneIsGiven
<1>6. \A l \in Launches : Given[l] # p
  <2> SUFFICES ASSUME NEW l \in Launches, Given[l] = p PROVE FALSE
    OBVIOUS
  <2>1. size[p] > 0
    BY GivenIsOwn, NoInodeAssumption
  <2> QED BY <1>1, <2>1
<1>7. Given' = [Given EXCEPT ![cur] = p]
  <2>1. size'[p] > 0 /\ \A q \in Procs : q # p => size'[q] = size[q]
    BY <1>2
  <2>2. \A q \in MembersOf(cur) : size'[q] > 0 => q = p
    BY <1>3, <2>1 DEF MembersOf
  <2>3. BufferOf(cur)' = p
    <3>1. p \in MembersOf(cur)
      BY <1>1 DEF MembersOf
    <3>2. cur' = cur
      BY DEF Truncate, host
    <3>3. \A l : l = cur => BufferOf(l)' = p
      BY <2>1, <2>2, <3>1 DEF BufferOf, MembersOf
    <3> QED BY <3>2, <3>3
  <2>4. ASSUME NEW l \in Launches, l # cur PROVE BufferOf(l)' = BufferOf(l)
    <3>1. \A q \in MembersOf(l) : size'[q] = size[q]
      BY <1>1, <2>1, <2>4 DEF MembersOf
    <3> QED BY <3>1 DEF BufferOf, MembersOf
  <2> QED BY <1>4, <2>3, <2>4 DEF Given, Truncate, host
<1>8. UNCHANGED <<cur, mapped, Registered, GivenUp, Ended>>
  BY DEF Truncate, host, handles, use, Registered, GivenUp, Ended, Gone
<1> QED
  BY <1>4, <1>5, <1>6, <1>7, <1>8 DEF Buffer!Provide, Buffer!Servers, Launches

\* Mmap attaches the process to the buffer of its server.
LEMMA MmapAttaches ==
    ASSUME BufferInv, NEW p \in Procs, Mmap(p) PROVE Buffer!Attach(p)
<1> USE DEF BufferInv, SharedInv, LeakInv, BackedInv, TypeOK
<1>1. Launch(p) = cur /\ cur \notin stopping
  BY LiveIsCurrent DEF Mmap, Initialising
<1>2. fd[p] \in Procs /\ size[fd[p]] >= total[Launch(p)] /\ mapped[p] = NoInode
  BY DEF Mmap, Progress, SizeOf, Sharing, HandlesOf
<1>3. size[fd[p]] > 0
  <2>1. total[Launch(p)] \in Nat \ {0} /\ size[fd[p]] \in Nat
    BY <1>2, LaunchInLaunches, SizesAssumption
  <2> QED BY <1>2, <2>1
<1>4. Launch(fd[p]) = cur
  <2>1. fd[p] = dir[PathOf(p)] /\ PathOf(p) \in EngineIds
    BY <1>1, <1>2, NoInodeAssumption, LaunchInLaunches DEF Sharing, HeldIsNamed, PathOf
  <2> QED BY <1>2, <2>1, NoInodeAssumption DEF Sharing, FilesAreCurrent
<1>5. Given[cur] = fd[p]
  BY <1>2, <1>3, <1>4, GivenIsMade
<1>6. Given' = Given
  BY GivenStays DEF Mmap, files
<1>7. mapped' = [mapped EXCEPT ![p] = Given[cur]]
  BY <1>5 DEF Mmap
<1>8. UNCHANGED <<cur, Registered, GivenUp, Ended>> /\ p \notin Ended
  BY DEF Mmap, host, use, Registered, GivenUp, Ended, Gone
<1>9. p[1] = cur
  BY <1>1 DEF Launch
<1> QED
  BY <1>2, <1>5, <1>6, <1>7, <1>8, <1>9, NoInodeAssumption DEF Buffer!Attach

LEMMA EndsEnds ==
    ASSUME BufferInv, NEW p \in Procs, pc[p] \in Initialising \cup Attached,
           UNCHANGED <<host, files>>, pc' = [pc EXCEPT ![p] = pc'[p]], pc'[p] \in Gone,
           mapped' = [mapped EXCEPT ![p] = NoInode],
           pinned' = [pinned EXCEPT ![p] = FALSE],
           kept' = [kept EXCEPT ![p] = FALSE]
    PROVE  Buffer!End(p)
<1> USE DEF BufferInv, SharedInv, LeakInv, BackedInv, TypeOK
<1>1. p[1] = cur /\ cur \in Nat
  BY LiveIsCurrent, LaunchesAssumption DEF Launch
<1>2. Given' = Given /\ cur' = cur
  BY GivenStays DEF files, host
<1>3. Registered' = Registered \ {p} /\ GivenUp' = GivenUp \ {p}
  BY DEF Registered, GivenUp
<1>4. Ended' = Ended \cup {p}
  BY DEF Ended
<1> QED BY <1>1, <1>2, <1>3, <1>4 DEF Buffer!End

\* What is neither a launch, a file nor a mapping is no step of the buffer.
LEMMA BufferRests ==
    ASSUME UNCHANGED <<cur, size, mapped, pinned, kept>>,
           \A p \in Procs : pc'[p] \in Gone <=> pc[p] \in Gone
    PROVE  UNCHANGED <<cur, Given, mapped, Registered, GivenUp, Ended>>
  BY GivenStays DEF Registered, GivenUp, Ended

LEMMA StartBegins ==
    ASSUME ~Overlap, BufferInv, StartServer PROVE Buffer!Begin
<1> USE DEF BufferInv, SharedInv, LeakInv, BackedInv, TypeOK
<1>1. /\ cur < MaxLaunches /\ cur' = cur + 1
      /\ \A p \in Procs : pc[p] \in Gone \cup {"idle"}
      /\ pc' = [p \in Procs |-> IF Launch(p) = cur + 1 THEN "open" ELSE pc[p]]
      /\ UNCHANGED <<size, mapped, pinned, kept>>
  BY DEF StartServer, handles, use
<1>2. \A p \in Procs : Launch(p) \in Nat
  BY LaunchInLaunches DEF Launches
<1>3. cur \in Nat
  BY LaunchesAssumption
<1>4. \A p \in Procs : p[1] <= cur => p \in Ended
  BY <1>1, <1>2, <1>3 DEF Progress, Ended, Launch
<1>5. Ended' = Ended
  <2>1. \A p \in Procs : Launch(p) = cur + 1 => pc[p] = "idle"
    BY <1>2, <1>3 DEF Progress
  <2> QED BY <1>1, <2>1 DEF Ended, Gone
<1>6. Given' = Given /\ Registered' = Registered /\ GivenUp' = GivenUp
  BY <1>1, GivenStays DEF Registered, GivenUp
<1>7. Buffer!Users = Procs
  BY DEF Buffer!Users, Buffer!Servers, Procs, Launches
<1> QED BY <1>1, <1>4, <1>5, <1>6, <1>7 DEF Buffer!Begin

LEMMA BufferRefined ==
    ASSUME ~Overlap, BufferInv, [Next]_vars
    PROVE  [Buffer!Next]_<<cur, Given, mapped, Registered, GivenUp, Ended>>
<1> USE DEF BufferInv, SharedInv, LeakInv, BackedInv, TypeOK
<1> DEFINE Rests == UNCHANGED <<cur, Given, mapped, Registered, GivenUp, Ended>>
<1>1. Buffer!Users = Procs
  BY DEF Buffer!Users, Buffer!Servers, Procs, Launches
<1>2. ASSUME NEW l \in Launches, StopServer(l) PROVE Rests
  BY <1>2, BufferRests DEF StopServer, files, handles, use
<1>3. ASSUME NEW p \in Procs, Construct(p) PROVE Buffer!Next \/ Rests
  <2> USE DEF host, files, handles, use
  <2>1. CASE CreateExclusive(p)   BY <2>1, BufferRests DEF CreateExclusive, Gone
  <2>2. CASE FileExists(p)        BY <2>2, BufferRests DEF FileExists, Gone
  <2>3. CASE Truncate(p)          BY <2>3, TruncateProvides DEF Buffer!Next
  <2>4. CASE Reopen(p)
    <3>1. CASE dir[PathOf(p)] = NoInode
      <4>1. pc' = [pc EXCEPT ![p] = "failed"] /\ mapped' = mapped
        BY <2>4, <3>1 DEF Reopen
      <4>2. /\ mapped' = [mapped EXCEPT ![p] = NoInode]
            /\ pinned' = [pinned EXCEPT ![p] = FALSE] /\ kept' = [kept EXCEPT ![p] = FALSE]
        BY <2>4, <4>1 DEF Reopen, Sharing, HandlesOf, PinInv
      <4> QED BY <1>1, <2>4, <4>1, <4>2, EndsEnds DEF Reopen, Initialising, Gone, Buffer!Next
    <3>2. CASE dir[PathOf(p)] # NoInode
      BY <2>4, <3>2, BufferRests DEF Reopen, Gone
    <3> QED BY <3>1, <3>2
  <2>5. CASE SizeReached(p)       BY <2>5, BufferRests DEF SizeReached, Gone
  <2>6. CASE PollAgain(p)         BY <2>6, BufferRests DEF PollAgain
  <2>7. CASE TimeOut(p)
    <3>1. pc' = [pc EXCEPT ![p] = "failed"] /\ mapped' = mapped
      BY <2>7 DEF TimeOut
    <3>2. /\ mapped' = [mapped EXCEPT ![p] = NoInode]
          /\ pinned' = [pinned EXCEPT ![p] = FALSE] /\ kept' = [kept EXCEPT ![p] = FALSE]
      BY <2>7, <3>1 DEF TimeOut, Sharing, HandlesOf, PinInv
    <3> QED BY <1>1, <2>7, <3>1, <3>2, EndsEnds DEF TimeOut, Initialising, Gone, Buffer!Next
  <2>8. CASE Mmap(p)              BY <1>1, <2>8, MmapAttaches DEF Buffer!Next
  <2>9. CASE Populate(p)          BY <2>9, BufferRests DEF Populate, AfterPopulate, Gone
  <2> QED BY <1>3, <2>1, <2>2, <2>3, <2>4, <2>5, <2>6, <2>7, <2>8, <2>9 DEF Construct
<1>4. ASSUME NEW p \in Procs, UNCHANGED <<cur, size>>,
             \A q \in Procs : pc'[q] \in Gone <=> pc[q] \in Gone
      PROVE  UNCHANGED <<cur, Given, Ended>>
  BY <1>4, GivenStays DEF Ended
<1>5. ASSUME NEW p \in Procs, UNCHANGED <<cur, size, pinned, kept>>,
             \A q \in Procs : pc'[q] \in Gone <=> pc[q] \in Gone,
             ~pinned[p], mapped' = [mapped EXCEPT ![p] = NoInode]
      PROVE  Buffer!Detach(p)
  BY <1>4, <1>5 DEF Buffer!Detach, Registered, GivenUp
<1>6. ASSUME NEW p \in Procs, Cleanup(p) PROVE Buffer!Next \/ Rests
  <2> USE DEF host, files, handles, use
  <2>1. CASE Unregister(p)
    <3>1. Registered' = Registered \ {p} /\ GivenUp' = GivenUp
      BY <2>1 DEF Unregister, Registered, GivenUp, PinInv
    <3>2. UNCHANGED <<cur, Given, mapped, Ended>>
      BY <1>4, <2>1 DEF Unregister, Gone
    <3> QED BY <1>1, <3>1, <3>2 DEF Buffer!Next, Buffer!Unregister
  <2>2. CASE CloseMapping(p)
    <3>1. \A q \in Procs : pc'[q] \in Gone <=> pc[q] \in Gone
      BY <2>2 DEF CloseMapping, Gone
    <3>2. CASE held[p]
      BY <2>2, <3>1, <3>2, BufferRests DEF CloseMapping
    <3>3. CASE ~held[p]
      <4>1. ~pinned[p] /\ mapped' = [mapped EXCEPT ![p] = NoInode]
        BY <2>2, <3>3 DEF CloseMapping, PinInv
      <4> QED BY <1>1, <1>5, <2>2, <3>1, <4>1 DEF CloseMapping, Buffer!Next
    <3> QED BY <3>2, <3>3
  <2>3. CASE CloseFd(p)           BY <2>3, BufferRests DEF CloseFd, Gone
  <2>4. CASE Unlink(p)            BY <2>4, BufferRests DEF Unlink, Gone
  <2>5. CASE Exit(p)
    BY <1>1, <2>5, EndsEnds DEF Exit, Ends, Attached, Gone, Buffer!Next
  <2> QED BY <1>6, <2>1, <2>2, <2>3, <2>4, <2>5 DEF Cleanup
<1>7. ASSUME NEW p \in Procs, Callers(p) PROVE Buffer!Next \/ Rests
  <2> USE DEF host, files, handles
  <2>1. CASE Pin(p)
    <3>1. Registered' = Registered \cup {p} /\ GivenUp' = GivenUp
      BY <2>1 DEF Pin, Registered, GivenUp
    <3>2. UNCHANGED <<cur, Given, mapped, Ended>> /\ mapped[p] # NoInode
      BY <1>4, <2>1, NoInodeAssumption DEF Pin, PinInv
    <3> QED BY <1>1, <3>1, <3>2 DEF Buffer!Next, Buffer!Register
  <2>2. CASE Export(p)            BY <2>2, BufferRests DEF Export
  <2>3. CASE DropViews(p)
    <3>1. CASE pc[p] \in {"ready", "unmap"}
      BY <2>3, <3>1, BufferRests DEF DropViews
    <3>2. CASE pc[p] \notin {"ready", "unmap"}
      <4>1. ~pinned[p] /\ mapped' = [mapped EXCEPT ![p] = NoInode]
        BY <2>3, <3>2 DEF DropViews, PinInv
      <4> QED BY <1>1, <1>5, <2>3, <4>1 DEF DropViews, Buffer!Next
    <3> QED BY <3>1, <3>2
  <2> QED BY <1>7, <2>1, <2>2, <2>3 DEF Callers
<1>8. ASSUME NEW p \in Procs, Kill(p) PROVE Buffer!Next
  BY <1>1, <1>8, EndsEnds DEF Kill, Ends, Gone, Buffer!Next
<1>10. ASSUME NEW p \in Procs, Failing(p) PROVE Buffer!Next \/ Rests
  <2> USE DEF host, files, handles, use
  <2>1. CASE CallFails(p)
    BY <1>1, <2>1, EndsEnds DEF CallFails, Calls, Ends, Initialising, Gone, Buffer!Next
  <2>2. CASE UnregisterFails(p)
    <3>1. Registered' = Registered /\ GivenUp' = GivenUp \cup {p} /\ p \in Registered
      BY <2>2 DEF UnregisterFails, Registered, GivenUp
    <3>2. UNCHANGED <<cur, Given, mapped, Ended>>
      BY <1>4, <2>2 DEF UnregisterFails, Gone
    <3> QED BY <1>1, <3>1, <3>2 DEF Buffer!Next, Buffer!GiveUp
  <2>3. CASE UnlinkFails(p)       BY <2>3, BufferRests DEF UnlinkFails, Gone
  <2> QED BY <1>10, <2>1, <2>2, <2>3 DEF Failing
<1>9. CASE UNCHANGED vars
  BY <1>9, BufferRests DEF vars, host, files, handles, use
<1> QED
  BY <1>2, <1>3, <1>6, <1>7, <1>8, <1>9, <1>10, StartBegins DEF Next, Buffer!Next

\* The region is one buffer for each server, provided once and seen by none but
\* the server's own workers, and a registration with the device, unless it was
\* given up, lasts no longer than it is seen.
THEOREM RegionImplementsBuffer == (~Overlap /\ Orderly) => (Spec => RefinesBuffer)
<1> SUFFICES ASSUME ~Overlap, Orderly PROVE Spec => RefinesBuffer
  OBVIOUS
<1>1. Init => Buffer!Init
  <2> SUFFICES ASSUME Init PROVE Buffer!Init
    OBVIOUS
  <2>1. Given = [l \in Launches |-> NoInode]
    BY DEF Init, Given, BufferOf, MembersOf
  <2>2. Registered = {} /\ GivenUp = {} /\ Ended = {}
    BY DEF Init, Registered, GivenUp, Ended, Gone
  <2> QED
    BY <2>1, <2>2
    DEF Init, Buffer!Init, Buffer!Users, Buffer!Servers, Procs, Launches
<1>2. BufferInv /\ [Next]_vars => BufferInv'
  BY BufferStep
<1>3. BufferInv /\ [Next]_vars => [Buffer!Next]_<<cur, Given, mapped, Registered, GivenUp, Ended>>
  BY BufferRefined
<1> QED BY BufferInit, <1>1, <1>2, <1>3, PTL DEF Spec, RefinesBuffer, Buffer!Spec

\* What ServerBuffer promises is enough for its own invariants.
LEMMA BufferIsOwn ==
    Buffer!Spec => [](Buffer!OwnBuffer /\ Buffer!BuffersDiffer)
<1> DEFINE Own == Buffer!TypeOK /\ Buffer!OwnBuffer /\ Buffer!BuffersDiffer
<1> USE LaunchesAssumption DEF Buffer!TypeOK, Buffer!OwnBuffer, Buffer!BuffersDiffer
<1>1. Buffer!Init => Own
  BY DEF Buffer!Init
<1>2. ASSUME Own, [Buffer!Next]_<<cur, Given, mapped, Registered, GivenUp, Ended>> PROVE Own'
  <2>1. CASE Buffer!Begin
    <3>1. \A u \in Buffer!Users : u[1] \in Nat
      BY DEF Buffer!Users, Buffer!Servers
    <3> QED BY <1>2, <2>1, <3>1 DEF Buffer!Begin
  <2>2. ASSUME NEW b \in Procs, Buffer!Provide(b) PROVE Own'
    BY <1>2, <2>2 DEF Buffer!Provide
  <2>3. ASSUME NEW u \in Buffer!Users, Buffer!Attach(u) PROVE Own'
    BY <1>2, <2>3 DEF Buffer!Attach, Buffer!Users
  <2>4. ASSUME NEW u \in Buffer!Users, Buffer!Register(u) PROVE Own'
    BY <1>2, <2>4 DEF Buffer!Register
  <2>5. ASSUME NEW u \in Buffer!Users, Buffer!Unregister(u) PROVE Own'
    BY <1>2, <2>5 DEF Buffer!Unregister
  <2>6. ASSUME NEW u \in Buffer!Users, Buffer!Detach(u) PROVE Own'
    BY <1>2, <2>6 DEF Buffer!Detach
  <2>7. ASSUME NEW u \in Buffer!Users, Buffer!End(u) PROVE Own'
    BY <1>2, <2>7 DEF Buffer!End
  <2>9. ASSUME NEW u \in Buffer!Users, Buffer!GiveUp(u) PROVE Own'
    BY <1>2, <2>9 DEF Buffer!GiveUp
  <2>8. CASE UNCHANGED <<cur, Given, mapped, Registered, GivenUp, Ended>>
    BY <1>2, <2>8
  <2> QED
    BY <1>2, <2>1, <2>2, <2>3, <2>4, <2>5, <2>6, <2>7, <2>8, <2>9 DEF Buffer!Next
<1> QED BY <1>1, <1>2, PTL DEF Buffer!Spec

\* A process sees no buffer but its own server's, two servers never had the same
\* one, and what the device knows, unless it was given up, is seen: ServerBuffer's
\* promise, and its consequence for the region.
THEOREM BuffersAreOwn ==
    (~Overlap /\ Orderly) => (Spec => [](Buffer!OwnBuffer /\ Buffer!BuffersDiffer))
  BY RegionImplementsBuffer, BufferIsOwn DEF RefinesBuffer

=============================================================================
