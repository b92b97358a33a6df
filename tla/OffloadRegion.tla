---------------------------- MODULE OffloadRegion ----------------------------
(***************************************************************************)
(* The life cycle of SharedOffloadRegion: the processes of a vLLM server   *)
(* share one file /dev/shm/vllm_offload_{engine_id}.mmap and coordinate    *)
(* through the file system alone.  The first to open it with O_EXCL        *)
(* truncates it to its size and owns its removal; the others open it and   *)
(* poll its size for at most thirty seconds.  Servers are launched one     *)
(* after another by 02_serve_vllm.sh, which deletes every file of that     *)
(* name pattern before it starts the engine.                               *)
(*                                                                         *)
(* A process is a pair <<launch, rank>>; the rank-less process that        *)
(* populates the whole region is one more element of Ranks, because it     *)
(* differs in what it populates only.  An inode is named by the process    *)
(* that created it: a process creates at most one.                         *)
(***************************************************************************)
EXTENDS Naturals

CONSTANTS
    MaxLaunches,   \* bound: servers launched on the host, one after another
    Ranks,         \* the processes of one server that construct the region
    EngineIds,     \* the engine ids, one file name each
    Sizes,         \* the values total_size_bytes may take
    MaxPolls,      \* polls of _wait_for_file_size that fit in its timeout
    NoInode,       \* a name without a file, a process without a handle
    Overlap,       \* TRUE: a launch need not wait for the previous server's end
    Orderly        \* TRUE: cleanup starts only when no sibling is initialising

ASSUME LaunchesAssumption == MaxLaunches \in Nat
ASSUME PollsAssumption == MaxPolls \in Nat
ASSUME SizesAssumption == Sizes \subseteq Nat \ {0}
ASSUME SwitchesAssumption == Overlap \in BOOLEAN /\ Orderly \in BOOLEAN

Launches == 1..MaxLaunches
Procs == Launches \X Ranks
Launch(p) == p[1]

ASSUME NoInodeAssumption == NoInode \notin Procs

VARIABLES
    \* the host: the launches so far, what each asked for, and /dev/shm
    cur,           \* the number of the latest launch
    engine,        \* engine_id of each launch
    total,         \* total_size_bytes of each launch
    stopping,      \* the launches whose server has begun to shut down
    dir,           \* the inode each engine id's path names
    size,          \* st_size of each inode
    \* the processes: one SharedOffloadRegion object each
    pc,            \* the next statement of __init__ or cleanup
    polls,         \* polls made by _wait_for_file_size
    fd,            \* self.fd
    mapped,        \* the inode the process has mapped (mmap_obj, or its leak)
    creator,       \* self._creator
    pinned,        \* self.is_pinned
    kept,          \* cleanup gave up a registration that the device still has
    held,          \* a view handed out by the region is still referenced
    refused        \* an error met the process in open, ftruncate, fstat, mmap or unlink

host == <<cur, engine, total, stopping>>
files == <<dir, size>>
handles == <<fd, mapped>>
use == <<pinned, kept, held>>
vars == <<host, files, pc, polls, handles, creator, use, refused>>

Initialising == {"open", "truncate", "reopen", "wait", "mmap", "populate"}
Attached == {"ready", "unmap", "closefd", "unlink", "closed"}
Gone == {"exited", "failed", "killed"}
PCs == {"idle"} \cup Initialising \cup Attached \cup Gone

PathOf(p) == engine[Launch(p)]
SizeOf(p) == total[Launch(p)]
MembersOf(l) == {p \in Procs : Launch(p) = l}

Init ==
    /\ cur = 0
    /\ engine \in [Launches -> EngineIds]
    /\ total \in [Launches -> Sizes]
    /\ stopping = {}
    /\ dir = [e \in EngineIds |-> NoInode]
    /\ size = [i \in Procs |-> 0]
    /\ pc = [p \in Procs |-> "idle"]
    /\ polls = [p \in Procs |-> 0]
    /\ fd = [p \in Procs |-> NoInode]
    /\ mapped = [p \in Procs |-> NoInode]
    /\ creator = [p \in Procs |-> FALSE]
    /\ pinned = [p \in Procs |-> FALSE]
    /\ kept = [p \in Procs |-> FALSE]
    /\ held = [p \in Procs |-> FALSE]
    /\ refused = [p \in Procs |-> FALSE]

-----------------------------------------------------------------------------
(* The launcher.                                                           *)

\* Mutant: the launcher leaves the files of dead engines in place.
NotSwept == dir

\* find /dev/shm -name 'vllm_offload_*.mmap' -delete
Swept == [e \in EngineIds |-> NoInode]

\* Nothing asks whether an earlier server still runs: that it does not is
\* the operator's discipline, which Overlap = FALSE assumes.
StartServer ==
    /\ cur < MaxLaunches
    /\ ~Overlap => \A p \in Procs : pc[p] \in Gone \cup {"idle"}
    /\ cur' = cur + 1
    /\ dir' = Swept
    /\ pc' = [p \in Procs |-> IF Launch(p) = cur + 1 THEN "open" ELSE pc[p]]
    /\ UNCHANGED <<engine, total, stopping, size, polls, handles, creator, use, refused>>

\* The executor that shuts its workers down is vLLM's, outside this
\* repository; that it first waits for every constructor is Orderly.
StopServer(l) ==
    /\ l <= cur
    /\ l \notin stopping
    /\ Orderly => \A p \in MembersOf(l) : pc[p] \notin Initialising
    /\ stopping' = stopping \cup {l}
    /\ UNCHANGED <<cur, engine, total, files, pc, polls, handles, creator, use, refused>>

-----------------------------------------------------------------------------
(* SharedOffloadRegion.__init__                                            *)

\* Mutant: O_EXCL is missing and the newcomer's file takes the name.
CreateAnyway(p) ==
    /\ pc[p] = "open"
    /\ dir' = [dir EXCEPT ![PathOf(p)] = p]
    /\ fd' = [fd EXCEPT ![p] = p]
    /\ pc' = [pc EXCEPT ![p] = "truncate"]
    /\ UNCHANGED <<host, size, polls, mapped, creator, use, refused>>

\* os.open(O_CREAT | O_EXCL | O_RDWR) makes the file ...
CreateExclusive(p) ==
    /\ pc[p] = "open"
    /\ dir[PathOf(p)] = NoInode
    /\ dir' = [dir EXCEPT ![PathOf(p)] = p]
    /\ fd' = [fd EXCEPT ![p] = p]
    /\ pc' = [pc EXCEPT ![p] = "truncate"]
    /\ UNCHANGED <<host, size, polls, mapped, creator, use, refused>>

\* ... or raises FileExistsError.
FileExists(p) ==
    /\ pc[p] = "open"
    /\ dir[PathOf(p)] # NoInode
    /\ pc' = [pc EXCEPT ![p] = "reopen"]
    /\ UNCHANGED <<host, files, polls, handles, creator, use, refused>>

\* os.ftruncate, then _creator = True.
Truncate(p) ==
    /\ pc[p] = "truncate"
    /\ size' = [size EXCEPT ![fd[p]] = SizeOf(p)]
    /\ creator' = [creator EXCEPT ![p] = TRUE]
    /\ pc' = [pc EXCEPT ![p] = "mmap"]
    /\ UNCHANGED <<host, dir, polls, handles, use, refused>>

\* os.open(O_RDWR) in the except branch: the path may name another inode by
\* now, or none, and then FileNotFoundError leaves the constructor.
Reopen(p) ==
    /\ pc[p] = "reopen"
    /\ fd' = [fd EXCEPT ![p] = dir[PathOf(p)]]
    /\ pc' = [pc EXCEPT ![p] = IF dir[PathOf(p)] = NoInode THEN "failed" ELSE "wait"]
    /\ UNCHANGED <<host, files, polls, mapped, creator, use, refused>>

\* One turn of _wait_for_file_size: the size is tested before the deadline.
BigEnough(p) == size[fd[p]] >= SizeOf(p)

\* Mutant: the opener does not wait for the creator.
SizeIgnored(p) ==
    /\ pc[p] = "wait"
    /\ pc' = [pc EXCEPT ![p] = "mmap"]
    /\ UNCHANGED <<host, files, polls, handles, creator, use, refused>>

SizeReached(p) ==
    /\ pc[p] = "wait"
    /\ BigEnough(p)
    /\ pc' = [pc EXCEPT ![p] = "mmap"]
    /\ UNCHANGED <<host, files, polls, handles, creator, use, refused>>

\* Mutant: the deadline is compared one poll too late.
PollOnceMore(p) ==
    /\ pc[p] = "wait"
    /\ ~BigEnough(p)
    /\ polls[p] <= MaxPolls
    /\ polls' = [polls EXCEPT ![p] = @ + 1]
    /\ UNCHANGED <<host, files, pc, handles, creator, use, refused>>

PollAgain(p) ==
    /\ pc[p] = "wait"
    /\ ~BigEnough(p)
    /\ polls[p] < MaxPolls
    /\ polls' = [polls EXCEPT ![p] = @ + 1]
    /\ UNCHANGED <<host, files, pc, handles, creator, use, refused>>

\* Mutant: the loop goes on after the deadline.
NoDeadline(p) ==
    /\ pc[p] = "wait"
    /\ ~BigEnough(p)
    /\ polls[p] = MaxPolls
    /\ UNCHANGED vars

\* TimeoutError leaves the constructor, and the process ends.
TimeOut(p) ==
    /\ pc[p] = "wait"
    /\ ~BigEnough(p)
    /\ polls[p] = MaxPolls
    /\ pc' = [pc EXCEPT ![p] = "failed"]
    /\ fd' = [fd EXCEPT ![p] = NoInode]
    /\ UNCHANGED <<host, files, polls, mapped, creator, use, refused>>

Mmap(p) ==
    /\ pc[p] = "mmap"
    /\ mapped' = [mapped EXCEPT ![p] = fd[p]]
    /\ pc' = [pc EXCEPT ![p] = "populate"]
    /\ UNCHANGED <<host, files, polls, fd, creator, use, refused>>

\* Mutant: the file before the patch, where the OSError leaves __init__.
AfterStrictPopulate(answer) == IF answer = "ok" THEN "ready" ELSE "failed"

\* Where the madvise loop leads, from what the kernel answered: an OSError is
\* logged and swallowed.
AfterPopulate(answer) == "ready"

Populate(p) ==
    /\ pc[p] = "populate"
    /\ \E answer \in {"ok", "EINVAL"} :
         pc' = [pc EXCEPT ![p] = AfterPopulate(answer)]
    /\ UNCHANGED <<host, files, polls, handles, creator, use, refused>>

-----------------------------------------------------------------------------
(* The region in use, by callers outside this repository.                  *)

\* cudaHostRegister by the GPU worker, which sets is_pinned.
Pin(p) ==
    /\ pc[p] = "ready"
    /\ ~pinned[p]
    /\ pinned' = [pinned EXCEPT ![p] = TRUE]
    /\ UNCHANGED <<host, files, pc, polls, handles, creator, kept, held, refused>>

\* create_next_view or create_kv_memoryview hands out a view of the buffer.
Export(p) ==
    /\ pc[p] = "ready"
    /\ ~held[p]
    /\ held' = [held EXCEPT ![p] = TRUE]
    /\ UNCHANGED <<host, files, pc, polls, handles, creator, pinned, kept, refused>>

\* The caller drops its views; the last reference frees a mapping that
\* cleanup could not close.
DropViews(p) ==
    /\ pc[p] \in Attached
    /\ held[p]
    /\ held' = [held EXCEPT ![p] = FALSE]
    /\ mapped' = [mapped EXCEPT ![p] = IF pc[p] \in {"ready", "unmap"} THEN @ ELSE NoInode]
    /\ UNCHANGED <<host, files, pc, polls, fd, creator, pinned, kept, refused>>

-----------------------------------------------------------------------------
(* SharedOffloadRegion.cleanup                                             *)

\* Mutant: cleanup closes the mapping without unregistering it.
KeepRegistered(p) ==
    /\ pc[p] = "ready"
    /\ Launch(p) \in stopping
    /\ pc' = [pc EXCEPT ![p] = "unmap"]
    /\ UNCHANGED <<host, files, polls, handles, creator, use, refused>>

Unregister(p) ==
    /\ pc[p] = "ready"
    /\ Launch(p) \in stopping
    /\ pinned' = [pinned EXCEPT ![p] = FALSE]
    /\ pc' = [pc EXCEPT ![p] = "unmap"]
    /\ UNCHANGED <<host, files, polls, handles, creator, kept, held, refused>>

\* mmap_obj.close() raises BufferError while a view is exported; it is logged
\* and mmap_obj dropped, so that the mapping lives as long as the view.
CloseMapping(p) ==
    /\ pc[p] = "unmap"
    /\ mapped' = [mapped EXCEPT ![p] = IF held[p] THEN @ ELSE NoInode]
    /\ pc' = [pc EXCEPT ![p] = "closefd"]
    /\ UNCHANGED <<host, files, polls, fd, creator, use, refused>>

\* Mutants: nobody unlinks the file, or every process does.
CloseFdKeepFile(p) ==
    /\ pc[p] = "closefd"
    /\ fd' = [fd EXCEPT ![p] = NoInode]
    /\ pc' = [pc EXCEPT ![p] = "closed"]
    /\ UNCHANGED <<host, files, polls, mapped, creator, use, refused>>

CloseFdThenUnlink(p) ==
    /\ pc[p] = "closefd"
    /\ fd' = [fd EXCEPT ![p] = NoInode]
    /\ pc' = [pc EXCEPT ![p] = "unlink"]
    /\ UNCHANGED <<host, files, polls, mapped, creator, use, refused>>

CloseFd(p) ==
    /\ pc[p] = "closefd"
    /\ fd' = [fd EXCEPT ![p] = NoInode]
    /\ pc' = [pc EXCEPT ![p] = IF creator[p] THEN "unlink" ELSE "closed"]
    /\ UNCHANGED <<host, files, polls, mapped, creator, use, refused>>

\* os.unlink goes by the path, whatever it names; a missing file is logged.
Unlink(p) ==
    /\ pc[p] = "unlink"
    /\ dir' = [dir EXCEPT ![PathOf(p)] = NoInode]
    /\ creator' = [creator EXCEPT ![p] = FALSE]
    /\ pc' = [pc EXCEPT ![p] = "closed"]
    /\ UNCHANGED <<host, size, polls, handles, use, refused>>

\* The end of a process returns its handles; files it made stay.
Ends(p, how) ==
    /\ pc' = [pc EXCEPT ![p] = how]
    /\ fd' = [fd EXCEPT ![p] = NoInode]
    /\ mapped' = [mapped EXCEPT ![p] = NoInode]
    /\ pinned' = [pinned EXCEPT ![p] = FALSE]
    /\ kept' = [kept EXCEPT ![p] = FALSE]
    /\ held' = [held EXCEPT ![p] = FALSE]
    /\ creator' = [creator EXCEPT ![p] = FALSE]
    /\ UNCHANGED <<host, files, polls>>

Exit(p) == pc[p] = "closed" /\ Ends(p, "exited") /\ UNCHANGED refused

\* SIGKILL, the OOM killer or a fatal GPU error, between any two statements.
Kill(p) ==
    /\ pc[p] \in Initialising \cup Attached
    /\ Ends(p, "killed")
    /\ UNCHANGED refused

-----------------------------------------------------------------------------
(* System calls that fail.                                                 *)

Calls == {"open", "truncate", "reopen", "wait", "mmap"}

\* os.open, os.ftruncate, os.fstat or mmap.mmap raises OSError (mmap.mmap a
\* ValueError too): no handler takes it, the constructor is left and the worker
\* ends.  A file it has made stays in /dev/shm: nobody has the object whose
\* cleanup would unlink it.
CallFails(p) ==
    /\ pc[p] \in Calls
    /\ Ends(p, "failed")
    /\ refused' = [refused EXCEPT ![p] = TRUE]

\* cudaHostUnregister returns an error, which is logged, or the platform is not
\* CUDA-alike and is not asked: is_pinned is cleared all the same.
UnregisterFails(p) ==
    /\ pc[p] = "ready"
    /\ Launch(p) \in stopping
    /\ pinned[p]
    /\ pinned' = [pinned EXCEPT ![p] = FALSE]
    /\ kept' = [kept EXCEPT ![p] = TRUE]
    /\ pc' = [pc EXCEPT ![p] = "unmap"]
    /\ UNCHANGED <<host, files, polls, handles, creator, held, refused>>

\* os.unlink raises: the file stays, and cleanup ends as if it were gone.
UnlinkFails(p) ==
    /\ pc[p] = "unlink"
    /\ creator' = [creator EXCEPT ![p] = FALSE]
    /\ refused' = [refused EXCEPT ![p] = TRUE]
    /\ pc' = [pc EXCEPT ![p] = "closed"]
    /\ UNCHANGED <<host, files, polls, handles, use>>

-----------------------------------------------------------------------------

Construct(p) ==
    \/ CreateExclusive(p)
    \/ FileExists(p)
    \/ Truncate(p)
    \/ Reopen(p)
    \/ SizeReached(p)
    \/ PollAgain(p)
    \/ TimeOut(p)
    \/ Mmap(p)
    \/ Populate(p)

Cleanup(p) ==
    \/ Unregister(p)
    \/ CloseMapping(p)
    \/ CloseFd(p)
    \/ Unlink(p)
    \/ Exit(p)

Callers(p) == Pin(p) \/ Export(p) \/ DropViews(p)

Failing(p) == CallFails(p) \/ UnregisterFails(p) \/ UnlinkFails(p)

Next ==
    \/ StartServer
    \/ \E l \in Launches : StopServer(l)
    \/ \E p \in Procs :
         Construct(p) \/ Cleanup(p) \/ Failing(p) \/ Callers(p) \/ Kill(p)

Spec == Init /\ [][Next]_vars

\* A running process executes its next statement; launching, stopping, using
\* the region, failing and dying are up to the environment.
Fairness == \A p \in Procs : WF_vars(Construct(p) \/ Cleanup(p))

FairSpec == Spec /\ Fairness

-----------------------------------------------------------------------------
(* Properties.                                                             *)

\* Every variable keeps the type its Python counterpart has.
TypeOK ==
    /\ cur \in 0..MaxLaunches
    /\ engine \in [Launches -> EngineIds]
    /\ total \in [Launches -> Sizes]
    /\ stopping \subseteq Launches
    /\ dir \in [EngineIds -> Procs \cup {NoInode}]
    /\ size \in [Procs -> Nat]
    /\ pc \in [Procs -> PCs]
    /\ polls \in [Procs -> 0..MaxPolls]
    /\ fd \in [Procs -> Procs \cup {NoInode}]
    /\ mapped \in [Procs -> Procs \cup {NoInode}]
    /\ creator \in [Procs -> BOOLEAN]
    /\ pinned \in [Procs -> BOOLEAN]
    /\ kept \in [Procs -> BOOLEAN]
    /\ held \in [Procs -> BOOLEAN]
    /\ refused \in [Procs -> BOOLEAN]

\* A mapping never reaches past the end of its file (touching it there is a
\* SIGBUS): the wait and the creator's ftruncate come before every mmap.
FullyBacked ==
    \A p \in Procs : mapped[p] # NoInode => size[mapped[p]] >= SizeOf(p)

\* "Single mmap-backed memory region shared across all workers for a vLLM
\* instance": two processes of one server never hold different inodes.
OneRegion ==
    \A p, q \in Procs :
        /\ Launch(p) = Launch(q)
        /\ mapped[p] # NoInode
        /\ mapped[q] # NoInode
        => mapped[p] = mapped[q]

\* A file in /dev/shm has a creator still bound to unlink it, or one that was
\* killed or met an error of a system call: while those work, no order of
\* constructors, clean-ups and launches leaks the host's memory.
OrphansHaveACause ==
    \A e \in EngineIds : dir[e] # NoInode =>
        LET c == dir[e] IN
        \/ refused[c]
        \/ pc[c] \in {"truncate", "killed"}
        \/ pc[c] \in (Initialising \cup Attached) \ {"closed"} /\ creator[c]

\* A worker polls a short file only while the file's creator, a process of the
\* same server, is about to truncate it, was killed or failed to: never a file
\* that an earlier server left behind.
WaitsOnTheCreator ==
    \A p \in Procs : pc[p] = "wait" /\ ~BigEnough(p) =>
        /\ Launch(fd[p]) = Launch(p)
        /\ pc[fd[p]] \in {"truncate", "killed", "failed"}

\* The constructor fails by an error of open, ftruncate, fstat or mmap, or after a
\* whole timeout of polls: a kernel that rejects MADV_POPULATE_WRITE, or a path
\* that vanished between its two opens, never fails it.
FailsForAReason ==
    \A p \in Procs : pc[p] = "failed" => refused[p] \/ polls[p] = MaxPolls

\* Memory that the object counts as registered is mapped: cleanup has the
\* device forget it, or gives the registration up with a warning, before it
\* closes the mapping.
PinnedIsMapped ==
    \A p \in Procs : pinned[p] => mapped[p] # NoInode

\* cleanup removes by path; what it removes is the file this process created
\* (or nothing, when a launcher's sweep came first).
UnlinksOwnFile ==
    [][\A p \in Procs : pc[p] = "unlink" /\ pc'[p] = "closed" =>
         dir[PathOf(p)] \in {p, NoInode}]_vars

\* The file that the processes of a launch were given, once it had its size.
BufferOf(l) ==
    IF \E p \in MembersOf(l) : size[p] > 0
      THEN CHOOSE p \in MembersOf(l) : size[p] > 0
      ELSE NoInode

Given == [l \in Launches |-> BufferOf(l)]
Registered == {p \in Procs : pinned[p] \/ kept[p]}
GivenUp == {p \in Procs : kept[p]}
Ended == {p \in Procs : pc[p] \in Gone}

Buffer == INSTANCE ServerBuffer WITH
    MaxServers <- MaxLaunches, Workers <- Ranks, Buffers <- Procs, NoBuffer <- NoInode,
    latest <- cur, buffer <- Given, view <- mapped, known <- Registered,
    givenUp <- GivenUp, ended <- Ended

\* The region keeps what ServerBuffer promises: one buffer for each server,
\* given once and seen by its own processes only, and registrations that begin
\* after the mapping and that the device is asked to end before the mapping does,
\* unless the process dies.
RefinesBuffer == Buffer!Spec

\* A server's constructors all come to an end, whatever dies or fails around them.
StartupResolves ==
    (\E p \in Procs : pc[p] = "open") ~> (\A p \in Procs : pc[p] \notin Initialising)

\* A server told to stop ends, and leaves no file unless a kill or an error did.
Settled(l) ==
    /\ \A p \in MembersOf(l) : pc[p] \in Gone
    /\ LET f == dir[engine[l]]
       IN  f = NoInode \/ pc[f] = "killed" \/ refused[f] \/ cur > l

ShutdownResolves == stopping # {} ~> \A l \in stopping : Settled(l)

\* Both: the two calls that a worker makes of the class always come to an end.
CallsResolve == StartupResolves /\ ShutdownResolves

LastTurn == 11 + MaxPolls

\* How far process p has come in the class's two calls: a constructor polls a
\* bounded number of times.
Turn(p) ==
    CASE pc[p] = "idle" -> 0
      [] pc[p] = "open" -> 1
      [] pc[p] \in {"truncate", "reopen"} -> 2
      [] pc[p] = "wait" -> 3 + polls[p]
      [] pc[p] = "mmap" -> 4 + MaxPolls
      [] pc[p] = "populate" -> 5 + MaxPolls
      [] pc[p] = "ready" -> 6 + MaxPolls
      [] pc[p] = "unmap" -> 7 + MaxPolls
      [] pc[p] = "closefd" -> 8 + MaxPolls
      [] pc[p] = "unlink" -> 9 + MaxPolls
      [] pc[p] = "closed" -> 10 + MaxPolls
      [] OTHER -> LastTurn

\* Each of their statements brings the process nearer to its end, which is a
\* bounded number of them away, and nothing takes it back: no loop goes on past
\* its deadline and no failure is retried.
CallsAdvance ==
    [][\A p \in Procs :
         /\ Turn(p) <= Turn(p)' /\ Turn(p)' <= LastTurn
         /\ Construct(p) \/ Cleanup(p) \/ Failing(p) => Turn(p) < Turn(p)']_vars

-----------------------------------------------------------------------------
(* The inductive strengthenings that the proofs use.                       *)

\* What each statement of the constructor has established, and that a file
\* is truncated once, by its creator: sizes never shrink.
Progress ==
    \A p \in Procs :
        /\ Launch(p) > cur <=> pc[p] = "idle"
        /\ pc[p] \in {"idle", "open", "truncate"} => size[p] = 0
        /\ pc[p] = "truncate" => fd[p] = p
        /\ pc[p] = "wait" => fd[p] \in Procs
        /\ pc[p] = "mmap" => fd[p] \in Procs /\ size[fd[p]] >= SizeOf(p)
        /\ pc[p] \in {"idle", "open", "reopen", "wait"} => ~creator[p]
        /\ creator[p] => size[p] >= SizeOf(p)

BackedInv == TypeOK /\ Progress /\ FullyBacked

\* A name leads to a file that was created under it.
NamedByCreator ==
    \A e \in EngineIds : dir[e] # NoInode => PathOf(dir[e]) = e

LeakInv == BackedInv /\ NamedByCreator /\ OrphansHaveACause

\* The device knows a process between Pin and Unregister only, and CloseMapping
\* comes later.
PinInv ==
    /\ BackedInv
    /\ \A p \in Procs :
        /\ pinned[p] => pc[p] = "ready"
        /\ kept[p] => pc[p] \in {"unmap", "closefd", "unlink", "closed"}
        /\ pc[p] \in {"populate", "ready", "unmap"} => mapped[p] \in Procs

\* Servers do not overlap, and cleanup excludes construction.
OneAtATime == \A p \in Procs : Launch(p) < cur => pc[p] \in Gone

CleanupExcludesConstruction ==
    /\ \A l \in stopping : l <= cur
    /\ \A p \in Procs :
        /\ pc[p] \in Initialising => Launch(p) \notin stopping
        /\ pc[p] \in {"unmap", "closefd", "unlink", "closed", "exited"} =>
             Launch(p) \in stopping

\* Handles of a process that has none yet, or none any more.
HandlesOf ==
    \A p \in Procs :
        /\ pc[p] \in Gone => ~creator[p]
        /\ pc[p] \in Gone \cup {"idle", "open", "reopen"} => fd[p] = NoInode
        /\ pc[p] \in Gone \cup {"idle", "open", "truncate", "reopen", "wait", "mmap"} =>
             mapped[p] = NoInode

\* Until the server stops, the file its processes hold keeps its name.
HeldIsNamed ==
    \A p \in Procs : Launch(p) \notin stopping =>
        /\ fd[p] # NoInode => fd[p] = dir[PathOf(p)]
        /\ mapped[p] # NoInode => mapped[p] = dir[PathOf(p)]
        /\ pc[p] = "reopen" => dir[PathOf(p)] # NoInode
        /\ creator[p] => dir[PathOf(p)] = p

\* Every file belongs to the latest launch, and an owner's path names its own
\* file or none.
FilesAreCurrent ==
    /\ \A e \in EngineIds : dir[e] # NoInode => Launch(dir[e]) = cur
    /\ \A p \in Procs :
        /\ pc[p] = "unlink" => creator[p]
        /\ creator[p] => dir[PathOf(p)] \in {p, NoInode}

Sharing ==
    /\ OneAtATime
    /\ CleanupExcludesConstruction
    /\ HandlesOf
    /\ HeldIsNamed
    /\ FilesAreCurrent
    /\ OneRegion
    /\ FailsForAReason

SharedInv == LeakInv /\ Sharing

\* A server makes one file: while it is not told to stop, the file keeps its
\* name, and nobody makes another.
MadeOnce ==
    /\ \A p \in Procs :
        Launch(p) = cur /\ cur \notin stopping /\ (size[p] > 0 \/ pc[p] = "truncate")
            => dir[PathOf(p)] = p
    /\ \A p, q \in Procs :
        Launch(p) = Launch(q) /\ size[p] > 0 /\ size[q] > 0 => p = q

BufferInv == SharedInv /\ PinInv /\ MadeOnce

-----------------------------------------------------------------------------
(* What is left of it without Orderly, when a server may be told to stop   *)
(* while some of its processes are still in their constructor.             *)

\* Until then the region is one, and a constructor fails for its two reasons only.
OneRegionUntilStop ==
    \A p, q \in Procs :
        /\ Launch(p) = Launch(q)
        /\ Launch(p) \notin stopping
        /\ mapped[p] # NoInode
        /\ mapped[q] # NoInode
        => mapped[p] = mapped[q]

ReasonOrStop ==
    \A p \in Procs : pc[p] = "failed" =>
        refused[p] \/ polls[p] = MaxPolls \/ Launch(p) \in stopping

\* Only a server that has been told to stop cleans up.
CleanupFollowsStop ==
    /\ \A l \in stopping : l <= cur
    /\ \A p \in Procs :
         pc[p] \in {"unmap", "closefd", "unlink", "closed", "exited"} => Launch(p) \in stopping

\* A file keeps its name until its creator unlinks it.
OwnersAreNamed ==
    /\ \A e \in EngineIds : dir[e] # NoInode => Launch(dir[e]) = cur
    /\ \A p \in Procs :
        /\ pc[p] = "unlink" => creator[p]
        /\ creator[p] \/ pc[p] = "truncate" => dir[PathOf(p)] = p

\* A file has its size, unless its creator is still to truncate it or ended
\* before it could; and a file that is polled was made by the same server.
PolledIsOwn ==
    /\ \A e \in EngineIds : dir[e] # NoInode =>
         \/ size[dir[e]] >= SizeOf(dir[e])
         \/ pc[dir[e]] \in {"truncate", "killed", "failed"}
    /\ \A p \in Procs : pc[p] = "wait" =>
         /\ Launch(fd[p]) = Launch(p)
         /\ BigEnough(p) \/ pc[fd[p]] \in {"truncate", "killed", "failed"}

ServingInv ==
    /\ LeakInv
    /\ OneAtATime
    /\ CleanupFollowsStop
    /\ HandlesOf
    /\ HeldIsNamed
    /\ OwnersAreNamed
    /\ PolledIsOwn
    /\ OneRegionUntilStop
    /\ ReasonOrStop

=============================================================================
