# Formal models of the DeepSeek-V4-Flash MI308X recipe

This directory holds TLA+ specifications of the repository's own logic, TLC
configurations that check them on small instances, and TLAPS proofs that hold for every
value of the constants. The repository is a deployment recipe: shell scripts that bring
a model and a patched vLLM runtime onto a GPU host that can vanish at any time, one
patched vLLM file that several processes share memory through, and benchmark clients.
What is hard about it is not computation but *processes that meet in a file system*: who
created a file, who may remove it, what a script tested and what has happened since, and
what is left when a command is cut short.

`PROJECT.json` maps every definition to the source lines it models, and lists the runs,
the mutants each property is tried against, the hazards, the findings and the theorems.

## The system

| Component | State it keeps | Operations | Talks to |
|---|---|---|---|
| `SharedOffloadRegion` (`patches/shared_offload_region.madvise-tolerant.py`) | `/dev/shm/vllm_offload_{engine_id}.mmap`; per process `fd`, `mmap_obj`, `_creator`, `is_pinned`, `_worker_offset` | `__init__`, `_wait_for_file_size`, `create_next_view`, `create_kv_memoryview`, `cleanup` | the other workers of the server, through the file; vLLM, through views |
| vLLM launcher (`scripts/02_serve_vllm.sh`) | `/dev/shm`, `/opt/cj-moe` | copy the kernel source, choose the model, sweep region files, start vLLM | region, staging, checkout |
| SGLang launcher (`scripts/02_serve_sglang.sh`) | none | choose the model, start SGLang | staging |
| Download, staging (`01_download_model.sh`, `stage_model_local.sh`) | persistent directory, hot directory, `DST.tmp.PID` | download, test, copy, compare, remove, move | launchers |
| Patch checkout (`prepare_patch_repo.sh`) | a git checkout on persistent storage | clone, status, fetch, checkout, verify | installer, audit, launcher |
| Installer (`install_vllm_nightly.sh`) | the venv on local disk, the top-k artifact, `/opt/cj-moe` | gate, pip, top-k, overlays, copies, signature edit, snapshot | checkout, snapshots |
| Audit (`audit_runtime.py`) | none (read-only) | one verdict | checkout, venv, archive |
| Snapshots (`snapshot_runtime_state.sh`, `snapshot_runtime_caches.sh`) | `OUT` and `OUT.tmp.PID` on persistent storage | check, tar, list, move | venv, caches, server, warm-up |
| Warm-up (`warmup_runtime.sh`) | none | wait for health, two benchmarks, snapshot | server, benchmarks, snapshots |
| Session and trace benchmarks (`bench_session_concurrency.py`, `bench_agent_trace.py`) | a history per conversation, pending observations | submit, stream, record, raise | the server |
| Pools of requests (`bench_high_concurrency.py`, `bench_full.py`, `04_bench_decode.py`) | failures, counter readings | read the counter, ask in a pool, gather, report | the server and its draft counter |
| Cold benchmarks (`bench_configured_ceiling.py`, `bench_ttft_isolation.py`, `bench_long_context_recall.py`) | samples, a thread, a calibrated document | warm up, measure, inject, calibrate, judge | the server's prefix cache |
| Other benchmarks (`bench_latency.py`, `collect_shapes.py`, `03_benchmark.sh`) | none | time a stream, count lines | the server |
| Environment and checks (`env_setup.sh`, `00_check_env.sh`, `preflight_cpu.sh`, `validate_tuning_tables.py`) | two venvs | create, look | - |

Where it is hard, and what correctness means there:

* **Region.** Workers of one server race on `O_EXCL`, poll a size, die between any two
  statements, meet errors of system calls that nothing handles, and unlink by path.
  Correct: one inode per server, always backed, no file left unless its creator was
  killed or met such an error, nobody else's file removed, every start and every stop
  ends.
* **Layout.** Byte arithmetic with three parameters the class trusts. Correct: no byte
  handed out twice, rows hold their own block, and a view is left to demand paging only
  where the kernel rejected the hint for it.
* **Snapshots.** The storage is all that survives a host. Correct: each archive is
  replaced whole and never by an older one; what a run passed is persisted.
* **Staging.** Tests on directories that others fill, remove and rename at the
  granularity of a file. Correct: the cheap test (48 shards and the index) means that
  the copy is whole, and it stays whole under the launcher that chose it.
* **Installation.** Ten steps, each of which may be cut short, and reruns over what is
  left; an archive that may also be replaced by hand. Correct: a finished run has built
  the declared runtime, every archive holds it unless it was last taken of a venv nobody
  had validated, and the one edit is all that the audit misses.
* **Checkout.** Never lose an operator's edit, never refuse without a reason.
* **Benchmarks, warm-up.** Threads, a server that may die between any two of its
  clients' statements, and a cache that outlives them all. Correct: a verdict follows
  from the answers that were sent; a conversation carries its own history; a pool
  reports its own drafts; a sample that is called cold was cold; a document is the one
  that was measured; an exit code says of the requests what its program makes of them;
  every program ends, unless it waits for a request without a time limit.

## Modules

| Module | What it is |
|---|---|
| `OffloadRegion` | life cycle of the region: launcher, constructor, callers, cleanup, kill; implements `ServerBuffer` |
| `ServerBuffer` | abstract specification: the one buffer that the workers of a server see |
| `OffloadLayout` | its byte layout |
| `AtomicArchive` | abstract specification: a store whose entries are replaced in one step |
| `RuntimeSnapshot` | the two snapshot scripts; implements `AtomicArchive` |
| `ModelStage` | download, stagers, model selection of the launchers, load |
| `PatchRepo` | the checkout and `prepare_patch_repo.sh` |
| `RuntimeInstall` | extends `PatchRepo`: installer, audit, loss and restore of the host, kernel-source copy |
| `ToolRounds` | the client of `bench_tool_roundtrip.py`: streams, assembly of tool calls, verdicts, pool, exit code |
| `Warmup` | extends `ToolRounds`: `warmup_runtime.sh`, and the client run by hand |
| `AgentSessions` | conversations of `bench_session_concurrency.py` and `bench_agent_trace.py` |
| `LoadPool` | pools of `bench_high_concurrency.py`, `bench_full.py` and `04_bench_decode.py`, and a server that dies and returns with a counter of zero |
| `PrefixCache` | the server's prefix cache: which keys (salts, nonces) it holds |
| `ConfiguredCeiling` | extends `PrefixCache`: `bench_configured_ceiling.py` |
| `IsolationRound` | extends `PrefixCache`: `bench_ttft_isolation.py` with its thread |
| `RecallCase` | extends `PrefixCache`: `bench_long_context_recall.py` |
| `Benchmarks` | composes the last six and `Warmup`: one client from its start to its exit code, against a server that earlier ones have left behind |
| `*Proofs` | theorems about the module they extend |
| `MC*` | instances for TLC |

**`OffloadRegion`.** A process is a pair of launch and rank; `pc` names the next system
call. `CreateExclusive`/`FileExists` are the two outcomes of the first `os.open`, then
`Truncate`, or `Reopen` and the turns of `_wait_for_file_size` (`SizeReached`,
`PollAgain`, `TimeOut`), `Mmap`, `Populate`. `cleanup` is `Unregister`, `CloseMapping`,
`CloseFd`, `Unlink`. What may fail does: `CallFails` is the error of an `open`,
`ftruncate`, `fstat` or `mmap` that leaves the constructor, with a file that was just
created still in `/dev/shm`; `UnregisterFails` a `cudaHostUnregister` that returns an
error, or a platform on which it is not called, after which `is_pinned` is cleared and
the mapping closed all the same; `UnlinkFails` an `os.unlink` that raises. `refused` and
`kept` remember them. The kernel is modelled by the names in `/dev/shm` (`dir`), inode
sizes, and handles; an inode is named by the process that created it. `StartServer` is
the launcher: the sweep, then vLLM.

**`ServerBuffer`.** What the engine and the device may rely on: servers follow one
another, each is provided with one buffer that none had before, a worker sees its own
server's or nothing, and the device is told of a view after the worker has it and told
to forget it before the worker, unless it dies, lets go of it. A worker may give up on a
device that does not forget (`GiveUp`). `RefinesBuffer` maps the region to it: the
buffer of a server is the file of its launch that has a size (`Given`), a view a
mapping, a registration `is_pinned` or one that `cleanup` gave up. Creating, reopening,
polling, populating, closing and unlinking are stutters.

**`OffloadLayout`.** Intervals of byte offsets. `CreateNextView` is the method with its
assertion (`Fits`), `Populated` the range of one `madvise`, with its rounding.
`PopulateBlock` is a turn of the populate loop: the kernel takes the hint or rejects it,
and an error is swallowed (`AfterError`), so that `resident` and `rejected` say which
block is left to demand paging, and why. The class never checks that the cells of all
workers fit in a row; that is the assumption `CellsFitInRow`.

**`RuntimeSnapshot`.** Archive 0 is the venv, the others the caches in the order of the
script. A directory is a generation that others advance (`Change`); an archive file is
the generation at which `tar` began and whether it is whole. `Restorable` maps the files
to the abstract store.

**`ModelStage`.** A directory is a set of files: the shards, the index, `"config"` for
what the stager compares byte by byte, `"other"` for what it never names. `cp`, `rm -rf`
and the weight loader are steps per file. Only the vLLM launcher tests that there is a
hot directory (`TestHotDirectory`); a `find` in a directory that is missing, or gone
since that test, fails and ends either launcher under `errexit` and `pipefail`
(`CountHotShards`).

**`RuntimeInstall`.** A file of the venv is absent, of the wheel, torn, pinned (as in
the pinned checkout), other (as in another checkout), or carries the signature edit.
Each step of the installer is one action when it succeeds; `Interrupt` leaves any part
of it (`PartOf`), with one file cut short. The archive has a second writer,
`SnapshotByHand`: `snapshot_runtime_state.sh` from a shell or at the end of the warm-up,
which tests only that `bin/vllm` is there, and may read a venv that an installer is
writing. `unaudited` remembers whether the venv had passed the audit and had the edit
without which the server does not start (`Validated`), which is what the documented
order of steps (audit, serve, warm up, snapshot) establishes. What stock vLLM's
`mxfp4.py` holds is not known to the repository; it is taken to fail the audit.

**`ToolRounds`.** A round is at its first request (`"call"`), its second (`"answer"`) or
over. The server is external: it may begin calls, continue the last one and stop
anywhere; `sent` is what it sent, `calls` what the client assembled, by the index of the
delta or, without one, all in entry 0 (`CallBegins`, `CallGoesOn`). Arguments are in
pieces: two halves of the object asked for, or a JSON value that is no object, on which
`args.get` raises what nobody catches; that ends a loop over rounds at once and a pool
after its last round (`Aborted`, `Finish`). Every call is taken to begin with its name
and id. A stream that is cut between two events, or that carries an error object, ends
like one with `[DONE]`, because the code's loop does not look at how it ends.

**`Warmup`.** Each request may fail at any time, which stands for a server that goes and
comes back. `Hang` is a request for `/health` that is never answered: its `curl` has no
time limit. `Init` also covers the client run by hand, with any number of rounds and
threads.

**`AgentSessions`.** A message is reduced to its session, its turn and the parts that a
history is wrong without: the question, the observation, the content, and the reasoning,
which is submitted again only under `--include-reasoning-history`. `Submit` builds and
sends a request, `EndStream` and `StreamFails` are its outcomes, `Grown` is the loop
after the pool (`RecordRound`, and `RecordTurn` of the single conversation),
`RaiseFailure` the first `result()` that raises. A stream that closes without `[DONE]`
is an answer with what has come, as in the code.

**`LoadPool`.** One model for three programs whose pools differ in what a failure does
(`Handlers`): it is counted, printed, printed with the next pool skipped, or ends the
program. `ReadBefore`, `Send`/`Return` per thread, `Gather`, `ReadAfter` are the
program; `Draft`, `Die` and `Restart` the server. `drawn` counts the drafts made for the
pool's own requests, which no client can see; `MetersOwnPool` compares it with the
difference that the client reports.

**`PrefixCache` and the cold benchmarks.** Two prompts share a prefix if they have the
same key, and a uuid or token is a key never drawn before. `ConfiguredCeiling` has the
warm-up and the two nested loops; `IsolationRound` the main thread and the long worker
step by step (`AskLate` after the delay, wherever the long request is); `RecallCase`
builds the document segment by segment (`PlaceSegment`), measures it (`Measure`: near
the size, or scaled to any other number of notes, since the tokenizer is external), and
judges the answer by what `raw_decode` makes of each of its brackets (`Ask`): the first
position of a list of strings (`StringLists`, `FirstOf`) decides.

**`Benchmarks`.** The clients are run one at a time, as the documents run them; a step
is one of the running client, the others keep their least initial state. What they share
is the cache, in which an earlier client may have left prompts without a key.

## Runs

| Run | Instance | Result |
|---|---|---|
| `region_sequential` | 2 launches of regions of different sizes, 2 ranks, 1 poll, kills and errors anywhere, of one process of a server, fair | 7 safety properties, `RefinesBuffer` and `CallsResolve` hold (220 628 states) |
| `region_overlap` | launches may overlap, distinct engine ids | `OneRegion` violated, see Findings |
| `layout` | 3 ranks, 2 blocks, cells of 3 bytes in pages of 2, rows of 10, any `madvise` rejected | 4 properties hold (250 047 states) |
| `snapshot` | 2 runs, the venv and one cache, 2 generations | 3 properties hold, refinement among them |
| `snapshot_leftovers` | the same with one generation | `NoLeftovers` violated |
| `stage_serial` | 1 shard, 2 stagers, 1 launcher, stagers one after another | 6 properties hold (1.10 million states) |
| `stage_concurrent` | stagers at the same time | `HotIsWhole` violated |
| `install` | one overlay of upstream and one of the project, mxfp4, one other revision; the checkout changes, or up to 2 faults with snapshots of unvalidated venvs among them | 6 properties hold (1.15 million states) |
| `audit` | the same, up to 1 fault | `AuditIsSound` violated |
| `patch_repo_fresh` | the same, up to 1 fault | `RefusesOnlyChanges` violated |
| `benchmarks` | every client in turn: warm-up with 2 waits; by hand 1 to 3 rounds and threads, 2 calls per round; 6 requests of sessions; 2 pools of 1 or 2, 3 drafts, 2 lives of the server; 2 sizes of 2 samples; 2 isolation rounds; 2 documents of up to 4 notes and 2 needles | 11 invariants and `BenchmarksEnd` hold (255 067 states) |
| `isolation` | 2 rounds | `LateMeetsPrefill` violated |

Bounds and why they are enough:

* `MaxLaunches = 2`: a file is either of this server or of an earlier one; the sweep
  makes the number of earlier ones irrelevant. The two launches have different sizes
  (`TwoSizesSpec`), since of two equal ones a file left behind is merely long enough,
  which the larger of two is as well. `MaxPolls = 1` separates "not yet", "again" and
  "deadline"; polls are not timed, so that each kind of file is seen at each count. Two
  ranks give a creator and an opener; two sizes make a leftover file too small for the
  next server. `MaxFaults = 1` of `MCOffloadRegion` is the processes of one server that
  are killed or meet an error: with both a creator and an opener to fail, and every
  statement to fail at, one of them is the survivor whose behaviour the properties are
  about. Without liveness the invariants were also explored with no such bound (679 700
  states). The proofs lift all of these.
* The layout's numbers make a cell begin inside a page (so that rounding matters) and
  leave a byte of padding at the end of a row.
* `MaxGen = 2`: a directory changes once during a run; `NumCaches = 1` has a first and a
  last archive. The proofs lift both.
* One shard stands for 48: the scripts count, and 47 against 48 is 0 against 1 here. The
  instance with two shards passes as well (7.9 million states).
* `MCRuntimeInstall` runs two kinds of behaviours, since together they are too many: in
  one the checkout changes, is edited and prepared, and snapshots are taken by hand of
  validated venvs only; in the other it stays at the pinned revision, and installers are
  cut short and snapshots taken of whatever venv is there, `MaxFaults` times in all. Two
  faults are a bad snapshot and an installation, cut short over what was restored from
  it. For the two violation runs one is enough; it keeps the bad snapshot out of the
  counterexample of `audit`, which does not need it. The proofs have no such split.
* One overlay of each origin: the loop treats them alike, and a cut between them is any
  subset.
* Three rounds and one to three threads: pools smaller than, as large as and larger than
  the work, and a thread that takes a second round. Two calls are the least that can be
  confused. The proofs lift all of these.
* Six requests are one conversation of six turns, which has the observation of
  `bench_agent_trace.py` (every fourth turn), two of three with that of
  `bench_session_concurrency.py` (every second), or three of two. `Streamed` has an
  answer with content and one that is cut before any.
* Two pools: one behind the other, and the pair of the prefix stage that depend on each
  other. Three drafts fall before, into and after a pool; the server dies once, at any
  moment. Two sizes, samples, rounds and documents have a first and a last; two needles
  and four notes have a remainder and none; two brackets are a first one that is passed
  over, or not, and one behind it. The proofs lift the bounds of all safety properties
  of the run.

Stops are legal everywhere (the scripts end; the bounds run out), so deadlock is not
checked, except for `install`, whose environment never ends.

**Fairness.** `Fairness` of `OffloadRegion` is weak, for each process's own next
statement: the operating system runs a ready process, and no statement of the class
blocks (the poll sleeps five milliseconds). Launching, stopping, pinning, exporting and
dropping views and being killed have none. Under it `CallsResolve` says that every
constructor returns, raises or dies, and every cleanup comes to its end. `BenchFairSpec`
of `Benchmarks` only says that something that can go on does: the programs' threads are
scheduled, sockets time out, `max_tokens` bounds an answer as `MaxCalls` and `MaxDrafts`
do in the model, and a server that died returns or fails the requests made of it. Every
step uses something up, so no more is needed. The sockets are those of the Python
clients, which set a timeout. `curl` in `warmup_runtime.sh:12,17` sets none: there
nothing entitles the script to go on, `Hang` is where it then stays, and `BenchmarksEnd`
exempts exactly that.

**Assumptions as constants.** Five switches name what the code takes for granted, and
setting one to `FALSE` (or `Overlap` to `TRUE`) shows what breaks: `Overlap` (a launch
waits for the previous server: `OneRegion` fails otherwise), `Orderly` (vLLM cleans up
only after every worker of the server has started: otherwise `OneRegion` and
`FailsForAReason` fail, because the creator unlinks between another's two `os.open`),
`Exclusive` (one snapshot at a time: otherwise an archive may go back to an older
generation), `Serial` (one stager at a time), `Quiet` (nobody changes the checkout
during an installation: otherwise an unpinned overlay can be installed after the gate).
The repository has no lock for any of them; they are the operator's discipline. What is
left without it is proved too, see below. Without a switch, because no code could do
otherwise: benchmarks run one at a time and no other client asks the server
(`Benchmarks`), and a request that failed is drafted for no more (`LoadPool`; a server
that goes on for a client that timed out would move the counter of the next pool).

## Proofs

All for arbitrary constants, under the modules' named assumptions.

* `OffloadRegionProofs`. `BackedInv` adds to `FullyBacked` what each statement has
  established (`Progress`): an inode is truncated once, by its creator, and sizes never
  shrink, so a size seen by a poll is still there at the `mmap`. `LeakInv` adds that a
  name leads to a file created under it and that one without an owner has a kill or an
  error behind it (`LeaksNeedACause`), `PinInv` that a process counts as pinned between
  `Pin` and `Unregister` only; these need no assumption on the environment. `SharedInv`
  says that until its server stops the file that a process holds still has its name
  (`HeldIsNamed`), which is why all hold the same one, and that every file belongs to
  the latest launch (`FilesAreCurrent`); it needs `~Overlap` and `Orderly`. `OneRegion`
  alone is not inductive: two processes that will map different inodes satisfy it.

  The refinement needs more than the sharing at one moment: a server is provided with a
  buffer once, so no second file of a launch may ever get a size, not even after the
  first was unlinked (`MadeOnce`, in `BufferInv`). `RegionImplementsBuffer` goes through
  the steps; `BuffersAreOwn` then follows from the abstract specification alone.

  Without `Orderly` a server may be told to stop while it starts. `ServingInv` is what
  then remains: a file keeps its name until its creator unlinks it (`OwnersAreNamed`),
  one that is polled is the own server's (`PolledIsOwn`), and no cleanup begins before
  its server was told to stop (`CleanupFollowsStop`). From it follow `WaitsOnTheCreator`
  and `UnlinksOwnFile` under `~Overlap` alone, and `RegionIsSharedUntilStop`: only a
  server that was told to stop can have two regions, or a constructor that failed early
  without an error of a system call.
* `OffloadLayoutProofs`. Views of a rank are stacked below its offset (`Stacked`,
  `InCells`), cells of ranks are disjoint inside a row, rows are disjoint; a few lemmas
  of nonlinear arithmetic carry the products. `Hinted` says that the loop has come past
  every block before the first view, with its range resident or rejected
  (`PagingNeedsARejection`).
* `RuntimeSnapshotProofs`. Refinement step by step from `ArchiveInv`: only `Move`
  changes an archive, what it moves was listed, and no older than what is there when
  runs exclude each other. `ArchivesNeverWorsen` follows from the abstract store alone:
  what could be restored once can be restored from then on. `FreshInv` adds that
  generations only advance; what a run has behind it is whole however runs overlap
  (`RunsLeaveAWholePrefix`), and fresh if they do not.
* `ModelStageProofs`. `StageInv`: with one stager at a time, the incompleteness it
  tested persists until it has moved its copy (`StageProgress`), so it never removes a
  whole directory; a launcher past the count of shards sees the index only of a whole
  copy (`LaunchProgress`); hence `HotLaunchIsSpared`. If stagers overlap, and while the
  source is still downloaded, one thing is left (`HotCopyFillsWhole`): a hot copy
  becomes whole in one step, the rename of a copy that was compared (`ComparedIsWhole`),
  so no test can meet a copy that is being filled.
* `RuntimeInstallProofs`. `InstallInv`: from the gate to the end the checkout is the
  pinned one, clean (`ReadsPinned`), and each step finds what the earlier ones wrote
  (`Progress`). `ArchivesAreDeclared` is about the archive whoever wrote it last, and
  exempts only what was last taken by hand of a venv not validated. `AuditVouches`: what
  the audit does not read, the tuning table and the content of the module, is copied
  before the signature edit (`EditIsLast`), and that stays so through archives, also bad
  ones, and restores; so with the edit in place its verdict is right. If the checkout
  changes meanwhile, the sources may be wrong, but `RuntimesAreFinished`: the order of
  the steps alone (`Steps`) sees to it that nothing that an installer finished or
  archived lacks a part or has a torn one.

* `WarmupProofs`. `AssembledInv` ties the client's entries to the calls sent: entry k is
  call k + 1 if calls are numbered; otherwise entry 0 counts the names, so that a name
  that occurs once means a single call. `PoolInv` says that a single thread that raised
  left nothing in flight; from it and `ExitInv` no round moves once the program has its
  exit code.

* `AgentSessionsProofs`. `SessionsInv`: between two turns each history is exactly what
  was said and told so far (`Told`), an observation is pending exactly in the turns that
  are due one, and a session is one exchange behind only while it waits to be asked.
  `OwnHistory` alone is not inductive: it does not speak of the history from which the
  next request will be built.
* `BenchmarksProofs`. `BenchInv` joins the invariants of the clients and says that a
  client that is not run rests. `LoadInv`: between the readings the counter has moved by
  the pool's own drafts or the server has started again since (`CounterMoved`), and what
  lies before the pool at work was reported or does not matter (`Settled`).
  `CeilingInv`: the samples are complete up to the one being taken (`Taken`).
  `RecallInv`: the segments placed so far begin where the quotient and the remainder put
  them (`Begin`, `LaidOut`), from which the evenness of the document follows by the
  arithmetic of division. `RecallBooks` ties the exit code to the answers; that the
  brackets before the one that a passed answer was judged by are no lists of strings
  (they may be broken or mixed) rests on the least-number principle (`FirstOfIsFirst`).
  `ExitCodesHold` says of each program no more than it does: the pools that print, skip
  or catch a failure are exempt. All rest on `CacheInv`: no key is cached before it is
  drawn.

  The composition: a step of `BenchNext` is one of the running client and leaves the
  others as they are (`OnlyTheClientSteps`), so each client, beside the others, is what
  its own module says (`ClientsAreThemselves`, `CacheClientsAreThemselves`), and what is
  proved there holds here (`ClientsKeepTheirPromises`).

**Liveness, as far as it is a matter of safety.** `CallsResolve` and `BenchmarksEnd` are
checked by TLC, since fairness and `ENABLED` are beyond the prover. Proved, for every
value of the constants, is what they rest on beside fairness. Nothing goes round in
circles: `CallsAreBounded` gives every call of the class a number of turns bounded by
`LastTurn` that its own statements raise and no other process lowers, whoever dies;
`RoundsAreBounded`, `SessionsAreBounded` and `ClientsAdvance` say the same of the
programs, where the order is lexicographic (a request that returns may let the next one
begin: `PoolOnward`, `IsolationOnward`, `RecallOnward`, whose bounds are invariants of
their own, `LivesInv`, `RoundsRemain`, `RecallBooks`). And nothing waits for what cannot
come: `ClientIsNeverStuck`, `SessionsAreNeverStuck` and `ClientsAreNeverStuck` name what
a running program can go on with, a thread that can take a round, a request that is
open, a result to take.

Every safety property that a passing run checks is stated by a theorem.

## Findings

1. **A launch breaks a server that is starting** (`region_overlap`). The sweep of
   `02_serve_vllm.sh:76` deletes the region files of live servers too. If it falls
   between two workers' `os.open`, the server gets two regions, silently.
2. **Temporary archives leak** (`snapshot_leftovers`). `set -e` ends the shell inside
   `snapshot`, where the `RETURN` trap does not fire.
3. **A second stager removes a complete hot copy** (`stage_concurrent`), from under a
   launcher that has selected it.
4. **The audit passes a runtime without the signature edit** (`audit`), which a
   reinstallation cut short before step 9 leaves behind.
5. **A fresh host cannot prepare the checkout** (`patch_repo_fresh`): after `git clone
   --no-checkout` every file counts as deleted, so the script refuses.
6. **The short request may miss the long prefill** (`isolation`). The benchmark is to
   time a short request while a cold prefill runs, but only a delay fixed beforehand
   arranges it. The prefill may be over, or still in the queue; the sample counts.

Observed, but nothing in the program notices it: a second answer that breaks off after
its first piece of text counts as an answer, so a warm-up may archive the runtime of a
server that has just died; and one malformed tool call whose arguments are valid JSON
but no object ends `bench_tool_roundtrip.py` with a traceback instead of a failed round.
A stream of `bench_agent_trace.py` that closes early counts as an answer, and what came
of it goes into the history. A restart of the server between two readings of its counter
hides drafts, down to a report of a "native decoder". `bench_full.py` exits 0 when
requests of its prefill, prefix and concurrency stages failed; it prints them.
`bench_long_context_recall.py` takes the first array of strings that an answer holds
anywhere, also one nested in another or behind other text, where
`GPU_VALIDATION_PLAN.md:306` says that it "accepts only the ordered JSON array in final
content"; `RecallExitTells` states what the program does. A `/health` that accepts the
connection and never answers keeps `warmup_runtime.sh` for ever, whatever
`WARMUP_WAIT_SECONDS` says.

Of the scripts: `snapshot_runtime_state.sh` says that it persists "the validated local
vLLM venv", but tests `bin/vllm` only, so that by hand, or from a warm-up of a server
that still runs, it archives a venv that an installation cut short has left half-built,
or that nobody audited, over a good one. The SGLang launcher has no test for the hot
directory: without one its `find` fails and, under `errexit` and `pipefail`, ends it
without a message, where it should take the persistent copy; the vLLM launcher dies the
same way if a stager removes the directory between its `-d` and its `find`, where
`02_serve_vllm.sh:53-54` says "otherwise fall back to persistent storage". A hot copy
that was staged before the download had fetched the files that the stager does not name
lacks them for good: every later run finds it "already complete". A constructor whose
`ftruncate` or `mmap` fails leaves the file it made in `/dev/shm` until the next launch
sweeps it, and a failed `cudaHostUnregister` leaves the device with a registration of
memory that is then unmapped.

## Not modelled, and why

The contents of wheels, archives, tables and models; disk capacity; timings and the
verdicts on them (ratios, percentiles, limits); the launchers' profiles and the API key;
`env_setup.sh`, `00_check_env.sh`, `preflight_cpu.sh` and `validate_tuning_tables.py`,
which keep no state between steps; `bench_latency.py`, which times the chunks of three
streams one after another, `collect_shapes.py`, which counts lines of a log, and
`03_benchmark.sh`, a loop over `vllm bench`; the notebook and CI, which call the scripts
in order. vLLM, git, tar, pip and the kernel appear as the actions marked external in
the map, as do the server's cache, counter, streams and deaths.

Two known limits. A directory that `tar` reads is one generation, so that a torn mixture
of two (a server or a reinstallation writing meanwhile) cannot be told from either. And
two leftovers of a kill are not properties of any run: the stager's temporary directory
on the local disk (`stage_model_local.sh:41`), which goes with the host, and a copy of
the kernel source that was cut short (`02_serve_vllm.sh:23`), which later tests take for
whole because it is a directory; `RuntimeInstall` has the torn copy as a state, and no
property that forbids it.

## Plan

Done, in this order: region, layout, snapshots, staging, checkout and installer with the
audit, tool rounds and warm-up, sessions, pools, the cold benchmarks, their composition,
the proofs of the safety properties, the two refinements (`AtomicArchive`,
`ServerBuffer`), what holds without the operator's discipline, and the safety halves of
the liveness properties.

What could follow, of proofs: that a stager and an installer take a bounded number of
steps; what a launcher may rely on when stagers overlap, beyond `HotCopyFillsWhole`; the
installer's order of steps as an abstract specification. Of models: the installer's
single snapshot step composed with `RuntimeSnapshot`; archives at the granularity of
files; pools of clients that overlap, should the repository ever promise anything about
them.
