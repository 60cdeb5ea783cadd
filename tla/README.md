# CipherFS in TLA+

CipherFS packs a directory into one authenticated, encrypted container file
(format v2), verifies it, extracts it, changes its password, and mounts it
read-only. This directory holds TLA+ models of the parts of the program whose
correctness depends on order: header updates that must survive a crash,
operations that publish all or nothing, parallel passes and reads through a
shared cache, a desktop shell that drives worker processes, mount sessions,
the updater, and the way from an authenticated index to the names and listings a
mounted volume shows. TLC checks the models on small instances; TLAPS proves
their safety properties for every instance.

`PROJECT.json` lists components, runs, mutants, the map from definitions to
source lines, findings, hazards and theorems. Paths below are relative to the
repository.

## Inventory

| Component | State | Operations | Interacts with |
|---|---|---|---|
| Keyslots (`cipherfs-core/src/v2.rs`) | the 4096-byte header: two keyslots with a generation each, a Duress slot | `open`, `unlock`, `change_password`, `wipe_for_duress`, `write_header` | every operation opens through it; nothing locks the file |
| Index and layout (`v2.rs`) | immutable after pack: entries, chunk counts, offsets | `read_index`, `validate_index`, `decrypt_chunk`, `verify_all` | used by reads, extract, verify |
| Pack (`pack.rs`, `parallel.rs`) | scan results, the temporary container, `TempOutput` | scan, encrypt in parallel, self-verify, commit | reads a live source tree, renames in a shared directory |
| Extract (`extract.rs`, `safe_fs.rs`) | staging tree, pending files, `SafeRoot` | staging, ordered batches, install, commit | decrypts by a thread pool, renames in a shared directory |
| Read-only file system (`readonly_fs.rs`) | `Cache`: byte account, map, LRU order, under one mutex | `read`, `load_chunk`, `lookup`, `read_dir` | called by FUSE (one thread) and by WinFsp dispatcher threads |
| Operation control (`operation.rs`) | cancellation token, event order, `ProgressTracker` | `check`, `cancel`, events, `advance` | threaded through pack, extract, change, verify; progress bar of the CLI |
| Worker boundary (`operation_controller.rs`, `worker.rs`, `protocol.rs`, `app.rs`) | two pipes, `protected` and `cancelling` flags, the child, the UI's overlay and running operation | start, cancel, force close, close window, `run_events`, cleanup | shell process and worker process |
| Window and mount worker (`app.rs`, `controller.rs`, `mount_controller.rs`) | page, overlay, `AppState`, the running operation, the `MountWorker` | buttons and overlays, mount, unmount, drop with time-out and kill | UI thread, mount and unmount threads, worker process |
| Windows names (`windows_names.rs`) | one display name per node, computed once | `WindowsNameMap::new`, `lookup` | WinFsp adapter, extract on Windows |
| FUSE and WinFsp adapters (`cipherfs-fuse`, `cipherfs-winfsp`) | session: host, mount point, removed directory; open handles, enumeration markers | start, unmount, drop; kernel callbacks | read-only file system, other programs' drive letters and directories |
| Updater (`cipherfs-update`, `update_interactive`) | answers of four requests, temporary program | fetch, verify, replace | a release server, the installed program |
| Command line (`cipherfs-cli`) | Ctrl+C handler, `RUNNING`, the token, bars | one command per process | all of the above |

What is hard in them, and what makes each correct:

* **Keyslots.** A password change is two header writes, each of the header read
  before seconds of key derivation; a second process, a crash, a power loss or a
  Duress wipe may come in between. Correct: nobody is locked out, a cancelled
  change leaves no trace, an acknowledged change has revoked the old password on
  the medium, the Duress password never unlocks, a wipe is final.
* **Cache.** `load_chunk` takes the mutex twice and decrypts in between, so two
  threads can insert one chunk. Correct: reads return the exact range or an
  error that has a cause, memory stays bounded, the eviction loop ends.
* **Pack.** Its input changes under it and takes minutes to read. Correct: a
  published container is no mixture of versions, it is published whole or not at
  all, never over somebody else's file, not after an early cancellation.
* **Extract.** Chunks finish in any order, names may be folded by the
  destination. Correct: a published tree is complete, in order and authenticated.
* **Worker boundary.** Five threads in two processes, either of which may die.
  Correct: reports are truthful, nothing stays behind, every operation ends, and
  the commit zone is left alone. A worker notices the death of its shell when its
  reader comes to the end of the pipe, no earlier.
* **Window.** Handlers, posted events and two threads change one window; the
  buttons under an overlay stay usable. Correct: the result page is true,
  passwords are gone when work begins, no drive outlives the shell, the progress
  page is always answered.
* **Mount session.** Letters and the mount directory are looked at before they
  are used, and the directory is removed for the mount. Correct: other programs'
  letters and what they put into directories are untouched, and whatever fails is
  undone.
* **Updater.** Four requests may be answered from different releases. Correct:
  only the genuine, newest executable of this target is installed.
* **Parallel passes.** Threads share a counter, a bar and a token. Correct: the
  count is honest, the bar never goes back, success is complete, cancellation is
  prompt.
* **Index, names, listings.** An index is authenticated and still arbitrary.
  Names are checked and compared by rules that differ between the platforms a
  container travels between. Correct: what is accepted is a tree that tiles the
  data region, what pack wrote is accepted, names shown lead back to their nodes,
  listings in pieces neither repeat nor skip.

## Modules

| Module | Models | Checked by |
|---|---|---|
| `KeySlots` | header protocol of `v2.rs` | `MCKeySlots`, `KeySlotsProofs` |
| `ChunkCache` | `ReadOnlyV2Fs::read` and `load_chunk` | `MCChunkCache`, `ChunkCacheProofs` |
| `Pack` | `pack_inner`, `scan_source`, `encrypt_source_file`, `TempOutput` | `MCPack`, `PackProofs` |
| `Extract` | `extract_v2_inner`, `SafeRoot`, `PendingFile` | `MCExtract`, `ExtractProofs` |
| `AtomicPublish` | abstract: what pack and extract promise their callers | refined by `Pack` and `Extract`; both proofs |
| `Worker` | `run_events`, `run_stdio`, `execute`, the shell's cancel, close and confirm handlers | `MCWorker`, `WorkerProofs` |
| `Shell` | the window (`app.rs`, `controller.rs`) and the mount worker (`mount_controller.rs`, `worker.rs`) | `MCShell`, `FrontendProofs` |
| `MountSession` | `WinFspMountSession`, `FuseMountSession`, `mountpoint.rs` | through `Cli` |
| `Updater` | `download_portable_update`, `download_windows_integration`, `update_interactive` | through `Cli` |
| `Cli` | `execute_command`, the Ctrl+C handler; composes `MountSession` and `Updater` | `MCCli`, `FrontendProofs` |
| `Index` | `encrypted_file_size`, the layout of `scan_source`, `validate_index` | through `Volume` |
| `WindowsNames` | `windows_names.rs` | through `Volume` |
| `Ordered` | `sort_by`, `sort_by_key` of the standard library, as `Index`, `WindowsNames` and `Volume` use them | through `Volume` |
| `Volume` | `open`, `ReadOnlyFs`, `resolve`, both adapters' directory listings; composes `Index` and `WindowsNames` | `MCVolume`, `VolumeProofs` |
| `Verify` | `verify_all_with_control`, pack's two passes, `ProgressTracker`, `CliProgress` | `MCVerify`, `VerifyProofs` |

**KeySlots.** `disk` is the header every process reads, `durable` the one a power
loss leaves; `hdr[p]` is the copy process `p` works on. `ChangePassword` reads the
header, `VerifyPasswords` does both `unlock` calls and prepares the slot in
memory, `StartMutation` is the last cancellation check, then come
`WriteNewSlot`, `SyncHeader`, `WriteRetired`, `SyncHeader`. `Open` and
`OpenVerify` lead to `WriteWiped` for the Duress password. `IoError`, `Cancel`,
`Kill`, `Writeback` and `PowerLoss` may come anywhere. `duressed` and
`lastWriter` are history variables.

**ChunkCache.** The variables are the fields of `struct Cache`, the mutex, and
per thread the arguments and locals of `read`. A byte of plaintext is its
position, so a wrong byte is visible. `Lookup` and `BeginInsert`..`Insert` are
the two critical sections; `EvictOldest` is one turn of the eviction loop.
`Decrypt` fails for a damaged chunk, and for any chunk when the container cannot
be read: `read_exact_at` (`v2.rs:832`) and the authentication end in one error
(`readonly_fs.rs:265-268`). The history variable `unreadable` says which it was.

**Pack.** The source files have a version and a size in chunks that `Rewrite`
changes at any time; `cell[f][c]` remembers the version a chunk was read from.
`ScanStat` and `ScanFingerprint` are the two stat calls of the scan, `OpenSource`
and `CloseSource` the two `ensure_unchanged` comparisons. `guard` is `TempOutput`.

**Extract.** Entries are numbered in the order they are visited. `tree` maps
(parent, name as the destination sees it) to the entry that owns it.
`DecryptChunk` is one task of a parallel batch, `WriteBatch` the ordered write.

**Worker.** `wpc` is the operation, reduced to artifact, zone, publication and
end; `rpc` is the place in `run_events`; `sending` says the UI thread is between
the checks of `request_cancel` and its write. `killed` is the request, `Gone`
that the process has ended: in between it may take more steps. After the death of
the shell the worker goes on until its reader takes the end of the pipe
(`ReadEof`), and it may enter its zone before that; so `OrphanCancels` speaks of
the time from there on.

**AtomicPublish.** Five variables say what a caller can see: what is at the
promised name, whether the private result is whole, whether cancellation came
before the commit, whether the name is durable, and the outcome. `Pack` and
`Extract` instantiate it; `Whole` and `Outcome` are the refinement mapping.
Everything under the temporary names is a stutter or `Prepare`. Implementing it
says in one property that nothing foreign is replaced, that an early cancellation
publishes nothing, and that only whole, synchronised results appear.

**Shell.** `page`, `overlay`, `secrets` and `cancelEnabled` are the window,
`ctl` is `AppState`, `uiQueue` the events posted with `upgrade_in_event_loop`.
`opener` is the thread of `start_mount`, `closer` that of `confirm_overlay` or
whoever drops the `MountWorker`; `PollExit` and `Reap` are the polling and the
kill of the drop. `wpc`, `cmd` and `drive` are the mount worker. Operations
appear only as started, protected and over; `Worker` has them in full.

**MountSession, Updater, Cli.** `Cli` runs one command. `mpc` is the place in
`start`, `unmount` and the drops, `letters` and `dir` what every program sees,
`guard` the `PreparedDirectoryMountpoint`. `PrepareCheck` and `PrepareRemove` are
two steps, and between them `Foreign` may make the directory, fill it or put a
reparse point in its place; `Removable` is what `remove_dir` takes, an empty
directory or a reparse point. The updater's server answers each
request with any manifest, signature and binary it could hold, genuine or not;
a signature by a trusted key exists only for genuine manifests. `OnCtrlC` is the
handler; without it Ctrl+C ends the process.

**Index, WindowsNames, Volume.** A volume starts from a packed source or from
any authenticated index. Sums beyond `MaxU64` are errors, as `checked_add` makes
them. A name is its stem, its spelling (case) and the suffixes `~cfs-id` it
carries, which is what the mapping tells apart. `validate_name` is the `Path` of
the platform that runs it: the scan's may be either, the mount's is `Platform`,
Unix under FUSE and Windows under WinFsp. The stem `q:` stands for names such as
`a:b` or `a\b`, one component on Unix only; `q/` for `a/` or `a/.`, which
`Path::components` takes for `a` on both. A file system's own names hold no
separator (`IsWalk`), so `q/` occurs in raw indexes only; `Component` says that
the kernel asks FUSE for the part before it. `OpenNode` resolves the path
shown for a node; `FuseReaddir(n)` and `WinReadDirectory(n, spare)` are one call
each in which `n` entries fit. `IsWalk` says what a walk of a source tree is:
parents first (`scan_source` looks each one up), no name twice in a directory.
`Entry` is the record a parsed index consists of.

**Verify.** Each pool thread takes a chunk, polls the token, works, advances the
tracker under its lock and reports. `Phases` is one pass for verify and two for
pack. `late` is a history variable.

## Runs

| Run | Instance | Result |
|---|---|---|
| `KeySlots` | 2 processes, 4 passwords with Duress, generations up to 2 | all safety properties hold (82,578 states) |
| `ChunkCacheShared` | 2 threads, files of 5 and 2 bytes in 2-byte chunks, caches of 0, 1 and 3 bytes, reads of 0 and 3 bytes, up to one damaged chunk, failing reads of the container, fair scheduling | reads exact, an error is damage, a failed read of the container or a zero-length read at offset 0; memory bounded, every read returns (235,242 states) |
| `Pack` | 2 files of up to 2 chunks, one rewrite each | safety properties hold, `AtomicPublish` is implemented (320,842 states) |
| `Extract` | directory, file, directory, a nested file of two batches; all 27 foldings of the top names, three damage patterns | safety properties hold, a clash with a directory is refused, `AtomicPublish` is implemented (21,552 states) |
| `Worker` | publish, mutate and verify, either process may die, fair | reports truthful, nothing left, nothing published by a worker that has seen the end of its pipe outside the zone, every operation ends (12,330 states) |
| `Shell` | every route, button, overlay and close request; worker crashes, a dying shell, fair threads | result page true, passwords gone, no drive outlives the shell, progress page answered (5,939 states) |
| `Cli` | mount by letter, automatically, at a directory and by FUSE, with 2 letters; update and integration with releases up to 4 while 2 is installed; failures, Ctrl+C and kill anywhere | nothing left behind, foreign letters and directories kept, only genuine newest executables, Ctrl+C answered; a reparse point is kept unless it came between check and removal (12,135 states) |
| `Volume` | every naming of 3 files over 12 names, nested and sized sources, packed on Unix or Windows, raw indexes with any links, offsets and fields; replies of 1 or 2 entries | packed is accepted but for names that are one component on Unix only, accepted is sound (a tree that tiles the data region), paths resolve but for a trailing separator under FUSE, listings in order and finite (113,175 states) |
| `Verify` | 2 threads, files of 5, 0 and 2 bytes in 2-byte chunks, up to one damaged chunk | count honest, bar monotone, success complete, cancellation prompt, the pass ends (79,140 states) |

Three runs are expected to be violated; each states what a document says and
shows a behaviour of the code that differs.

| Run | What TLC shows |
|---|---|
| `PackGrowth` | a file growing between the two stats of the scan is packed short, and both comparisons pass |
| `WorkerForceClose` | a force-close question asked before the commit zone and confirmed within it kills the worker there |
| `VolumeListing` | a WinFsp listing that needs several buffers is ended after one of them by the end-of-directory entry that `read_directory` always adds |

Behaviours met while modelling that have no run of their own:

* Two misses on one chunk count its bytes twice (`readonly_fs.rs:282`). The
  account only drifts upwards, so the cache evicts what would have fitted;
  `ResidentBounded` and `ReadsReturn` hold all the same.
* A zero-length read at offset 0 of a non-empty file ends in an integrity error
  (`readonly_fs.rs:222`); at any other offset it succeeds. `ReadReturnsRange`
  lists it as a cause of an error.
* When the container cannot be read, `load_chunk` reports an integrity error as it
  does for a damaged chunk (`readonly_fs.rs:265-268`): an error of `read` does not
  mean damage.
* A worker whose shell has died may still enter its commit zone and publish, until
  its reader thread has come to the end of the pipe (`worker.rs:88`).
* A junction that takes the place of the empty mount directory after it was looked
  at (`mountpoint.rs:30-35`) is removed by `remove_dir` (`mountpoint.rs:39`).
* The result of `create_dir` in the guard of the mount directory is ignored
  (`mountpoint.rs:12`); `DirectoryKept` assumes that it succeeds.
* A file named `a:b` or `a\b` is packed on Linux, and the container is then refused
  by `open` on Windows, as a whole: `validate_name` (`v2.rs:672`) asks the `Path` of
  the platform it runs on. `PackedIsAccepted` shows that there is no other cause.
* `validate_name` accepts `a/` and `a/.`, although `docs/FORMAT_V2.md:51` rejects
  multi-component names. In an index that pack did not write such a node may be
  shown under FUSE, whose lookup of `a` finds a sibling of that name or nothing.
  The kernel may refuse the reply before it comes to that, which is not modelled;
  nor is the extraction of such names.
* Nothing locks the container. A password change that read the header before
  another process changed or wiped it, and writes afterwards, undoes that
  process's acknowledged update (`v2.rs:744`, `804`): `AcknowledgedIsDurable` holds
  until the next header write, `WipedStaysWiped` while no other process holds an
  older copy.
* `run_events` kills the worker and removes the artifact before it waits for the
  worker (`operation_controller.rs:138-147`). The branches for malformed or
  unexpected frames (115-117, 130-132, 135) are not modelled, so in the model no
  worker is at work when the artifact is removed.
* A destination that takes two file names for one: `begin_file` looks for final
  names, which pending files do not have yet, and the install rename replaces
  (`safe_fs.rs:143`, `214`), so one file is lost. The run folds file and
  directory names only.
* The page "The read-only drive remains mounted while this window is open"
  (`app.rs:805`) is posted after Explorer was opened; an unmount confirmed from
  the close overlay in between is overtaken, and the window shows a drive that is
  gone until the next click.
* `con.x` is shown with a suffix after its extension, which Windows still takes
  for the device; the name resolves, and `needs_mapping` would ask for a mapping
  again.
* `TempOutput` is built before `create_new`, so if another program takes the
  temporary path in between, the guard removes that program's file. The staging
  directory exists before its `SafeRoot`, so a failing `open_dir` leaves it
  behind; `AllOrNothing` of `Extract` is therefore stated from the first entry on.
* The update commands install no Ctrl+C handler: an interrupt while the temporary
  program is written leaves it beside the installed one.

Bounds. Two keyslots and operations that touch each header at most twice mean
that two processes show every pairwise race; for more processes there are the
proofs. `MaxGeneration` stands for
`u64::MAX`, small enough that `checked_add` fails in the run. The cache sizes are
disabled, below one chunk, and between one and two; 5 bytes give a short
last chunk, 2 bytes an exact one; sizes 0 and 3 at offsets 0, 3 and 5 give the
empty read, reads across chunks and reads past the end. One rewrite per file suffices to fall anywhere
between the two stats and the two comparisons; a second one could only move the
fingerprint further away. `BatchSize` 2 and three chunks give a full and a short
batch. Two letters suffice for one that is
taken after the snapshot and one to go on with. Versions below, at and above the
installed one, and two above it, give every order of release and manifest. Three
siblings are two that collide and one whose real name is the generated one; the 12
stems of `WindowsNames` give each case of `needs_mapping` and `validate_name`;
`MaxU64` 12 lies inside the sizes of the sources. `MAX_DEPTH` 2 lets a path have
a directory in it and an index be too deep. `Requests`, `MaxVersion`, `MaxSize`,
`MaxBuffer` and `CorruptSets` are the other bounds. `CHECK_DEADLOCK FALSE` appears
where operations end and the system stops.

Fairness. `ChunkCacheShared` assumes strong fairness of each thread's steps:
the operating system schedules the dispatcher threads, and the `parking_lot`
mutex hands the lock to a waiter eventually, so a thread that finds the mutex
free again and again gets it. `read` itself is never forced to be called.
`Worker` assumes weak fairness of each thread and of the termination of a killed
process; the user, crashes and the death of the shell are not fair.
`Shell` assumes the same of its threads, of the event loop and of the operation,
whose end `Worker` shows. `Cli` assumes only that a running process goes on:
nothing in it waits except for the flag the handler sets. `Verify` assumes that
some thread of the pool that can run does run. `Volume` assumes a kernel that
asks on until it has seen the end of a directory.

Each property has a mutant in `PROJECT.json`: an operator `Mut...` next to the
definition it replaces that changes it as a plausible slip in the code would; TLC
then finds the property violated.

## Proofs

Eight modules `...Proofs` hold machine-checked proofs for arbitrary constants:
any number of processes, threads, files, chunks, letters or releases, any source
tree, any authenticated index, any sizes and any damage. Every assumption on a
constant is an `ASSUME` of the component's module that TLC evaluates; they say
that sizes are naturals, that chunks are not empty, that sentinels are nobody's,
that the first password is not the Duress password, that a source is a walk
(`IsWalk`) and an index a list of entries. One theorem has a hypothesis of its
own, `DistinctFiles`, named below.

Each proof has the same shape. A property is not inductive by itself, because it
speaks of an end whose causes lie earlier; an invariant that names those causes
is shown to hold initially (`InitInv`, `CliInvInit`, `VolumeInit`) and to survive
each action, one lemma or step per action; the property follows from it in one
step. The invariants were checked with TLC first. An action property, or a
refinement, is proved from the invariant before the step.

| Module | Theorems about properties of the runs |
|---|---|
| `KeySlotsProofs` | `TypeOK`, `NeverLockedOut`, `DuressNeverUnlocks`, `RefusedLeavesNoTrace`, `AcknowledgedIsDurable`, `WipedStaysWiped` |
| `ChunkCacheProofs` | `ResidentBounded`, `ReadReturnsRange` |
| `PackProofs` | `TypeOK`, `OutputNotTorn`, `AllOrNothing`, `PublishesAtomically` |
| `ExtractProofs` | `TypeOK`, `TargetComplete`, `AllOrNothing`, `PublishesAtomically` |
| `WorkerProofs` | `ReportIsTruthful`, `NothingLeftBehind`, `OrphanCancels` |
| `FrontendProofs`, of `Shell` | `ResultMeansOver`, `NoSecretsAtWork` |
| `FrontendProofs`, of `Cli` | `LeavesNothing`, `InstalledIsGenuine`, `ForeignKept`, `DirectoryKept` |
| `VerifyProofs` | `CountIsHonest`, `SuccessIsComplete`, `CancelStopsWork`, `BarNeverBack` |
| `VolumeProofs` | `PackedIsAccepted`, `OpenedIsSound`, `ShownPathResolves`, `ListedInOrder`; also that every call lists something new or ends the listing |

**KeySlots.** What a process will write is a copy it took earlier, so none of
the invariants is inductive. `IInv` adds what is known of those copies:

* `DuressInv`: no copy in memory has a slot for the Duress password, so a stale
  copy cannot bring one back;
* `PreparedInv`: from preparation to return the new slot is live in the copy and
  holds the new password;
* `LiveInv`: while no wipe has begun every copy that may still be written has a
  live slot. This is why an arbitrary interleaving of stale writes cannot lock
  anybody out: each of them writes a whole header that has one;
* `WrittenInv`: for the last writer the file is its copy, after its `sync_all`
  also the medium, and the copy has only the new slot, or none after a wipe;
* `AdmittedInv`: a live slot anywhere holds the original password or one whose
  change passed its last cancellation point, except the slot a process has
  prepared and not been let write.

The step lemmas are by kind of effect (`DropStep`, `AdvanceStep`, `ReadStep`,
`PrepareStep`, `WriteStep`, `SyncStep`, `WritebackStep`, `PowerLossStep`);
`IInvStep` assigns each action to one. `WipedStaysWipedHolds` needs only the
types: a copy without a live slot is never unlocked, so nothing is prepared.

**ChunkCache.** `CacheInv` says that every cached chunk, and every chunk on its
way into the cache, is the authenticated plaintext of its key (`SoundInv`,
`Holding`); that what is held is at most the byte account and at most the limit,
and every held key is in the order (`AccountInv`); that a read in progress has
gathered exactly the bytes in front of its next chunk (`Reading`). The account
may exceed what is held (two misses count one chunk twice), never the reverse:
that is why the eviction test suffices, and why an empty order means an empty
cache. `SliceOfRead` is the arithmetic of `read`: the slice of chunk *i* begins
where the slice before it ended. An error is traced to its cause: a damaged chunk
within the range, `unreadable`, or the read that fails in `checked_sub(1)` (see
above).

**Pack.** A published chunk must come from the version that was fingerprinted,
although the source may have moved on when it is published. `CellInv` keeps what
was true while it was read: versions only grow, so a chunk's version lies between
the fingerprint and the current one, and the second `ensure_unchanged` closes the
gap. `TempInv` ties the temporary file to its guard, `WholeInv` the output path
to a sealed container.

**Extract.** `ContentInv` counts a file's chunks up to `batch_start`, `BatchInv`
says that a batch decrypts each of its chunks once, `TreeInv` that every visited
entry owns its name. `ExtractTargetComplete` assumes `DistinctFiles`: the
destination keeps the names of two files of one directory apart. It holds where
case counts and where the names are those of `WindowsNameMap`; without it
`PendingFile::commit` replaces the first file by the second (see above). The
other theorems do not need it: the invariant carries it as an implication.

**Refinement.** `PackPublishesAtomically` and `ExtractPublishesAtomically` prove
`AtomicPublish` under the mapping `Whole`, `Outcome`: the rename without
replacement is `Publish`, whose guard needs the invariant (the result is whole and
synchronised, no cancellation preceded the commit); every other step is `Prepare`,
an end, somebody else's step, or a stutter.

**Worker.** A message says something of its sender for as long as it is in the
pipe (`EventTrue`): `committed` that the result is in place, a result that the
operation has ended so. `ReaderInv` is what `run_events` may conclude.
`WorkerOrphanCancels` shows that `Doomed` is stable: the end of the pipe has set the
token, nothing resets it, and the check before the commit ends the operation. It
says nothing of the time between the shell's death and the end of the pipe.

**Shell.** The window starts one thing (`OneThingInv`), and the mount passes from
the opener to the closer (`HandoverInv`). `QueueInv` says of each posted event
what remains true until it is delivered: that is how the result page cannot
overtake the worker's end.

**Cli.** One invariant over the command, the session and the updater.
`CliForeignKept` needs no more of the directory than what `remove_dir` itself
enforces; for a reparse point it needs that `prepare` is not between its check and the removal. `UpdateInv`
records what each answer has been checked for, so that nothing the server mixes
reaches the installed program.

**Verify.** A chunk is pending, in one thread's hands, or counted
(`OwnInv`); the count is the number of their bytes (`CountInv`); whoever reports
holds the lock and reports the current count (`LockInv`). `LateInv` bounds the
threads that were already past their look at the token.

**Volume.** `VolumeInv` has four parts. `IndexInv` says what is known of the
index: a packed one is accepted where its names are valid, and they are on Unix;
an open one has been accepted, a refused one has not. `NamesInv` says that the names made at `open` are names, and apart within
each directory; `HandleInv` that a node opened by its path is the node the path
was shown for, unless it is a raw index under FUSE with a trailing separator on
the path; `ListingInv` where a listing is: FUSE counts what it has listed,
WinFsp knows its place by the last name, which no other child of the directory
could be taken for. TLC found the four parts to hold on the instance of the run
`Volume` before they were proved. The work is in what the algorithms establish:

* `ScannedLayout`, `ScannedAccepted`: by `ScanScans` a scan gives each file the
  offset at which the file before it ended, and directories and empty files do
  not move it. Sorting by offset, and by position where offsets are equal,
  therefore brings the files back into the order of the scan, and the
  contiguity check passes. With an unstable sort it would not: the mutant
  `MutByOffset` of the run.
* `GoodIsSound`: `validate_index` compares the depth of each entry with that of
  its parent only, yet nothing else is needed for a tree: depths fall by one on
  the way up and only the root has depth 0, so going up ends there
  (`ReachedLevels`, `UpIs`). The sorted records begin where the one before ends,
  so they cover the region without overlap (`Tiles`, `FilesTile`).
* `NamedApartHolds`, `DisplayNamesDiffer`: after *n* generated names, these and
  the kept ones are pairwise different for Windows. `FreeNameIsFree` shows that
  the search for a free name ends within the number of used names, by counting:
  as many candidates as there are used names and one more, all different, cannot
  all be used.
* `PathLeadsBack`: component by component `resolve` finds the node the component
  was shown for, in FUSE because siblings have different names and no name on the
  path ends in a separator (`NoSlashes`: none does that a scan found), in WinFsp
  because their display names are apart.
* `ReadDirLists`, `WinListingLists`: both orders list each child once, whatever
  the keys are. `StartIs`: the marker is found, and nowhere but at its place.

`VolumeListingProgresses` is the safety half of `ListingEnds`: each call returns
an entry that was not returned before or ends the listing, so only a kernel that
stops asking leaves it unfinished. That it may end too early under WinFsp is the finding above.

**Sorts, folds and recursion.** `InOrderSorts` shows that a finite set can be
listed in any order that puts every two of its members in order, and that
`InOrder`, which chooses such a list, has each member once. `Recursion` and
`FoldSteps` give recursive functions and folds over sequences their recursion
equations, whose solutions are shown to exist by induction up to a bound
(`Induct`, from the least member of a set of naturals); what a fold keeps is then
shown by the same induction.

**Sums.** `Total` of `Verify` and `Resident` of `ChunkCache` fold over sets.
`TotalIsBytes` and `SumIsHeld` show that such a sum is the cardinality of a set
of bytes, by induction over finite sets: among the sets with another sum one has
no smaller such subset (`WFMin`, `FS_StrictSubsetOrderingWellFounded`).

**What the proofs made explicit.** `keep` is set only after `sync_parent`, so the
proof of `Pack` needs that nothing of ours is at the temporary path any more once
the rename has succeeded; an extraction is complete only under `DistinctFiles`,
which the instance of the run satisfies. A walk is accepted only if no directory holds a name
twice, which the file system promises and `scan_source` does not check.

**Only model-checked.**

* Liveness under fairness, which the proof system does not cover: `ReadsReturn`,
  `OperationEnds`, `DriveReleased`, `WindowAnswers`, `InterruptAnswered`,
  `ListingEnds`, `PassEnds`.
* The type invariants of `ChunkCache`, `Worker`, `Shell`, `Cli` and `Verify` are
  part of the inductive invariants and not checked separately.

## Abstractions and what is not modelled

* Key derivation and AEAD are ideal: a slot opens with its password only, a
  damaged chunk never authenticates.
* A header write reaches cache and medium as one unit. A write torn inside the
  4096 bytes is not modelled; it is listed as a hazard without a property.
* A file's fingerprint changes with every rewrite. A same-length rewrite within
  one tick of the file system's clock is out of the model.
* Renames without replacement are atomic. A synchronised file or directory
  survives a power loss, an unsynchronised rename may be undone. On Windows the
  directory synchronisations do nothing in the code; the model's order then
  stands for the metadata journal of the file system.
* Removal of the temporary container and of the staging tree succeeds; the code
  only logs a failure.
* Events that change only labels, frame encoding, messages and formatting are
  left out. A frame is whole or torn.
* A mount point disappears with the process that holds it, as WinFsp and the FUSE
  session see to; a dead worker therefore holds no drive.
* Pool threads stop soon after an error, not at once, as `try_for_each` promises.
* Ed25519 and SHA-256 are ideal: a signature verifies only for what was signed, a
  digest only for its binary.
* Not modelled: the Slint layout and dialogs, argument parsing, HTTP, JSON and
  MessagePack formats, vendored bindings, installer, website, the detection of
  format v1 (no state), WinFsp's write callbacks (each refuses), the security
  descriptor, volume identity and runtime loader, and `infer_kind`, which names
  an error by the words of its message and decides nothing but that name.

## Plan

1. Done: `KeySlots` with proofs, `ChunkCache`, `Pack`, `Extract`, `Worker`.
2. Done: `AtomicPublish` and its refinements, `Shell`, `MountSession`, `Updater`,
   `Cli`, `Index`, `WindowsNames`, `Volume`, `Verify`.
3. Done: the proofs listed above, for `KeySlots`, `ChunkCache`, `Pack`, `Extract`,
   `Worker`, `Shell`, `Cli` (with `MountSession` and `Updater`), `Verify` and
   `Volume` (with `Index` and `WindowsNames`).
4. Left: a header write torn within its 4096 bytes, and two folded file names of
   one directory as a run of their own; the liveness properties stay with TLC.
