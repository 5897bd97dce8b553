# Verification of OIFS

TLA+ modules for OIFS, a file system kept in one memory-mapped image file, with
the TLC runs that check them and TLAPS proofs about them. Source lines are given
as `file:line` under `src/src/`; `PROJECT.json` maps every definition to the lines
it models.

## The system and its parts

| Part | Source | What it does | Here |
|---|---|---|---|
| Metadata WAL ring | `journal.rs`, `disk.rs` | frames in a ring, a header with `head`, `tail`, `tx_seq`; redo at mount | `JournalFrames`, `JournalRing`, proofs |
| Strict durability | `disk.rs` | msync of frame, header, ranges and checkpoint around each mutation | `StrictCommit`, `AtomicStore` (partly) |
| Journal ops, `AllocSim` | `journal.rs` | what an op does, merging of ops, allocation simulated before the commit point | `MetadataOps`, `BlockTree` |
| Allocator, bitmaps | `allocator.rs`, `bitmap.rs` | search hints, contiguous runs, word-level scans | `BlockAllocator`, `Bitmap` |
| Data writes, chunked files, truncate, delete, defragmentation, fsck | `disk.rs`, `journal.rs` | files as trees of blocks, in place or through the journal | `WritePlan`, `BlockTree`, `FileStore` (partly) |
| Write pipeline | `disk.rs` | plan under the shared lock, commit under the exclusive one | `WritePipeline`, proofs |
| Namespace, directory index, inode cache | `disk.rs`, `directory.rs` | create, mkdir, delete, lookup, list | `Namespace`, `NameTree`, proofs |
| Format migration | `disk.rs`, `inode_format.rs` | in-place conversion of the inode table with a persisted cursor | `Migration`, proofs |
| Sessions, IPC | `session.rs`, `ipc.rs` | one master process, proxies over a socket or TCP, failover | `Sessions` (partly) |
| Read engine | `io_engine.rs` | reads by copy from the mapping, pread or io_uring | `ReadEngine` |
| Automatic defragmentation worker | `auto_defrag.rs` | a controller shared by threads, one background thread | `AutoDefrag` |
| Filters | `filters.rs` | delta, shuffle, bitshuffle | `Filters` (partly) |
| Codecs, encryption, C ABI, CLI, MCP | the other files | data conversion and argument handling | not modelled |

How they interact. Every metadata mutation on a journaled image builds a list
of ops, and under the exclusive lock of `DiskManagerInner` (1) appends it as a
frame, (2) persists the header, which is the commit point, and (3) applies the
ops in place. An image without a journal is changed in place at once. Writes,
creations and deletions first look at the image under the shared lock and then
decide under the exclusive one. `flush()` runs beside the mutations under
`sync_mutex` and takes the inner lock three separate times. `checkpoint` moves
`tail` up to `head`. Mounting replays the ring, resets it and msyncs the mapping.
The defragmentation worker only holds a weak reference to the same inner state.
A session decides which process has the image mapped; the others send it their
requests.

## Modules

**`JournalFrames`** holds the ring as pure operators over a header, an array of
cells and an image: `Place`, `KeptTail` and `AppendHeader` are the arithmetic of
`append`, `CheckpointTo` is `checkpoint_to`, `Decodes` is `decode_frame`, and
`Redo` is the image that a mount produces. A cell is the smallest part of the
ring that is old, new or torn as a whole. An op is reduced to the location it
overwrites, and its value to the id of its transaction. The checksum is reduced
to "all cells of the frame are present"; the sequence number is not compared
with anything, as in the code.

**`JournalRing`** is one image in the modes Lazy and RangeAsync. `CopyFrame`,
`PersistHeader` and `ApplyKey` are a mutation; `FlushSnapshot`, `FlushSync` and
`FlushReclaim` the three critical sections of `flush()`; `CheckpointNow` the
explicit checkpoint; `Crash` the death of the process at any step, including in
the middle of recovery; `RecoverFrame`, `RecoverKey` and `RecoverDone` the mount.
The mapping is shared page cache, so what was stored survives a process death.
The code collects the ops of all frames and applies them after the scan; the
model applies each frame as it is decoded, which cannot be told apart because
applying does not touch the ring.

**`StrictCommit`** keeps mapping and disk apart. `AppendTx`, `FlushFrame`,
`FlushHeader`, `ApplyKey`, `SyncKey`, `SyncDone`, `Checkpoint`, `FlushCheckpoint`
are the steps of a mutation in `DurabilityMode::Strict`; `Writeback*` is the
kernel, `PowerLoss` the loss of the mapping followed by the redo of the next
mount, `MountFlush` the msync that ends the mount. `Kinds` selects the mutations:
"create" stands for a mutation that syncs what it wrote and checkpoints,
"write" for `write_data_journaled`, which does not checkpoint, "shrink" and
"expand" for the two truncates. `PointerKeys` are pointer blocks that were there
before: a create or a shrink that changes a slot of one does not sync it. `HeaderRaces` names the steps in which the header
page may reach the disk ahead of the others.

**`AtomicStore`** is the abstract specification: a store that changes by whole
transactions only. `StrictCommit` implements it under the mapping
`store <- Redo(dHdr, dCells, dImage)`, that is, "what a mount would yield if the
power failed now".

**`BlockAllocator`**, **`MetadataOps`**, **`BlockTree`** and **`WritePlan`** are pure
operators. The first finds blocks and runs of blocks by hint and wrap-around. The
second says what each journal op does to an image (`ApplyOp`) and how
`coalesce_ops` regroups a transaction before it is logged. The third walks and
changes the pointer tree of an inode, once directly on the image
(`GetOrAllocBlock`, `SetLogicalChunkEntry`) and once on `AllocSim`, which records
ops (`SimGetOrAllocBlock`, `SimSetLogicalChunkEntry`, `PruneStalePointers`). The
fourth is `plan_write`: which of the four cases a write is, where the stored
buffer lands and what the inode becomes. A block is a function from positions to
values, so tables and data share blocks as they do in the image; a payload is
one token per operation and a stored length.

**`FileStore`** composes them. Every operation holds the exclusive lock, so each
is one action: `Create`, `Write`, `WriteChunked`, `Truncate`, `Delete` and
`DefragmentInplace`.
The in-place pass moves the blocks one by one, as the code does: first those whose
target is free, then the cycles, over a scratch block (`Permute`, `Turn`). There are
no directories in this module, so the pass has no directory blocks to place first.
`CrashStaged` and `CrashStagedChunks` are deaths after some of the payload was
staged and before the commit. An operation on an image without a journal may
fail in the middle (no space) and leaves what it changed until then, as the code
does; on a journaled image it leaves the staged payload. The variables `payload`,
`frames` and `tx` only serve the properties.

**`Namespace`** has two stages for create and delete (`CreateLookup` and
`CreateCommit`, `DeleteLookup` and `DeleteCommit`) with other threads in between,
and one step each for lookups, listings, a write to a file (`WriteFile`, which takes
a block and touches the cache) and `ReloadFromDisk`. It keeps the
directory index (built after `ColdScans` scans, kept up to date by creations and
deletions) and the inode cache next to the image they copy. A directory block is a
set of entries: their order only matters between entries of one name, and the
proofs show a directory has one entry per name. A stored name is a record of the
plain name and, when encrypted, the directory it was encrypted for, since
`encrypt_filename` mixes the parent's inode in; a name kept from before encryption
has none. Only a creation without a journal clears the first block of a new
directory (`Zeroed`). **`NameTree`** is what
it promises: links are added and cut one at a time, atomically, and form a tree.
The mapping reads the links of the live directories from the image, not from the
caches.

**`WritePipeline`** is the three lock acquisitions of a write (`Begin`, `Inspect`,
`Commit`) for any number of writers of one file, with `Truncate` and the clock in
seconds that stands for `modified_at`. It uses `WritePlan` for plain writes; the
content is a sequence of tokens.

**`Migration`** is `migrate()` slot by slot under its lock, the persisted cursor at
the end of each batch, its resumption, the two decoders chosen by cursor, and
the switch of the format at the end; around it the inode operations, logged or not, pending frames,
and remounts with replay.

**`Sessions`** is the opening protocol: connect, read the secret, bind, publish the
secret, open and lock the image, and the cleanup on each error path; requests with
their attempts and reconnections; accepting and serving; closing, which joins server
threads; and death. Every system call another process can observe is a step of
its own: socket and secret are removed in two steps, by a process that takes them
for stale (`Unlink`, `UnlinkToken`) as by one that closes (`Cleanup`,
`CleanupToken`), and so is a secret that is replaced (`Publish`, `PublishNew`).
An open is plain, with the password, or `create_encrypted`, which truncates the file
before it asks for the lock (`Create`). `Lock` formats when the file was absent
before it was opened, or when asked to create; formatting what another process has
formatted since leaves its plain contents in place, because the bitmaps are not
cleared, and the open then fails. A process whose image was truncated under it dies
at the next request (`Fault`), and a peer that is slow over the handshake is dropped
(`HandshakeTimeout`). Two observers serve the properties: `lost`, the requests in an
image when it was truncated or its key replaced, and `exposed`, the processes
whose rendezvous another one may remove: those that bound while another had a
listener or was about to unlink, and those taken for dead since.

**`ReadEngine`** is a call of `IoEngine::read`: validation, cutting into operations,
the pool of rings, submission, completion with short reads and transient and
hard errors, draining on the error paths, and the plain backends. A pread may fail,
and so may making a ring when the pool is empty.

**`Bitmap`** computes the scans and range updates of `bitmap.rs` word by word and
states what they should give bit by bit. **`Filters`** does the same for the
reversible filters: the transposition of a bit matrix by delta swaps is compared
with its definition. Widths are constants (two-bit bytes in two-byte words,
four-bit bytes), the arithmetic is modulo those widths.

**`AutoDefrag`** has one step per critical section, notification or join of
`set_config`, `stop_worker` and `run_worker`. The config, shutdown and worker
mutexes are each held within one step. A pass and a measurement are one step
each; the statistics are left out. `DropManager` happens only between calls.

The `MC*` modules give the constants their values. Definitions named
`Action_Something` directly before an action are altered forms of it, which
the property they are meant for must reject.

## Runs

States are distinct states.

| Run | States | Shows |
|---|---|---|
| `ring_redo` | 2.1 M | recovery of a straight ring restores the committed state; redo is idempotent in any ring; with frames longer than half the ring, the scan passes over each cell at most once; `flush()` retires only what its msync covered |
| `strict_atomic` | 13 k | creates and writes: refinement of `AtomicStore`, and what returned is durable |
| `strict_laps` | 96 k | the same while every frame lands on a stale one |
| `files` | 170 k | outside the uses named below, fsck finds no missing, leaked or cross-linked block (`FsckClean`), every file reads back as written by both read paths (`ReadsBack`), and replaying the coalesced transaction gives the image the live apply gave (`RecoveryAgrees`) |
| `namespace` | 237 k | directory index and inode cache answer as the image would, every block has one owner, and the whole refines `NameTree` |
| `write_race` | 777 k | every commit changes, in the file as it is then, exactly what its write covers, however writers and truncations interleave and also within one second; excepted is a commit that stores content it read in the second of the file's last change |
| `migration` | 597 k | every allocated inode reads as what was last written, at every point of a migration, through flush errors and remounts; a pending frame always fits the format of its slot |
| `sessions` | 2.4 M | only the holder of the lock uses the image; acknowledged requests are kept unless they are in `lost`; a serving master that is not `exposed` keeps the rendezvous and its secret; a request runs at most once per attempt |
| `read_ring` | 353 k | the kernel never writes into the buffer of a call that returned, a successful read equals the copy from the mapping, a call fails only for an error of its own, every call returns |
| `algorithms` | 83 k | the word-level bitmap scans and updates agree with their definitions by bits; every filter pipeline is undone by its inverse, and bitshuffle is a transposition |
| `defrag_worker` | 27 k | two calling threads: no worker escapes the controller; a stop that no other call overlaps waits for the worker and returns, whatever overlapped before it; the worker leaves after the manager |
| `sessions_failover` | violation | a client that fails over becomes master, and drops its new server inside the request; the drop joins one thread per connected peer, so the request hangs while a peer stays. `session.rs:58` says "Automatically handles seamless failover/reconnection if Master exits." |

### Uses the passing runs leave out

Some orders of calls break a property. Each is named by a tag in the constant
`Avoid`, tested with `Avoids(tag, condition)` in the action concerned; taking the
tag out of the cfg makes TLC show the behaviour. The rest of the model stays
as it is, so the passing run says that *nothing else* breaks the property.

`files.cfg`, violating `FsckClean`:

| Tag | What happens |
|---|---|
| `journal_tables` | `write_data_journaled` frees every old block that holds no new payload, including pointer tables the new layout keeps (`disk.rs:3607`); and a table it allocates is not cleared, so old bytes are read as pointers |
| `journal_rewrite` | a rebuilt payload that takes fewer blocks while the file keeps its length: the pruning counts logical blocks, the freeing stored ones, and pointers to freed blocks remain. `disk.rs:3567` says "both halves must go, or the inode ends up pointing at free blocks" |
| `codec_switch` | a plain file with blocks becomes seekable and its blocks are no longer found; also, bytes stored raw over a longer compressed file keep the old length, be it that no compression was asked for or that Auto found none worth having (seen in `write_race`) |
| `chunk_zero` | truncating a seekable file to zero leaks its tables |
| `triple_shrink` | a shrink within the triple indirect range leaks tables |
| `defrag_empty` | the in-place pass skips files of size 0 that hold blocks (`disk.rs:7337`) and hands the blocks out again |
| `full` | without a journal, running out of space leaves blocks taken |
| `stale_handle` | a write or truncate by inode id after the file was deleted |

`files.cfg`, violating `ReadsBack`:

| Tag | What happens |
|---|---|
| `torn_overwrite` | payload is staged into blocks of the file that are live; a death or an error before the commit leaves new bytes under the old inode. `disk.rs:3510` says staged payload is "written into blocks whose bitmap bits are still clear" |
| `torn_chunks` | within one chunked write, a run freed by an earlier chunk is staged into by a later one, and the write then dies or fails |
| `extend_aligned` | extending a raw file whose size is a whole number of blocks zeroes its last block (`disk.rs:6502`) |
| `past_end` | without a journal a run may be placed on bitmap bits past the end of the image |

`namespace.cfg`, violating `ImplementsTree` (the refinement of `NameTree`):

| Tag | What happens |
|---|---|
| `stale_target` | a delete frees the inode it looked up under the shared lock, although the name denotes another one by then, or the block it found the name in is a block of another directory by then |
| `dead_parent` | a creation commits into a directory deleted in the meantime |
| `first_block` | a directory whose first block has become empty is deleted although later blocks hold entries |
| `dirty_block` | on a journaled image the first block of a new directory is not cleared, and old entries appear in it |

`write_race.cfg`, violating `WritesAreAtomic`: `turns_seekable` (a write routed as
plain before the file becomes seekable, `disk.rs:3809`) and `codec_switch`.

`migration.cfg`, violating `InodesSurvive`: `killed_in_batch` (a death between two
persisted cursors leaves slots that the next mount reads with the wrong decoder;
`disk.rs:2358` says "A crash therefore leaves a readable, resumable image rather
than a corrupt one.") and `unlogged_write` (`write_inode` changes a slot past a
pending frame, which the next mount replays over it, `disk.rs:1635`).

`Sessions` and `AutoDefrag` have no `Avoid`: every order of calls is in the run, and
what a race breaks is excepted in the property, by `lost`, `exposed` and by calls that
overlap. The table below has each of these properties without its exception.

### Other configurations that violate a property

To see one of these, replace the properties of the cfg by the one named.

| Start from | Change | Property | Shows |
|---|---|---|---|
| `ring_redo.cfg` | | `InFlightIsRecoverable` | a frame that fills the ring exactly makes `head = tail`, which recovery reads as empty. `disk.rs:5944`: "mount-time recovery finishes the job" |
| `ring_redo.cfg` | | `EveryPendingFrameIsReplayed` | recovery stops at the unused end of the ring before a wrapped frame. `journal.rs:1255`: "Replay every valid transaction between `tail` and `head`" |
| `ring_redo.cfg` | | `UncommittedIsAllOrNothing` | a wrapping frame overwrites live frames before its commit point. `disk.rs:5944`: "A crash before (2) leaves the filesystem untouched" |
| `ring_redo.cfg` | `Lens <- MCLens1`, `RingSize = 3`, `MaxTx = 5`, `FlushWindow = 4` | `FlushRetiresOnlyCovered` | more than a lap is committed during one `flush()`, and its stale snapshot retires what the msync did not cover. `disk.rs:5857`: "Reclaiming up to this snapshot discards only what the flush actually covered" |
| `strict_atomic.cfg` | `Kinds <- MCExpand` | `DurableOnReturn` | an expanding truncate checkpoints without syncing what it wrote. `disk.rs:2287`: "`sync_mutation_ranges` has already `msync`ed every mutated range" |
| `strict_atomic.cfg` | `Kinds <- MCShrink`, `PointerKeys <- MCPointerKeys`, no `SYMMETRY` | `NoHalfApplied` | a shrinking truncate does not sync the pointer blocks it changed. `disk.rs:2284`: a checkpoint "is only safe once those in-place bytes are durable" |
| `strict_atomic.cfg` | `Kinds <- MCCreate`, `PointerKeys <- MCPointerKeys`, no `SYMMETRY` | `NoHalfApplied` | a create that links its new directory block in a pointer block that was there already does not sync that block (`disk.rs:2636`), and checkpoints. The same comment |
| `strict_laps.cfg` | `HeaderRaces <- MCFrameRace` | `DurableOnReturn` | the header page written back ahead of its frame makes recovery replay a frame of an earlier lap. `journal.rs:1257`: "Replay stops at the first frame that fails validation" |
| `strict_laps.cfg` | `HeaderRaces <- MCMountRace` | `CommitsAtomically` | the one `mmap.flush()` of a mount (`disk.rs:1373`) makes redone metadata and reset header durable in no order |
| `write_race.cfg` | | `EveryWriteIsAtomic` | content read in the second of the file's last change is stored although the file has changed again in that second: the comparison at the commit (`disk.rs:3890`) sees sizes, pointers and seconds |
| `defrag_worker.cfg` | `Ops <- MCSetConfig`, `SpawnFails = FALSE` | `EnabledMeansRunning` | two threads in `set_config`: enabled, and no worker. `auto_defrag.rs:190`: "(re)starts or stops the worker" |
| `defrag_worker.cfg` | the same | `EveryCallReturns` | one of the two joins for ever. `auto_defrag.rs:232`: "Stops the worker thread and waits for it to finish." |
| `defrag_worker.cfg` | `Caller = {c1}`, `SpawnFails = FALSE` | `EnabledMeansRunning` | one thread: `stop_auto_defrag` leaves `enabled` set, documented in `auto_defrag.rs:31` as "Whether the background coordinator is running." |
| `sessions.cfg` | | `EveryMasterIsReachable` | a process that has judged a rendezvous stale, or that closes, removes one whose owner goes on to serve (`ipc.rs:792`, `ipc.rs:1377`) |
| `sessions.cfg` | | `HolderKeepsItsImage` | `create_encrypted` truncates the image of a running master before it finds the lock taken (`disk.rs:1290`) |

### What the passing runs assume

- *Straight ring.* `RecoveryRestoresCommitted` is conditional on `Straight`: the
  pending frames lie in one run from `tail` to `head`, and the frame in hand does
  not wrap. `RedoIsIdempotent`, `ScanPassesOnce` and `FlushRetiresOnlyCovered` have
  no such condition.
- *Short flush.* `FlushWindow` bounds how far `head` moves during one `flush()`.
  The passing runs keep it below the ring size, and so do the proofs.
- *Header order.* The passing Strict runs have `HeaderRaces = {}`: the kernel does
  not write the header page back between `append` and the msync of the frame, nor
  ahead of the metadata in the msync of a mount. Nothing in the code ensures this.
- *No old pointer blocks in Strict mode.* The passing Strict runs have
  `PointerKeys = {}`; a create that changes one is in the table above.
- *The uses in `Avoid`*, as above.
- *One password* in `sessions`; every open names the same size and journal flag, and
  no process dies inside the formatting of an image.
- *Errors of the allocator.* That an operation which reports no space met a full
  image is not claimed: the hint may lie among the bits past the last block
  while free blocks remain below it, and the code then reports `NoSpace`
  (`disk.rs:5465`). The model behaves the same.

### Bounds

- `ring_redo`, `strict_*`: a ring of 2 to 4 cells with frames of 1 to 3 is enough
  for a frame that wraps, a gap, an exact fill, an overwritten tail and a chain of
  stale frames. `MaxTx` 4 or 5 goes round such a ring at least once. Two locations
  distinguish a half-applied transaction from a whole one. Two power losses allow
  one in the mount that follows another.
- `files`: a block holds two pointers and an inode two direct ones, so files of up
  to 25 positions have single, double and triple tables, the last with two
  entries. Eleven data blocks for two files make space run out; two bits past the
  end of the image are in the bitmap. Four operations are enough to create, grow,
  change and check; each tag's behaviour appears within them. Crashes fall after
  0, 1 or 2 staged blocks.
- `namespace`: four inodes, four blocks with one entry each, two names, two
  threads, five calls. A directory of two entries needs a second block, a cache of
  two inodes evicts, an index is built at the second scan. `stale_target` and
  `first_block` need all five calls.
- `write_race`: two writers, three writes or truncations, seconds 0 to 3; chunks of
  two bytes, so that a write covers one chunk in part, or parts of two.
- `migration`: four slots in batches of two, so that the cursor is persisted
  twice; two writes and two faults.
- `sessions`: three processes are a master, its successor and a bystander; one
  retry and one more attempt are the shortest lists with a first and a last
  element; peer limits 1 and 2 so that a master refuses a ping. `Setups` combines
  them: plain opens with a retry over both transports, opens of all three kinds
  without one, and processes that all create the encrypted image with one.
- `read_ring`: rings of two entries and operations of two bytes, so that one call
  fills a ring and one extent is cut in two; two faults.
- `algorithms`: bytes of two bits in words of two bytes, up to five bytes: two
  words and a remainder. Filter inputs up to nine bytes of four bits, with all
  configurations, the unsupported element size 3 included.
- `defrag_worker`: six calls of two threads allow an overlapped enable and stop,
  a failed spawn, and after them an enable and a stop that nothing overlaps.

Symmetry is used for locations, threads, writers and processes in runs without
liveness only. Deadlock is checked where the system cannot stop (`ring_redo`,
`strict_*`) or ends in a step of its own (`defrag_worker`); in the other runs the
bounds on calls end a behaviour.

### Fairness

- `AutoDefrag`: weak fairness of each calling thread's steps inside a call and of
  each worker's steps. It says that the operating system runs threads and that
  `wait_timeout` ends, since the interval is finite and sanitised to be positive.
  No call has to be made and the manager need not be dropped. A pass is assumed to
  end.
- `ReadEngine`: weak fairness of a reader's steps inside a call, and of the kernel
  on each ring, that is, io_uring completes what it was given.
- `Sessions`: weak fairness of a process's steps inside a call or a server thread,
  and of accepting each waiting peer. Nothing makes a user open, ask or close,
  and a peer need not leave, which is what `sessions_failover` turns on.

## Proofs

Eight modules hold the proofs. The constants are arbitrary up to named
assumptions; the bounds of the runs (`MaxTx`, `MaxLosses`, `MaxCalls`, ...) are
among them, so each theorem holds for every bound.

| Theorem | States | Assuming |
|---|---|---|
| `JournalRing_proofs!TypeCorrect` | `[]TypeOK` | |
| `JournalRing_proofs!InvCorrect` | `[]IInv` | `FlushWindow < RingSize` |
| `JournalRing_proofs!RecoveryCorrect` | `RecoveryRestoresCommitted` | `FlushWindow < RingSize` |
| `JournalRing_proofs!ScanEnds` | `[]ScanPassesOnce` | |
| `JournalRing_proofs!RedoCorrect` | `RedoIsIdempotent` | |
| `StrictCommit_proofs!TypeCorrect` | `[]TypeOK` | |
| `StrictCommit_proofs!Durable` | `[]DurableOnReturn` | `HeaderInOrder`, `SyncsAll`, `[][AppendFits]_vars` |
| `StrictCommit_proofs!Atomic` | `CommitsAtomically` | the same |
| `StrictCommit_proofs!Strict` | both | `HeaderInOrder`, `SyncsAll`, `Spacious` or `OneAtATime` |
| `Sessions_proofs!TypeCorrect` | `[]TypeOK` | |
| `Sessions_proofs!Exclusive` | `[]OnlyTheHolderUses` | |
| `Sessions_proofs!Kept` | `[]AckedIsKept` | |
| `Sessions_proofs!Reachable` | `[]MasterIsReachable` | |
| `Sessions_proofs!OncePerAttempt` | `[]RunsAtMostPerAttempt` | |
| `WritePipeline_proofs!CommitsAreAtomic` | `WritesAreAtomic` | the two tags of the run in `Avoid` |
| `Migration_proofs!MigrationKeepsInodes` | `[](InodesSurvive /\ FramesFit /\ RewritesOnce)` | the two tags of the run in `Avoid` |
| `Migration_proofs!FramesAlwaysFit` | `[](TypeOK /\ FramesFit)` | |
| `AutoDefrag_proofs!TypeCorrect` | `[]TypeOK` | |
| `AutoDefrag_proofs!NoStray` | `[]NoStrayWorker` | |
| `AutoDefrag_proofs!Stopped` | `[]StoppedOnReturn` | |
| `Namespace_proofs!NamesTyped` | `[]TypeOK` | `NoStaleUse` |
| `Namespace_proofs!BlocksStayOwned` | `[]BlocksOwned` | `NoStaleUse` |
| `Namespace_proofs!CachesStayTransparent` | `[]CachesTransparent` | `NoStaleUse` |
| `Namespace_proofs!NamesImplementTree` | `ImplementsTree`, the specification of `NameTree` | `NoStaleUse` |
| `Namespace_proofs!NamesStayATree` | `[](Tree!TypeOK /\ Tree!WellFormed /\ Acyclic)` | `NoStaleUse` |

**`JournalFrames_proofs`** holds the lemmas both journal modules rest on: the
arithmetic of the cursors (`AtWrap`, `ModWrap`), the path of the scan, and the image
it yields (`RedoValue`: a location has the value of the last replayed frame that
writes it). Those are facts about every length of a path, which would call for an
induction; the prover has none that takes a predicate, but it does have that a
nonempty set of naturals has a least element (`LeastNatural`), and the argument
from the first or the last place where two paths part (`GreatestBelow`) does
the same work.

**`JournalRing_proofs`.** `RecoveryRestoresCommitted` alone is not inductive: it
speaks of the last step of a recovery and says nothing about the ring before it.
`IInv` adds what makes the scan work. While the ring is straight, the cells from
`tail` to `head` are whole frames (`FramesFill`), oldest first (`OldestFirst`), and
for each location they mention they hold its last committed writer
(`HoldsLatest`). Outside a mutation the image equals the committed state. During a
recovery, each location is either written by a frame still to be scanned, or
already up to date (`ScanOK`). A running `flush()` holds a frame boundary of this
lap, or `head` has wrapped since (`SnapshotOK`); this is where the assumption
on `FlushWindow` is needed, because otherwise the new tail could fall inside a
frame. `ScanEnds` and `RedoCorrect` need neither that nor a straight ring. Their
invariant `ScanInv` says that the scan is on the path of frames a mount follows,
at the distance from the tail that it has counted, and that every location
it has passed has the value of the last frame so far that writes it. The path
comes back to no cell, so the count never exceeds the ring, and redoing the frames
over a half-redone image gives what redoing them over the old one does.

**`StrictCommit_proofs`.** The two properties speak of the disk, which the kernel may
bring up to date page by page at any time. `IInv` relates disk and mapping: the
frames the disk's header covers are whole on the disk and the same in the
mapping; a frame in hand lies behind them; the two headers differ only between
`append` and the msync of the header, and at a checkpoint; every page of
metadata that differs is one a covered frame rewrites; and what mounting the
disk yields is the last committed transaction of each location, or the one in
hand. `Atomic` is the refinement of `AtomicStore`, with the image a mount would
give as its state: every step of the code, of the kernel and of a power loss is a
whole transaction or a stutter there. The hypotheses are the ones the runs need
and no more: `HeaderInOrder` and `SyncsAll` exclude the behaviours in the
table above (a header written back early, an expanding or shrinking truncate, a
create that changes an old pointer block),
and `AppendFits` says that a frame is placed behind the pending ones without
dropping any, leaving a gap or filling the ring, which is where the ring itself is
not safe. `Strict` replaces the last, which is about behaviours, by conditions on
constants that `strict_atomic` and `strict_laps` meet: the ring has room for all
frames, or every mutation retires its frame before the next.

**`Sessions_proofs`**: any number of processes, retries, attempts, requests and
crashes, any peer limit, both transports, every mixture of the three kinds of open,
crash and interleaving anywhere. `SessionsAssumption` only says that the limits are
numbers and that the markers for no process, a stale path, a broken connection and a
missing or empty image are distinct from what they stand beside. The inductive
invariant has a part per idea: what a process's step says about its server,
connection and mailbox (`Local`); whoever has the image open holds the lock
(`HolderOK`); a peer with a worker is connected to a process that still has one
(`PeersOK`), which is why a closing master holds the lock until its last worker has
ended; what was acknowledged, *or has been run and not yet answered*, is in the image
or was lost with it (`StoredOK`); a request has run at most as often as its attempts,
plus one if it ran in this one (`RunsOK`). `ReachOK` is what makes
`MasterIsReachable` inductive: while a process that is not exposed has a listener,
the path is its own, the secret is once it is published, *and no other process has a
listener or is on its way to unlink* (`Rival`). The last part is what later steps
cannot undo: the path exists, so whoever probes it connects, or takes its owner for
dead, which exposes the owner; nobody else can bind, so nobody else can come to
close. There is a lemma per action, and most go through `QuietStep` or `MoveStep`,
which say once what a step must not do.

**`WritePipeline_proofs`.** `Fresh` says that the file's time is at most the clock, that
a prepared plan is no younger than the file, and that a plan of the file's own age,
read in a later second than the file's change, is a copy of the file as it is. A
change in the second of the reading or later gives the file a later time
(`NewerFile`), so such a plan passes the comparison only if nothing changed; this
is the step that fails for content read in the second of the last change. `Held`
adds that the inode's size is the length of its content, and that a plan that passes
has the file's sizes, whenever it was read; a commit that stores no content it read
needs no more. Then each way to commit is compared with what the write means:
full overwrite, recompression, appended frame and raw (`PlainAgrees`), and the
chunks (`ChunksAgree`: a position outside the touched chunks is outside the write,
by monotony of division). `PipelineAssumption` gives the types of the requests.

**`Migration_proofs`.** `Intact` adds to the types: every allocated slot has the
format that superblock and local cursor together imply, and holds the value last
written; so does every cache entry; a pending frame holds that value in the
format its slot has, so replaying it is harmless; and while a migration runs, the
slots below its own cursor are in the new format and nothing is pending.
`FramesAlwaysFit` needs none of the exclusions: the journal is emptied before the
first slot changes its format, also after a death inside a batch (`Fit`).

**`AutoDefrag_proofs`**: any number of threads and calls, however they overlap, with no
further assumption. A worker's number is never used up, since a call starts at most
one (`Numbered`). A live worker's handle is stored, or held by a call that is joining it
(`Known`): a call starts a worker only where no handle is stored, and takes a handle only
to join. `Alone` says that a call which nothing overlapped is alone in the controller,
and `Stopping` that such a call, when it disables or stops the worker, takes the handle
before it ends; the workers that calls before it were joining have then ended with
those calls.

**`Namespace_proofs`**: any finite set of names, any blocks, any number of inodes,
threads, calls, entries per block and cached inodes, in the four modes of an
image, with or without names in the clear. `NoStaleUse` says that the four tags of
the run are in `Avoid`; without any one of them TLC finds the tree broken.

None of the properties is inductive alone, and none of the parts of `IInv` without
the others. `MemOK` says what the caches may claim: the inode cache holds inodes
as the table has them, with one queue slot each (`CacheOK`); an index exists only
for a directory in use, holds entries of that directory, and all of them once it
is complete (`IndexesOK`). `DirOK` says that a directory in use holds names stored
for it, each name once over all of its blocks. Then there are `BlocksOwned` and
the tree (`WellFormed`). The lookup that guards a creation is right because the
index is (`DirLookupOK`); the index stays right because no other directory has
the block an entry goes to or comes from (`LinkedEntries`, `CutEntries`, from
`BlocksOwned`); a deletion frees what nothing else uses because its target has
one link and, when it is a directory, no entries; and the indexes of the freed
inode go with it, so none survives for the next owner. Of a call between its
halves the invariant says only that it remembers ids and names of the right kind
(`CallOK`): the second half looks again at all it relies on, outside the uses
left out.

Every action is a lemma (`CreateCommitStep`, `DeleteCommitStep`, ...). A step that
changes the tree is first shown to link (`Linked`, `LinkedStep`) or to cut (`CutStep`),
whatever else it does to hints and caches; a step beside the tree leaves the
entries of every directory in use as they were (`Aside`). Since each of them is also
a step of `NameTree` or none, the refinement follows from the same lemmas.
Acyclicity is stated as a numbering that grows along each link; a new link gets a
number above its parent's, because its inode had no links. Two facts need
counting: the queue is as long as the cache, and an index with as many plain names
as stored ones has them all, which is the test `list_dir` makes before it answers
from memory (`PlainCovers`).

The second case of `stale_target` came out of the proof: with only the first
excluded, a delete can cut the entry of the same name from a block that another
directory has come to own.

### Only model-checked

- Liveness (`CallsReturn`, `WorkerLeaves`, `ReadsReturn`, `RequestsReturn`), which the
  prover does not handle.
- `FileStore` (`FsckClean`, `ReadsBack`, `RecoveryAgrees`) and `Filters`: their operators
  fold over paths, blocks, operations and bytes, and the move of blocks is recursive.
  What they compute for every input needs induction over data.
- `Bitmap`: the scan for a run of free bits is a recursive function, and what it
  returns for every bitmap needs the same.
- `ReadEngine`: a call reaps all completions at once, by a fold over the queue, and
  what `ReadsAgree` says of the buffers is about another one.
- `FlushRetiresOnlyCovered`: it compares what a mount replays before and after the
  tail moves to the snapshot. When frames have wrapped since, the two scans may
  meet different frames, and the invariant that relates them has not been found.

## Not modelled

- *Codecs and encryption* (`zstd_pool.rs`, `encryption.rs`, blosc2): the models take
  the stored length, and a name in its encrypted form, as values. Filtered and
  encrypted writes are cases of `WritePlan`, but no run offers them, so what they
  do to a file's blocks is not checked.
- *Filters*: truncated precision, which is lossy by design, and the choice of
  filters by entropy.
- *The copying defragmentation* (`defragment_safe`, `disk.rs:7153`): it copies the
  image file, works on the copy and renames it over the original without holding
  the lock, so what is written meanwhile is lost with the original. It works on
  files of the host; the measurement of fragmentation is pure arithmetic.
- *In Strict mode*: `flush()`, the death of the process alone, and the payload
  barrier of a data write. Lazy and RangeAsync promise nothing for a power loss.
- *In the ring*: I/O errors of msync. The msyncs of `Drop for DiskManagerInner` at a
  clean close are not steps of their own: they change nothing a later mount reads
  from the page cache, and in `StrictCommit` they are a case of writeback. The wrap
  and exact-fill behaviour also exists in Strict mode; it is examined in
  `JournalRing` only.
- *Byte formats*: superblock, inode, directory block and frame encodings, checksums
  and their validation, which the repository's Kani proofs address.
- *Namespace*: the walk along a path, which repeats the lookup; the shards of the
  inode cache; directories whose block list needs pointer tables (the tree is that
  of any file and is checked in `FileStore`).
- *Sessions*: message framing, rate and size limits, different passwords, a death
  inside the formatting of an image, and the registry that shares a session within
  a process.
- *`AutoDefragController::shutdown`* is documented as called when the owner is
  dropped; no code does so, and `DropManager` models the code.
- *C ABI, command line, MCP server*: argument checking and formatting around calls
  of the session and the disk manager.
