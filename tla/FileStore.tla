------------------------------ MODULE FileStore ------------------------------
(***************************************************************************)
(* Files and their blocks: plain and compressed writes, seekable chunked   *)
(* writes, truncation, deletion and in-place defragmentation, on images    *)
(* with a journal and on images without one.                               *)
(*                                                                         *)
(* Every operation runs under the exclusive lock, so it is one action; the *)
(* only thing that can cut it short is an error (NoSpace) or, on a         *)
(* journaled image, a crash after payload was staged and before the        *)
(* transaction was committed.  Sizes and offsets count positions: a block  *)
(* is BlockSize positions, each wide enough for one pointer.  Payload is   *)
(* abstracted to one token per operation; directories are in Namespace.    *)
(***************************************************************************)
EXTENDS BlockTree, WritePlan

CONSTANTS Files,        \* inode ids of regular files
          Modes,        \* images to check: TRUE with a journal, FALSE without
          ChunkBlocks,  \* blocks of an uncompressed chunk (16 in the code)
          Requests,     \* writes offered: [off, len, mode, zlen]
          ChunkWrites,  \* chunked writes offered: [first, last, blocks, size]
          Sizes,        \* sizes a truncation may ask for
          ZLens,        \* lengths, in positions, a rebuilt payload may come to
          Faults,       \* "crash" lets a crash fall between stage and commit
          Others,       \* other operations offered: "delete", "defrag"
          Avoid,        \* uses left out of a run, each named where it is tested
          CrashPoints,  \* bound on the blocks staged when a crash falls
          MaxSteps      \* bound on the number of operations

VARIABLES journaled,    \* whether the image has a journal
          img,          \* the image: bitmaps, inode table, data blocks
          hint,         \* free_block_hint
          steps
\* What each file should hold, and the last transaction, for the properties.
VARIABLES payload,      \* file -> the stored positions
          frames,       \* file -> the token of each chunk, 0 for a hole
          tx            \* the image a transaction was applied to, and its list

vars == <<journaled, img, hint, steps, payload, frames, tx>>

Ino(f) == img.it[f]
Chunk == ChunkBlocks * P
Blocks(ino) == CollectInodeBlocks(img, ino, ChunkBlocks)
Live == Files \cap img.ib

\* Tokens lie above every block id and chunk entry.
Token == EntryBase * (ChunkBlocks + 2) + steps

Avoids(use, cond) == use \in Avoid => ~cond

Init ==
  /\ journaled \in Modes
  /\ img = [ib |-> Files, db |-> {}, it |-> [f \in Files |-> NewInode],
            blk |-> [b \in DataBlocks |-> ZeroBlock]]
  /\ hint = DataStart
  /\ steps = 0
  /\ payload = [f \in Files |-> <<>>]
  /\ frames = [f \in Files |-> <<>>]
  /\ tx = [pre |-> img, ops |-> <<>>]

Step == steps' = steps + 1 /\ UNCHANGED journaled

\* What an operation leaves: the image, the hint, the transaction, an error.
Failed(im, h, e) == [img |-> im, hint |-> h, tx |-> tx, err |-> e]
Done(im, h) == [img |-> im, hint |-> h, tx |-> tx, err |-> ""]

\* Commit and apply a transaction; the hint follows only if all of it applied.
Commit(pre, ops, newHint) ==
  LET ok == \A i \in DOMAIN ops : InRange(ops[i])
  IN  [img |-> ApplyAll(pre, ops), hint |-> IF ok THEN newHint ELSE hint,
       tx |-> [pre |-> pre, ops |-> ops], err |-> IF ok THEN "" ELSE "OutOfRange"]

\* The end of an operation that leaves its inode in the walker.
EndJournaled(f, s) ==
  IF s.err # "" THEN Failed(s.img, hint, s.err)
  ELSE Commit(s.img, Append(s.ops, WriteInode(f, s.ino)), s.hint)

EndInPlace(f, w) ==
  IF w.err # "" THEN Failed(w.img, w.hint, w.err)
  ELSE Done([w.img EXCEPT !.it[f] = w.ino], w.hint)

FreeOps(blocks) == [i \in DOMAIN blocks |-> SetDataBitmap(blocks[i], FALSE)]

-----------------------------------------------------------------------------
(* Plain writes *)

CopyInto(im, b, idx, at, len, tok) ==
  IF b \notin DOMAIN im.blk THEN im
  ELSE [im EXCEPT !.blk[b] = [p \in Positions |->
          IF idx * P + p \in at .. at + len - 1 THEN tok ELSE @[p]]]

BlockSpan(at, len) ==
  IF len = 0 THEN <<>>
  ELSE [i \in 1 .. (at + len - 1) \div P - at \div P + 1 |-> at \div P + i - 1]

\* write_buffer_at_offset
CopyAt(w, idx, at, len, tok) ==
  IF w.err # "" THEN w ELSE [w EXCEPT !.img = CopyInto(@, w.got, idx, at, len, tok)]

WriteBufferAtOffset(w0, at, len, tok) ==
  LET Put(w, idx) == CopyAt(GetOrAllocBlock(w, idx), idx, at, len, tok)
  IN  FoldLeft(Put, w0, BlockSpan(at, len))

\* stage_payload_write: only the first n blocks, for a crash part of the way.
StageAt(s, idx, at, len, tok) ==
  LET clean == IF s.got \in s.fresh /\ s.got \in DOMAIN s.img.blk
               THEN [s.img EXCEPT !.blk[s.got] = ZeroBlock] ELSE s.img
  IN  IF s.err # "" THEN s
      ELSE [s EXCEPT !.used = @ \cup {s.got},
                     !.img = CopyInto(clean, s.got, idx, at, len, tok)]

StagePayloadWrite(s0, at, len, tok, n) ==
  LET Put(s, idx) == StageAt(SimGetOrAllocBlock(s, idx), idx, at, len, tok)
      span == BlockSpan(at, len)
  IN  FoldLeft(Put, s0, SubSeq(span, 1, Min({n, Len(span)})))

Resized(ino, plan) == [ino EXCEPT !.size = plan.size, !.csize = plan.csize]

\* In place: free every old block first when the payload is rebuilt, then write.
\* An error leaves the blocks as they are and the inode record as it was.
WriteInPlace(f, plan) ==
  LET frees == FreesPreviousBlocks(plan)
      old == ToSet(Blocks(Ino(f)))
      w0 == IF frees
            THEN Walker([img EXCEPT !.db = @ \ old], LowerHint(hint, old),
                        [Ino(f) EXCEPT !.ptr = EmptyPtrs])
            ELSE Walker(img, hint, Ino(f))
  IN  EndInPlace(f, [WriteBufferAtOffset(w0, plan.at, plan.len, Token)
                       EXCEPT !.ino = Resized(@, plan)])

\* The staged half of a journaled write, up to n blocks of payload.
Staged(f, plan, n) ==
  StagePayloadWrite(AllocSim(img, hint, Ino(f)), plan.at, plan.len, Token, n)

\* The old blocks that nothing was staged into, and the pointers past the end.
StaleBlocks(ino, plan, off, staged) ==
  LET mayFree == ino.size > 0 /\ (\/ FreesPreviousBlocks(plan)
                                  \/ off = 0 /\ plan.at = 0
                                     /\ Max({plan.csize, plan.size}) < ino.size)
  IN  IF mayFree THEN SelectSeq(Blocks(ino), LAMBDA b : b \notin staged.used) ELSE <<>>

Pruned(ino, plan, off, staged) ==
  LET needed == CeilDiv(Max({plan.csize, plan.size}), P)
  IN  IF off = 0 /\ plan.at = 0 /\ needed < CeilDiv(Max({ino.csize, ino.size}), P)
      THEN PruneStalePointers(staged, needed) ELSE staged

CommitWrite(f, plan, staged, stale, pruned) ==
  IF staged.err # "" THEN Failed(staged.img, hint, staged.err)
  ELSE Commit(staged.img,
              pruned.ops \o FreeOps(stale) \o <<WriteInode(f, Resized(pruned.ino, plan))>>,
              pruned.hint)

LogWrite(f, plan, off, staged) ==
  CommitWrite(f, plan, staged, StaleBlocks(Ino(f), plan, off, staged),
              Pruned(Ino(f), plan, off, staged))

WriteJournaled(f, plan, off) == LogWrite(f, plan, off, Staged(f, plan, TripleEnd))

\* The payload a write leaves behind when it succeeds.
NewPayload(f, plan) ==
  LET total == IF plan.csize > 0 THEN plan.csize ELSE plan.size
      old == payload[f]
  IN  [i \in 1 .. total |->
        IF i - 1 \in plan.at .. plan.at + plan.len - 1 THEN Token
        ELSE IF ~FreesPreviousBlocks(plan) /\ i <= Len(old) THEN old[i] ELSE 0]

\* Every operation ends here: the model's image and ghosts follow its result.
\* With "full" avoided, a failing operation is left out without a journal, where
\* it keeps what it took.
Finish(res, f, newPayload, newFrames) ==
  /\ Step
  /\ Avoids("full", ~journaled /\ res.err # "")
  /\ img' = res.img /\ hint' = res.hint /\ tx' = res.tx
  /\ payload' = IF res.err = "" THEN [payload EXCEPT ![f] = newPayload] ELSE payload
  /\ frames' = IF res.err = "" THEN [frames EXCEPT ![f] = newFrames] ELSE frames

PlanFor(f, r) ==
  PlanWrite(Ino(f), Ino(f).size, r.off, r.len,
            [mode |-> r.mode, filt |-> FALSE, key |-> FALSE, zlen |-> r.zlen])

\* A journaled image: a new table lands on a block that holds old bytes, or a
\* rebuilt payload goes to a file whose tables it keeps and frees; and a rebuilt
\* payload that takes fewer blocks than the old one while the file keeps its
\* length.
DirtyTables(s) == \E b \in s.fresh \ s.used : b \in DataBlocks /\ img.blk[b] # ZeroBlock
HoldsTables(f) == \E r \in Direct .. Triple : Ino(f).ptr[r] # 0
TablesAtRisk(f, plan) ==
  journaled /\ (\/ DirtyTables(Staged(f, plan, TripleEnd))
                \/ FreesPreviousBlocks(plan) /\ HoldsTables(f))
ShrinksStored(f, plan) ==
  /\ journaled /\ FreesPreviousBlocks(plan)
  /\ CeilDiv(plan.len, P) < CeilDiv(PhysicalSize(Ino(f)), P)
  /\ CeilDiv(plan.len, P) < CeilDiv(Max({plan.size, plan.csize}), P)
\* Raw bytes written over a compressed file keep the old, longer length.
DropsCodec(f, plan) ==
  Ino(f).csize > 0 /\ plan.case = "FullOverwrite" /\ plan.csize = 0

Overwrites(f, plan) == \E idx \in ToSet(BlockSpan(plan.at, plan.len)) :
                          ResolveLogicalBlockId(img, Ino(f), idx) # 0

Write(f, r) ==
  LET plan == PlanFor(f, r)
  IN  /\ ~Ino(f).seek
      /\ Avoids("stale_handle", f \notin Live)
      /\ Avoids("journal_tables", TablesAtRisk(f, plan))
      /\ Avoids("journal_rewrite", ShrinksStored(f, plan))
      /\ Avoids("codec_switch", DropsCodec(f, plan))
      /\ \E res \in {IF journaled THEN WriteJournaled(f, plan, r.off) ELSE WriteInPlace(f, plan)} :
           /\ Avoids("torn_overwrite", journaled /\ res.err # "" /\ Overwrites(f, plan))
           /\ Finish(res, f, NewPayload(f, plan), frames[f])

\* A crash once n blocks of payload were staged: the mapping keeps them, the
\* transaction was never written, and the next mount starts at the first block.
CrashStaged(f, r, n) ==
  LET plan == PlanFor(f, r)
  IN  /\ "crash" \in Faults /\ journaled
      /\ f \in Live /\ ~Ino(f).seek
      /\ Avoids("journal_tables", TablesAtRisk(f, plan))
      /\ Avoids("torn_overwrite", Overwrites(f, plan))
      /\ Step
      /\ img' = Staged(f, plan, n).img
      /\ hint' = DataStart
      /\ UNCHANGED <<payload, frames, tx>>

-----------------------------------------------------------------------------
(* Seekable files: each chunk is written to a new run of blocks *)

FillRun(im, start, n, tok) ==
  [im EXCEPT !.blk = [b \in DataBlocks |->
     IF b \in start .. start + n - 1 THEN [p \in Positions |-> tok] ELSE @[b]]]

\* A chunk that got its new entry gives back the run it replaces.
FreeOldRun(set, old) ==
  IF set.err # "" \/ IsEmptyEntry(old) THEN set
  ELSE [set EXCEPT !.img.db = @ \ EntryBlocks(old),
                   !.hint = LowerHint(@, {EntryStart(old)})]

SimFreeOldRun(set, old) ==
  IF set.err # "" \/ IsEmptyEntry(old) THEN set
  ELSE [set EXCEPT !.db = @ \ EntryBlocks(old),
                   !.hint = LowerHint(@, {EntryStart(old)}),
                   !.ops = Append(@, SetDataBitmapRange(EntryStart(old),
                                                        EntryCount(old), FALSE))]

\* One chunk on the mapping.  The run is not checked against the image's end.
PutChunk(w, c, n, tok) ==
  LET start == RunFreeWrapped(w.img.db, w.hint, n)
      run == [w EXCEPT !.img = FillRun([@ EXCEPT !.db = @ \cup (start .. start + n - 1)],
                                       start, n, tok),
                       !.hint = start + n]
  IN  IF w.err # "" THEN w
      ELSE IF start = NoBlock THEN Fail(w, "NoSpace")
      ELSE FreeOldRun(SetLogicalChunkEntry(run, c, ChunkEntry(start, n)),
                      ResolveLogicalBlockId(w.img, w.ino, c))

\* One chunk on the simulated allocator.  Its payload goes into the mapping at
\* once; the run it replaces is free for the chunks that follow.
SimPutChunk(s, c, n, tok) ==
  LET start == AllocRun(s.db, s.hint, n)
      run == [s EXCEPT !.db = @ \cup (start .. start + n - 1), !.hint = start + n,
                       !.ops = Append(@, SetDataBitmapRange(start, n, TRUE)),
                       !.img = FillRun(@, start, n, tok)]
  IN  IF s.err # "" THEN s
      ELSE IF start = NoBlock THEN Fail(s, "NoSpace")
      ELSE SimFreeOldRun(SimSetLogicalChunkEntry(run, c, ChunkEntry(start, n)),
                         SimResolveLogicalChunkEntry(s, c))

Seekable(ino, size) == [ino EXCEPT !.seek = TRUE, !.size = size]

Chunks(q) == [i \in 1 .. q.last - q.first + 1 |-> q.first + i - 1]

StagedChunks(f, q) ==
  FoldLeft(LAMBDA s, c : SimPutChunk(s, c, q.blocks, Token),
           AllocSim(img, hint, Ino(f)), Chunks(q))

CommitPreparedChunkedWrite(f, q) ==
  LET size == Max({Ino(f).size, q.size})
      Put(x, c) == PutChunk(x, c, q.blocks, Token)
  IN  IF journaled
      THEN EndJournaled(f, [StagedChunks(f, q) EXCEPT !.ino = Seekable(@, size)])
      ELSE EndInPlace(f, [FoldLeft(Put, Walker(img, hint, Ino(f)), Chunks(q))
                            EXCEPT !.ino = Seekable(@, size)])

NewFrames(f, q) ==
  [i \in 1 .. CeilDiv(Max({Ino(f).size, q.size}), Chunk) |->
    IF i - 1 \in q.first .. q.last THEN Token
    ELSE IF i <= Len(frames[f]) THEN frames[f][i] ELSE 0]

\* Without a journal a run may be placed on bits past the end of the image.
PastEnd(res) == ~(res.img.db \subseteq DataBlocks)

\* A plain file with blocks that turns seekable loses track of those blocks.
WriteChunked(f, q) ==
  /\ Avoids("stale_handle", f \notin Live)
  /\ Avoids("codec_switch", ~Ino(f).seek /\ Ino(f).ptr # EmptyPtrs)
  /\ Avoids("journal_tables", journaled /\ DirtyTables(StagedChunks(f, q)))
  /\ \E res \in {CommitPreparedChunkedWrite(f, q)} :
       /\ Avoids("past_end", PastEnd(res))
       /\ Avoids("torn_chunks", journaled /\ res.err # "" /\ q.first < q.last)
       /\ Finish(res, f, <<>>, NewFrames(f, q))

CrashStagedChunks(f, q, n) ==
  /\ "crash" \in Faults /\ journaled /\ f \in Live
  /\ n \in 0 .. q.last - q.first
  /\ Avoids("codec_switch", ~Ino(f).seek /\ Ino(f).ptr # EmptyPtrs)
  /\ Avoids("journal_tables", DirtyTables(StagedChunks(f, q)))
  /\ Avoids("torn_chunks", n > 0)
  /\ Step
  /\ img' = StagedChunks(f, [q EXCEPT !.last = q.first + n]).img
  /\ hint' = DataStart
  /\ UNCHANGED <<payload, frames, tx>>

-----------------------------------------------------------------------------
(* Truncation *)

\* Mutant: the entry goes, its run stays marked.
DropChunk_KeepsRun(w, c) ==
  IF IsEmptyEntry(ResolveLogicalBlockId(w.img, w.ino, c)) THEN w
  ELSE SetLogicalChunkEntry(w, c, 0)

\* The chunks past the new end go.  A file cut to nothing drops its pointers,
\* tables too.
DropChunk(w, c) ==
  LET v == ResolveLogicalBlockId(w.img, w.ino, c)
  IN  IF IsEmptyEntry(v) THEN w
      ELSE SetLogicalChunkEntry([w EXCEPT !.img.db = @ \ EntryBlocks(v),
                                          !.hint = LowerHint(@, {EntryStart(v)})], c, 0)

SimDropChunk(s, c) ==
  LET v == SimResolveLogicalChunkEntry(s, c)
  IN  IF IsEmptyEntry(v) THEN s
      ELSE SimSetLogicalChunkEntry(
             [s EXCEPT !.db = @ \ EntryBlocks(v),
                       !.hint = LowerHint(@, {EntryStart(v)}),
                       !.ops = Append(@, SetDataBitmapRange(EntryStart(v),
                                                            EntryCount(v), FALSE))], c, 0)

Cut(ino, n) == [ino EXCEPT !.size = n, !.csize = 0,
                           !.ptr = IF n = 0 THEN EmptyPtrs ELSE @]

\* The last chunk is stored again, shorter, in a run of  k  blocks.
Recut(w, c, k, tok) == PutChunk(w, c, k, tok)
SimRecut(s, c, k, tok) == SimPutChunk(s, c, k, tok)

TruncateChunked64k(f, n, k) ==
  LET ino == Ino(f)
      keep == CeilDiv(n, Chunk)
      drop == [i \in 1 .. CeilDiv(ino.size, Chunk) - keep |-> keep + i - 1]
      last == ResolveLogicalBlockId(img, ino, keep - 1)
      recut == n > 0 /\ n % Chunk # 0 /\ ~IsEmptyEntry(last)
      tok == img.blk[EntryStart(last)][0]
      s == FoldLeft(SimDropChunk, AllocSim(img, hint, ino), drop)
      w == FoldLeft(DropChunk, Walker(img, hint, ino), drop)
      Shorter(x) == [x EXCEPT !.ino = Cut(@, n)]
      grown == [ino EXCEPT !.size = n]
  IN  CASE n > ino.size /\ journaled  -> Commit(img, <<WriteInode(f, grown)>>, hint)
        [] n > ino.size /\ ~journaled -> Done([img EXCEPT !.it[f] = grown], hint)
        [] n < ino.size /\ journaled  ->
             EndJournaled(f, Shorter(IF recut THEN SimRecut(s, keep - 1, k, tok) ELSE s))
        [] n < ino.size /\ ~journaled ->
             EndInPlace(f, Shorter(IF recut THEN Recut(w, keep - 1, k, tok) ELSE w))

\* Mutant: the first position past the end is missed.
ZeroTail_OneShort(b, at) == WriteBlockSlice(b, at + 1, [i \in 1 .. P - at - 1 |-> 0])

\* Zero block  b  from position  at  on: on the mapping, or as an operation.
ZeroTail(b, at) == WriteBlockSlice(b, at, [i \in 1 .. P - at |-> 0])

\* A raw file grows without taking blocks; the slack of its last block is
\* zeroed from  size % P,  which is the whole block when the size is aligned.
ExtendRaw(f, n) ==
  LET ino == Ino(f)
      last == ResolveLogicalBlockId(img, ino, (ino.size - 1) \div P)
      ops == (IF ino.size > 0 /\ last # 0 THEN <<ZeroTail(last, ino.size % P)>> ELSE <<>>)
             \o <<WriteInode(f, [ino EXCEPT !.size = n])>>
  IN  IF journaled THEN Commit(img, ops, hint) ELSE Done(ApplyAll(img, ops), hint)

\* A raw file shrinks: the slack of the last kept block is zeroed, the pointers
\* past it are cleared, unneeded tables dropped, and all of them freed.
ShrinkRaw(f, n) ==
  LET ino == Ino(f)
      keep == CeilDiv(n, P)
      idxs == SelectSeq([i \in 1 .. CeilDiv(ino.size, P) - keep |-> keep + i - 1],
                        LAMBDA i : ResolveLogicalBlockId(img, ino, i) # 0)
      last == ResolveLogicalBlockId(img, ino, keep - 1)
      slack == IF n % P # 0 /\ last # 0 THEN <<ZeroTail(last, n % P)>> ELSE <<>>
      tables == SelectSeq(idxs, LAMBDA i : i >= Direct)
      Table0(i) == Follow(img, ino, Front(BlockPath(i)))
      clears == [i \in DOMAIN tables |->
                   WriteBlockSlice(Table0(tables[i]), Last(BlockPath(tables[i])), <<0>>)]
      cut == [ino EXCEPT !.ptr = [r \in Roots |-> IF r \in ToSet(idxs) /\ r < Direct
                                                   THEN 0 ELSE @[r]]]
      pruned == PruneUnusedIndirectBlocks(img, cut, keep)
      slots == [i \in DOMAIN pruned.slots |->
                  WriteBlockSlice(pruned.slots[i][1], pruned.slots[i][2], <<0>>)]
      freed == [i \in DOMAIN idxs |-> ResolveLogicalBlockId(img, ino, idxs[i])]
               \o pruned.freed
      ops == slack \o clears \o slots \o FreeOps(freed)
             \o <<WriteInode(f, [pruned.ino EXCEPT !.size = n])>>
      newHint == LowerHint(hint, ToSet(freed))
  IN  IF journaled THEN Commit(img, ops, newHint) ELSE Done(ApplyAll(img, ops), newHint)

\* A compressed payload is decoded, cut or padded, and written again whole.
RebuildPlan(f, n, z) ==
  PlanWrite(Ino(f), Ino(f).size, 0, n,
            [mode |-> IF Ino(f).csize > 0 THEN "always" ELSE "never",
             filt |-> Ino(f).filt, key |-> FALSE, zlen |-> z])

Rebuild(f, n, z) ==
  LET plan == RebuildPlan(f, n, z)
  IN  IF journaled THEN WriteJournaled(f, plan, 0) ELSE WriteInPlace(f, plan)

TruncateInternal(f, n, z) ==
  CASE Ino(f).seek -> TruncateChunked64k(f, n, CeilDiv(z, P))
    [] ~Ino(f).seek /\ PayloadIsTransformed(Ino(f), [filt |-> FALSE, key |-> FALSE])
         -> Rebuild(f, n, z)
    [] OTHER -> IF n > Ino(f).size THEN ExtendRaw(f, n) ELSE ShrinkRaw(f, n)

TruncatedPayload(f, n, z) ==
  IF Ino(f).seek THEN <<>>
  ELSE IF Ino(f).csize > 0 THEN NewPayload(f, RebuildPlan(f, n, z))
  ELSE [i \in 1 .. n |-> IF i <= Len(payload[f]) THEN payload[f][i] ELSE 0]

TruncatedFrames(f, n) ==
  IF ~Ino(f).seek THEN frames[f]
  ELSE [i \in 1 .. CeilDiv(n, Chunk) |->
         IF i <= Len(frames[f]) THEN frames[f][i] ELSE 0]

Truncate(f, n, z) ==
  /\ n # Ino(f).size
  /\ Avoids("stale_handle", f \notin Live)
  /\ Avoids("extend_aligned", /\ ~Ino(f).seek /\ Ino(f).csize = 0 /\ Ino(f).size > 0
                              /\ n > Ino(f).size /\ Ino(f).size % P = 0)
  /\ Avoids("journal_rewrite", /\ ~Ino(f).seek /\ Ino(f).csize > 0
                               /\ ShrinksStored(f, RebuildPlan(f, n, z)))
  /\ Avoids("journal_tables", /\ ~Ino(f).seek /\ Ino(f).csize > 0
                              /\ TablesAtRisk(f, RebuildPlan(f, n, z)))
  /\ Avoids("chunk_zero", Ino(f).seek /\ n = 0 /\ HoldsTables(f))
  /\ Avoids("triple_shrink", /\ ~Ino(f).seek /\ n < Ino(f).size
                             /\ CeilDiv(n, P) > DoubleEnd)
  /\ \E res \in {TruncateInternal(f, n, z)} :
       /\ Avoids("past_end", PastEnd(res))
       /\ Avoids("torn_chunks", journaled /\ res.err # "" /\ Ino(f).seek)
       /\ Avoids("torn_overwrite", journaled /\ res.err # "" /\ ~Ino(f).seek)
       /\ Finish(res, f, TruncatedPayload(f, n, z), TruncatedFrames(f, n))

-----------------------------------------------------------------------------
(* Creation and deletion (their directory half is in Namespace) *)

Create(f) ==
  LET ops == <<SetInodeBitmap(f, TRUE), WriteInode(f, NewInode)>>
  IN  /\ f \notin Live
      /\ Finish(IF journaled THEN Commit(img, ops, hint)
                ELSE Done(ApplyAll(img, ops), hint), f, <<>>, <<>>)

Delete(f) ==
  LET blocks == Blocks(Ino(f))
      ops == Append(FreeOps(blocks), SetInodeBitmap(f, FALSE))
      newHint == LowerHint(hint, ToSet(blocks))
  IN  /\ "delete" \in Others
      /\ f \in Live
      /\ Finish(IF journaled THEN Commit(img, ops, newHint)
                ELSE Done(ApplyAll(img, ops), newHint), f, <<>>, <<>>)

-----------------------------------------------------------------------------
(* In-place defragmentation: every block of every file that is not empty moves
   to the front, in inode order, payload before tables; all pointers follow. *)

Moved == SelectSeq(SetToSortSeq(Live, <), LAMBDA f : Ino(f).size > 0)

NewOrder ==
  MapFlat(Moved, LAMBDA f : CollectInodeBlockLayout(img, Ino(f)).payload
                            \o CollectInodeBlockLayout(img, Ino(f)).indirect)

\* A pointer slot holds a block id or a chunk entry; the run moves as a unit.
Relocated(toNew, v) ==
  IF v \in DOMAIN toNew THEN toNew[v]
  ELSE IF ~IsEmptyEntry(v) /\ EntryStart(v) \in DOMAIN toNew
  THEN ChunkEntry(toNew[EntryStart(v)], EntryCount(v)) ELSE v

\* The cycle-aware permutation, over the moves left (from source to target).  A
\* target that is no source is overwritten first; when every target is one, the
\* moves are cycles: one is turned, its leader kept in a scratch buffer.
RECURSIVE Permute(_, _), Turn(_, _, _, _, _)

Permute(blk, moves) ==
  LET free == {b \in DOMAIN moves : moves[b] \notin DOMAIN moves}
      src == CHOOSE b \in DOMAIN moves : free = {} \/ b \in free
  IN  IF moves = <<>> THEN blk
      ELSE IF free = {} THEN Turn(blk, moves, src, src, blk[src])
      ELSE Permute([blk EXCEPT ![moves[src]] = blk[src]],
                   Restrict(moves, DOMAIN moves \ {src}))

Turn(blk, moves, leader, dest, scratch) ==
  LET src == CHOOSE b \in DOMAIN moves : moves[b] = dest
      left == Restrict(moves, DOMAIN moves \ {src})
  IN  IF src = leader THEN Permute([blk EXCEPT ![dest] = scratch], left)
      ELSE Turn([blk EXCEPT ![dest] = blk[src]], left, leader, src, scratch)

DefragmentInplace ==
  \E order \in {NewOrder} :
  \E toNew \in {[b \in ToSet(order) |->
                   DataStart + Max({i \in DOMAIN order : order[i] = b}) - 1]} :
  \E blk \in {Permute(img.blk, RestrictDomain(toNew, LAMBDA b : toNew[b] # b))} :
  LET tables == UNION {ToSet(CollectInodeBlockLayout(img, Ino(f)).indirect) :
                         f \in ToSet(Moved)}
      used == DataStart .. DataStart + Len(order) - 1
      Repointed(b) == [p \in Positions |-> Relocated(toNew, blk[b][p])]
  IN  /\ "defrag" \in Others
      /\ \E b \in DOMAIN toNew : toNew[b] # b
      /\ Avoids("defrag_empty", \E f \in Live : Ino(f).size = 0 /\ Blocks(Ino(f)) # <<>>)
      /\ Step
      /\ img' = [img EXCEPT
           !.db = used,
           !.it = [f \in Files |->
              IF f \notin Live THEN @[f]
              ELSE [@[f] EXCEPT !.ptr = [r \in Roots |-> Relocated(toNew, @[r])]]],
           !.blk = [b \in DataBlocks |->
              IF b \in {toNew[t] : t \in tables} THEN Repointed(b) ELSE blk[b]]]
      /\ hint' = DataStart + Len(order)
      /\ UNCHANGED <<payload, frames, tx>>

-----------------------------------------------------------------------------

Next ==
  /\ steps < MaxSteps
  /\ \/ \E f \in Files : Create(f) \/ Delete(f)
     \/ \E f \in Files, r \in Requests : Write(f, r)
     \/ \E f \in Files, r \in Requests, n \in 0 .. CrashPoints : CrashStaged(f, r, n)
     \/ \E f \in Files, q \in ChunkWrites : WriteChunked(f, q)
     \/ \E f \in Files, q \in ChunkWrites, n \in 0 .. CrashPoints :
          CrashStagedChunks(f, q, n)
     \/ \E f \in Files, n \in Sizes, z \in ZLens : Truncate(f, n, z)
     \/ DefragmentInplace

Spec == Init /\ [][Next]_vars

-----------------------------------------------------------------------------
(* What a reader gets: read_data walks the tree, read_at resolves each block *)

Read(len, at) ==
  [i \in 1 .. len |-> LET b == at[(i - 1) \div P]
                      IN  IF b \in DataBlocks THEN img.blk[b][(i - 1) % P] ELSE 0]

ReadData(f) ==
  LET n == PhysicalSize(Ino(f))
      pairs == ToSet(WalkPayloadBlocks(img, Ino(f), CeilDiv(n, P)))
  IN  Read(n, [i \in 0 .. CeilDiv(n, P) - 1 |->
                IF \E q \in pairs : q[2] = i THEN (CHOOSE q \in pairs : q[2] = i)[1] ELSE 0])

ReadAt(f) ==
  LET n == PhysicalSize(Ino(f))
  IN  Read(n, [i \in 0 .. CeilDiv(n, P) - 1 |-> ResolveLogicalBlockId(img, Ino(f), i)])

\* A chunk's entry and the blocks of its run; 0 where the file has a hole.
ReadSingleChunk(f, c) ==
  LET v == ResolveLogicalBlockId(img, Ino(f), c)
  IN  IF IsEmptyEntry(v) THEN {0}
      ELSE {ReadBlockPtr(img, b, p) : b \in EntryBlocks(v), p \in Positions}

\* verify_integrity
Referenced == MapFlat(SetToSortSeq(Live, <), LAMBDA f : Blocks(Ino(f)))
MissingBlocks(refs) == ToSet(refs) \ img.db
LeakedBlocks(refs) == (img.db \cap DataBlocks) \ ToSet(refs)
CrossLinkedBlocks(refs) ==
  {b \in ToSet(refs) : Cardinality({i \in DOMAIN refs : refs[i] = b}) > 1}

\* The state has the shape the code keeps: pointers and hint are numbers, and
\* a file's inode record is one the program can write.
TypeOK ==
  /\ img.ib \subseteq Files /\ img.db \subseteq TrackedIds
  /\ \A f \in Files : Ino(f).size \in Nat /\ Ino(f).csize \in Nat
                      /\ \A r \in Roots : Ino(f).ptr[r] \in Nat
  /\ hint \in DataStart .. TrackedEnd
  /\ steps \in 0 .. MaxSteps

\* verify_integrity finds nothing: every block a file refers to is marked used,
\* none is referred to twice, and none is marked used without a reference,
\* after any sequence of writes, truncations, deletions and relocations.
FsckClean ==
  LET refs == Referenced
  IN  MissingBlocks(refs) = {} /\ CrossLinkedBlocks(refs) = {} /\ LeakedBlocks(refs) = {}

\* What was written is what is read, along both readers: no operation on one
\* file, no reuse of a freed block and no relocation changes another payload.
ReadsBack ==
  \A f \in Live :
    IF Ino(f).seek
    THEN \A c \in DOMAIN frames[f] : ReadSingleChunk(f, c - 1) = {frames[f][c]}
    ELSE ReadData(f) = payload[f] /\ ReadAt(f) = payload[f]

\* Replaying the logged (coalesced) form of a transaction over the image it
\* was applied to gives the image the running system has: a crash after the
\* commit and a clean run agree.
RecoveryAgrees ==
  ApplyAll(tx.pre, LoggedOps(tx.ops)) = ApplyAll(tx.pre, tx.ops)
=============================================================================
