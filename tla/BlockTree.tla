----------------------------- MODULE BlockTree -----------------------------
(***************************************************************************)
(* The pointer tree of an inode: direct pointers, then a single, a double  *)
(* and a triple indirect table.  An inode's pointers are one function  ptr *)
(* over the roots: 0 .. Direct-1 are the direct ones (blocks[0..10]),      *)
(* Direct is the single indirect table (blocks[10]), Direct+1 the double   *)
(* (blocks[11]) and Direct+2 the triple (triple_indirect).  A table block  *)
(* holds BlockSize pointers, so the same blocks hold tables and data.      *)
(*                                                                         *)
(* A leaf of a seekable file is a chunk entry, a run of blocks packed into *)
(* one pointer; the entry's flags sit above every block id, so a plain     *)
(* block id read as an entry counts as empty.                              *)
(*                                                                         *)
(* The walkers that change a tree come twice, as in the code: directly on  *)
(* the mapping (images without a journal), and on a simulated allocator    *)
(* that records metadata operations (journaled images).                    *)
(***************************************************************************)
EXTENDS MetadataOps

CONSTANT Direct         \* direct pointers of an inode (10 in the code)

P == BlockSize
Roots == 0 .. Direct + 2
Single == Direct
Double == Direct + 1
Triple == Direct + 2
SingleEnd == Direct + P
DoubleEnd == SingleEnd + P * P
TripleEnd == DoubleEnd + P * P * P

\* The root and the slots to follow for a logical block; <<>> past the end.
BlockPath(idx) ==
  LET s == idx - Direct
      d == idx - SingleEnd
      t == idx - DoubleEnd
  IN  CASE idx < Direct    -> <<idx>>
        [] idx \in Direct .. SingleEnd - 1    -> <<Single, s>>
        [] idx \in SingleEnd .. DoubleEnd - 1 -> <<Double, d \div P, d % P>>
        [] idx \in DoubleEnd .. TripleEnd - 1 ->
             <<Triple, t \div (P * P), (t % (P * P)) \div P, t % P>>
        [] OTHER -> <<>>

EntryBase == TrackedEnd + 1
ChunkEntry(start, count) == EntryBase * count + start
IsEmptyEntry(v) == v < EntryBase
EntryStart(v) == v % EntryBase
EntryCount(v) == v \div EntryBase
EntryBlocks(v) == IF IsEmptyEntry(v) THEN {}
                  ELSE EntryStart(v) .. EntryStart(v) + EntryCount(v) - 1

CeilDiv(a, b) == (a + b - 1) \div b

EmptyPtrs == [r \in Roots |-> 0]
NewInode == [size |-> 0, csize |-> 0, seek |-> FALSE, enc |-> FALSE,
             filt |-> FALSE, ptr |-> EmptyPtrs]

\* Bytes the payload takes on disk, and the leaves that many bytes need.
PhysicalSize(ino) == IF ino.csize > 0 THEN ino.csize ELSE ino.size

-----------------------------------------------------------------------------
(* Reading a tree *)

ReadBlockPtr(img, b, slot) == IF b \in DOMAIN img.blk THEN img.blk[b][slot] ELSE 0

Follow(img, ino, path) ==
  IF path = <<>> THEN 0
  ELSE FoldLeft(LAMBDA b, slot : IF b = 0 THEN 0 ELSE ReadBlockPtr(img, b, slot),
                ino.ptr[path[1]], Tail(path))

ResolveLogicalBlockId(img, ino, idx) == Follow(img, ino, BlockPath(idx))

\* The non-zero entries among the first n of a table, in order.
Table(img, b, n) ==
  IF b \notin DOMAIN img.blk THEN <<>>
  ELSE SelectSeq([i \in 1 .. n |-> img.blk[b][i - 1]], LAMBDA v : v # 0)

MapFlat(seq, F(_)) == FlattenSeq([i \in DOMAIN seq |-> F(seq[i])])

Leaf(ino, v) ==
  IF ~ino.seek THEN <<v>>
  ELSE IF IsEmptyEntry(v) THEN <<>>
       ELSE [i \in 1 .. EntryCount(v) |-> EntryStart(v) + i - 1]

\* Every block an inode refers to, tables included, as frees and fsck see it.
\* The double and triple tables are cut at the entries the size calls for.
CollectInodeBlocks(img, ino, chunkBlocks) ==
  LET leaves == CeilDiv(IF ino.seek THEN ino.size ELSE PhysicalSize(ino),
                        IF ino.seek THEN chunkBlocks * P ELSE P)
      Limit(end, span) == IF leaves > end
                          THEN Min({CeilDiv(leaves - end, span), P}) ELSE P
      L(v) == Leaf(ino, v)
      Sib(b) == <<b>> \o MapFlat(Table(img, b, P), L)
      Dib(b, n) == <<b>> \o MapFlat(Table(img, b, n), Sib)
      FullDib(b) == Dib(b, P)
      Tib(b, n) == <<b>> \o MapFlat(Table(img, b, n), FullDib)
      Root(r, F(_)) == IF ino.ptr[r] = 0 THEN <<>> ELSE F(ino.ptr[r])
  IN  MapFlat(SelectSeq([i \in 1 .. Direct |-> ino.ptr[i - 1]], LAMBDA v : v # 0), L)
      \o Root(Single, Sib)
      \o Root(Double, LAMBDA b : Dib(b, Limit(SingleEnd, P)))
      \o Root(Triple, LAMBDA b : Tib(b, Limit(DoubleEnd, P * P)))

\* The same tree as in-place defragmentation sees it: payload blocks and table
\* blocks apart, with no limit from the size.
CollectInodeBlockLayout(img, ino) ==
  LET L(v) == Leaf(ino, v)
      Kids(b) == Table(img, b, P)
      sib == SelectSeq(<<ino.ptr[Single]>>, LAMBDA v : v # 0)
      dib == SelectSeq(<<ino.ptr[Double]>>, LAMBDA v : v # 0)
      tib == SelectSeq(<<ino.ptr[Triple]>>, LAMBDA v : v # 0)
      dibSibs == MapFlat(dib, Kids)
      tibDibs == MapFlat(tib, Kids)
      WithSibs(b) == <<b>> \o Kids(b)
      direct == SelectSeq([i \in 1 .. Direct |-> ino.ptr[i - 1]], LAMBDA v : v # 0)
  IN  [payload  |-> MapFlat(direct
                            \o MapFlat(sib \o dibSibs \o MapFlat(tibDibs, Kids), Kids), L),
       indirect |-> sib \o dib \o dibSibs \o tib \o MapFlat(tibDibs, WithSibs)]

\* walk_payload_blocks: the (block, logical index) pairs of a payload of n
\* blocks.  A missing table is skipped as a whole; a pointer outside the data
\* area is a hole.
WalkPayloadBlocks(img, ino, n) ==
  LET Emit(b, i) == IF b \in DataBlocks THEN <<<<b, i>>>> ELSE <<>>
      Skip(i) ==    \* first index after the missing table above index i
        LET p == BlockPath(i) IN
        IF i >= TripleEnd \/ i < Direct THEN i + 1
        ELSE CASE p[1] = Single -> IF ino.ptr[Single] = 0 THEN SingleEnd ELSE i + 1
               [] p[1] = Double ->
                    IF ino.ptr[Double] = 0 THEN DoubleEnd
                    ELSE IF Follow(img, ino, SubSeq(p, 1, 2)) = 0 THEN i + P - p[3]
                    ELSE i + 1
               [] p[1] = Triple ->
                    IF ino.ptr[Triple] = 0 THEN TripleEnd
                    ELSE IF Follow(img, ino, SubSeq(p, 1, 2)) = 0
                         THEN i + P * P - (p[3] * P + p[4])
                    ELSE IF Follow(img, ino, SubSeq(p, 1, 3)) = 0 THEN i + P - p[4]
                    ELSE i + 1
      walk[i \in 0 .. TripleEnd + 1] ==
        IF i >= n \/ i >= TripleEnd THEN <<>>
        ELSE Emit(ResolveLogicalBlockId(img, ino, i), i) \o walk[Skip(i)]
  IN  walk[0]

-----------------------------------------------------------------------------
(* Changing a tree on the mapping.  A walker carries the image, the hint, the
   inode being changed, the block it stands on, and the first error. *)

Walker(img, hint, ino) ==
  [img |-> img, hint |-> hint, ino |-> ino, got |-> 0, err |-> ""]

Fail(w, e) == [w EXCEPT !.err = e]

Taken(w, b) ==
  IF b = NoBlock THEN Fail(w, "NoSpace")
  ELSE [w EXCEPT !.img.db = @ \cup {b}, !.img.blk[b] = ZeroBlock,
                 !.hint = b + 1, !.got = b]

AllocAndZeroBlock(w) == Taken(w, AllocBlock(w.img.db, w.hint))

\* A walker on a new table enters it into the inode, or into the table above.
AsRoot(a, r) == IF a.err # "" THEN a ELSE [a EXCEPT !.ino.ptr[r] = a.got]
AsChild(a, table, slot) ==
  IF a.err # "" THEN a ELSE [a EXCEPT !.img.blk[table][slot] = a.got]

Inside(w) == IF w.err = "" /\ w.got \notin DataBlocks THEN Fail(w, "Outside") ELSE w

EnsureRoot(w, r) ==
  IF w.ino.ptr[r] # 0 THEN [w EXCEPT !.got = w.ino.ptr[r]]
  ELSE AsRoot(AllocAndZeroBlock(w), r)

\* The chunk path takes a pointer as it finds it; the block path checks it.
GetChild(w, slot) ==
  LET child == ReadBlockPtr(w.img, w.got, slot)
  IN  IF w.err # "" THEN w
      ELSE IF child # 0 THEN [w EXCEPT !.got = child]
      ELSE AsChild(AllocAndZeroBlock(w), w.got, slot)

GetOrAllocChild(w, slot) == Inside(GetChild(Inside(w), slot))

GetOrAllocBlock(w, idx) ==
  LET path == BlockPath(idx)
  IN  IF w.err # "" THEN w
      ELSE IF path = <<>> THEN Fail(w, "FileTooLarge")
      ELSE FoldLeft(GetOrAllocChild, Inside(EnsureRoot(w, path[1])), Tail(path))

\* Zero the pointer of a leaf; a missing table is left missing.
ClearLogicalBlockPtr(w, idx) ==
  LET path == BlockPath(idx)
      table == Follow(w.img, w.ino, Front(path))
  IN  IF Len(path) <= 1 THEN [w EXCEPT !.ino.ptr[idx] = 0]
      ELSE IF table \in DOMAIN w.img.blk
           THEN [w EXCEPT !.img.blk[table][Last(path)] = 0] ELSE w

StoreEntry(at, slot, v) ==
  IF at.err # "" THEN at ELSE [at EXCEPT !.img.blk[at.got][slot] = v]

SetLogicalChunkEntry(w, idx, v) ==
  LET path == BlockPath(idx)
      tables == SubSeq(path, 2, Len(path) - 1)
  IN  CASE w.err # "" -> w
        [] w.err = "" /\ IsEmptyEntry(v) -> ClearLogicalBlockPtr(w, idx)
        [] w.err = "" /\ ~IsEmptyEntry(v) /\ path = <<>> -> Fail(w, "FileTooLarge")
        [] w.err = "" /\ ~IsEmptyEntry(v) /\ Len(path) = 1 ->
             [w EXCEPT !.ino.ptr[idx] = v]
        [] OTHER -> StoreEntry(FoldLeft(GetChild, EnsureRoot(w, path[1]), tables),
                               Last(path), v)

\* After a raw shrink to n blocks: the tables no longer needed, the table slots
\* to zero, and the inode without the dropped roots.  A triple table that is
\* still needed is kept whole.
PruneUnusedIndirectBlocks(img, ino, n) ==
  LET Kids(b) == Table(img, b, P)
      WithKids(b) == Kids(b) \o <<b>>
      keep == CeilDiv(n - SingleEnd, P)
      dropS == n <= Direct /\ ino.ptr[Single] # 0
      dropD == n <= SingleEnd /\ ino.ptr[Double] # 0
      cutD == n > SingleEnd /\ ino.ptr[Double] \in DOMAIN img.blk
      dropT == n <= DoubleEnd /\ ino.ptr[Triple] # 0
      cut == IF ~cutD THEN <<>>
             ELSE SelectSeq([i \in 1 .. P |-> i - 1],
                            LAMBDA s : s >= keep /\ img.blk[ino.ptr[Double]][s] # 0)
  IN  [ino   |-> [ino EXCEPT !.ptr = [r \in Roots |->
                    IF \/ dropS /\ r = Single
                       \/ dropD /\ r = Double
                       \/ dropT /\ r = Triple THEN 0 ELSE @[r]]],
       freed |-> (IF dropS THEN <<ino.ptr[Single]>> ELSE <<>>)
                 \o (IF dropD THEN WithKids(ino.ptr[Double]) ELSE <<>>)
                 \o [i \in DOMAIN cut |-> img.blk[ino.ptr[Double]][cut[i]]]
                 \o (IF dropT THEN MapFlat(Kids(ino.ptr[Triple]), WithKids)
                                   \o <<ino.ptr[Triple]>> ELSE <<>>),
       slots |-> [i \in DOMAIN cut |-> <<ino.ptr[Double], cut[i]>>]]

-----------------------------------------------------------------------------
(* Changing a tree on a simulated allocator (AllocSim): allocations go to a
   copy of the bitmap, pointer writes to an overlay, and each change is also
   recorded as a metadata operation.  A block allocated here is taken to read
   as zeros; nothing writes those zeros into the image. *)

AllocSim(img, hint, ino) ==
  [img |-> img, hint |-> hint, ino |-> ino, got |-> 0, err |-> "",
   db |-> img.db, fresh |-> {}, ptrs |-> <<>>, ops |-> <<>>, used |-> {}]

SimTaken(s, b) ==
  IF b = NoBlock THEN Fail(s, "NoSpace")
  ELSE [s EXCEPT !.db = @ \cup {b}, !.hint = b + 1, !.fresh = @ \cup {b},
                 !.got = b, !.ops = Append(@, SetDataBitmap(b, TRUE))]

SimAllocBlock(s) == SimTaken(s, AllocBlock(s.db, s.hint))

SimPtr(s, table, slot) ==
  IF <<table, slot>> \in DOMAIN s.ptrs THEN s.ptrs[<<table, slot>>]
  ELSE IF table \in s.fresh THEN 0 ELSE ReadBlockPtr(s.img, table, slot)

SimSetPtr(s, table, slot, v) ==
  [s EXCEPT !.ptrs = (<<table, slot>> :> v) @@ @,
            !.ops = Append(@, WriteBlockSlice(table, slot, <<v>>))]

SimEnsureRoot(s, r) ==
  IF s.ino.ptr[r] # 0 THEN [s EXCEPT !.got = s.ino.ptr[r]]
  ELSE AsRoot(SimAllocBlock(s), r)

SimAsChild(a, table, slot) == IF a.err # "" THEN a ELSE SimSetPtr(a, table, slot, a.got)

SimChild(s, slot) ==
  LET child == SimPtr(s, s.got, slot)
  IN  IF s.err # "" THEN s
      ELSE IF child # 0 THEN [s EXCEPT !.got = child]
      ELSE SimAsChild(SimAllocBlock(s), s.got, slot)

SimGetOrAllocBlock(s, idx) ==
  LET path == BlockPath(idx)
  IN  IF s.err # "" THEN s
      ELSE IF path = <<>> THEN Fail(s, "FileTooLarge")
      ELSE FoldLeft(SimChild, SimEnsureRoot(s, path[1]), Tail(path))

SimResolveLogicalChunkEntry(s, idx) ==
  LET path == BlockPath(idx)
  IN  IF path = <<>> THEN 0
      ELSE FoldLeft(LAMBDA b, slot : IF b = 0 THEN 0 ELSE SimPtr(s, b, slot),
                    s.ino.ptr[path[1]], Tail(path))

SimStoreEntry(at, slot, v) == IF at.err # "" THEN at ELSE SimSetPtr(at, at.got, slot, v)

SimSetLogicalChunkEntry(s, idx, v) ==
  LET path == BlockPath(idx)
      tables == SubSeq(path, 2, Len(path) - 1)
  IN  CASE s.err # "" -> s
        [] s.err = "" /\ path = <<>> ->
             IF IsEmptyEntry(v) THEN s ELSE Fail(s, "FileTooLarge")
        [] s.err = "" /\ Len(path) = 1 -> [s EXCEPT !.ino.ptr[idx] = v]
        [] s.err = "" /\ Len(path) > 1 ->
             IF IsEmptyEntry(v) /\ s.ino.ptr[path[1]] = 0 THEN s
             ELSE SimStoreEntry(FoldLeft(SimChild, SimEnsureRoot(s, path[1]), tables),
                                Last(path), v)

\* prune_stale_pointers: what a shrinking rewrite clears, given the number of
\* leaves it keeps.  The distance into the double and triple area is used as
\* an index of tables, not of leaves.
PruneStalePointers(s, first) ==
  LET Zero(b, slot) == WriteBlockSlice(b, slot, <<0>>)
      Wipe(b) == WriteBlockSlice(b, 0, [i \in 1 .. P |-> 0])
      From(n) == [i \in 1 .. Max({P - n, 0}) |-> n + i - 1]
      Kid(b, slot) == ReadBlockPtr(s.img, b, slot)
      Cut(b, slot) == <<Zero(b, slot)>>
                      \o (IF Kid(b, slot) = 0 THEN <<>> ELSE <<Wipe(Kid(b, slot))>>)
      CutDeep(b, slot) ==
        <<Zero(b, slot)>> \o
        (IF Kid(b, slot) = 0 THEN <<>>
         ELSE MapFlat(From(0), LAMBDA c : Cut(Kid(b, slot), c)))
      direct == [s EXCEPT !.ino.ptr = [r \in Roots |->
                   IF \/ r < Direct /\ r >= first
                      \/ r >= Direct /\ first <= Direct THEN 0 ELSE @[r]]]
      Then(root, ops) == IF s.ino.ptr[root] = 0 THEN direct
                         ELSE [direct EXCEPT !.ops = @ \o ops]
      sib == s.ino.ptr[Single]
      dib == s.ino.ptr[Double]
      tib == s.ino.ptr[Triple]
  IN  CASE first = 0 -> s
        [] first \in 1 .. Direct -> direct
        [] first \in Direct + 1 .. SingleEnd ->
             Then(Single, [i \in DOMAIN From(first - Direct) |->
                             Zero(sib, From(first - Direct)[i])])
        [] first \in SingleEnd + 1 .. DoubleEnd ->
             Then(Double, MapFlat(From(first - SingleEnd), LAMBDA a : Cut(dib, a)))
        [] OTHER ->
             Then(Triple, MapFlat(From(first - DoubleEnd), LAMBDA b : CutDeep(tib, b)))
=============================================================================
