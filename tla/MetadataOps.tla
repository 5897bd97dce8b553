---------------------------- MODULE MetadataOps ----------------------------
(***************************************************************************)
(* The metadata operations of the journal: what each one does to an image, *)
(* and how a transaction's list of them is rewritten before it is logged.  *)
(*                                                                         *)
(* The running system applies the list the operation built; recovery       *)
(* replays the list the frame holds, which coalesce_ops has regrouped and  *)
(* merged.  An image is a record: the inode bitmap  ib  and data bitmap    *)
(* db  (sets of ids), the inode table  it,  and the blocks  blk  of the    *)
(* data area, each a function from the positions of a block to values.     *)
(***************************************************************************)
EXTENDS BlockAllocator, Sequences, SequencesExt, TLC

CONSTANTS InodeCount,   \* slots of the inode table
          BlockSize     \* positions of a block (512 pointers of 8 bytes)

Positions == 0 .. BlockSize - 1
ZeroBlock == [p \in Positions |-> 0]

SetInodeBitmap(id, on) == [op |-> "inode_bit", id |-> id, on |-> on]
SetDataBitmap(b, on) == [op |-> "data_bit", start |-> b, count |-> 1, on |-> on]
SetDataBitmapRange(b, n, on) ==
  [op |-> "data_range", start |-> b, count |-> n, on |-> on]
WriteBlockSlice(b, off, data) ==
  [op |-> "slice", block |-> b, off |-> off, data |-> data]
WriteInode(id, rec) == [op |-> "inode", id |-> id, rec |-> rec]

IsData(o) == o.op \in {"data_bit", "data_range"}

SetBits(set, ids, on) == IF on THEN set \cup ids ELSE set \ ids

\* The bounds every operation is checked against (SEC-20).
InRange(o) ==
  CASE o.op \in {"inode_bit", "inode"} -> o.id \in 0 .. InodeCount - 1
    [] o.op = "data_bit"   -> o.start \in DataBlocks
    [] o.op = "data_range" -> o.start >= DataStart /\ o.start + o.count <= BlockCount
    [] o.op = "slice"      -> o.block \in DataBlocks /\ o.off + Len(o.data) <= BlockSize

ApplyOp(img, o) ==
  CASE o.op = "inode_bit" -> [img EXCEPT !.ib = SetBits(@, {o.id}, o.on)]
    [] IsData(o) ->
         [img EXCEPT !.db = SetBits(@, o.start .. o.start + o.count - 1, o.on)]
    [] o.op = "slice" ->
         [img EXCEPT !.blk[o.block] = [p \in Positions |->
            IF p \in o.off .. o.off + Len(o.data) - 1
            THEN o.data[p - o.off + 1] ELSE @[p]]]
    [] o.op = "inode" -> [img EXCEPT !.it[o.id] = o.rec]

\* Operations are applied in order; the first one out of range ends it.
ApplyAll(img, ops) ==
  LET Step(acc, o) == IF acc.ok /\ InRange(o)
                      THEN [acc EXCEPT !.img = ApplyOp(@, o)]
                      ELSE [acc EXCEPT !.ok = FALSE]
  IN  FoldLeft(Step, [img |-> img, ok |-> TRUE], ops).img

-----------------------------------------------------------------------------
(* coalesce_ops *)

\* Merge neighbours of a list while  Joins(last, next)  holds.
MergeRuns(list, Joins(_, _), Join(_, _)) ==
  LET Step(acc, x) == IF acc # <<>> /\ Joins(Last(acc), x)
                      THEN Append(Front(acc), Join(Last(acc), x))
                      ELSE Append(acc, x)
  IN  FoldLeft(Step, <<>>, list)

\* The indices of a list that satisfy  Keep,  sorted by  Before.
SortedIndices(list, Keep(_), Before(_, _)) ==
  SortSeq(SelectSeq([i \in DOMAIN list |-> i], Keep), Before)

\* Mutant: all allocations, then all frees.
CoalesceData_FreesLast(ops) ==
  LET Before(i, j) ==
        LET a == ops[i]  b == ops[j] IN
        \/ a.on /\ ~b.on
        \/ a.on = b.on /\ (a.start < b.start \/ (a.start = b.start /\ i < j))
      order == SortedIndices(ops, LAMBDA i : IsData(ops[i]), Before)
  IN  [k \in DOMAIN order |-> ops[order[k]]]

\* Data-bitmap operations: all frees, then all allocations, each by block.
CoalesceData(ops) ==
  LET Before(i, j) ==
        LET a == ops[i]  b == ops[j] IN
        \/ ~a.on /\ b.on
        \/ a.on = b.on /\ (a.start < b.start \/ (a.start = b.start /\ i < j))
      order == SortedIndices(ops, LAMBDA i : IsData(ops[i]), Before)
      Joins(a, b) == a.on = b.on /\ a.start + a.count = b.start
      Join(a, b) == [a EXCEPT !.count = @ + b.count]
      Tag(a) == IF a.count = 1 THEN SetDataBitmap(a.start, a.on)
                ELSE SetDataBitmapRange(a.start, a.count, a.on)
      runs == MergeRuns([k \in DOMAIN order |-> ops[order[k]]], Joins, Join)
  IN  [k \in DOMAIN runs |-> Tag(runs[k])]

\* Slices: the last write at a (block, offset) survives, in key order.
CoalesceSlices(ops) ==
  LET Same(i, j) == ops[i].block = ops[j].block /\ ops[i].off = ops[j].off
      slices == {i \in DOMAIN ops : ops[i].op = "slice"}
      live == {i \in slices : \A j \in slices : Same(i, j) => j <= i}
      Before(i, j) == \/ ops[i].block < ops[j].block
                      \/ ops[i].block = ops[j].block /\ ops[i].off < ops[j].off
      order == SortedIndices(ops, LAMBDA i : i \in live, Before)
      Joins(a, b) == a.block = b.block /\ a.off + Len(a.data) = b.off
      Join(a, b) == [a EXCEPT !.data = @ \o b.data]
  IN  MergeRuns([k \in DOMAIN order |-> ops[order[k]]], Joins, Join)

\* Inode images: one per inode, at its first place, with its last value.
CoalesceInodes(ops) ==
  LET writes == {i \in DOMAIN ops : ops[i].op = "inode"}
      first == {i \in writes : \A j \in writes : ops[j].id = ops[i].id => i <= j}
      LastOf(i) == ops[Max({j \in writes : ops[j].id = ops[i].id})]
      order == SelectSeq([i \in DOMAIN ops |-> i], LAMBDA i : i \in first)
  IN  [k \in DOMAIN order |-> LastOf(order[k])]

CoalesceOps(ops) ==
  IF Len(ops) <= 1 THEN ops
  ELSE SelectSeq(ops, LAMBDA o : o.op = "inode_bit")
       \o CoalesceData(ops) \o CoalesceSlices(ops) \o CoalesceInodes(ops)

Phase(o) == CASE o.op = "inode_bit" -> 1
              [] IsData(o) -> 2
              [] o.op = "slice" -> 3
              [] o.op = "inode" -> 4

\* The fast check that lets a list be logged as it is.
IsAlreadyCoalesced(ops) ==
  LET Of(n) == SelectSeq(ops, LAMBDA o : Phase(o) = n)
  IN  \/ Len(ops) <= 1
      \/ /\ \A i \in 1 .. Len(ops) - 1 : Phase(ops[i]) <= Phase(ops[i + 1])
         /\ \A o \in ToSet(ops) : o.op = "data_range" => o.count # 1
         /\ Len(Of(2)) <= 2
         /\ Len(Of(2)) = 2 => ~Of(2)[1].on /\ Of(2)[2].on
         /\ Len(Of(3)) <= 1
         /\ Len(Of(4)) <= 2
         /\ Len(Of(4)) = 2 => Of(4)[1].id # Of(4)[2].id

\* What encode_frame puts in the frame.
LoggedOps(ops) == IF IsAlreadyCoalesced(ops) THEN ops ELSE CoalesceOps(ops)
=============================================================================
