------------------------------ MODULE Migration ------------------------------
(***************************************************************************)
(* The in-place upgrade of the inode table from packed (v1) to fixed (v2)  *)
(* records, with the operations, remounts and journal replay around it.    *)
(*                                                                         *)
(* migrate() holds the exclusive lock to its end, so other operations run  *)
(* only between two calls; a call can end early by an error of mmap.flush  *)
(* or because the process is killed.  The mapping outlives the process;    *)
(* what a power failure makes of it is the subject of StrictCommit.  A     *)
(* slot is the format it was written in and the inode it stands for; read  *)
(* with the other decoder it is garbage.                                   *)
(***************************************************************************)
EXTENDS Integers

CONSTANTS N,            \* inode_count
          Batch,        \* slots between two persisted cursors (256 in the code)
          Values,       \* inodes, as far as they are told apart
          Garbage,      \* what the wrong decoder returns
          NoRec,        \* no record
          Avoid,        \* uses left out of a run, each named where it is tested
          MaxOps,       \* bound on the operations that write an inode
          MaxFaults     \* bound on kills and flush errors

ASSUME MigrationAssumption ==
  /\ N \in Nat /\ Batch \in Nat \ {0} /\ MaxOps \in Nat /\ MaxFaults \in Nat
  /\ Garbage \notin Values
  /\ NoRec \notin [fmt : {1, 2}, val : Values \cup {Garbage}]

VARIABLES journaled,    \* whether the image has a journal
          sb,           \* superblock: legacy format, migration_cursor
          used,         \* inode bitmap
          slot,         \* inode table
          pending,      \* frames to replay at a mount: the last images by inode
          cache,        \* inode cache
          pc,           \* "free", or "rewrite" while migrate holds the lock
          cursor,       \* migrate's local cursor
          ops, faults
VARIABLE val            \* the inode last written to each id, for the properties

vars == <<journaled, sb, used, slot, pending, cache, pc, cursor, ops, faults, val>>

Ids == 0 .. N - 1
Records == [fmt : {1, 2}, val : Values \cup {Garbage}]
Empty == [i \in {} |-> 0]
With(f, i, v) == [j \in DOMAIN f \cup {i} |-> IF j = i THEN v ELSE f[j]]
Without(f, i) == [j \in DOMAIN f \ {i} |-> f[j]]

Avoids(use, cond) == use \in Avoid => ~cond

\* inode_record_version_for
VersionFor(id) == IF ~sb.legacy \/ id < sb.cursor THEN 2 ELSE 1

\* decode_for
Decode(rec, version) == IF rec.fmt = version THEN rec.val ELSE Garbage

\* Mutant: the format of the whole image, not of the slot.
EncodeInodeSlot_OfImage(id, v) == [fmt |-> IF sb.legacy THEN 1 ELSE 2, val |-> v]

\* encode_inode_slot
EncodeInodeSlot(id, v) == [fmt |-> VersionFor(id), val |-> v]

Init ==
  /\ journaled \in BOOLEAN
  /\ sb = [legacy |-> TRUE, cursor |-> 0]
  /\ val \in [Ids -> Values]
  /\ used \in SUBSET Ids
  /\ slot = [id \in Ids |-> [fmt |-> 1, val |-> val[id]]]
  /\ pending = Empty /\ cache = Empty
  /\ pc = "free" /\ cursor = 0 /\ ops = 0 /\ faults = 0

-----------------------------------------------------------------------------
(* Operations between two migrations *)

ReadInode(id) ==
  /\ pc = "free" /\ id \in used \ DOMAIN cache
  /\ cache' = With(cache, id, Decode(slot[id], VersionFor(id)))
  /\ UNCHANGED <<journaled, sb, used, slot, pending, pc, cursor, ops, faults, val>>

\* The ring keeps some of the older frames and the new one, or, in the Strict
\* mode, is checkpointed once the transaction is in place.
Logged(id, image) ==
  IF ~journaled THEN pending' = pending
  ELSE \/ pending' = Empty
       \/ \E keep \in SUBSET DOMAIN pending :
            pending' = With([i \in keep |-> pending[i]], id, image)

\* Write an inode, or create one with its bit, as a transaction or in place.
WriteInode(id, v) ==
  LET rec == EncodeInodeSlot(id, v)
  IN  /\ pc = "free" /\ ops < MaxOps
      /\ slot' = [slot EXCEPT ![id] = rec]
      /\ used' = used \cup {id}
      /\ Logged(id, [used |-> TRUE, rec |-> rec])
      /\ cache' = With(cache, id, v)
      /\ val' = [val EXCEPT ![id] = v]
      /\ ops' = ops + 1
      /\ UNCHANGED <<journaled, sb, pc, cursor, faults>>

\* Deleting clears the bit and leaves the slot; a pending record stays pending.
Delete(id) ==
  LET rec == IF id \in DOMAIN pending THEN pending[id].rec ELSE NoRec
  IN  /\ pc = "free" /\ id \in used /\ ops < MaxOps
      /\ used' = used \ {id}
      /\ Logged(id, [used |-> FALSE, rec |-> rec])
      /\ cache' = Without(cache, id)
      /\ ops' = ops + 1
      /\ UNCHANGED <<journaled, sb, slot, pc, cursor, faults, val>>

\* The public write_inode changes the slot without a transaction, also on a
\* journaled image, where an older frame for the slot may still be pending.
WriteInodeInPlace(id, v) ==
  /\ pc = "free" /\ id \in used /\ ops < MaxOps
  /\ Avoids("unlogged_write", id \in DOMAIN pending)
  /\ slot' = [slot EXCEPT ![id] = EncodeInodeSlot(id, v)]
  /\ cache' = With(cache, id, v)
  /\ val' = [val EXCEPT ![id] = v]
  /\ ops' = ops + 1
  /\ UNCHANGED <<journaled, sb, used, pending, pc, cursor, faults>>

-----------------------------------------------------------------------------
(* migrate *)

\* Mutant: the ring is left as it is.
MigrateBegin_NoCheckpoint ==
  /\ pc = "free" /\ sb.legacy
  /\ cursor' = sb.cursor /\ pc' = "rewrite"
  /\ UNCHANGED <<journaled, sb, used, slot, pending, cache, ops, faults, val>>

MigrateBegin ==
  /\ pc = "free" /\ sb.legacy
  /\ pending' = Empty /\ cursor' = sb.cursor /\ pc' = "rewrite"
  /\ UNCHANGED <<journaled, sb, used, slot, cache, ops, faults, val>>

\* A flush error ends the call; what was put into the mapping stays.
FlushResult(ok) ==
  /\ ok \/ faults < MaxFaults
  /\ faults' = IF ok THEN faults ELSE faults + 1

\* One round of the loop: rewrite the slot if its bit is set, advance, and at
\* the end of a batch persist the cursor and flush.
MigrateSlot(ok) ==
  LET next == cursor + 1
      mark == next % Batch = 0
  IN  /\ pc = "rewrite" /\ cursor < N
      /\ slot' = IF cursor \notin used THEN slot
                 ELSE [slot EXCEPT ![cursor] = [fmt |-> 2, val |-> Decode(slot[cursor], 1)]]
      /\ cursor' = next
      /\ IF mark THEN FlushResult(ok) ELSE ok /\ UNCHANGED faults
      /\ sb' = IF mark THEN [sb EXCEPT !.cursor = next] ELSE sb
      /\ pc' = IF ok THEN "rewrite" ELSE "free"
      /\ UNCHANGED <<journaled, used, pending, cache, ops, val>>

Finished == [legacy |-> FALSE, cursor |-> 0]

MigrateEnd(ok) ==
  /\ pc = "rewrite" /\ cursor >= N
  /\ FlushResult(ok)
  /\ sb' = Finished
  /\ pc' = "free"
  /\ cache' = IF ok THEN Empty ELSE cache
  /\ UNCHANGED <<journaled, used, slot, pending, cursor, ops, val>>

-----------------------------------------------------------------------------
(* The process ends, at any point, and the image is mounted again: pending
   frames are replayed and the ring reset. *)

\* Slots rewritten since the cursor was last persisted.
Unmarked == {id \in used : pc = "rewrite" /\ id >= sb.cursor /\ id < cursor}

Remount ==
  /\ faults < MaxFaults
  /\ Avoids("killed_in_batch", Unmarked # {})
  /\ slot' = [id \in Ids |-> IF id \in DOMAIN pending /\ pending[id].rec # NoRec
                             THEN pending[id].rec ELSE slot[id]]
  /\ used' = {id \in Ids : IF id \in DOMAIN pending THEN pending[id].used ELSE id \in used}
  /\ pending' = Empty /\ cache' = Empty
  /\ pc' = "free" /\ cursor' = 0
  /\ faults' = faults + 1
  /\ UNCHANGED <<journaled, sb, ops, val>>

Next ==
  \/ \E id \in Ids : ReadInode(id) \/ Delete(id)
  \/ \E id \in Ids, v \in Values : WriteInode(id, v) \/ WriteInodeInPlace(id, v)
  \/ MigrateBegin
  \/ \E ok \in BOOLEAN : MigrateSlot(ok) \/ MigrateEnd(ok)
  \/ Remount

Spec == Init /\ [][Next]_vars

-----------------------------------------------------------------------------

\* The cursor is in the table, and a finished migration leaves none behind.
TypeOK ==
  /\ journaled \in BOOLEAN
  /\ sb \in [legacy : BOOLEAN, cursor : 0 .. N]
  /\ ~sb.legacy => sb.cursor = 0
  /\ used \subseteq Ids
  /\ slot \in [Ids -> Records]
  /\ DOMAIN pending \subseteq Ids /\ DOMAIN cache \subseteq Ids
  /\ pc \in {"free", "rewrite"} /\ cursor \in 0 .. N
  /\ ops \in 0 .. MaxOps /\ faults \in 0 .. MaxFaults

\* A frame that a mount may still replay holds a record in the format its slot
\* is read with: migrate discards the frames of the outgoing format first.
FramesFit ==
  \A id \in DOMAIN pending :
    pending[id].rec # NoRec => pending[id].rec.fmt = VersionFor(id)

\* migrate decodes as v1 only slots that are v1, also when it resumes.
RewritesOnce ==
  pc = "rewrite" => \A id \in used : id >= cursor => slot[id].fmt = 1

\* An allocated inode reads back as it was last written, from the cache and
\* from its slot, before, between and after (interrupted) migrations and mounts.
InodesSurvive ==
  pc = "free" => \A id \in used :
    /\ Decode(slot[id], VersionFor(id)) = val[id]
    /\ id \in DOMAIN cache => cache[id] = val[id]
==============================================================================
