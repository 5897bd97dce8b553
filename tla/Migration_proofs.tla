-------------------------- MODULE Migration_proofs --------------------------
(***************************************************************************)
(* For any table, any batch size and any number of operations, flush       *)
(* errors and mounts: if no kill falls inside a batch and no inode with a  *)
(* pending frame is written past the journal, every inode survives.        *)
(*                                                                         *)
(* InodesSurvive speaks only of states in which the lock is free.  Intact  *)
(* adds what holds while migrate runs (slots below its own cursor are v2,  *)
(* the others as the superblock says, and nothing is pending) and that a   *)
(* replay would put back what the slots hold already.                      *)
(***************************************************************************)
EXTENDS Migration, TLAPS

\* The format of a slot, also while migrate is ahead of the superblock.
Expected(id) == IF pc = "rewrite" /\ id < cursor THEN 2 ELSE VersionFor(id)

SlotsHold == \A id \in used : slot[id].fmt = Expected(id) /\ slot[id].val = val[id]

CacheHolds == \A id \in used : id \in DOMAIN cache => cache[id] = val[id]

ReplayIsHarmless ==
  \A id \in DOMAIN pending :
    /\ pending[id].used <=> id \in used
    /\ pending[id].rec # NoRec =>
         /\ pending[id].rec \in Records
         /\ pending[id].rec.fmt = VersionFor(id)
         /\ id \in used => pending[id].rec = slot[id]

Running == pc = "rewrite" => /\ sb.legacy /\ sb.cursor <= cursor
                             /\ DOMAIN pending = {}

NoJournalNoFrames == journaled \/ DOMAIN pending = {}

Intact ==
  /\ NoJournalNoFrames /\ TypeOK /\ val \in [Ids -> Values]
  /\ SlotsHold /\ CacheHolds /\ ReplayIsHarmless /\ Running

\* A v1 image that was never migrated: no frame, no cursor, every slot v1.
LEMMA IntactInit == Init => Intact
<1> SUFFICES ASSUME Init PROVE Intact
  OBVIOUS
<1>1. TypeOK /\ val \in [Ids -> Values]
  BY MigrationAssumption DEF Init, TypeOK, Records, Ids, Empty
<1>2. SlotsHold
  <2> SUFFICES ASSUME NEW id \in used
               PROVE  slot[id].fmt = Expected(id) /\ slot[id].val = val[id]
    BY DEF SlotsHold
  <2>1. id \in Ids /\ ~(id < sb.cursor) /\ sb.legacy /\ pc = "free"
    BY MigrationAssumption DEF Init, Ids
  <2> QED BY <2>1 DEF Init, Expected, VersionFor
<1>3. CacheHolds /\ ReplayIsHarmless /\ Running /\ NoJournalNoFrames
  BY DEF Init, CacheHolds, ReplayIsHarmless, Running, Empty, NoJournalNoFrames
<1> QED BY <1>1, <1>2, <1>3 DEF Intact

\* What Intact says of the state between two calls of migrate.
LEMMA IntactGivesSafety == Intact => InodesSurvive /\ FramesFit /\ RewritesOnce
<1> SUFFICES ASSUME Intact PROVE InodesSurvive /\ FramesFit /\ RewritesOnce
  OBVIOUS
<1>1. InodesSurvive
  BY DEF Intact, SlotsHold, CacheHolds, Expected, Decode, InodesSurvive
<1>2. FramesFit
  BY DEF Intact, ReplayIsHarmless, FramesFit
<1>3. ASSUME pc = "rewrite", NEW id \in used, id >= cursor PROVE slot[id].fmt = 1
  <2>1. id \in Int /\ cursor \in Int /\ sb.cursor \in Int /\ sb.legacy /\ sb.cursor <= cursor
    BY <1>3, MigrationAssumption DEF Intact, TypeOK, Running, Ids
  <2>2. Expected(id) = 1
    BY <1>3, <2>1 DEF Expected, VersionFor
  <2> QED BY <1>3, <2>2 DEF Intact, SlotsHold
<1> QED BY <1>1, <1>2, <1>3 DEF RewritesOnce

\* Reading puts what the slot holds into the cache.
LEMMA ReadKeeps ==
  ASSUME Intact, NEW id \in Ids, ReadInode(id) PROVE Intact'
<1> USE DEF Intact
<1>1. Decode(slot[id], VersionFor(id)) = val[id]
  BY DEF ReadInode, SlotsHold, Expected, Decode
<1>2. CacheHolds'
  BY <1>1 DEF ReadInode, CacheHolds, With
<1>3. TypeOK'
  BY DEF ReadInode, TypeOK, With
<1>4. /\ SlotsHold' /\ ReplayIsHarmless' /\ Running' /\ (val \in [Ids -> Values])'
      /\ NoJournalNoFrames'
  BY DEF ReadInode, SlotsHold, ReplayIsHarmless, Running, Expected, VersionFor,
         NoJournalNoFrames
<1> QED BY <1>2, <1>3, <1>4

\* The ring after a transaction: nothing, or the new images and older ones.
LEMMA LoggedKeeps ==
  ASSUME NEW id \in Ids, NEW image, Logged(id, image), ~journaled => id \notin DOMAIN pending,
         DOMAIN pending \subseteq Ids
  PROVE  /\ DOMAIN pending' \subseteq Ids
         /\ id \in DOMAIN pending' => pending'[id] = image
         /\ \A i \in DOMAIN pending' : i # id => i \in DOMAIN pending /\ pending'[i] = pending[i]
BY ZenonT(60) DEF Logged, With, Empty

\* A transaction writes the record and its frame in the slot's own format.
LEMMA WriteKeeps ==
  ASSUME Intact, NEW id \in Ids, NEW v \in Values, WriteInode(id, v)
  PROVE  Intact'
<1> USE DEF Intact
<1>0. pc = "free" /\ pc' = "free" /\ sb' = sb
  BY DEF WriteInode
<1>1. /\ DOMAIN pending' \subseteq Ids
      /\ id \in DOMAIN pending' => pending'[id] = [used |-> TRUE, rec |-> EncodeInodeSlot(id, v)]
      /\ \A i \in DOMAIN pending' : i # id => i \in DOMAIN pending /\ pending'[i] = pending[i]
  BY LoggedKeeps DEF WriteInode, TypeOK, NoJournalNoFrames
<1>2. EncodeInodeSlot(id, v) \in Records /\ EncodeInodeSlot(id, v).fmt = VersionFor(id)
      /\ EncodeInodeSlot(id, v).val = v
  BY DEF EncodeInodeSlot, Records, VersionFor
<1>3. /\ slot' \in [Ids -> Records] /\ val' \in [Ids -> Values]
      /\ slot'[id] = EncodeInodeSlot(id, v) /\ val'[id] = v
      /\ \A i \in Ids : i # id => slot'[i] = slot[i] /\ val'[i] = val[i]
  BY <1>2 DEF WriteInode, TypeOK
<1>4. \A i \in Ids : VersionFor(i)' = VersionFor(i) /\ Expected(i)' = VersionFor(i)
                     /\ Expected(i) = VersionFor(i)
  BY <1>0 DEF VersionFor, Expected
<1>5. used' = used \cup {id} /\ used' \subseteq Ids
  BY DEF WriteInode, TypeOK
<1>6. TypeOK'
  BY <1>0, <1>1, <1>3, <1>5, MigrationAssumption DEF WriteInode, TypeOK, With
<1>7. SlotsHold'
  BY <1>2, <1>3, <1>4, <1>5 DEF SlotsHold, TypeOK
<1>8. CacheHolds'
  BY <1>3, <1>5 DEF WriteInode, CacheHolds, With, TypeOK
<1>9. ReplayIsHarmless'
  <2> SUFFICES ASSUME NEW i \in DOMAIN pending'
               PROVE  /\ pending'[i].used <=> i \in used'
                      /\ pending'[i].rec # NoRec =>
                           /\ pending'[i].rec \in Records
                           /\ pending'[i].rec.fmt = VersionFor(i)'
                           /\ i \in used' => pending'[i].rec = slot'[i]
    BY DEF ReplayIsHarmless
  <2>1. i \in Ids
    BY <1>1
  <2>2. CASE i = id
    BY <2>1, <2>2, <1>1, <1>2, <1>3, <1>4, <1>5
  <2>3. CASE i # id
    BY <2>1, <2>3, <1>1, <1>3, <1>4, <1>5 DEF ReplayIsHarmless
  <2> QED BY <2>2, <2>3
<1>10. NoJournalNoFrames'
  BY DEF WriteInode, Logged, NoJournalNoFrames
<1> QED
  BY <1>0, <1>3, <1>6, <1>7, <1>8, <1>9, <1>10 DEF Running

\* A deletion leaves the slot, and a pending record with it.
LEMMA DeleteKeeps ==
  ASSUME Intact, NEW id \in Ids, Delete(id)
  PROVE  Intact'
<1> DEFINE rec == IF id \in DOMAIN pending THEN pending[id].rec ELSE NoRec
<1> USE DEF Intact
<1>0. pc = "free" /\ pc' = "free" /\ sb' = sb /\ slot' = slot /\ val' = val
  BY DEF Delete
<1>1. /\ DOMAIN pending' \subseteq Ids
      /\ id \in DOMAIN pending' => pending'[id] = [used |-> FALSE, rec |-> rec]
      /\ \A i \in DOMAIN pending' : i # id => i \in DOMAIN pending /\ pending'[i] = pending[i]
  BY LoggedKeeps DEF Delete, TypeOK, NoJournalNoFrames
<1>2. rec # NoRec => rec \in Records /\ rec.fmt = VersionFor(id)
  BY DEF ReplayIsHarmless
<1>4. \A i \in Ids : VersionFor(i)' = VersionFor(i) /\ Expected(i)' = Expected(i)
  BY <1>0 DEF VersionFor, Expected
<1>5. used' = used \ {id} /\ used' \subseteq Ids
  BY DEF Delete, TypeOK
<1>6. TypeOK'
  BY <1>0, <1>1, <1>5, MigrationAssumption DEF Delete, TypeOK, Without
<1>7. SlotsHold'
  BY <1>0, <1>4, <1>5 DEF SlotsHold, TypeOK
<1>8. CacheHolds'
  BY <1>0, <1>5 DEF Delete, CacheHolds, Without
<1>9. ReplayIsHarmless'
  <2> SUFFICES ASSUME NEW i \in DOMAIN pending'
               PROVE  /\ pending'[i].used <=> i \in used'
                      /\ pending'[i].rec # NoRec =>
                           /\ pending'[i].rec \in Records
                           /\ pending'[i].rec.fmt = VersionFor(i)'
                           /\ i \in used' => pending'[i].rec = slot'[i]
    BY DEF ReplayIsHarmless
  <2>1. i \in Ids
    BY <1>1
  <2>2. CASE i = id
    BY <2>1, <2>2, <1>1, <1>2, <1>4, <1>5
  <2>3. CASE i # id
    BY <2>1, <2>3, <1>0, <1>1, <1>4, <1>5 DEF ReplayIsHarmless
  <2> QED BY <2>2, <2>3
<1>10. NoJournalNoFrames'
  BY DEF Delete, Logged, NoJournalNoFrames
<1> QED
  BY <1>0, <1>6, <1>7, <1>8, <1>9, <1>10 DEF Running

\* A write past the journal is harmless where no frame is pending.
LEMMA InPlaceKeeps ==
  ASSUME Intact, "unlogged_write" \in Avoid,
         NEW id \in Ids, NEW v \in Values, WriteInodeInPlace(id, v)
  PROVE  Intact'
<1> USE DEF Intact
<1>0. /\ pc = "free" /\ pc' = "free" /\ sb' = sb /\ used' = used /\ pending' = pending
      /\ id \notin DOMAIN pending
  BY DEF WriteInodeInPlace, Avoids
<1>2. EncodeInodeSlot(id, v) \in Records /\ EncodeInodeSlot(id, v).fmt = VersionFor(id)
      /\ EncodeInodeSlot(id, v).val = v
  BY DEF EncodeInodeSlot, Records, VersionFor
<1>3. /\ slot' \in [Ids -> Records] /\ val' \in [Ids -> Values]
      /\ slot'[id] = EncodeInodeSlot(id, v) /\ val'[id] = v
      /\ \A i \in Ids : i # id => slot'[i] = slot[i] /\ val'[i] = val[i]
  BY <1>2 DEF WriteInodeInPlace, TypeOK
<1>4. \A i \in Ids : VersionFor(i)' = VersionFor(i) /\ Expected(i)' = VersionFor(i)
                     /\ Expected(i) = VersionFor(i)
  BY <1>0 DEF VersionFor, Expected
<1>6. TypeOK'
  BY <1>0, <1>3, MigrationAssumption DEF WriteInodeInPlace, TypeOK, With
<1>7. SlotsHold'
  BY <1>0, <1>2, <1>3, <1>4 DEF SlotsHold, TypeOK
<1>8. CacheHolds'
  BY <1>0, <1>3 DEF WriteInodeInPlace, CacheHolds, With, TypeOK
<1>9. ReplayIsHarmless'
  BY <1>0, <1>3, <1>4 DEF ReplayIsHarmless, TypeOK
<1>10. NoJournalNoFrames'
  BY <1>0 DEF WriteInodeInPlace, NoJournalNoFrames
<1> QED
  BY <1>0, <1>3, <1>6, <1>7, <1>8, <1>9, <1>10 DEF Running

\* The ring is empty before the first slot is rewritten.
LEMMA BeginKeeps == ASSUME Intact, MigrateBegin PROVE Intact'
<1> USE DEF Intact
<1>1. pc = "free" /\ pc' = "rewrite" /\ sb.legacy /\ sb' = sb /\ cursor' = sb.cursor
      /\ DOMAIN pending' = {}
  BY DEF MigrateBegin, Empty
<1>2. TypeOK'
  BY <1>1 DEF MigrateBegin, TypeOK
<1>3. \A i \in Ids : Expected(i)' = Expected(i)
  BY <1>1 DEF Expected, VersionFor
<1>4. SlotsHold' /\ CacheHolds' /\ (val \in [Ids -> Values])'
  BY <1>3 DEF MigrateBegin, SlotsHold, CacheHolds, TypeOK
<1>5. sb.cursor \in Int /\ cursor' = sb'.cursor
  BY <1>1, MigrationAssumption DEF TypeOK
<1>6. ReplayIsHarmless' /\ Running' /\ NoJournalNoFrames'
  BY <1>1, <1>5 DEF ReplayIsHarmless, Running, NoJournalNoFrames
<1> QED BY <1>2, <1>4, <1>6

\* A round rewrites the slot at the cursor, which was v1, and a persisted
\* cursor is migrate's own.
LEMMA SlotKeeps ==
  ASSUME Intact, NEW ok \in BOOLEAN, MigrateSlot(ok) PROVE Intact'
<1> USE DEF Intact
<1>1. /\ pc = "rewrite" /\ sb.legacy /\ sb.cursor \in Int /\ cursor \in Int
      /\ sb.cursor <= cursor /\ cursor < N /\ 0 <= cursor /\ DOMAIN pending = {}
      /\ 0 <= sb.cursor
  BY MigrationAssumption DEF MigrateSlot, Running, TypeOK
<1>2. cursor \in Ids /\ cursor' = cursor + 1 /\ used' = used /\ val' = val /\ cache' = cache
      /\ pending' = pending /\ journaled' = journaled
  BY <1>1, MigrationAssumption DEF MigrateSlot, Ids
<1>3. /\ sb' = sb \/ (sb' = [sb EXCEPT !.cursor = cursor + 1] /\ (cursor + 1) % Batch = 0)
      /\ pc' = "rewrite" \/ (pc' = "free" /\ sb' = [sb EXCEPT !.cursor = cursor + 1])
  BY DEF MigrateSlot
<1>4. /\ sb'.legacy /\ (sb'.cursor = sb.cursor \/ sb'.cursor = cursor + 1)
      /\ sb' \in [legacy : BOOLEAN, cursor : 0 .. N]
      /\ pc' = "free" => sb'.cursor = cursor + 1
  BY <1>1, <1>3, MigrationAssumption, SMTT(60) DEF TypeOK
<1>5. cursor \in used => slot[cursor].fmt = 1 /\ slot[cursor].val = val[cursor]
  BY <1>1, <1>2 DEF SlotsHold, Expected, VersionFor
<1>6. /\ slot' \in [Ids -> Records]
      /\ cursor \in used => slot'[cursor].fmt = 2 /\ slot'[cursor].val = val[cursor]
      /\ \A i \in Ids : i # cursor => slot'[i] = slot[i]
  <2>1. CASE cursor \notin used
    BY <2>1 DEF MigrateSlot, TypeOK
  <2>2. CASE cursor \in used
    <3>1. slot' = [slot EXCEPT ![cursor] = [fmt |-> 2, val |-> val[cursor]]]
      BY <2>2, <1>5, Zenon DEF MigrateSlot, Decode
    <3>2. val[cursor] \in Values
      BY <1>2
    <3> QED BY <3>1, <3>2, <1>2 DEF TypeOK, Records
  <2> QED BY <2>1, <2>2
<1>7. \A i \in Ids : Expected(i)' = IF i = cursor THEN 2 ELSE Expected(i)
  <2> SUFFICES ASSUME NEW i \in Ids
               PROVE  Expected(i)' = IF i = cursor THEN 2 ELSE Expected(i)
    OBVIOUS
  <2>1. i \in Int
    BY MigrationAssumption DEF Ids
  <2>2. CASE i <= cursor
    BY <2>1, <2>2, <1>1, <1>2, <1>3, <1>4 DEF Expected, VersionFor
  <2>3. CASE i > cursor
    BY <2>1, <2>3, <1>1, <1>2, <1>3, <1>4 DEF Expected, VersionFor
  <2> QED BY <2>1, <2>2, <2>3, <1>1
<1>8. SlotsHold' /\ CacheHolds' /\ (val \in [Ids -> Values])'
  BY <1>2, <1>6, <1>7 DEF SlotsHold, CacheHolds, TypeOK
<1>9. TypeOK'
  BY <1>1, <1>2, <1>3, <1>4, <1>6, MigrationAssumption, SMTT(60) DEF TypeOK, MigrateSlot, FlushResult
<1>10. ReplayIsHarmless' /\ Running' /\ NoJournalNoFrames'
  BY <1>1, <1>2, <1>4 DEF ReplayIsHarmless, Running, NoJournalNoFrames
<1> QED BY <1>8, <1>9, <1>10

\* Every slot is v2 when the superblock says so.
LEMMA EndKeeps ==
  ASSUME Intact, NEW ok \in BOOLEAN, MigrateEnd(ok) PROVE Intact'
<1> USE DEF Intact
<1>1. /\ pc = "rewrite" /\ pc' = "free" /\ cursor = N /\ DOMAIN pending = {}
      /\ used' = used /\ val' = val /\ slot' = slot /\ pending' = pending
      /\ journaled' = journaled /\ cursor' = cursor
  BY MigrationAssumption DEF MigrateEnd, Running, TypeOK
<1>2. sb' \in [legacy : BOOLEAN, cursor : 0 .. N] /\ ~sb'.legacy /\ sb'.cursor = 0
  BY MigrationAssumption DEF MigrateEnd, Finished, TypeOK
<1>3. \A i \in Ids : Expected(i)' = 2 /\ Expected(i) = 2
  BY <1>1, <1>2, MigrationAssumption DEF Expected, VersionFor, Ids
<1>4. SlotsHold' /\ (val \in [Ids -> Values])'
  BY <1>1, <1>3 DEF SlotsHold, TypeOK
<1>5. CacheHolds'
  BY <1>1 DEF MigrateEnd, CacheHolds, Empty
<1>6. TypeOK'
  BY <1>1, <1>2, MigrationAssumption DEF TypeOK, MigrateEnd, FlushResult, Empty
<1>7. ReplayIsHarmless' /\ Running' /\ NoJournalNoFrames'
  BY <1>1 DEF ReplayIsHarmless, Running, NoJournalNoFrames
<1> QED BY <1>4, <1>5, <1>6, <1>7

\* A mount puts back what the slots hold, and reads them by the superblock.
LEMMA RemountKeeps ==
  ASSUME Intact, "killed_in_batch" \in Avoid, Remount PROVE Intact'
<1> USE DEF Intact
<1>1. Unmarked = {} /\ pc' = "free" /\ sb' = sb /\ val' = val /\ DOMAIN pending' = {}
      /\ DOMAIN cache' = {} /\ cursor' = 0 /\ journaled' = journaled
  BY DEF Remount, Avoids, Empty
<1>2. used' = used
  BY DEF Remount, ReplayIsHarmless, TypeOK
<1>3. slot' \in [Ids -> Records] /\ \A id \in used : slot'[id] = slot[id]
  BY DEF Remount, ReplayIsHarmless, TypeOK
<1>4. \A id \in used : Expected(id)' = Expected(id)
  <2> SUFFICES ASSUME NEW id \in used PROVE Expected(id)' = Expected(id)
    OBVIOUS
  <2>1. id \in Int /\ cursor \in Int /\ sb.cursor \in Int
    BY MigrationAssumption DEF TypeOK, Ids
  <2>2. pc = "rewrite" => id < sb.cursor \/ id >= cursor
    BY <1>1, <2>1 DEF Unmarked
  <2> QED BY <1>1, <2>1, <2>2 DEF Expected, VersionFor, Running
<1>5. SlotsHold' /\ CacheHolds' /\ (val \in [Ids -> Values])'
  BY <1>1, <1>2, <1>3, <1>4 DEF SlotsHold, CacheHolds
<1>6. TypeOK'
  BY <1>1, <1>2, <1>3, MigrationAssumption, SMTT(60) DEF TypeOK, Remount
<1>7. ReplayIsHarmless' /\ Running' /\ NoJournalNoFrames'
  BY <1>1 DEF ReplayIsHarmless, Running, NoJournalNoFrames
<1> QED BY <1>5, <1>6, <1>7

\* Without a kill inside a batch and without an unlogged write over a pending
\* frame, an inode reads back as it was last written whatever number of times
\* migrate() is interrupted, resumed and followed by a mount; no pending frame
\* is in an outgoing format, and no slot is converted twice.
THEOREM MigrationKeepsInodes ==
  ASSUME "killed_in_batch" \in Avoid, "unlogged_write" \in Avoid
  PROVE  Spec => [](InodesSurvive /\ FramesFit /\ RewritesOnce)
<1>1. Intact /\ [Next]_vars => Intact'
  <2> SUFFICES ASSUME Intact, [Next]_vars PROVE Intact'
    OBVIOUS
  <2>1. ASSUME NEW id \in Ids, ReadInode(id) \/ Delete(id) PROVE Intact'
    BY <2>1, ReadKeeps, DeleteKeeps
  <2>2. ASSUME NEW id \in Ids, NEW v \in Values,
               WriteInode(id, v) \/ WriteInodeInPlace(id, v)
        PROVE  Intact'
    BY <2>2, WriteKeeps, InPlaceKeeps
  <2>3. CASE MigrateBegin
    BY <2>3, BeginKeeps
  <2>4. ASSUME NEW ok \in BOOLEAN, MigrateSlot(ok) \/ MigrateEnd(ok) PROVE Intact'
    BY <2>4, SlotKeeps, EndKeeps
  <2>5. CASE Remount
    BY <2>5, RemountKeeps
  <2>6. CASE UNCHANGED vars
    BY <2>6 DEF vars, Intact, TypeOK, SlotsHold, CacheHolds, ReplayIsHarmless, Running,
                Expected, VersionFor, NoJournalNoFrames
  <2> QED BY <2>1, <2>2, <2>3, <2>4, <2>5, <2>6 DEF Next
<1> QED
  BY <1>1, IntactInit, IntactGivesSafety, PTL DEF Spec

-----------------------------------------------------------------------------
(* What holds whatever is avoided or not *)

\* The frames that are pending, and the superblock while migrate runs.
PendingFits ==
  \A id \in DOMAIN pending :
    pending[id].rec # NoRec => pending[id].rec \in Records /\ pending[id].rec.fmt = VersionFor(id)

Emptied == pc = "rewrite" => sb.legacy /\ DOMAIN pending = {}

Fit == TypeOK /\ NoJournalNoFrames /\ PendingFits /\ Emptied

\* A logged operation adds a frame in the format of its slot.
LEMMA LoggedFits ==
  ASSUME Fit, NEW id \in Ids, NEW u, NEW rec, Logged(id, [used |-> u, rec |-> rec]),
         rec # NoRec => rec \in Records /\ rec.fmt = VersionFor(id),
         pc = "free", UNCHANGED <<sb, pc, journaled>>
  PROVE  DOMAIN pending' \subseteq Ids /\ NoJournalNoFrames' /\ PendingFits' /\ Emptied'
<1>1. ~journaled => id \notin DOMAIN pending
  BY SMTT(60) DEF Fit, NoJournalNoFrames
<1>2. /\ DOMAIN pending' \subseteq Ids
      /\ id \in DOMAIN pending' => pending'[id] = [used |-> u, rec |-> rec]
      /\ \A i \in DOMAIN pending' : i # id => i \in DOMAIN pending /\ pending'[i] = pending[i]
  BY <1>1, LoggedKeeps, SMTT(60) DEF Fit, TypeOK
<1>3. PendingFits'
  <2> SUFFICES ASSUME NEW i \in DOMAIN pending', pending'[i].rec # NoRec
               PROVE  pending'[i].rec \in Records /\ pending'[i].rec.fmt = VersionFor(i)
    BY DEF PendingFits, VersionFor
  <2> QED BY <1>2 DEF Fit, PendingFits
<1>4. NoJournalNoFrames'
  BY DEF Fit, NoJournalNoFrames, Logged
<1> QED BY <1>2, <1>3, <1>4 DEF Emptied

\* Every operation, and every step of migrate and of a mount, keeps it: also a
\* kill inside a batch and a write past the journal.
LEMMA FitKeeps == Fit /\ [Next]_vars => Fit'
<1> SUFFICES ASSUME Fit, [Next]_vars PROVE Fit'
  OBVIOUS
<1>0. TypeOK /\ NoJournalNoFrames /\ PendingFits /\ Emptied
  BY DEF Fit
<1>1. ASSUME NEW id \in Ids, ReadInode(id) PROVE Fit'
  <2>1. TypeOK'
    BY <1>0, <1>1 DEF ReadInode, TypeOK, With
  <2> QED BY <1>0, <1>1, <2>1
          DEF Fit, ReadInode, NoJournalNoFrames, PendingFits, Emptied, VersionFor
<1>2. ASSUME NEW id \in Ids, Delete(id) PROVE Fit'
  <2> DEFINE rec == IF id \in DOMAIN pending THEN pending[id].rec ELSE NoRec
  <2>1. /\ pc = "free" /\ Logged(id, [used |-> FALSE, rec |-> rec])
        /\ UNCHANGED <<sb, pc, journaled>>
    BY <1>2 DEF Delete
  <2>2. rec # NoRec => rec \in Records /\ rec.fmt = VersionFor(id)
    BY <1>0 DEF PendingFits
  <2> HIDE DEF rec
  <2>3. DOMAIN pending' \subseteq Ids /\ NoJournalNoFrames' /\ PendingFits' /\ Emptied'
    BY <2>1, <2>2, LoggedFits
  <2>4. TypeOK'
    BY <1>0, <1>2, <2>3, MigrationAssumption DEF Delete, TypeOK, Without
  <2> QED BY <2>3, <2>4 DEF Fit
<1>3. ASSUME NEW id \in Ids, NEW v \in Values PROVE
        EncodeInodeSlot(id, v) \in Records /\ EncodeInodeSlot(id, v).fmt = VersionFor(id)
  BY DEF EncodeInodeSlot, Records, VersionFor
<1>4. ASSUME NEW id \in Ids, NEW v \in Values, WriteInode(id, v) PROVE Fit'
  <2>1. /\ pc = "free" /\ Logged(id, [used |-> TRUE, rec |-> EncodeInodeSlot(id, v)])
        /\ UNCHANGED <<sb, pc, journaled>>
    BY <1>4, SMTT(60) DEF WriteInode
  <2>2. DOMAIN pending' \subseteq Ids /\ NoJournalNoFrames' /\ PendingFits' /\ Emptied'
    BY <1>3, <2>1, LoggedFits
  <2>3. slot' \in [Ids -> Records]
    BY <1>0, <1>3, <1>4 DEF WriteInode, TypeOK
  <2>4. TypeOK'
    BY <1>0, <1>4, <2>2, <2>3, MigrationAssumption, SMTT(60) DEF WriteInode, TypeOK, With
  <2> QED BY <2>2, <2>4 DEF Fit
<1>5. ASSUME NEW id \in Ids, NEW v \in Values, WriteInodeInPlace(id, v) PROVE Fit'
  <2>1. slot' \in [Ids -> Records]
    BY <1>0, <1>3, <1>5 DEF WriteInodeInPlace, TypeOK
  <2>2. TypeOK'
    BY <1>0, <1>5, <2>1, MigrationAssumption DEF WriteInodeInPlace, TypeOK, With
  <2> QED BY <1>0, <1>5, <2>2, SMTT(60)
          DEF Fit, WriteInodeInPlace, NoJournalNoFrames, PendingFits, Emptied, VersionFor
<1>6. CASE MigrateBegin
  <2>1. TypeOK' /\ DOMAIN pending' = {} /\ sb.legacy /\ sb' = sb
    BY <1>0, <1>6 DEF MigrateBegin, TypeOK, Empty
  <2> QED BY <2>1, SMTT(60) DEF Fit, NoJournalNoFrames, PendingFits, Emptied
<1>7. ASSUME NEW ok \in BOOLEAN, MigrateSlot(ok) PROVE Fit'
  <2>1. /\ sb.legacy /\ DOMAIN pending = {} /\ pending' = pending /\ journaled' = journaled
        /\ cursor \in Int /\ 0 <= cursor /\ cursor < N /\ cursor' = cursor + 1
    BY <1>0, <1>7, MigrationAssumption DEF MigrateSlot, Emptied, TypeOK
  <2>2. cursor \in Ids /\ cursor + 1 \in 0 .. N
    BY <2>1, MigrationAssumption DEF Ids
  <2>3. sb' \in [legacy : BOOLEAN, cursor : 0 .. N] /\ sb'.legacy
    BY <1>0, <1>7, <2>1, <2>2 DEF MigrateSlot, TypeOK
  <2>4. slot' \in [Ids -> Records]
    <3>1. slot[cursor] \in Records
      BY <1>0, <2>2 DEF TypeOK
    <3>2. [fmt |-> 2, val |-> Decode(slot[cursor], 1)] \in Records
      BY <3>1 DEF Decode, Records
    <3> QED BY <1>0, <1>7, <2>2, <3>2 DEF MigrateSlot, TypeOK
  <2>5. faults' \in 0 .. MaxFaults /\ pc' \in {"free", "rewrite"}
    BY <1>0, <1>7, MigrationAssumption DEF MigrateSlot, FlushResult, TypeOK
  <2>6. TypeOK'
    BY <1>0, <1>7, <2>1, <2>2, <2>3, <2>4, <2>5 DEF MigrateSlot, TypeOK
  <2> QED BY <2>1, <2>3, <2>6 DEF Fit, NoJournalNoFrames, PendingFits, Emptied
<1>8. ASSUME NEW ok \in BOOLEAN, MigrateEnd(ok) PROVE Fit'
  <2>1. DOMAIN pending' = {} /\ pc' = "free"
    BY <1>0, <1>8 DEF MigrateEnd, Emptied
  <2>2. TypeOK'
    BY <1>0, <1>8, MigrationAssumption DEF MigrateEnd, FlushResult, Finished, TypeOK, Empty
  <2> QED BY <2>1, <2>2 DEF Fit, NoJournalNoFrames, PendingFits, Emptied
<1>9. CASE Remount
  <2>1. DOMAIN pending' = {} /\ DOMAIN cache' = {} /\ pc' = "free"
    BY <1>9 DEF Remount, Empty
  <2>2. slot' \in [Ids -> Records] /\ used' \subseteq Ids
    BY <1>0, <1>9 DEF Remount, PendingFits, TypeOK
  <2>3. TypeOK'
    BY <1>0, <1>9, <2>1, <2>2, MigrationAssumption DEF Remount, TypeOK
  <2> QED BY <2>1, <2>3 DEF Fit, NoJournalNoFrames, PendingFits, Emptied
<1>10. CASE UNCHANGED vars
  BY <1>10 DEF vars, Fit, TypeOK, NoJournalNoFrames, PendingFits, Emptied, VersionFor
<1> QED BY <1>1, <1>2, <1>4, <1>5, <1>6, <1>7, <1>8, <1>9, <1>10 DEF Next

\* Without any condition: a frame that a mount may still replay is in the format
\* its slot is read with, since migrate() empties the journal before the first
\* record changes its format, and no cursor leaves the table.
THEOREM FramesAlwaysFit == Spec => [](TypeOK /\ FramesFit)
<1>1. Init => Fit
  BY IntactInit DEF Init, Fit, Intact, PendingFits, Emptied, Empty
<1>2. Fit => TypeOK /\ FramesFit
  BY DEF Fit, PendingFits, FramesFit
<1> QED BY <1>1, <1>2, FitKeeps, PTL DEF Spec
=============================================================================
