---------------------------- MODULE JournalRing ----------------------------
(***************************************************************************)
(* The life of the metadata WAL inside one mounted image whose durability  *)
(* mode is not Strict (Lazy, the default, or RangeAsync): mutations append *)
(* a frame, persist the header and apply the frame's ops in place; flush() *)
(* retires frames behind the writers' back; the process may die anywhere,  *)
(* and the next mount replays the ring.  The mapping is shared page cache, *)
(* so everything stored in it survives the death of the process.           *)
(***************************************************************************)
EXTENDS JournalFrames

CONSTANTS MaxTx,       \* bound: number of transactions ever encoded
          FlushWindow  \* bound: cells appended by others during one flush()

ASSUME BoundsAssumption == MaxTx \in Nat /\ FlushWindow \in Nat

VARIABLES
    hdr,       \* the journal header block
    cells,     \* the record ring
    image,     \* image[k]: id of the transaction whose post-image k holds
    phase,     \* what the holder of the write lock is doing
    tx,        \* the transaction in hand: [id, keys, len]
    todo,      \* its locations not stored in place yet
    cursor,    \* recover(): offset of the next frame
    traversed, \* recover(): bytes_traversed, in cells
    flusher    \* flush(): [pc, snap], snap the head it read

(* Observers: they record the history that the properties and the two     *)
(* bounds speak of.                                                        *)
VARIABLES
    encoded,   \* transactions encoded so far (the id of the last one)
    latest,    \* latest[k]: last committed transaction that wrote k
    straight,  \* the ring was straight when the process died
    synced,    \* transactions whose effects flush()'s msync covered
    since      \* cells head advanced by since the running flush() read it

observers == <<encoded, latest, straight, synced, since>>
vars == <<hdr, cells, image, phase, tx, todo, cursor, traversed, flusher,
          observers>>

NoTx == [id |-> 0, keys |-> {}, len |-> 0]

TypeOK ==
    /\ hdr \in Header
    /\ cells \in [Offsets -> Frag]
    /\ image \in [Key -> Nat]
    /\ phase \in {"idle", "copy", "apply", "recover"}
    /\ tx \in [id : Nat, keys : SUBSET Key, len : Nat]
    /\ todo \in SUBSET Key
    /\ cursor \in Offsets
    /\ traversed \in Nat
    /\ flusher \in [pc : {"idle", "snapped", "synced"}, snap : Offsets]
    /\ encoded \in Nat
    /\ latest \in [Key -> Nat]
    /\ straight \in BOOLEAN
    /\ synced \in Nat
    /\ since \in Nat

(* JournalRing::create on a freshly formatted image *)
Init ==
    /\ hdr = FreshHeader
    /\ cells = [c \in Offsets |-> Torn]
    /\ image = [k \in Key |-> 0]
    /\ phase = "idle"
    /\ tx = NoTx
    /\ todo = {}
    /\ cursor = 0
    /\ traversed = 0
    /\ flusher = [pc |-> "idle", snap |-> 0]
    /\ encoded = 0
    /\ latest = [k \in Key |-> 0]
    /\ straight = TRUE
    /\ synced = 0
    /\ since = 0

----------------------------------------------------------------------------
(* Mutations: commit_journal_tx and apply_journal_ops under the write lock *)

(* append: the frame is being copied into the ring; each of its cells may  *)
(* still be old, be torn, or already be new.                               *)
CopyFrame(keys, len) ==
    /\ phase = "idle"
    /\ encoded < MaxTx
    /\ len <= RingSize
    /\ flusher.pc # "idle" => since + Advance(hdr, len) <= FlushWindow
    /\ tx' = [id |-> encoded + 1, keys |-> keys, len |-> len]
    /\ encoded' = encoded + 1
    /\ \E old, torn \in SUBSET Span(hdr, len) :
         cells' = [c \in Offsets |->
                     IF c \in old THEN cells[c]
                     ELSE IF c \in torn THEN Torn
                     ELSE AppendCells(cells, hdr, encoded + 1, keys, len)[c]]
    /\ phase' = "copy"
    /\ UNCHANGED <<hdr, image, todo, cursor, traversed, flusher, latest,
                   straight, synced, since>>

(* append: the copy is complete and the header is persisted.  This is the  *)
(* commit point.                                                           *)
PersistHeader ==
    /\ phase = "copy"
    /\ cells' = AppendCells(cells, hdr, tx.id, tx.keys, tx.len)
    /\ hdr' = AppendHeader(hdr, tx.len)
    /\ phase' = "apply"
    /\ todo' = tx.keys
    /\ latest' = [k \in Key |-> IF k \in tx.keys THEN tx.id ELSE latest[k]]
    /\ since' = IF flusher.pc = "idle" THEN 0
                ELSE since + Advance(hdr, tx.len)
    /\ UNCHANGED <<image, tx, cursor, traversed, flusher, encoded, straight,
                   synced>>

(* apply_op_in_place: one location is stored; after the last one the       *)
(* mutation returns and the write lock is released.                        *)
ApplyKey(k) ==
    /\ phase = "apply"
    /\ k \in todo
    /\ image' = [image EXCEPT ![k] = tx.id]
    /\ todo' = todo \ {k}
    /\ IF todo = {k} THEN phase' = "idle" /\ tx' = NoTx
                    ELSE UNCHANGED <<phase, tx>>
    /\ UNCHANGED <<hdr, cells, cursor, traversed, flusher, observers>>

----------------------------------------------------------------------------
(* flush(): three critical sections of one thread (sync_mutex), between    *)
(* which other threads may commit.                                         *)

FlushSnapshot ==
    /\ phase = "idle"
    /\ flusher.pc = "idle"
    /\ flusher' = [pc |-> "snapped", snap |-> hdr.head]
    /\ since' = 0
    /\ UNCHANGED <<hdr, cells, image, phase, tx, todo, cursor, traversed,
                   encoded, latest, straight, synced>>

FlushSync ==
    /\ phase = "idle"
    /\ flusher.pc = "snapped"
    /\ flusher' = [flusher EXCEPT !.pc = "synced"]
    /\ synced' = encoded
    /\ UNCHANGED <<hdr, cells, image, phase, tx, todo, cursor, traversed,
                   encoded, latest, straight, since>>

(* Mutant of FlushReclaim: retires up to the current head, not the snapshot. *)
FlushReclaim_CurrentHead ==
    /\ phase = "idle"
    /\ flusher.pc = "synced"
    /\ hdr' = CheckpointTo(hdr, hdr.head)
    /\ flusher' = [pc |-> "idle", snap |-> 0]
    /\ since' = 0
    /\ synced' = 0
    /\ UNCHANGED <<cells, image, phase, tx, todo, cursor, traversed, encoded,
                   latest, straight>>

FlushReclaim ==
    /\ phase = "idle"
    /\ flusher.pc = "synced"
    /\ hdr' = CheckpointTo(hdr, flusher.snap)
    /\ flusher' = [pc |-> "idle", snap |-> 0]
    /\ since' = 0
    /\ synced' = 0
    /\ UNCHANGED <<cells, image, phase, tx, todo, cursor, traversed, encoded,
                   latest, straight>>

(* checkpoint_journal_now *)
CheckpointNow ==
    /\ phase = "idle"
    /\ hdr' = CheckpointTo(hdr, hdr.head)
    /\ UNCHANGED <<cells, image, phase, tx, todo, cursor, traversed, flusher,
                   observers>>

----------------------------------------------------------------------------
(* Death of the process, or a clean close (which does not checkpoint), and *)
(* the mount that follows.                                                 *)

(* The unreplayed frames lie in one run tail .. head - 1, and the frame in *)
(* hand, if any, is placed after them.                                     *)
Straight ==
    \/ phase = "idle" /\ hdr.tail <= hdr.head
    \/ phase = "copy" /\ hdr.tail <= hdr.head /\ hdr.head + tx.len <= RingSize
    \/ phase = "apply" /\ hdr.tail < hdr.head

Crash ==
    /\ phase' = "recover"
    /\ tx' = NoTx
    /\ todo' = {}
    /\ cursor' = hdr.tail
    /\ traversed' = 0
    /\ flusher' = [pc |-> "idle", snap |-> 0]
    /\ straight' = IF phase = "recover" THEN straight ELSE Straight
    /\ since' = 0
    /\ synced' = 0
    /\ UNCHANGED <<hdr, cells, image, encoded, latest>>

(* Mutant of MoreFrames: the loop has no bound on the bytes traversed. *)
MoreFrames_Unbounded == cursor # hdr.head /\ Decodes(cells, cursor)

(* The condition of recover()'s loop. *)
MoreFrames ==
    cursor # hdr.head /\ traversed < RingSize /\ Decodes(cells, cursor)

(* Mutant of RecoverFrame: a frame is retired as soon as it is decoded. *)
RecoverFrame_RetireEarly ==
    /\ phase = "recover"
    /\ todo = {}
    /\ MoreFrames
    /\ tx' = [id   |-> cells[cursor].id,
              keys |-> cells[cursor].keys,
              len  |-> cells[cursor].len]
    /\ todo' = cells[cursor].keys
    /\ cursor' = NextFrame(cells, cursor)
    /\ traversed' = traversed + cells[cursor].len
    /\ hdr' = [hdr EXCEPT !.tail = NextFrame(cells, cursor)]
    /\ UNCHANGED <<cells, image, phase, flusher, observers>>

(* recover: one frame is decoded.  recover_journal applies the collected   *)
(* ops after the scan; applying never touches the ring, so the order of    *)
(* decoding and applying is not observable.                                *)
RecoverFrame ==
    /\ phase = "recover"
    /\ todo = {}
    /\ MoreFrames
    /\ tx' = [id   |-> cells[cursor].id,
              keys |-> cells[cursor].keys,
              len  |-> cells[cursor].len]
    /\ todo' = cells[cursor].keys
    /\ cursor' = NextFrame(cells, cursor)
    /\ traversed' = traversed + cells[cursor].len
    /\ UNCHANGED <<hdr, cells, image, phase, flusher, observers>>

RecoverKey(k) ==
    /\ phase = "recover"
    /\ k \in todo
    /\ image' = [image EXCEPT ![k] = tx.id]
    /\ todo' = todo \ {k}
    /\ UNCHANGED <<hdr, cells, phase, tx, cursor, traversed, flusher,
                   observers>>

(* The scan has ended: the header is reset and the image is mounted.       *)
(* What the image holds now is what the program goes on from.              *)
RecoverDone ==
    /\ phase = "recover"
    /\ todo = {}
    /\ ~MoreFrames
    /\ hdr' = ResetHeader(hdr)
    /\ phase' = "idle"
    /\ tx' = NoTx
    /\ cursor' = 0
    /\ traversed' = 0
    /\ latest' = image
    /\ straight' = TRUE
    /\ UNCHANGED <<cells, image, todo, flusher, encoded, synced, since>>

Next ==
    \/ \E keys \in SUBSET Key \ {{}}, len \in Lens : CopyFrame(keys, len)
    \/ PersistHeader
    \/ \E k \in Key : ApplyKey(k)
    \/ FlushSnapshot
    \/ FlushSync
    \/ FlushReclaim
    \/ CheckpointNow
    \/ Crash
    \/ RecoverFrame
    \/ \E k \in Key : RecoverKey(k)
    \/ RecoverDone

Spec == Init /\ [][Next]_vars

----------------------------------------------------------------------------
(* Properties *)

(* Mount-time recovery finishes the job: whenever the process died with    *)
(* the ring straight, the scan of recover() ends with every location       *)
(* holding the post-image of the last committed transaction that wrote it, *)
(* however often recovery itself was interrupted and restarted.  A         *)
(* transaction whose header was not persisted leaves no trace.             *)
RecoveryRestoresCommitted ==
    [][phase = "recover" /\ phase' = "idle" /\ straight
         => image = latest]_vars

(* Redo is idempotent: no step of a recovery, not even a crash in the      *)
(* middle of replaying a frame, changes the image that mounting yields.    *)
(* This holds whatever the shape of the ring.                              *)
RedoIsIdempotent ==
    [][phase = "recover"
         => Redo(hdr, cells, image)' = Redo(hdr, cells, image)]_vars

(* The scan of recover() passes over every cell at most once, so it ends   *)
(* and replays no frame twice, even when the header's head is not the      *)
(* start of any frame (a crash while a wrapped frame is being copied).     *)
ScanPassesOnce == traversed <= RingSize

(* What step 4 of flush() retires was covered by its msync: a transaction  *)
(* that a mount would have replayed, and that was committed after the      *)
(* msync, would still be replayed after the tail has moved to the          *)
(* snapshot of head taken before it.                                       *)
ReplayedIds == {cells[At(hdr, d)].id : d \in Replayed(hdr, cells)}

FlushRetiresOnlyCovered ==
    [][FlushReclaim => \A i \in ReplayedIds : i > synced => i \in ReplayedIds']_vars

----------------------------------------------------------------------------
(* What the comments of the code promise without a condition on the ring,  *)
(* and the ring does not keep in every state.                              *)

(* disk.rs:5945, "a crash during (3) leaves the WAL ahead of the image,    *)
(* and mount-time recovery finishes the job": while a committed            *)
(* transaction is being applied, a mount would replay it.                  *)
InFlightIsRecoverable == phase = "apply" => tx.id \in ReplayedIds

(* journal.rs:1255, "Replay every valid transaction between tail and head":*)
(* recovery reaches every decodable frame between the two cursors.         *)
EveryPendingFrameIsReplayed ==
    phase = "idle" =>
        \A d \in 0 .. Used(hdr) - 1 :
            Decodes(cells, At(hdr, d)) => d \in Replayed(hdr, cells)

(* disk.rs:5944, "A crash before (2) leaves the filesystem untouched": if  *)
(* the process dies before the header is persisted, the mount that follows *)
(* shows all of the transaction or nothing of it.                          *)
UncommittedIsAllOrNothing ==
    phase = "copy" =>
        LET mounted == Redo(hdr, cells, image)
        IN  \/ \A k \in tx.keys : mounted[k] = tx.id
            \/ \A k \in Key : mounted[k] # tx.id
----------------------------------------------------------------------------
(* The inductive invariant behind RecoveryRestoresCommitted.               *)

(* The cells lo .. hi - 1 hold complete frames, oldest first, and the last *)
(* of them to write a location is the last committed writer of it.         *)
Arc(lo, hi) == lo .. hi - 1

FramesFill(cs, lo, hi) ==
    \A c \in Arc(lo, hi) : \E s \in Arc(lo, c + 1) :
        /\ Decodes(cs, s)
        /\ c < s + cs[s].len
        /\ s + cs[s].len <= hi

OldestFirst(cs, lo, hi) ==
    \A c, d \in Arc(lo, hi) : c <= d => cs[c].id <= cs[d].id

HoldsLatest(cs, lat, lo, hi) ==
    \A c \in Arc(lo, hi) : \A k \in cs[c].keys :
        /\ cs[c].id <= lat[k]
        /\ \E d \in Arc(lo, hi) : k \in cs[d].keys /\ cs[d].id = lat[k]

ArcOK(cs, lat, lo, hi) ==
    /\ FramesFill(cs, lo, hi)
    /\ OldestFirst(cs, lo, hi)
    /\ HoldsLatest(cs, lat, lo, hi)

(* What is left of a recovery brings every location up to date. *)
ScanOK ==
    /\ hdr.tail <= cursor
    /\ cursor <= hdr.head
    /\ traversed = cursor - hdr.tail
    /\ cursor < hdr.head => Decodes(cells, cursor)
    /\ \A k \in todo : \E c \in Arc(hdr.tail, hdr.head) : k \in cells[c].keys
    /\ \A k \in Key :
         \/ \E c \in Arc(cursor, hdr.head) : k \in cells[c].keys
         \/ (IF k \in todo THEN tx.id ELSE image[k]) = latest[k]

(* The snapshot of a running flush() is a frame boundary of this lap, or   *)
(* head has wrapped since.                                                 *)
SnapshotOK ==
    /\ since < RingSize
    /\ \/ /\ flusher.snap + since = hdr.head
          /\ ArcOK(cells, latest, flusher.snap, hdr.head)
       \/ flusher.snap + since = hdr.head + RingSize

IdsOK ==
    /\ \A c \in Offsets : cells[c].id <= encoded
    /\ \A k \in Key : image[k] <= encoded /\ latest[k] <= encoded
    /\ tx.id <= encoded

CopyOK ==
    /\ tx.id = encoded
    /\ tx.len \in 1 .. RingSize
    /\ flusher.pc # "idle" => since + Advance(hdr, tx.len) <= FlushWindow

ApplyOK ==
    /\ \A k \in Key : IF k \in todo THEN latest[k] = tx.id ELSE image[k] = latest[k]
    /\ Straight => \A k \in todo :
                     \E c \in Arc(hdr.tail, hdr.head) : k \in cells[c].keys

IInv ==
    /\ TypeOK
    /\ IdsOK
    /\ flusher.pc # "idle" => SnapshotOK
    /\ phase # "recover" /\ Straight => ArcOK(cells, latest, hdr.tail, hdr.head)
    /\ phase \in {"idle", "copy"} => todo = {} /\ image = latest
    /\ phase = "copy" => CopyOK
    /\ phase = "apply" => ApplyOK
    /\ phase = "recover" => flusher.pc = "idle"
    /\ phase = "recover" /\ straight
         => ArcOK(cells, latest, hdr.tail, hdr.head) /\ ScanOK
============================================================================
