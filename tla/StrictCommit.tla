---------------------------- MODULE StrictCommit ----------------------------
(***************************************************************************)
(* Metadata mutations of a journaled image in DurabilityMode::Strict, with *)
(* the mapping and the disk kept apart, and power losses.  Every mutation  *)
(* appends a frame, msyncs the frame and then the header, applies its ops  *)
(* in the mapping, msyncs the ranges it names and checkpoints the ring;    *)
(* which of the last two a mutation does depends on its kind.  Between any *)
(* two steps the kernel may write back any dirty page.                     *)
(***************************************************************************)
EXTENDS JournalFrames, Sequences

CONSTANTS MaxTx,       \* bound: number of transactions ever encoded
          MaxLosses,   \* bound: number of power losses
          Kinds,       \* the kinds of mutation the program performs
          PointerKeys, \* the locations that are slots of pointer blocks
          HeaderRaces  \* steps during which the header page may overtake
                       \* the other dirty pages on their way to the disk

AllKinds == {"create", "write", "shrink", "expand"}

ASSUME StrictAssumption ==
    /\ MaxTx \in Nat /\ MaxLosses \in Nat
    /\ Kinds \subseteq AllKinds
    /\ PointerKeys \subseteq Key
    /\ HeaderRaces \subseteq {"frame", "mount"}

VARIABLES
    hdr, cells, image,     \* the mapping: journal header, ring, metadata
    dHdr, dCells, dImage,  \* the same pages on the disk
    phase,    \* the step of the mutation, or of the mount, in progress
    tx,       \* the transaction in hand: [id, keys, kind, span]
    todo,     \* its locations not yet applied, then not yet msynced
    losses    \* power losses so far

(* Observers. *)
VARIABLES
    encoded,  \* encoded[id]: the locations transaction id writes
    returned  \* returned[k]: what k held when a mutation or a mount returned

disk == <<dHdr, dCells, dImage>>
mapping == <<hdr, cells, image>>
vars == <<hdr, cells, image, dHdr, dCells, dImage, phase, tx, todo, losses,
          encoded, returned>>

NoTx == [id |-> 0, keys |-> {}, kind |-> "create", span |-> {}]

Ids == 1 .. MaxTx

TypeOK ==
    /\ hdr \in Header /\ dHdr \in Header
    /\ cells \in [Offsets -> Frag] /\ dCells \in [Offsets -> Frag]
    /\ image \in [Key -> Nat] /\ dImage \in [Key -> Nat]
    /\ phase \in {"idle", "frame", "header", "apply", "sync", "checkpoint",
                  "retire", "mount"}
    /\ tx \in [id : Nat, keys : SUBSET Key, kind : AllKinds,
               span : SUBSET Offsets]
    /\ todo \in SUBSET Key
    /\ losses \in Nat
    /\ encoded \in Seq(SUBSET Key)
    /\ returned \in [Key -> Nat]

(* A freshly formatted image: init_or_open_with_key ends with an msync of  *)
(* the whole mapping.                                                      *)
Init ==
    /\ hdr = FreshHeader /\ dHdr = FreshHeader
    /\ cells = [c \in Offsets |-> Torn] /\ dCells = [c \in Offsets |-> Torn]
    /\ image = [k \in Key |-> 0] /\ dImage = [k \in Key |-> 0]
    /\ phase = "idle"
    /\ tx = NoTx
    /\ todo = {}
    /\ losses = 0
    /\ encoded = <<>>
    /\ returned = [k \in Key |-> 0]

----------------------------------------------------------------------------
(* commit_journal_tx *)

(* append: frame and header are stored in the mapping. *)
AppendTx(keys, len, kind) ==
    LET id == Len(encoded) + 1 IN
    /\ phase = "idle"
    /\ id <= MaxTx
    /\ len <= RingSize
    /\ tx' = [id |-> id, keys |-> keys, kind |-> kind, span |-> Span(hdr, len)]
    /\ encoded' = encoded \o <<keys>>
    /\ cells' = AppendCells(cells, hdr, id, keys, len)
    /\ hdr' = AppendHeader(hdr, len)
    /\ phase' = "frame"
    /\ UNCHANGED <<image, disk, todo, losses, returned>>

(* Mutant of FlushFrame: the header goes to the disk without the frame. *)
FlushFrame_Skipped ==
    /\ phase = "frame"
    /\ phase' = "header"
    /\ UNCHANGED <<mapping, disk, tx, todo, losses, encoded, returned>>

(* flush_range of the frame *)
FlushFrame ==
    /\ phase = "frame"
    /\ dCells' = [c \in Offsets |-> IF c \in tx.span THEN cells[c] ELSE dCells[c]]
    /\ phase' = "header"
    /\ UNCHANGED <<mapping, dHdr, dImage, tx, todo, losses, encoded, returned>>

(* flush_range of the header: the commit point *)
FlushHeader ==
    /\ phase = "header"
    /\ dHdr' = hdr
    /\ phase' = "apply"
    /\ todo' = tx.keys
    /\ UNCHANGED <<mapping, dCells, dImage, tx, losses, encoded, returned>>

----------------------------------------------------------------------------
(* What the mutations do after the commit point *)

(* The locations whose ranges a mutation of a kind hands to                *)
(* sync_mutation_ranges.  A create names the bitmaps, the inodes, the      *)
(* directory block and the blocks it allocated, and a shrinking truncate   *)
(* the bitmap, the inode and the freed blocks: neither names a pointer     *)
(* block it already found and changed a slot of.  An expanding truncate    *)
(* does not call it.                                                       *)
Synced(kind, keys) ==
    CASE kind \in {"create", "shrink"} -> keys \ PointerKeys
      [] kind = "expand"               -> {}
      [] OTHER                         -> keys

(* Every mutation but write_data_journaled ends with maybe_checkpoint. *)
Checkpoints(kind) == kind # "write"

(* A mutation returns to its caller. *)
Return ==
    /\ phase' = "idle"
    /\ tx' = NoTx
    /\ returned' = image

(* apply_journal_ops *)
ApplyKey(k) ==
    /\ phase = "apply"
    /\ k \in todo
    /\ image' = [image EXCEPT ![k] = tx.id]
    /\ IF todo = {k} THEN phase' = "sync" /\ todo' = Synced(tx.kind, tx.keys)
                    ELSE todo' = todo \ {k} /\ UNCHANGED phase
    /\ UNCHANGED <<hdr, cells, disk, tx, losses, encoded, returned>>

(* sync_mutation_ranges: one flush_range per range *)
SyncKey(k) ==
    /\ phase = "sync"
    /\ k \in todo
    /\ dImage' = [dImage EXCEPT ![k] = image[k]]
    /\ todo' = todo \ {k}
    /\ UNCHANGED <<mapping, dHdr, dCells, phase, tx, losses, encoded, returned>>

(* Mutant of SyncDone: the ring is reclaimed before the ranges are synced. *)
SyncDone_Early ==
    /\ phase = "sync"
    /\ todo' = {}
    /\ IF Checkpoints(tx.kind)
       THEN phase' = "checkpoint" /\ UNCHANGED <<tx, returned>>
       ELSE Return
    /\ UNCHANGED <<mapping, disk, losses, encoded>>

SyncDone ==
    /\ phase = "sync"
    /\ todo = {}
    /\ IF Checkpoints(tx.kind)
       THEN phase' = "checkpoint" /\ UNCHANGED <<tx, returned>>
       ELSE Return
    /\ UNCHANGED <<mapping, disk, todo, losses, encoded>>

(* checkpoint_journal: tail := head in the mapping, then msync the header *)
Checkpoint ==
    /\ phase = "checkpoint"
    /\ hdr' = CheckpointTo(hdr, hdr.head)
    /\ phase' = "retire"
    /\ UNCHANGED <<cells, image, disk, tx, todo, losses, encoded, returned>>

FlushCheckpoint ==
    /\ phase = "retire"
    /\ dHdr' = hdr
    /\ Return
    /\ UNCHANGED <<mapping, dCells, dImage, todo, losses, encoded>>

----------------------------------------------------------------------------
(* The kernel and the power supply *)

WritebackImage(k) ==
    /\ dImage' = [dImage EXCEPT ![k] = image[k]]
    /\ UNCHANGED <<mapping, dHdr, dCells, phase, tx, todo, losses, encoded,
                   returned>>

(* A cell written back while the frame is being copied may be torn. *)
WritebackCell(c) ==
    /\ \/ dCells' = [dCells EXCEPT ![c] = cells[c]]
       \/ /\ phase = "frame" /\ c \in tx.span
          /\ dCells' = [dCells EXCEPT ![c] = Torn]
    /\ UNCHANGED <<mapping, dHdr, dImage, phase, tx, todo, losses, encoded,
                   returned>>

WritebackHeader ==
    /\ phase \in {"frame", "mount"} => phase \in HeaderRaces
    /\ dHdr' = hdr
    /\ UNCHANGED <<mapping, dCells, dImage, phase, tx, todo, losses, encoded,
                   returned>>

(* A power loss, and recover_journal on the disk's pages at the next mount: *)
(* the redo and the reset of the header are stores into the mapping.       *)
PowerLoss ==
    /\ losses < MaxLosses
    /\ losses' = losses + 1
    /\ hdr' = ResetHeader(dHdr)
    /\ cells' = dCells
    /\ image' = Redo(dHdr, dCells, dImage)
    /\ phase' = "mount"
    /\ tx' = NoTx
    /\ todo' = {}
    /\ UNCHANGED <<disk, encoded, returned>>

(* The mount msyncs the whole mapping and publishes the manager. *)
MountFlush ==
    /\ phase = "mount"
    /\ dHdr' = hdr
    /\ dCells' = cells
    /\ dImage' = image
    /\ Return
    /\ UNCHANGED <<mapping, todo, losses, encoded>>

Next ==
    \/ \E keys \in SUBSET Key \ {{}}, len \in Lens, kind \in Kinds :
         AppendTx(keys, len, kind)
    \/ FlushFrame
    \/ FlushHeader
    \/ \E k \in Key : ApplyKey(k)
    \/ \E k \in Key : SyncKey(k)
    \/ SyncDone
    \/ Checkpoint
    \/ FlushCheckpoint
    \/ \E k \in Key : WritebackImage(k)
    \/ \E c \in Offsets : WritebackCell(c)
    \/ WritebackHeader
    \/ PowerLoss
    \/ MountFlush

Spec == Init /\ [][Next]_vars

----------------------------------------------------------------------------
(* Properties *)

(* The image that a mount would produce if the power failed now. *)
Mounted == Redo(dHdr, dCells, dImage)

(* What a mount would produce changes only by whole transactions, in the   *)
(* order of their commits, whatever the kernel writes back and whenever    *)
(* the power fails: commit_journal_tx's two msyncs make the header's       *)
(* arrival on the disk an atomic commit.                                   *)
Store == INSTANCE AtomicStore WITH store <- Mounted

CommitsAtomically == Store!StoreSpec

(* "Guarantees that data has reached physical storage before the mutating  *)
(* function returns" (DurabilityMode::Strict): a mount never yields a      *)
(* location older than it was when the last mutation, or the last mount,   *)
(* returned.                                                               *)
DurableOnReturn == \A k \in Key : returned[k] <= Mounted[k]

(* "a crash could leave a half-applied transaction with no WAL record left *)
(* to replay" (maybe_checkpoint) never happens: if a mount yields one      *)
(* location of a transaction, it yields all of them or something newer.    *)
NoHalfApplied ==
    \A i \in 1 .. Len(encoded) : \A k, l \in encoded[i] :
        Mounted[k] = i => i <= Mounted[l]
=============================================================================
