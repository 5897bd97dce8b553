------------------------ MODULE StrictCommit_proofs ------------------------
(***************************************************************************)
(* Machine-checked proofs about StrictCommit, for every ring size, every   *)
(* set of frame lengths, every set of locations and every bound on the     *)
(* transactions and the power losses: a mutation of a strictly durable     *)
(* image is atomic and durable for power losses.                           *)
(***************************************************************************)
EXTENDS StrictCommit, JournalFrames_proofs

(* The theorems hold while three things do.  The kernel writes the header  *)
(* page back on its own only when no frame and no mount is under way; the  *)
(* mutations name every range they changed to sync_mutation_ranges; and    *)
(* every frame is placed behind the ones still to be replayed, without     *)
(* dropping any of them, leaving a gap at the end of the ring or filling   *)
(* it.                                                                     *)
HeaderInOrder == HeaderRaces = {}

SyncsAll == \A kind \in Kinds, keys \in SUBSET Key : Synced(kind, keys) = keys

AppendFits ==
    \A keys \in SUBSET Key, len \in Lens, kind \in Kinds :
        AppendTx(keys, len, kind) => Fits(hdr, len)

----------------------------------------------------------------------------
(* The inductive invariant *)

(* The frame in hand lies, in the mapping, behind what the disk's header   *)
(* knows of.                                                               *)
Appended(len) ==
    /\ Fits(dHdr, len)
    /\ hdr = AppendHeader(dHdr, len)
    /\ tx.span = Span(dHdr, len)
    /\ \A c \in tx.span : cells[c] = [id |-> tx.id, keys |-> tx.keys,
                                      pos |-> c - dHdr.head, len |-> len]

Uncommitted == \E len \in Lens : Appended(len)

(* Which header is on the disk, and what of the ring. *)
HeadersOK ==
    /\ phase \in {"idle", "apply", "sync", "checkpoint"} => hdr = dHdr
    /\ phase = "frame" => Uncommitted
    /\ phase = "header" => (hdr = dHdr \/ Uncommitted) /\ SameLive(hdr, cells, dCells)
    /\ phase = "retire" => hdr = dHdr \/ hdr = CheckpointTo(dHdr, dHdr.head)
    /\ phase = "mount" => hdr = ResetHeader(dHdr) /\ cells = dCells

(* The locations that are committed and not yet stored in the mapping. *)
Due ==
    CASE phase = "apply"                   -> todo
      [] phase = "header" /\ hdr = dHdr    -> tx.keys
      [] OTHER                             -> {}

(* A mount would produce the mapping's image with the transaction that is  *)
(* committed applied to the end.                                           *)
MountedOK ==
    /\ \A k \in Key : Mounted[k] = IF k \in Due THEN tx.id ELSE image[k]
    /\ \A k \in Due : Writers(dHdr, dCells, k) # {}

(* The image's pages on the disk are those of the mapping, but for the     *)
(* locations that are being stored or synced, and during a mount.          *)
SettledOK ==
    /\ phase \in {"idle", "frame", "header", "checkpoint", "retire"} => dImage = image
    /\ phase = "apply" => \A k \in Key \ tx.keys : dImage[k] = image[k]
    /\ phase = "sync" => \A k \in Key \ todo : dImage[k] = image[k]

IdsOK ==
    /\ \A k \in Key : image[k] <= Len(encoded)
    /\ phase \in {"frame", "header"} => \A k \in Key : image[k] < tx.id
    /\ phase \in {"frame", "header", "apply"} => tx.id = Len(encoded) /\ tx.id \in Ids
    /\ phase = "apply" => todo \subseteq tx.keys
    /\ phase \in {"frame", "header", "apply", "sync"} => tx.kind \in Kinds

IInv ==
    /\ TypeOK
    /\ Complete(dHdr, dCells)
    /\ SameLive(dHdr, dCells, cells)
    /\ HeadersOK
    /\ MountedOK
    /\ SettledOK
    /\ IdsOK
    /\ DurableOnReturn

----------------------------------------------------------------------------
(* Type correctness *)

(* A freshly formatted image is well typed. *)
LEMMA TypeInit == Init => TypeOK
<1>1. 0 \in Offsets
    BY RingAssumption DEF Offsets
<1>2. FreshHeader \in Header
    BY <1>1 DEF FreshHeader, Header
<1>3. Torn \in Frag
    BY DEF Torn, Frag
<1>4. NoTx \in [id : Nat, keys : SUBSET Key, kind : AllKinds, span : SUBSET Offsets]
    BY DEF NoTx, AllKinds
<1> QED
    BY <1>1, <1>2, <1>3, <1>4 DEF Init, TypeOK

(* Every step of a mutation, of the kernel and of a mount keeps the types. *)
LEMMA TypeStep == TypeOK /\ [Next]_vars => TypeOK'
<1> SUFFICES ASSUME TypeOK, [Next]_vars
             PROVE  TypeOK'
    OBVIOUS
<1> USE DEF TypeOK
<1>0. /\ 0 \in Offsets /\ Torn \in Frag
      /\ NoTx \in [id : Nat, keys : SUBSET Key, kind : AllKinds, span : SUBSET Offsets]
    BY RingAssumption DEF Offsets, Torn, Frag, NoTx, AllKinds
<1>1. ASSUME NEW keys \in SUBSET Key \ {{}}, NEW len \in Lens, NEW kind \in Kinds,
             AppendTx(keys, len, kind)
      PROVE  TypeOK'
    <2>1. len \in Nat /\ kind \in AllKinds /\ len <= RingSize /\ Len(encoded) + 1 \in Nat
        BY <1>1, LensAssumption, StrictAssumption DEF AppendTx
    <2>2. cells' \in [Offsets -> Frag]
        BY <1>1, <2>1, AppendCellsType, Zenon DEF AppendTx
    <2>3. hdr' \in Header /\ Span(hdr, len) \in SUBSET Offsets
        BY <1>1, <2>1, AppendType, SpanType DEF AppendTx
    <2>4. encoded' \in Seq(SUBSET Key)
        BY <1>1 DEF AppendTx
    <2>5. tx' \in [id : Nat, keys : SUBSET Key, kind : AllKinds, span : SUBSET Offsets]
        BY <1>1, <2>1, <2>3 DEF AppendTx
    <2> QED
        BY <1>1, <2>2, <2>3, <2>4, <2>5 DEF AppendTx, disk
<1>2. CASE FlushFrame
    BY <1>2 DEF FlushFrame, mapping
<1>3. CASE FlushHeader
    BY <1>3 DEF FlushHeader, mapping
<1>4. ASSUME NEW k \in Key, ApplyKey(k)
      PROVE  TypeOK'
    <2>1. Synced(tx.kind, tx.keys) \in SUBSET Key
        BY DEF Synced, AllKinds
    <2>2. image' \in [Key -> Nat]
        BY <1>4 DEF ApplyKey
    <2> QED
        BY <1>4, <2>1, <2>2 DEF ApplyKey, disk
<1>5. ASSUME NEW k \in Key, SyncKey(k)
      PROVE  TypeOK'
    BY <1>5 DEF SyncKey, mapping
<1>6. CASE SyncDone
    BY <1>0, <1>6 DEF SyncDone, Return, mapping, disk
<1>7. CASE Checkpoint
    <2>1. hdr' \in Header
        BY <1>7, CheckpointTail DEF Checkpoint, Header
    <2> QED
        BY <1>7, <2>1 DEF Checkpoint, disk
<1>8. CASE FlushCheckpoint
    BY <1>0, <1>8 DEF FlushCheckpoint, Return, mapping
<1>9. ASSUME NEW k \in Key, WritebackImage(k)
      PROVE  TypeOK'
    BY <1>9 DEF WritebackImage, mapping
<1>10. ASSUME NEW c \in Offsets, WritebackCell(c)
       PROVE  TypeOK'
    BY <1>0, <1>10, Zenon DEF WritebackCell, mapping
<1>11. CASE WritebackHeader
    BY <1>11 DEF WritebackHeader, mapping
<1>12. CASE PowerLoss
    <2>1. image' \in [Key -> Nat]
        BY <1>12, RedoType DEF PowerLoss
    <2>2. hdr' \in Header
        BY <1>0, <1>12 DEF PowerLoss, ResetHeader, Header
    <2> QED
        BY <1>0, <1>12, <2>1, <2>2 DEF PowerLoss, disk
<1>13. CASE MountFlush
    BY <1>0, <1>13 DEF MountFlush, Return, mapping
<1>14. CASE UNCHANGED vars
    BY <1>14 DEF vars
<1> QED
    BY <1>1, <1>2, <1>3, <1>4, <1>5, <1>6, <1>7, <1>8, <1>9, <1>10, <1>11,
       <1>12, <1>13, <1>14, ZenonT(60) DEF Next

(* The mapping and the disk hold well-formed headers, rings and images,    *)
(* whatever is written back and whenever the power fails.                  *)
THEOREM TypeCorrect == Spec => []TypeOK
BY TypeInit, TypeStep, PTL DEF Spec

----------------------------------------------------------------------------
(* What each step does to the invariant and to the image a mount would     *)
(* produce                                                                 *)

(* The transaction in hand becomes part of the image a mount would         *)
(* produce, as a whole.                                                    *)
Commits ==
    /\ \A k \in Key : Mounted[k] < tx.id
    /\ Mounted' = [k \in Key |-> IF k \in tx.keys THEN tx.id ELSE Mounted[k]]
    /\ tx.id \in Ids

Good == IInv' /\ (Mounted' = Mounted \/ Commits)

(* An image with an empty ring satisfies the invariant. *)
LEMMA InvInit == Init => IInv /\ Mounted = [k \in Key |-> 0]
<1> SUFFICES ASSUME Init PROVE IInv /\ Mounted = [k \in Key |-> 0]
    OBVIOUS
<1>1. TypeOK
    BY TypeInit
<1>2. dHdr \in Header /\ dHdr.tail = dHdr.head /\ dCells \in [Offsets -> Frag]
    BY <1>1 DEF Init, TypeOK, FreshHeader
<1>3. Complete(dHdr, dCells) /\ Mounted = dImage /\ Used(dHdr) = 0
    BY <1>1, <1>2, EmptyRedo DEF Mounted, TypeOK
<1>4. SameLive(dHdr, dCells, cells)
    BY DEF Init, SameLive
<1>5. MountedOK /\ HeadersOK /\ SettledOK
    BY <1>3 DEF Init, MountedOK, Due, HeadersOK, SettledOK
<1>6. IdsOK /\ DurableOnReturn
    BY <1>3 DEF Init, IdsOK, DurableOnReturn
<1> QED
    BY <1>1, <1>3, <1>4, <1>5, <1>6 DEF IInv, Init

(* A frame behind the ring: the new cells on the disk do not matter until  *)
(* the header is there, and then they are the transaction.                 *)
LEMMA CommitValue ==
    ASSUME IInv, phase = "header", Uncommitted
    PROVE  /\ Complete(hdr, dCells)
           /\ SameLive(hdr, dCells, cells)
           /\ \A k \in Key :
                /\ Redo(hdr, dCells, dImage)[k] = IF k \in tx.keys THEN tx.id ELSE Mounted[k]
                /\ k \in tx.keys => Writers(hdr, dCells, k) # {}
<1>1. TypeOK /\ Complete(dHdr, dCells) /\ SameLive(hdr, cells, dCells)
    BY DEF IInv, HeadersOK
<1>2. PICK len \in Lens : Appended(len)
    BY DEF Uncommitted
<1>3. len \in Nat \ {0}
    BY LensAssumption
<1>4. /\ dHdr \in Header /\ hdr \in Header
      /\ dCells \in [Offsets -> Frag] /\ cells \in [Offsets -> Frag]
      /\ tx.id \in Nat /\ tx.keys \in SUBSET Key
    BY <1>1 DEF TypeOK
<1> DEFINE ca == AppendCells(dCells, dHdr, tx.id, tx.keys, len)
<1>5. Fits(dHdr, len) /\ hdr = AppendHeader(dHdr, len)
    BY <1>2, Zenon DEF Appended
<1>6. Complete(hdr, ca) /\ ca \in [Offsets -> Frag]
    BY <1>1, <1>3, <1>4, <1>5, FitReplayed, FitCells, Zenon
<1>7. SameLive(hdr, ca, dCells)
    <2> SUFFICES ASSUME NEW d \in 0 .. Used(hdr) - 1
                 PROVE  dCells[At(hdr, d)] = ca[At(hdr, d)]
        BY DEF SameLive
    <2>1. Used(hdr) = Used(dHdr) + len /\ At(hdr, d) = At(dHdr, d)
        BY <1>3, <1>4, <1>5, FitHeader
    <2>2. Used(hdr) \in Offsets /\ RingSize \in Nat
        BY <1>4, HeadAtUsed, RingAssumption
    <2>3. At(hdr, d) \in Offsets
        BY <1>4, <2>2, AtWrap DEF Offsets
    <2>4. Span(dHdr, len) = tx.span /\ Place(dHdr, len) = dHdr.head
        BY <1>2 DEF Appended, Fits
    <2>5. CASE At(hdr, d) \in Span(dHdr, len)
        <3>1. dCells[At(hdr, d)] = cells[At(hdr, d)]
            BY <1>1, Zenon DEF SameLive
        <3>2. cells[At(hdr, d)] = [id |-> tx.id, keys |-> tx.keys,
                                   pos |-> At(hdr, d) - dHdr.head, len |-> len]
            BY <1>2, <2>4, <2>5, Zenon DEF Appended
        <3>3. ca[At(hdr, d)] = [id |-> tx.id, keys |-> tx.keys,
                                pos |-> At(hdr, d) - dHdr.head, len |-> len]
            BY <2>3, <2>4, <2>5 DEF AppendCells
        <3> QED
            BY <3>1, <3>2, <3>3
    <2>6. CASE At(hdr, d) \notin Span(dHdr, len)
        BY <2>3, <2>6, Zenon DEF AppendCells
    <2> QED
        BY <2>5, <2>6
<1>8. \A k \in Key :
        /\ Redo(hdr, ca, dImage)[k] = IF k \in tx.keys THEN tx.id ELSE Mounted[k]
        /\ k \in tx.keys => Writers(hdr, ca, k) # {}
    BY <1>1, <1>3, <1>4, <1>5, FitRedo DEF Mounted
<1> HIDE DEF ca
<1>9. /\ Complete(hdr, dCells)
      /\ Redo(hdr, dCells, dImage) = Redo(hdr, ca, dImage)
      /\ \A k \in Key : Writers(hdr, dCells, k) = Writers(hdr, ca, k)
    BY <1>4, <1>6, <1>7, LiveRedo
<1>10. SameLive(hdr, dCells, cells)
    BY <1>1 DEF SameLive
<1> QED
    BY <1>8, <1>9, <1>10

(* append: nothing reaches the disk. *)
LEMMA InvAppend ==
    ASSUME IInv, TypeOK', NEW keys \in SUBSET Key \ {{}}, NEW len \in Lens,
           NEW kind \in Kinds, AppendTx(keys, len, kind), Fits(hdr, len)
    PROVE  Good
<1>1. /\ TypeOK /\ Complete(dHdr, dCells) /\ SameLive(dHdr, dCells, cells)
      /\ hdr = dHdr /\ phase = "idle" /\ phase' = "frame"
      /\ UNCHANGED <<dHdr, dCells, dImage, image, returned>>
    BY DEF IInv, HeadersOK, AppendTx, disk
<1>2. len \in Nat \ {0}
    BY LensAssumption
<1>3. Mounted' = Mounted
    BY <1>1 DEF Mounted
<1>4. Complete(dHdr, dCells)'
    BY <1>1, Zenon
<1>5. SameLive(dHdr, dCells, cells)'
    <2> SUFFICES ASSUME NEW d \in 0 .. Used(dHdr) - 1
                 PROVE  cells'[At(dHdr, d)] = dCells[At(dHdr, d)]
        BY <1>1, Zenon DEF SameLive
    <2>1. At(dHdr, d) \notin Span(dHdr, len)
        BY <1>1, <1>2, SpanFree, Zenon DEF TypeOK
    <2>2. At(dHdr, d) \in Offsets
        BY <1>1, LiveOffset, Zenon DEF TypeOK
    <2>3. cells'[At(dHdr, d)] = cells[At(dHdr, d)]
        BY <1>1, <2>1, <2>2, Zenon DEF AppendTx, AppendCells
    <2> QED
        BY <1>1, <2>3 DEF SameLive
<1>6. Appended(len)'
    <2>1. /\ Fits(dHdr', len) /\ hdr' = AppendHeader(dHdr', len)
          /\ tx'.span = Span(dHdr', len) /\ tx'.keys = keys
          /\ tx'.id = Len(encoded) + 1
        BY <1>1 DEF AppendTx
    <2>2. ASSUME NEW c \in tx'.span
          PROVE  cells'[c] = [id |-> tx'.id, keys |-> tx'.keys,
                              pos |-> c - dHdr'.head, len |-> len]
        <3>1. c \in Offsets /\ c \in Span(hdr, len) /\ Place(hdr, len) = dHdr'.head
            BY <1>1, <2>1 DEF Fits, TypeOK
        <3> QED
            BY <2>1, <3>1 DEF AppendTx, AppendCells
    <2> QED
        BY <2>1, <2>2, Zenon DEF Appended
<1>7. HeadersOK'
    BY <1>1, <1>6 DEF HeadersOK, Uncommitted
<1>8. MountedOK'
    BY <1>1, <1>3, SMTT(60) DEF IInv, MountedOK, Due
<1>9. SettledOK'
    BY <1>1 DEF IInv, SettledOK
<1>10. IdsOK'
    <2>1. /\ Len(encoded) \in Nat /\ Len(encoded') = Len(encoded) + 1
          /\ tx'.id = Len(encoded) + 1 /\ tx'.id <= MaxTx /\ tx'.kind = kind
        BY <1>1 DEF AppendTx, TypeOK
    <2>2. \A k \in Key : image[k] \in Nat /\ image[k] <= Len(encoded)
        BY <1>1 DEF IInv, IdsOK, TypeOK
    <2>3. tx'.id \in Ids
        BY <2>1, StrictAssumption, SMTT(60) DEF Ids
    <2>4. \A k \in Key : image'[k] <= Len(encoded') /\ image'[k] < tx'.id
        <3>1. image' = image
            BY <1>1
        <3> QED
            BY <2>1, <2>2, <3>1
    <2> QED
        BY <1>1, <2>1, <2>3, <2>4, ZenonT(60) DEF IdsOK
<1>11. DurableOnReturn'
    BY <1>1, <1>3 DEF IInv, DurableOnReturn
<1> QED
    BY <1>3, <1>4, <1>5, <1>7, <1>8, <1>9, <1>10, <1>11, Zenon DEF Good, IInv

(* A header that is not on the disk yet differs from the one that is. *)
LEMMA NotYetCommitted ==
    ASSUME TypeOK, Uncommitted
    PROVE  hdr # dHdr
<1>1. PICK len \in Lens : hdr = AppendHeader(dHdr, len)
    BY Zenon DEF Uncommitted, Appended
<1>2. hdr.txSeq = dHdr.txSeq + 1 /\ dHdr.txSeq \in Nat
    BY <1>1, Zenon DEF AppendHeader, TypeOK, Header
<1> QED
    BY <1>2

(* Cells that come from the mapping, or lie where nothing is to be         *)
(* replayed, do not change what a mount would produce.                     *)
LEMMA CellsArrive ==
    ASSUME IInv, dCells' \in [Offsets -> Frag], UNCHANGED <<dHdr, dImage, cells>>,
           \A d \in 0 .. Used(dHdr) - 1 :
             dCells'[At(dHdr, d)] \in {dCells[At(dHdr, d)], cells[At(dHdr, d)]}
    PROVE  /\ Mounted' = Mounted
           /\ Complete(dHdr, dCells)'
           /\ SameLive(dHdr, dCells, cells)'
           /\ \A k \in Key : Writers(dHdr, dCells, k)' = Writers(dHdr, dCells, k)
<1>1. /\ dHdr \in Header /\ dCells \in [Offsets -> Frag]
      /\ Complete(dHdr, dCells) /\ SameLive(dHdr, dCells, cells)
    BY DEF IInv, TypeOK
<1>2. SameLive(dHdr, dCells, dCells')
    BY <1>1, Zenon DEF SameLive
<1>3. /\ Complete(dHdr, dCells')
      /\ Redo(dHdr, dCells', dImage) = Redo(dHdr, dCells, dImage)
      /\ \A k \in Key : Writers(dHdr, dCells', k) = Writers(dHdr, dCells, k)
    BY <1>1, <1>2, LiveRedo, Zenon
<1>4. SameLive(dHdr, dCells', cells)
    BY <1>1, <1>2 DEF SameLive
<1> QED
    BY <1>3, <1>4 DEF Mounted

(* flush_range of the frame *)
LEMMA InvFlushFrame ==
    ASSUME IInv, TypeOK', FlushFrame
    PROVE  Good
<1>1. /\ TypeOK /\ phase = "frame" /\ phase' = "header" /\ Uncommitted
      /\ UNCHANGED <<hdr, cells, image, dHdr, dImage, tx, todo, encoded, returned>>
      /\ dCells' \in [Offsets -> Frag]
      /\ dCells' = [c \in Offsets |-> IF c \in tx.span THEN cells[c] ELSE dCells[c]]
    BY Zenon DEF IInv, HeadersOK, FlushFrame, mapping, TypeOK
<1>2. \A d \in 0 .. Used(dHdr) - 1 : At(dHdr, d) \in Offsets
    BY <1>1, LiveOffset DEF TypeOK
<1>3. \A d \in 0 .. Used(dHdr) - 1 :
        dCells'[At(dHdr, d)] \in {dCells[At(dHdr, d)], cells[At(dHdr, d)]}
    BY <1>1, <1>2, Zenon
<1>4. /\ Mounted' = Mounted
      /\ Complete(dHdr, dCells)'
      /\ SameLive(dHdr, dCells, cells)'
    BY <1>1, <1>3, CellsArrive
<1>5. SameLive(hdr, cells, dCells')
    <2> SUFFICES ASSUME NEW d \in 0 .. Used(hdr) - 1
                 PROVE  dCells'[At(hdr, d)] = cells[At(hdr, d)]
        BY DEF SameLive
    <2>1. PICK len \in Lens : Appended(len)
        BY <1>1, Zenon DEF Uncommitted
    <2>2. /\ len \in Nat \ {0} /\ dHdr \in Header /\ Fits(dHdr, len)
          /\ tx.span = Span(dHdr, len)
        BY <1>1, <2>1, LensAssumption, Zenon DEF Appended, TypeOK
    <2>3. Used(hdr) = Used(dHdr) + len /\ At(hdr, d) = At(dHdr, d)
        BY <2>1, <2>2, FitHeader, Zenon DEF Appended
    <2>4. CASE d < Used(dHdr)
        <3>1. d \in 0 .. Used(dHdr) - 1
            BY <2>2, <2>4, HeadAtUsed DEF Offsets
        <3>2. dCells[At(dHdr, d)] = cells[At(dHdr, d)]
            BY <3>1 DEF IInv, SameLive
        <3> QED
            BY <1>3, <2>3, <3>1, <3>2
    <2>5. CASE ~(d < Used(dHdr))
        <3>1. At(dHdr, d) \in tx.span
            <4>1. d \in 0 .. Used(dHdr) + len - 1
                BY <2>2, <2>3, HeadAtUsed DEF Offsets
            <4> QED
                BY <2>2, <2>5, <4>1, SpanNext
        <3>2. At(dHdr, d) \in Offsets
            BY <1>1, <3>1, Zenon DEF TypeOK
        <3> QED
            BY <1>1, <2>3, <3>1, <3>2
    <2> QED
        BY <2>4, <2>5
<1>6. Uncommitted'
    BY <1>1 DEF Uncommitted, Appended
<1>7. HeadersOK'
    BY <1>1, <1>5, <1>6 DEF HeadersOK
<1>8. hdr' # dHdr'
    BY <1>1, NotYetCommitted, Zenon
<1>9. MountedOK'
    <2>1. Due = {} /\ Due' = {}
        BY <1>1, <1>8, Zenon DEF Due
    <2> QED
        BY <1>1, <1>4, <2>1 DEF IInv, MountedOK
<1>10. SettledOK' /\ IdsOK'
    BY <1>1 DEF IInv, SettledOK, IdsOK
<1>11. DurableOnReturn'
    BY <1>1, <1>4, Zenon DEF IInv, DurableOnReturn
<1> QED
    BY <1>4, <1>7, <1>9, <1>10, <1>11, Zenon DEF Good, IInv

(* The commit as a step: the header of a complete frame arrives. *)
LEMMA HeaderArrives ==
    ASSUME IInv, phase = "header", dHdr' = hdr,
           UNCHANGED <<hdr, cells, image, dCells, dImage, tx, encoded, returned>>
    PROVE  /\ Mounted' = Mounted \/ Commits
           /\ Complete(dHdr, dCells)'
           /\ SameLive(dHdr, dCells, cells)'
           /\ \A k \in Key : Mounted'[k] = IF k \in tx.keys THEN tx.id ELSE image[k]
           /\ \A k \in tx.keys : Writers(dHdr, dCells, k)' # {}
           /\ DurableOnReturn'
<1>1. /\ TypeOK /\ (hdr = dHdr \/ Uncommitted)
      /\ tx.id \in Ids /\ tx.keys \in SUBSET Key
      /\ \A k \in Key : image[k] < tx.id
    BY Zenon DEF IInv, HeadersOK, IdsOK, TypeOK
<1>2. CASE hdr = dHdr
    <2>1. Mounted' = Mounted
        BY <1>2 DEF Mounted
    <2>2. Due = tx.keys
        BY <1>2, Zenon DEF Due
    <2> QED
        BY <1>1, <1>2, <2>1, <2>2 DEF IInv, MountedOK, DurableOnReturn
<1>3. CASE Uncommitted
    <2>1. Due = {}
        BY <1>1, <1>3, NotYetCommitted, Zenon DEF Due
    <2>2. \A k \in Key : Mounted[k] = image[k]
        BY <2>1, Zenon DEF IInv, MountedOK
    <2>3. /\ Complete(hdr, dCells)
          /\ SameLive(hdr, dCells, cells)
          /\ \A k \in Key :
               /\ Redo(hdr, dCells, dImage)[k] = IF k \in tx.keys THEN tx.id ELSE Mounted[k]
               /\ k \in tx.keys => Writers(hdr, dCells, k) # {}
        BY <1>3, CommitValue
    <2>4. Mounted' = Redo(hdr, dCells, dImage)
        BY DEF Mounted
    <2>5. Mounted' = [k \in Key |-> Mounted'[k]]
        BY DEF Mounted, Redo
    <2>6. \A k \in Key : Mounted'[k] = IF k \in tx.keys THEN tx.id ELSE Mounted[k]
        BY <2>3, <2>4
    <2>7. Commits
        BY <1>1, <2>2, <2>5, <2>6, SMTT(60) DEF Commits
    <2>8. DurableOnReturn'
        <3> SUFFICES ASSUME NEW k \in Key PROVE returned[k] <= Mounted'[k]
            BY Zenon DEF DurableOnReturn
        <3>1. /\ returned[k] \in Nat /\ image[k] \in Nat /\ tx.id \in Nat
              /\ returned[k] <= Mounted[k]
            BY <1>1, Zenon DEF IInv, DurableOnReturn, TypeOK
        <3>2. returned[k] <= image[k] /\ image[k] < tx.id
            BY <1>1, <2>2, <3>1, Zenon
        <3> QED
            BY <2>2, <2>6, <3>1, <3>2
    <2> QED
        BY <1>1, <2>2, <2>3, <2>6, <2>7, <2>8
<1> QED
    BY <1>1, <1>2, <1>3, Zenon

(* flush_range of the header *)
LEMMA InvFlushHeader ==
    ASSUME IInv, TypeOK', FlushHeader
    PROVE  Good
<1>1. /\ TypeOK /\ phase = "header" /\ phase' = "apply" /\ dHdr' = hdr
      /\ todo' = tx.keys
      /\ UNCHANGED <<hdr, cells, image, dCells, dImage, tx, encoded, returned>>
    BY Zenon DEF IInv, FlushHeader, mapping
<1>2. /\ Mounted' = Mounted \/ Commits
      /\ Complete(dHdr, dCells)'
      /\ SameLive(dHdr, dCells, cells)'
      /\ \A k \in Key : Mounted'[k] = IF k \in tx.keys THEN tx.id ELSE image[k]
      /\ \A k \in tx.keys : Writers(dHdr, dCells, k)' # {}
      /\ DurableOnReturn'
    BY <1>1, HeaderArrives
<1>3. MountedOK'
    BY <1>1, <1>2, Zenon DEF MountedOK, Due
<1>4. HeadersOK' /\ SettledOK' /\ IdsOK'
    BY <1>1 DEF IInv, HeadersOK, SettledOK, IdsOK
<1> QED
    BY <1>2, <1>3, <1>4 DEF Good, IInv

(* apply_op_in_place: a store into the mapping *)
LEMMA InvApplyKey ==
    ASSUME IInv, TypeOK', SyncsAll, NEW k \in Key, ApplyKey(k)
    PROVE  Good
<1>1. /\ TypeOK /\ phase = "apply" /\ k \in todo
      /\ image' = [image EXCEPT ![k] = tx.id]
      /\ UNCHANGED <<hdr, cells, dHdr, dCells, dImage, tx, encoded, returned>>
    BY Zenon DEF IInv, ApplyKey, disk
<1>2. /\ hdr = dHdr /\ todo \subseteq tx.keys /\ tx.id = Len(encoded)
      /\ tx.id \in Ids /\ tx.kind \in Kinds /\ tx.keys \in SUBSET Key
    BY <1>1, Zenon DEF IInv, HeadersOK, IdsOK, TypeOK
<1>3. \/ phase' = "sync" /\ todo' = tx.keys /\ todo = {k}
      \/ phase' = "apply" /\ todo' = todo \ {k}
    BY <1>1, <1>2 DEF ApplyKey, SyncsAll
<1>4. Mounted' = Mounted
    BY <1>1 DEF Mounted
<1>5. \A j \in Key : image'[j] = IF j = k THEN tx.id ELSE image[j]
    BY <1>1 DEF TypeOK
<1>6. Due = todo /\ Due' = todo \ {k}
    BY <1>1, <1>3, Zenon DEF Due
<1>7. MountedOK'
    BY <1>1, <1>4, <1>5, <1>6, Zenon DEF IInv, MountedOK
<1>8. HeadersOK'
    BY <1>1, <1>2, <1>3, Zenon DEF HeadersOK
<1>9. SettledOK'
    <2>1. \A j \in Key \ tx.keys : dImage[j] = image[j] /\ j # k
        BY <1>1, <1>2, Zenon DEF IInv, SettledOK
    <2> QED
        BY <1>1, <1>3, <1>5, <2>1, Zenon DEF SettledOK
<1>10. IdsOK'
    <2>1. Len(encoded) \in Nat
        BY <1>1, SMTT(60) DEF TypeOK
    <2>2. \A j \in Key : image[j] <= Len(encoded)
        BY DEF IInv, IdsOK
    <2>3. \A j \in Key : image'[j] <= Len(encoded)
        BY <1>2, <1>5, <2>1, <2>2, SMTT(60)
    <2> QED
        BY <1>1, <1>2, <1>3, <2>3, Zenon DEF IdsOK
<1>11. DurableOnReturn'
    BY <1>1, <1>4 DEF IInv, DurableOnReturn
<1>12. Complete(dHdr, dCells)' /\ SameLive(dHdr, dCells, cells)'
    BY <1>1 DEF IInv
<1> QED
    BY <1>4, <1>7, <1>8, <1>9, <1>10, <1>11, <1>12, Zenon DEF Good, IInv

(* A page of the image reaches the disk: it holds what replaying would     *)
(* give the location, or replaying overwrites it.                          *)
LEMMA ImageArrives ==
    ASSUME IInv, UNCHANGED <<dHdr, dCells>>,
           \A k \in Key : dImage'[k] \in {dImage[k], image[k]}
    PROVE  Mounted' = Mounted
<1>1. /\ dHdr \in Header /\ dCells \in [Offsets -> Frag]
    BY Zenon DEF IInv, TypeOK
<1>2. \A k \in Key : Writers(dHdr, dCells, k) # {} \/ image[k] = Redo(dHdr, dCells, dImage)[k]
    BY Zenon DEF IInv, MountedOK, Mounted
<1>3. \A j \in Key : \/ dImage'[j] = dImage[j]
                     \/ Writers(dHdr, dCells, j) # {}
                     \/ dImage'[j] = Redo(dHdr, dCells, dImage)[j]
    BY <1>1, <1>2, ZenonT(60)
<1>4. Redo(dHdr, dCells, dImage') = Redo(dHdr, dCells, dImage)
    BY <1>1, <1>3, RedoStore, SMTT(60)
<1> QED
    BY <1>4 DEF Mounted

(* sync_mutation_ranges: one range *)
LEMMA InvSyncKey ==
    ASSUME IInv, TypeOK', NEW k \in Key, SyncKey(k)
    PROVE  Good
<1>1. /\ TypeOK /\ phase = "sync" /\ dImage' = [dImage EXCEPT ![k] = image[k]]
      /\ todo' = todo \ {k}
      /\ UNCHANGED <<hdr, cells, image, dHdr, dCells, phase, tx, encoded, returned>>
    BY DEF IInv, SyncKey, mapping
<1>2. Mounted' = Mounted
    <2>1. \A j \in Key : dImage'[j] \in {dImage[j], image[j]}
        BY <1>1 DEF TypeOK
    <2> QED
        BY <1>1, <2>1, ImageArrives, Zenon
<1>3. MountedOK'
    BY <1>1, <1>2 DEF IInv, MountedOK, Due
<1>4. SettledOK'
    <2>1. \A j \in Key : dImage'[j] = IF j = k THEN image[j] ELSE dImage[j]
        BY <1>1, Zenon DEF TypeOK
    <2> QED
        BY <1>1, <2>1, Zenon DEF IInv, SettledOK
<1>5. HeadersOK' /\ IdsOK'
    BY <1>1, ZenonT(60) DEF IInv, HeadersOK, IdsOK
<1>6. DurableOnReturn'
    BY <1>1, <1>2 DEF IInv, DurableOnReturn
<1>7. Complete(dHdr, dCells)' /\ SameLive(dHdr, dCells, cells)'
    BY <1>1 DEF IInv
<1> QED
    BY <1>2, <1>3, <1>4, <1>5, <1>6, <1>7 DEF Good, IInv

(* The kernel writes a page of the image back. *)
LEMMA InvWritebackImage ==
    ASSUME IInv, TypeOK', NEW k \in Key, WritebackImage(k)
    PROVE  Good
<1>1. /\ TypeOK /\ dImage' = [dImage EXCEPT ![k] = image[k]]
      /\ UNCHANGED <<hdr, cells, image, dHdr, dCells, phase, tx, todo, encoded, returned>>
    BY DEF IInv, WritebackImage, mapping
<1>2. Mounted' = Mounted
    <2>1. \A j \in Key : dImage'[j] \in {dImage[j], image[j]}
        BY <1>1, Zenon DEF TypeOK
    <2> QED
        BY <1>1, <2>1, ImageArrives, Zenon
<1>3. MountedOK'
    <2>1. Due' = Due
        BY <1>1 DEF Due
    <2> QED
        BY <1>1, <1>2, <2>1 DEF IInv, MountedOK
<1>4. SettledOK'
    <2>1. \A j \in Key : dImage'[j] = IF j = k THEN image[j] ELSE dImage[j]
        BY <1>1, Zenon DEF TypeOK
    <2>2. dImage = image => dImage' = image
        BY <1>1, Zenon DEF TypeOK
    <2> QED
        BY <1>1, <2>1, <2>2, Zenon DEF IInv, SettledOK
<1>5. HeadersOK'
    BY <1>1, ZenonT(60) DEF IInv, HeadersOK, Uncommitted, Appended
<1>6. IdsOK'
    BY <1>1 DEF IInv, IdsOK
<1>7. DurableOnReturn'
    BY <1>1, <1>2 DEF IInv, DurableOnReturn
<1>8. Complete(dHdr, dCells)' /\ SameLive(dHdr, dCells, cells)'
    BY <1>1 DEF IInv
<1> QED
    BY <1>2, <1>3, <1>4, <1>5, <1>6, <1>7, <1>8, Zenon DEF Good, IInv

(* A mutation returns, or goes on to the checkpoint. *)
LEMMA InvSyncDone ==
    ASSUME IInv, TypeOK', SyncDone
    PROVE  Good
<1>1. /\ TypeOK /\ phase = "sync" /\ todo = {} /\ phase' \in {"checkpoint", "idle"}
      /\ UNCHANGED <<hdr, cells, image, dHdr, dCells, dImage, todo, encoded>>
      /\ returned' \in {returned, image}
    BY Zenon DEF IInv, SyncDone, Return, mapping, disk
<1>2. hdr = dHdr /\ dImage = image
    BY <1>1 DEF IInv, HeadersOK, SettledOK, TypeOK
<1>3. Mounted' = Mounted /\ Due = {} /\ Due' = {}
    BY <1>1, ZenonT(60) DEF Mounted, Due
<1>4. \A k \in Key : Mounted[k] = image[k] /\ image[k] \in Nat
    BY <1>1, <1>3 DEF IInv, MountedOK, TypeOK
<1>5. MountedOK'
    BY <1>1, <1>3, <1>4, Zenon DEF MountedOK
<1>6. HeadersOK' /\ SettledOK'
    BY <1>1, <1>2, Zenon DEF HeadersOK, SettledOK
<1>7. IdsOK'
    BY <1>1 DEF IInv, IdsOK
<1>8. DurableOnReturn'
    BY <1>1, <1>3, <1>4, SMTT(60) DEF IInv, DurableOnReturn
<1>9. Complete(dHdr, dCells)' /\ SameLive(dHdr, dCells, cells)'
    BY <1>1 DEF IInv
<1> QED
    BY <1>3, <1>5, <1>6, <1>7, <1>8, <1>9, Zenon DEF Good, IInv

(* checkpoint_journal: tail is moved in the mapping *)
LEMMA InvCheckpoint ==
    ASSUME IInv, TypeOK', Checkpoint
    PROVE  Good
<1>1. /\ TypeOK /\ phase = "checkpoint" /\ phase' = "retire"
      /\ hdr' = CheckpointTo(hdr, hdr.head) /\ hdr = dHdr
      /\ UNCHANGED <<cells, image, dHdr, dCells, dImage, todo, encoded, returned>>
    BY DEF IInv, HeadersOK, Checkpoint, disk
<1>2. Mounted' = Mounted /\ Due = {} /\ Due' = {}
    BY <1>1, ZenonT(60) DEF Mounted, Due
<1>3. MountedOK'
    BY <1>1, <1>2 DEF IInv, MountedOK
<1>4. HeadersOK'
    BY <1>1, Zenon DEF HeadersOK
<1>5. SettledOK' /\ IdsOK'
    BY <1>1, ZenonT(60) DEF IInv, SettledOK, IdsOK
<1>6. DurableOnReturn'
    BY <1>1, <1>2 DEF IInv, DurableOnReturn
<1>7. Complete(dHdr, dCells)' /\ SameLive(dHdr, dCells, cells)'
    BY <1>1 DEF IInv
<1> QED
    BY <1>2, <1>3, <1>4, <1>5, <1>6, <1>7, Zenon DEF Good, IInv

(* A checkpoint of everything leaves an empty ring. *)
LEMMA CheckpointAll ==
    ASSUME NEW h \in Header
    PROVE  LET n == CheckpointTo(h, h.head) IN n \in Header /\ n.tail = n.head
<1>1. /\ h.head \in Offsets /\ h.tail \in Offsets /\ RingSize \in Nat \ {0}
      /\ h.head \in Nat /\ h.tail \in Nat /\ h.tail < RingSize
    BY RingAssumption DEF Header, Offsets
<1>2. DistToHead(h, h.head) = 0
    BY <1>1 DEF DistToHead
<1>3. DistToHead(h, h.tail) \in Nat
    BY <1>1 DEF DistToHead
<1>4. CASE h.head = h.tail
    BY <1>4 DEF CheckpointTo
<1>5. CASE h.head # h.tail
    BY <1>1, <1>2, <1>3, <1>5, SMTT(60) DEF CheckpointTo, Header
<1> QED
    BY <1>4, <1>5

(* A header with an empty ring arrives when everything committed is in the *)
(* image's pages on the disk: a mount still produces the same.             *)
LEMMA EmptyArrives ==
    ASSUME IInv, Due = {}, dHdr' \in Header, dHdr'.tail = dHdr'.head,
           dCells' \in [Offsets -> Frag], dImage' = image
    PROVE  /\ Mounted' = Mounted
           /\ \A k \in Key : Mounted'[k] = image[k]
           /\ Complete(dHdr, dCells)'
           /\ SameLive(dHdr, dCells, cells)'
           /\ SameLive(dHdr', cells', dCells')
<1>1. image \in [Key -> Nat]
    BY Zenon DEF IInv, TypeOK
<1>2. Used(dHdr') = 0 /\ Complete(dHdr', dCells') /\ Mounted' = image
    BY <1>1, EmptyRedo, Zenon DEF Mounted
<1>3. \A k \in Key : Mounted[k] = image[k]
    BY Zenon DEF IInv, MountedOK
<1>4. Mounted = [k \in Key |-> Mounted[k]]
    BY DEF Mounted, Redo
<1>5. Mounted = image
    BY <1>1, <1>3, <1>4, Zenon
<1> QED
    BY <1>2, <1>3, <1>5 DEF SameLive

(* checkpoint_journal: the header with the moved tail arrives *)
LEMMA RetireArrives ==
    ASSUME IInv, TypeOK', phase = "retire", dHdr' = hdr,
           UNCHANGED <<hdr, cells, image, dCells, dImage, encoded>>,
           phase' \in {"idle", "retire"}, returned' \in {returned, image}
    PROVE  Good
<1>1. /\ TypeOK /\ dImage = image /\ Due = {} /\ Due' = {}
    BY DEF IInv, SettledOK, Due
<1>2. /\ Mounted' = Mounted
      /\ Complete(dHdr, dCells)'
      /\ SameLive(dHdr, dCells, cells)'
    <2>1. CASE hdr = dHdr
        BY <2>1, Zenon DEF Mounted, IInv
    <2>2. CASE hdr = CheckpointTo(dHdr, dHdr.head)
        <3>1. dHdr' \in Header /\ dHdr'.tail = dHdr'.head
            BY <1>1, <2>2, CheckpointAll, Zenon DEF TypeOK
        <3>2. dCells' \in [Offsets -> Frag] /\ dImage' = image
            BY <1>1, Zenon DEF TypeOK
        <3> QED
            BY <1>1, <3>1, <3>2, EmptyArrives, Zenon
    <2> QED
        BY <2>1, <2>2 DEF IInv, HeadersOK
<1>3. \A k \in Key : Mounted[k] = image[k] /\ image[k] \in Nat
    BY <1>1, Zenon DEF IInv, MountedOK, TypeOK
<1>4. MountedOK'
    BY <1>1, <1>2, <1>3, Zenon DEF MountedOK
<1>5. HeadersOK' /\ SettledOK'
    BY <1>1, Zenon DEF HeadersOK, SettledOK
<1>6. IdsOK'
    BY <1>1, ZenonT(60) DEF IInv, IdsOK
<1>7. DurableOnReturn'
    BY <1>2, <1>3 DEF IInv, DurableOnReturn
<1> QED
    BY <1>2, <1>4, <1>5, <1>6, <1>7 DEF Good, IInv

(* A flush that retires the frames it covers arrives where the retirement does. *)
LEMMA InvFlushCheckpoint ==
    ASSUME IInv, TypeOK', FlushCheckpoint
    PROVE  Good
BY RetireArrives DEF FlushCheckpoint, Return, mapping

(* The kernel writes a page of the ring back, whole or torn. *)
LEMMA InvWritebackCell ==
    ASSUME IInv, TypeOK', NEW c \in Offsets, WritebackCell(c)
    PROVE  Good
<1>1. /\ TypeOK
      /\ UNCHANGED <<hdr, cells, image, dHdr, dImage, phase, tx, todo, encoded, returned>>
      /\ dCells' \in [Offsets -> Frag]
    BY Zenon DEF IInv, WritebackCell, mapping, TypeOK
<1>2. ASSUME NEW e \in Offsets
      PROVE  \/ dCells'[e] \in {dCells[e], cells[e]}
             \/ phase = "frame" /\ e \in tx.span
    BY <1>1, Zenon DEF WritebackCell, TypeOK
<1>3. ASSUME NEW d \in 0 .. Used(dHdr) - 1
      PROVE  dCells'[At(dHdr, d)] \in {dCells[At(dHdr, d)], cells[At(dHdr, d)]}
    <2>1. At(dHdr, d) \in Offsets
        BY <1>1, LiveOffset, Zenon DEF TypeOK
    <2>2. ASSUME phase = "frame" PROVE At(dHdr, d) \notin tx.span
        <3>1. PICK len \in Lens : Appended(len)
            BY <2>2, Zenon DEF IInv, HeadersOK, Uncommitted
        <3>2. /\ len \in Nat \ {0} /\ dHdr \in Header /\ Fits(dHdr, len)
              /\ tx.span = Span(dHdr, len)
            BY <1>1, <3>1, LensAssumption, Zenon DEF Appended, TypeOK
        <3> QED
            BY <3>2, SpanFree, Zenon
    <2> QED
        BY <1>2, <2>1, <2>2, Zenon
<1>4. /\ Mounted' = Mounted
      /\ Complete(dHdr, dCells)'
      /\ SameLive(dHdr, dCells, cells)'
      /\ \A k \in Key : Writers(dHdr, dCells, k)' = Writers(dHdr, dCells, k)
    BY <1>1, <1>3, CellsArrive, Zenon
<1>5. MountedOK'
    <2>1. Due' = Due /\ Due \subseteq Key
        BY <1>1, Zenon DEF Due, TypeOK
    <2> QED
        BY <1>1, <1>4, <2>1, Zenon DEF IInv, MountedOK
<1>6. phase = "header" => SameLive(hdr, cells, dCells')
    <2> SUFFICES ASSUME phase = "header", NEW d \in 0 .. Used(hdr) - 1
                 PROVE  dCells'[At(hdr, d)] = cells[At(hdr, d)]
        BY Zenon DEF SameLive
    <2>1. At(hdr, d) \in Offsets
        BY <1>1, LiveOffset, Zenon DEF TypeOK
    <2>2. dCells[At(hdr, d)] = cells[At(hdr, d)]
        BY Zenon DEF IInv, HeadersOK, SameLive
    <2> QED
        BY <1>2, <2>1, <2>2, Zenon
<1>7. phase = "mount" => cells = dCells'
    <2> SUFFICES ASSUME phase = "mount" PROVE cells = dCells'
        OBVIOUS
    <2>1. cells = dCells
        BY DEF IInv, HeadersOK
    <2>2. \A e \in Offsets : dCells'[e] = dCells[e]
        BY <1>2, <2>1, Zenon
    <2> QED
        BY <1>1, <2>1, <2>2 DEF TypeOK
<1>8. HeadersOK'
    BY <1>1, <1>6, <1>7, ZenonT(60) DEF IInv, HeadersOK, Uncommitted, Appended
<1>9. SettledOK' /\ IdsOK'
    BY <1>1, Zenon DEF IInv, SettledOK, IdsOK
<1>10. DurableOnReturn'
    BY <1>1, <1>4, Zenon DEF IInv, DurableOnReturn
<1> QED
    BY <1>4, <1>5, <1>8, <1>9, <1>10, Zenon DEF Good, IInv

(* A step that leaves the modelled state alone *)
LEMMA InvStutter ==
    ASSUME IInv, TypeOK',
           UNCHANGED <<hdr, cells, image, dHdr, dCells, dImage, phase, tx, todo,
                       encoded, returned>>
    PROVE  Good
<1>1. Mounted' = Mounted /\ Due' = Due
    BY Zenon DEF Mounted, Due
<1>2. MountedOK' /\ DurableOnReturn'
    BY <1>1, Zenon DEF IInv, MountedOK, DurableOnReturn
<1>3. HeadersOK'
    BY ZenonT(60) DEF IInv, HeadersOK, Uncommitted, Appended
<1>4. SettledOK' /\ IdsOK'
    BY Zenon DEF IInv, SettledOK, IdsOK
<1>5. Complete(dHdr, dCells)' /\ SameLive(dHdr, dCells, cells)'
    BY Zenon DEF IInv
<1> QED
    BY <1>1, <1>2, <1>3, <1>4, <1>5 DEF Good, IInv

(* The kernel writes the header page back, in order. *)
LEMMA InvWritebackHeader ==
    ASSUME IInv, TypeOK', HeaderInOrder, WritebackHeader
    PROVE  Good
<1>1. /\ TypeOK /\ dHdr' = hdr /\ phase \notin {"frame", "mount"}
      /\ UNCHANGED <<hdr, cells, image, dCells, dImage, phase, tx, todo, encoded, returned>>
    BY Zenon DEF IInv, WritebackHeader, mapping, HeaderInOrder
<1>2. CASE phase = "header"
    <2>1. /\ Mounted' = Mounted \/ Commits
          /\ Complete(dHdr, dCells)'
          /\ SameLive(dHdr, dCells, cells)'
          /\ \A k \in Key : Mounted'[k] = IF k \in tx.keys THEN tx.id ELSE image[k]
          /\ \A k \in tx.keys : Writers(dHdr, dCells, k)' # {}
          /\ DurableOnReturn'
        BY <1>1, <1>2, HeaderArrives
    <2>2. Due' = tx.keys
        BY <1>1, <1>2, Zenon DEF Due
    <2>3. MountedOK'
        BY <1>1, <2>1, <2>2, Zenon DEF MountedOK
    <2>4. HeadersOK'
        BY <1>1, <1>2, Zenon DEF IInv, HeadersOK
    <2>5. SettledOK' /\ IdsOK'
        BY <1>1, Zenon DEF IInv, SettledOK, IdsOK
    <2> QED
        BY <2>1, <2>3, <2>4, <2>5, Zenon DEF Good, IInv
<1>3. CASE phase = "retire"
    BY <1>1, <1>3, RetireArrives
<1>4. CASE phase \in {"idle", "apply", "sync", "checkpoint"}
    <2>1. dHdr' = dHdr
        BY <1>1, <1>4 DEF IInv, HeadersOK
    <2> QED
        BY <1>1, <2>1, InvStutter, Zenon
<1> QED
    BY <1>1, <1>2, <1>3, <1>4, Zenon DEF TypeOK

(* A power loss and the redo of the next mount *)
LEMMA InvPowerLoss ==
    ASSUME IInv, TypeOK', PowerLoss
    PROVE  Good
<1>1. /\ TypeOK /\ phase' = "mount" /\ image' = Mounted /\ cells' = dCells
      /\ hdr' = ResetHeader(dHdr)
      /\ UNCHANGED <<dHdr, dCells, dImage, encoded, returned>>
    BY DEF IInv, PowerLoss, disk, Mounted
<1>2. Mounted' = Mounted /\ Due' = {}
    BY <1>1, Zenon DEF Mounted, Due
<1>3. MountedOK' /\ DurableOnReturn'
    BY <1>1, <1>2, Zenon DEF IInv, MountedOK, DurableOnReturn
<1>4. HeadersOK' /\ SettledOK'
    BY <1>1, Zenon DEF HeadersOK, SettledOK
<1>5. IdsOK'
    <2>1. ASSUME NEW k \in Key PROVE Mounted[k] <= Len(encoded)
        <3>1. Len(encoded) \in Nat /\ image[k] <= Len(encoded)
            BY <1>1 DEF IInv, IdsOK, TypeOK
        <3>2. CASE k \in Due
            <4>1. tx.id = Len(encoded)
                BY <3>2, Zenon DEF IInv, IdsOK, Due
            <4> QED
                BY <3>1, <3>2, <4>1 DEF IInv, MountedOK
        <3>3. CASE k \notin Due
            BY <3>1, <3>3, Zenon DEF IInv, MountedOK
        <3> QED
            BY <3>2, <3>3, Zenon
    <2> QED
        BY <1>1, <2>1 DEF IdsOK
<1>6. Complete(dHdr, dCells)' /\ SameLive(dHdr, dCells, cells)'
    BY <1>1, Zenon DEF IInv, SameLive
<1> QED
    BY <1>2, <1>3, <1>4, <1>5, <1>6, Zenon DEF Good, IInv

(* The mount msyncs the mapping, with the ring reset. *)
LEMMA InvMountFlush ==
    ASSUME IInv, TypeOK', MountFlush
    PROVE  Good
<1>1. /\ TypeOK /\ phase = "mount" /\ phase' = "idle" /\ hdr = ResetHeader(dHdr)
      /\ dHdr' = hdr /\ dCells' = cells /\ dImage' = image /\ returned' = image
      /\ UNCHANGED <<hdr, cells, image, encoded>>
    BY DEF IInv, HeadersOK, MountFlush, Return, mapping
<1>2. /\ dHdr' \in Header /\ dHdr'.tail = dHdr'.head
      /\ dCells' \in [Offsets -> Frag] /\ Due = {} /\ Due' = {}
    BY <1>1, Zenon DEF TypeOK, ResetHeader, Due
<1>3. /\ Mounted' = Mounted
      /\ \A k \in Key : Mounted'[k] = image[k]
      /\ Complete(dHdr, dCells)'
      /\ SameLive(dHdr, dCells, cells)'
    BY <1>1, <1>2, EmptyArrives, Zenon
<1>4. \A k \in Key : image[k] \in Nat
    BY <1>1, ZenonT(60) DEF TypeOK
<1>5. /\ \A k \in Key : Mounted'[k] = image'[k] /\ returned'[k] = image[k]
      /\ \A k \in Key : returned'[k] <= Mounted'[k]
    BY <1>1, <1>3, <1>4
<1>6. MountedOK'
    BY <1>2, <1>5 DEF MountedOK
<1>7. DurableOnReturn'
    BY <1>5, Zenon DEF DurableOnReturn
<1>8. HeadersOK' /\ SettledOK'
    BY <1>1, Zenon DEF HeadersOK, SettledOK
<1>9. IdsOK'
    BY <1>1, Zenon DEF IInv, IdsOK
<1> QED
    BY <1>3, <1>6, <1>7, <1>8, <1>9, Zenon DEF Good, IInv

----------------------------------------------------------------------------
(* Atomicity and durability *)

(* Every step keeps the invariant, and changes what a mount would produce  *)
(* by the transaction in hand or not at all.                               *)
LEMMA InvStep ==
    ASSUME HeaderInOrder, SyncsAll, IInv, [Next]_vars, [AppendFits]_vars
    PROVE  Good
<1>1. TypeOK'
    BY TypeStep DEF IInv
<1>2. CASE UNCHANGED vars
    BY <1>1, <1>2, InvStutter DEF vars
<1>3. ASSUME AppendFits, NEW keys \in SUBSET Key \ {{}}, NEW len \in Lens,
             NEW kind \in Kinds, AppendTx(keys, len, kind)
      PROVE  Good
    <2>1. Fits(hdr, len)
        BY <1>3 DEF AppendFits
    <2> QED
        BY <1>1, <1>3, <2>1, InvAppend, Zenon
<1>4. CASE FlushFrame
    BY <1>1, <1>4, InvFlushFrame
<1>5. CASE FlushHeader
    BY <1>1, <1>5, InvFlushHeader
<1>6. ASSUME NEW k \in Key, ApplyKey(k) PROVE Good
    BY <1>1, <1>6, InvApplyKey
<1>7. ASSUME NEW k \in Key, SyncKey(k) PROVE Good
    BY <1>1, <1>7, InvSyncKey, SMTT(60)
<1>8. CASE SyncDone
    BY <1>1, <1>8, InvSyncDone
<1>9. CASE Checkpoint
    BY <1>1, <1>9, InvCheckpoint
<1>10. CASE FlushCheckpoint
    BY <1>1, <1>10, InvFlushCheckpoint
<1>11. ASSUME NEW k \in Key, WritebackImage(k) PROVE Good
    BY <1>1, <1>11, InvWritebackImage
<1>12. ASSUME NEW c \in Offsets, WritebackCell(c) PROVE Good
    BY <1>1, <1>12, InvWritebackCell
<1>13. CASE WritebackHeader
    BY <1>1, <1>13, InvWritebackHeader, Zenon
<1>14. CASE PowerLoss
    BY <1>1, <1>14, InvPowerLoss
<1>15. CASE MountFlush
    BY <1>1, <1>15, InvMountFlush
<1> QED
    BY <1>2, <1>3, <1>4, <1>5, <1>6, <1>7, <1>8, <1>9, <1>10, <1>11, <1>12,
       <1>13, <1>14, <1>15, Zenon DEF Next

(* A step of a mutation, of the kernel or of a mount is a commit of one    *)
(* whole transaction in the abstract store, or nothing.                    *)
LEMMA StoreStep ==
    ASSUME Good, IInv
    PROVE  [Store!StoreNext]_Mounted
<1>1. CASE Commits
    <2>1. tx.keys \in SUBSET Key
        BY DEF IInv, TypeOK
    <2>2. Store!Commit(tx.id, tx.keys)
        BY <1>1 DEF Commits, Store!Commit
    <2> QED
        BY <1>1, <2>1, <2>2 DEF Store!StoreNext, Commits
<1> QED
    BY <1>1 DEF Good

(* DurabilityMode::Strict: what a mutation had stored when it returned, a  *)
(* mount after a power loss at any later moment yields, or something       *)
(* newer.                                                                  *)
THEOREM Durable ==
    ASSUME HeaderInOrder, SyncsAll
    PROVE  Spec /\ [][AppendFits]_vars => []DurableOnReturn
<1>1. Init => IInv
    BY InvInit
<1>2. IInv /\ [Next]_vars /\ [AppendFits]_vars => IInv'
    BY InvStep DEF Good
<1>3. IInv => DurableOnReturn
    BY DEF IInv
<1> QED
    BY <1>1, <1>2, <1>3, PTL DEF Spec

(* commit_journal_tx is an atomic commit: the pages on the disk implement  *)
(* a store that changes by whole transactions only, whatever the kernel    *)
(* writes back and whenever the power fails.                               *)
THEOREM Atomic ==
    ASSUME HeaderInOrder, SyncsAll
    PROVE  Spec /\ [][AppendFits]_vars => CommitsAtomically
<1>1. Init => IInv /\ Store!StoreInit
    BY InvInit DEF Store!StoreInit
<1>2. IInv /\ [Next]_vars /\ [AppendFits]_vars => IInv' /\ [Store!StoreNext]_Mounted
    BY InvStep, StoreStep DEF Good
<1> QED
    BY <1>1, <1>2, PTL DEF Spec, CommitsAtomically, Store!StoreSpec

----------------------------------------------------------------------------
(* Two settings in which every frame fits *)

(* The ring is larger than all the frames there will be. *)
Spacious == \E n \in Nat : Lens \subseteq 1 .. n /\ MaxTx * n < RingSize

(* The frames have one length, and every mutation retires its own. *)
OneAtATime ==
    /\ RingSize > 1 /\ Lens = {1}
    /\ \A kind \in Kinds : Checkpoints(kind)

(* In a spacious ring head never comes back to where it started. *)
LEMMA SpaciousFits ==
    ASSUME Spacious
    PROVE  Spec => [][AppendFits]_vars
<1>1. PICK n \in Nat : Lens \subseteq 1 .. n /\ MaxTx * n < RingSize
    BY Zenon DEF Spacious
<1> DEFINE J == /\ TypeOK /\ hdr.tail <= hdr.head
                /\ hdr.head <= Len(encoded) * n
<1>2. Init => J
    BY TypeInit, SMTT(60) DEF Init, FreshHeader
<1>3. ASSUME J, NEW keys \in SUBSET Key, NEW len \in Lens, NEW kind \in Kinds,
             AppendTx(keys, len, kind)
      PROVE  /\ Fits(hdr, len)
             /\ hdr'.tail <= hdr'.head /\ hdr'.head <= Len(encoded') * n
    <2> DEFINE m == Len(encoded)
    <2>1. /\ m \in Nat /\ m + 1 <= MaxTx /\ Len(encoded') = m + 1
          /\ len \in Nat \ {0} /\ len <= n /\ hdr' = AppendHeader(hdr, len)
          /\ hdr.head <= m * n
        <3>1. len \in Nat \ {0} /\ len <= n
            BY <1>1, LensAssumption, SMTT(60)
        <3>2. m \in Nat /\ Len(encoded') = m + 1
            BY <1>3 DEF AppendTx, TypeOK
        <3>3. m + 1 <= MaxTx /\ hdr' = AppendHeader(hdr, len) /\ hdr.head <= m * n
            BY <1>3, Zenon DEF AppendTx
        <3> QED
            BY <3>1, <3>2, <3>3
    <2>2. /\ hdr.head \in Nat /\ hdr.tail \in Nat /\ hdr.tail <= hdr.head
          /\ hdr.head < RingSize /\ RingSize \in Nat \ {0}
        BY <1>3, RingAssumption, SMTT(60) DEF TypeOK, Header, Offsets
    <2> HIDE DEF m
    <2>3. m * n \in Nat /\ (m + 1) * n = m * n + n /\ (m + 1) * n <= MaxTx * n
        <3>1. MaxTx \in Nat /\ MaxTx * n \in Nat
            BY StrictAssumption
        <3>2. PICK j \in Nat : MaxTx = (m + 1) + j
            BY <2>1, <3>1
        <3>3. MaxTx * n = (m + 1) * n + j * n /\ j * n \in Nat
            BY <2>1, <3>2
        <3> QED
            BY <2>1, <3>3
    <2>4. hdr.head + len < RingSize /\ hdr.head + len <= (m + 1) * n
        BY <1>1, <2>1, <2>2, <2>3, StrictAssumption, SMTT(60)
    <2>5. Place(hdr, len) = hdr.head
        BY <2>1, <2>2, <2>4 DEF Place
    <2>6. Used(hdr) = hdr.head - hdr.tail
        BY <2>2, ModWrap DEF Used
    <2>7. Fits(hdr, len)
        BY <2>1, <2>2, <2>4, <2>5, <2>6, SMTT(60) DEF Fits
    <2>8. hdr'.head = hdr.head + len
        <3>1. (hdr.head + len) % RingSize = hdr.head + len
            BY <2>1, <2>2, <2>4, ModWrap
        <3> QED
            BY <2>1, <2>5, <3>1, Zenon DEF AppendHeader
    <2>9. hdr'.tail = hdr.tail
        BY <1>3, <2>1, <2>7, FitHeader, Zenon DEF TypeOK
    <2> QED
        BY <2>1, <2>2, <2>4, <2>7, <2>8, <2>9, SMTT(60)
<1>4. ASSUME J, [Next]_vars PROVE J'
    <2>1. TypeOK'
        BY <1>4, TypeStep
    <2>2. ASSUME NEW keys \in SUBSET Key \ {{}}, NEW len \in Lens, NEW kind \in Kinds,
                 AppendTx(keys, len, kind)
          PROVE  J'
        BY <1>3, <1>4, <2>1, <2>2
    <2>3. CASE Checkpoint
        <3>1. hdr' = CheckpointTo(hdr, hdr.head) /\ encoded' = encoded /\ hdr.head \in Nat
            BY <1>4, <2>3 DEF Checkpoint, TypeOK, Header, Offsets
        <3>2. hdr'.tail = hdr'.head /\ hdr'.head = hdr.head
            BY <1>4, <3>1, CheckpointAll, Zenon DEF CheckpointTo, TypeOK, Header
        <3> QED
            BY <1>4, <2>1, <3>1, <3>2, SMTT(60)
    <2>4. CASE PowerLoss
        <3>1. hdr'.tail = 0 /\ hdr'.head = 0 /\ encoded' = encoded /\ Len(encoded) * n \in Nat
            BY <1>4, <2>4 DEF PowerLoss, ResetHeader, TypeOK
        <3> QED
            BY <2>1, <3>1, SMTT(60)
    <2>5. CASE UNCHANGED <<hdr, encoded>>
        BY <1>4, <2>1, <2>5
    <2> QED
        BY <1>4, <2>2, <2>3, <2>4, <2>5, Zenon
        DEF Next, vars, FlushFrame, FlushHeader, ApplyKey, SyncKey, SyncDone,
            FlushCheckpoint, WritebackImage, WritebackCell, WritebackHeader,
            MountFlush, mapping
<1>5. J => AppendFits
    BY <1>3 DEF AppendFits
<1> HIDE DEF J
<1> QED
    BY <1>2, <1>4, <1>5, PTL DEF Spec

(* When every mutation retires its frame, the next one finds an empty ring. *)
LEMMA OneAtATimeFits ==
    ASSUME OneAtATime
    PROVE  Spec => [][AppendFits]_vars
<1> DEFINE J == /\ TypeOK
                /\ phase \in {"idle", "retire", "mount"} => hdr.tail = hdr.head
                /\ phase \in {"frame", "header", "apply", "sync"} => tx.kind \in Kinds
<1>1. Init => J
    <2>1. Init => phase = "idle" /\ hdr.tail = hdr.head
        BY DEF Init, FreshHeader
    <2> QED
        BY <2>1, TypeInit
<1>2. ASSUME J, [Next]_vars PROVE J'
    <2>1. TypeOK'
        BY <1>2, TypeStep, SMTT(60)
    <2>2. CASE Checkpoint
        <3>1. hdr'.tail = hdr'.head
            BY <1>2, <2>2, CheckpointAll, SMTT(60) DEF Checkpoint, TypeOK
        <3> QED
            BY <2>1, <2>2, <3>1, SMTT(60) DEF Checkpoint
    <2>3. CASE SyncDone
        <3>1. phase' = "checkpoint"
            BY <1>2, <2>3, Zenon DEF SyncDone, OneAtATime
        <3> QED
            BY <2>1, <3>1, Zenon
    <2>4. CASE PowerLoss
        BY <2>1, <2>4, Zenon DEF PowerLoss, ResetHeader
    <2>5. ASSUME NEW keys \in SUBSET Key \ {{}}, NEW len \in Lens, NEW kind \in Kinds,
                 AppendTx(keys, len, kind)
          PROVE  J'
        BY <2>1, <2>5, Zenon DEF AppendTx
    <2>6. CASE UNCHANGED vars
        BY <1>2, <2>1, <2>6, Zenon DEF vars
    <2>7. CASE FlushFrame \/ FlushHeader \/ \E k \in Key : ApplyKey(k) \/ SyncKey(k)
        BY <1>2, <2>1, <2>7, Zenon DEF FlushFrame, FlushHeader, ApplyKey, SyncKey, mapping
    <2>8. CASE FlushCheckpoint \/ MountFlush
        BY <1>2, <2>1, <2>8, Zenon DEF FlushCheckpoint, MountFlush, Return, mapping
    <2>9. CASE \/ WritebackHeader
               \/ \E k \in Key : WritebackImage(k)
               \/ \E c \in Offsets : WritebackCell(c)
        BY <1>2, <2>1, <2>9 DEF WritebackHeader, WritebackImage, WritebackCell, mapping
    <2> QED
        BY <1>2, <2>2, <2>3, <2>4, <2>5, <2>6, <2>7, <2>8, <2>9, ZenonT(60) DEF Next
<1>3. ASSUME J, NEW keys \in SUBSET Key, NEW len \in Lens, NEW kind \in Kinds,
             AppendTx(keys, len, kind)
      PROVE  Fits(hdr, len)
    <2>1. /\ hdr \in Header /\ hdr.tail = hdr.head /\ len = 1 /\ RingSize > 1
          /\ RingSize \in Nat /\ hdr.head \in Nat /\ hdr.head < RingSize
        <3>1. TypeOK /\ hdr.tail = hdr.head /\ len \in Lens
            BY <1>3, Zenon DEF AppendTx
        <3>2. len = 1 /\ RingSize > 1
            BY <3>1 DEF OneAtATime
        <3>3. hdr \in Header
            BY <3>1 DEF TypeOK
        <3>4. RingSize \in Nat /\ hdr.head \in Offsets
            BY <3>3, RingAssumption DEF Header
        <3> QED
            BY <3>1, <3>2, <3>3, <3>4 DEF Offsets
    <2>2. Used(hdr) = 0
        BY <2>1, ModWrap, SMTT(60) DEF Used
    <2> QED
        BY <2>1, <2>2 DEF Fits, Place
<1>4. J => AppendFits
    BY <1>3 DEF AppendFits
<1> HIDE DEF J
<1> QED
    BY <1>1, <1>2, <1>4, PTL DEF Spec

(* In both settings the disk implements the atomic store and returned      *)
(* mutations are durable, with nothing assumed about the behaviour.        *)
THEOREM Strict ==
    ASSUME HeaderInOrder, SyncsAll, Spacious \/ OneAtATime
    PROVE  Spec => []DurableOnReturn /\ CommitsAtomically
<1>1. Spec => [][AppendFits]_vars
    BY SpaciousFits, OneAtATimeFits
<1> QED
    BY <1>1, Durable, Atomic, PTL
=============================================================================
