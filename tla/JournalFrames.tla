--------------------------- MODULE JournalFrames ---------------------------
(***************************************************************************)
(* The record ring of the metadata write-ahead log (src/src/journal.rs) as *)
(* pure operators: where a frame is placed, what a header looks like after *)
(* an append or a checkpoint, which frames a decoder accepts and which of  *)
(* them mount-time recovery replays.                                       *)
(*                                                                         *)
(* The ring is RingSize cells.  A cell stands for the smallest part of the *)
(* ring that is old, new or torn as a whole after a crash; a frame of      *)
(* length n occupies n consecutive cells.  A header is a record            *)
(* [head, tail, txSeq, clean] (JournalState).                              *)
(***************************************************************************)
EXTENDS Integers

CONSTANTS RingSize,   \* ring_bytes, in cells
          Lens,       \* the lengths a frame may have, in cells
          Key         \* the metadata locations an op can overwrite

ASSUME RingAssumption == RingSize \in Nat \ {0}
ASSUME LensAssumption == Lens \subseteq Nat \ {0}

Offsets == 0 .. RingSize - 1

Header == [head : Offsets, tail : Offsets, txSeq : Nat, clean : BOOLEAN]

(* One cell of a frame: the transaction it belongs to, the locations that  *)
(* transaction overwrites, and the cell's position in the frame.  "id"     *)
(* names the contents of one encoded transaction; it is the value its ops  *)
(* store.  Torn is a cell that belongs to no decodable frame.              *)
Frag == [id : Nat, keys : SUBSET Key, pos : Nat, len : Nat]

Torn == [id |-> 0, keys |-> {}, pos |-> 0, len |-> 0]

FreshHeader == [head |-> 0, tail |-> 0, txSeq |-> 0, clean |-> FALSE]

----------------------------------------------------------------------------
(* JournalRing::used *)
Used(h) == (h.head + RingSize - h.tail) % RingSize

(* append: "Wrap so the frame stays contiguous." *)
Place(h, len) == IF h.head + len > RingSize THEN 0 ELSE h.head

(* Mutant of KeptTail: overwritten transactions are not dropped. *)
KeptTail_NeverDropped(h, len) == h.tail

(* append: "Drop transactions we are about to overwrite." *)
KeptTail(h, len) ==
    IF Used([h EXCEPT !.head = Place(h, len)]) + len > RingSize
    THEN Place(h, len)
    ELSE h.tail

(* Mutant of AppendHeader: the cursor is not reduced modulo the ring. *)
AppendHeader_NoModulo(h, len) ==
    [head  |-> Place(h, len) + len,
     tail  |-> KeptTail(h, len),
     txSeq |-> h.txSeq + 1,
     clean |-> FALSE]

(* append: the header it persists *)
AppendHeader(h, len) ==
    [head  |-> (Place(h, len) + len) % RingSize,
     tail  |-> KeptTail(h, len),
     txSeq |-> h.txSeq + 1,
     clean |-> FALSE]

(* The cells that the frame of an append occupies. *)
Span(h, len) == Place(h, len) .. Place(h, len) + len - 1

(* The cells by which an append advances head, the unused end of the ring  *)
(* included when the frame wraps.                                          *)
Advance(h, len) ==
    IF Place(h, len) = h.head THEN len ELSE RingSize - h.head + len

(* append: the ring after the frame has been copied in *)
AppendCells(cells, h, id, keys, len) ==
    [c \in Offsets |->
        IF c \in Span(h, len)
        THEN [id |-> id, keys |-> keys, pos |-> c - Place(h, len), len |-> len]
        ELSE cells[c]]

(* checkpoint_to: accept the cursor only when it lies between tail and head *)
DistToHead(h, c) == (h.head + RingSize - c) % RingSize

CheckpointTo(h, cursor) ==
    IF cursor # h.tail /\ DistToHead(h, cursor) <= DistToHead(h, h.tail)
    THEN [h EXCEPT !.tail = cursor]
    ELSE h

(* recover / mark_clean_shutdown: the ring is reset, tx_seq is kept *)
ResetHeader(h) == [head |-> 0, tail |-> 0, txSeq |-> h.txSeq, clean |-> TRUE]

(* decode_frame on the ring from offset c: magic, length, checksum and     *)
(* commit marker all match, which only a completely present frame does.    *)
(* The sequence number is not compared with anything.                      *)
Decodes(cells, c) ==
    /\ cells[c].len > 0
    /\ c + cells[c].len <= RingSize
    /\ \A i \in 0 .. cells[c].len - 1 : cells[c + i] = [cells[c] EXCEPT !.pos = i]

NextFrame(cells, c) == (c + cells[c].len) % RingSize

----------------------------------------------------------------------------
(* What recover replays, as a set: the distances d from tail at which its  *)
(* loop decodes a frame.  P is the path the loop takes from tail to d.     *)
At(h, d) == (h.tail + d) % RingSize

Replayed(h, cells) ==
    {d \in Offsets :
        \E P \in SUBSET (0 .. d) :
            /\ {0, d} \subseteq P
            /\ \A p \in P :
                 /\ At(h, p) # h.head
                 /\ Decodes(cells, At(h, p))
                 /\ p = d \/ p + cells[At(h, p)].len \in P}

(* The image that mounting (header, ring, image) produces: for every       *)
(* location, what the last replayed frame that names it stores.            *)
Redo(h, cells, image) ==
    [k \in Key |->
        LET writers == {d \in Replayed(h, cells) : k \in cells[At(h, d)].keys}
        IN  IF writers = {} THEN image[k]
            ELSE LET last == CHOOSE d \in writers : \A e \in writers : e <= d
                 IN  cells[At(h, last)].id]
============================================================================
