------------------------- MODULE JournalRing_proofs -------------------------
(***************************************************************************)
(* Machine-checked proofs about JournalRing, for every ring size, every    *)
(* set of frame lengths, every set of locations and every bound on the     *)
(* number of transactions.                                                 *)
(***************************************************************************)
EXTENDS JournalRing, JournalFrames_proofs

(* Others append less than one lap of the ring while a flush() runs. *)
ShortFlush == FlushWindow < RingSize

----------------------------------------------------------------------------
(* Arithmetic of the ring *)

(* Where append puts a frame, and the cursors it persists.  If the new     *)
(* arc is straight, it is either the new frame alone or the old straight   *)
(* arc with the new frame behind it.                                       *)
LEMMA AppendCursors ==
    ASSUME NEW h \in Header, NEW len \in 1 .. RingSize
    PROVE  LET p == Place(h, len)
               n == AppendHeader(h, len)
           IN  /\ p \in Offsets
               /\ p + len <= RingSize
               /\ p = h.head \/ (p = 0 /\ h.head + len > RingSize)
               /\ n \in Header
               /\ n.head = IF p + len = RingSize THEN 0 ELSE p + len
               /\ n.tail < n.head =>
                    \/ n.tail = p
                    \/ p = h.head /\ n.tail = h.tail /\ h.tail <= h.head
<1> DEFINE p == Place(h, len)
           n == AppendHeader(h, len)
           u == Used([h EXCEPT !.head = p])
<1>1. /\ p \in Offsets
      /\ p + len <= RingSize
      /\ p = h.head \/ (p = 0 /\ h.head + len > RingSize)
    BY RingAssumption DEF Place, Header, Offsets
<1>2. u = IF h.tail <= p THEN p - h.tail ELSE p + RingSize - h.tail
    BY <1>1, ModDistance DEF Used, Header
<1>3. n.tail = IF u + len > RingSize THEN p ELSE h.tail
    BY DEF AppendHeader, KeptTail
<1> HIDE DEF p, u
<1>4. (p + len) % RingSize = IF p + len = RingSize THEN 0 ELSE p + len
    BY <1>1, ModWrap, RingAssumption DEF Offsets
<1>5. n.head = IF p + len = RingSize THEN 0 ELSE p + len
    BY <1>4 DEF AppendHeader, p
<1>6. n \in Header
  <2>1. n.head \in Offsets /\ n.tail \in Offsets
      BY <1>1, <1>3, <1>5, RingAssumption DEF Offsets, Header
  <2>2. /\ n.head = (Place(h, len) + len) % RingSize
        /\ n.tail = KeptTail(h, len)
        /\ h.txSeq + 1 \in Nat
      BY DEF AppendHeader, Header
  <2>3. /\ (Place(h, len) + len) % RingSize \in Offsets
        /\ KeptTail(h, len) \in Offsets
      BY <2>1, <2>2
  <2> QED
      BY <2>2, <2>3 DEF Header, AppendHeader
<1>7. n.tail < n.head =>
          \/ n.tail = p
          \/ p = h.head /\ n.tail = h.tail /\ h.tail <= h.head
    BY <1>1, <1>2, <1>3, <1>5, RingAssumption DEF Offsets, Header
<1> QED
    BY <1>1, <1>5, <1>6, <1>7 DEF p

----------------------------------------------------------------------------
(* Arcs of frames *)

(* An arc of no cells needs nothing. *)
LEMMA ArcEmpty ==
    ASSUME NEW cs, NEW lat, NEW lo \in Nat
    PROVE  ArcOK(cs, lat, lo, lo)
BY DEF ArcOK, FramesFill, OldestFirst, HoldsLatest, Arc

(* Bytes copied elsewhere in the ring leave an arc as it is. *)
LEMMA ArcSame ==
    ASSUME NEW cs, NEW cs2, NEW lat,
           NEW lo \in Nat, NEW hi \in Nat,
           \A c \in Arc(lo, hi) : cs2[c] = cs[c],
           \A c \in Arc(lo, hi) : cs[c] \in Frag,
           ArcOK(cs, lat, lo, hi)
    PROVE  ArcOK(cs2, lat, lo, hi)
<1>1. FramesFill(cs2, lo, hi)
  <2> SUFFICES ASSUME NEW c \in Arc(lo, hi)
               PROVE  \E s \in Arc(lo, c + 1) :
                         /\ Decodes(cs2, s)
                         /\ c < s + cs2[s].len
                         /\ s + cs2[s].len <= hi
      BY DEF FramesFill
  <2>1. PICK s \in Arc(lo, c + 1) :
            Decodes(cs, s) /\ c < s + cs[s].len /\ s + cs[s].len <= hi
      BY DEF ArcOK, FramesFill
  <2>2. s \in Arc(lo, hi) /\ cs[s].len \in Nat /\ s \in Nat
      BY DEF Arc, Frag
  <2>3. \A i \in 0 .. cs[s].len - 1 : s + i \in Arc(lo, hi)
      BY <2>1, <2>2 DEF Arc
  <2>4. Decodes(cs2, s)
      BY <2>1, <2>2, <2>3 DEF Decodes
  <2> QED
      BY <2>1, <2>2, <2>4
<1>2. OldestFirst(cs2, lo, hi)
    BY DEF ArcOK, OldestFirst
<1>3. HoldsLatest(cs2, lat, lo, hi)
    BY DEF ArcOK, HoldsLatest
<1> QED
    BY <1>1, <1>2, <1>3 DEF ArcOK

(* A new frame behind an arc whose transactions are older extends the arc  *)
(* to the end of the frame, once the frame's transaction is the latest     *)
(* writer of its locations.                                                *)
LEMMA ArcExtend ==
    ASSUME NEW cs \in [Offsets -> Frag], NEW cs2 \in [Offsets -> Frag],
           NEW lat \in [Key -> Nat], NEW lat2,
           NEW id \in Nat, NEW keys \in SUBSET Key, NEW len \in Nat, len > 0,
           NEW lo \in Nat, NEW p \in Nat, lo <= p, p + len <= RingSize,
           \A c \in Arc(lo, p) : cs2[c] = cs[c] /\ cs[c].id <= id,
           \A c \in Arc(p, p + len) :
              cs2[c] = [id |-> id, keys |-> keys, pos |-> c - p, len |-> len],
           lat2 = [k \in Key |-> IF k \in keys THEN id ELSE lat[k]],
           ArcOK(cs, lat, lo, p)
    PROVE  ArcOK(cs2, lat2, lo, p + len)
<1>1. Arc(lo, p + len) = Arc(lo, p) \cup Arc(p, p + len)
    BY DEF Arc
<1>2. /\ Arc(lo, p + len) \subseteq Offsets
      /\ p \in Arc(p, p + len)
    BY RingAssumption DEF Arc, Offsets
<1>3. ArcOK(cs2, lat, lo, p)
  <2>1. \A c \in Arc(lo, p) : cs[c] \in Frag /\ cs2[c] = cs[c]
      BY <1>1, <1>2
  <2> QED
      BY <2>1, ArcSame
<1> DEFINE new(c) == [id |-> id, keys |-> keys, pos |-> c - p, len |-> len]
<1>4. \A c \in Arc(p, p + len) :
          cs2[c].id = id /\ cs2[c].keys = keys /\ cs2[c].len = len
  <2> SUFFICES ASSUME NEW c \in Arc(p, p + len)
               PROVE  cs2[c].id = id /\ cs2[c].keys = keys /\ cs2[c].len = len
      OBVIOUS
  <2>1. cs2[c] = new(c)
      OBVIOUS
  <2> QED
      BY <2>1
<1>5. \A c \in Arc(lo, p + len) :
          /\ cs2[c].id \in Nat /\ cs2[c].len \in Nat
          /\ cs2[c].keys \in SUBSET Key /\ cs2[c].id <= id
  <2>1. \A c \in Arc(lo, p + len) : cs2[c] \in Frag
      BY <1>2
  <2>2. \A c \in Arc(lo, p) : cs2[c].id <= id
      OBVIOUS
  <2> QED
      BY <1>1, <1>4, <2>1, <2>2 DEF Frag
<1>6. FramesFill(cs2, lo, p + len)
  <2>1. ASSUME NEW c \in Arc(lo, p)
        PROVE  \E s \in Arc(lo, c + 1) :
                  /\ Decodes(cs2, s)
                  /\ c < s + cs2[s].len
                  /\ s + cs2[s].len <= p + len
    <3>1. PICK s \in Arc(lo, c + 1) :
              Decodes(cs2, s) /\ c < s + cs2[s].len /\ s + cs2[s].len <= p
        BY <1>3 DEF ArcOK, FramesFill
    <3>2. s \in Offsets /\ cs2[s].len \in Nat
      <4>1. s \in Arc(lo, p + len)
          BY DEF Arc
      <4> QED
          BY <1>2, <1>5, <4>1
    <3> QED
        BY <3>1, <3>2 DEF Offsets
  <2>2. Decodes(cs2, p)
    <3>1. cs2[p] = [id |-> id, keys |-> keys, pos |-> 0, len |-> len]
      <4>1. cs2[p] = new(p) /\ p - p = 0
          BY <1>2
      <4> QED
          BY <4>1
    <3>2. ASSUME NEW i \in 0 .. len - 1
          PROVE  cs2[p + i] = [cs2[p] EXCEPT !.pos = i]
      <4>1. p + i \in Arc(p, p + len) /\ p + i - p = i
          BY DEF Arc
      <4> QED
          BY <3>1, <4>1
    <3> QED
        BY <3>1, <3>2 DEF Decodes
  <2>3. ASSUME NEW c \in Arc(p, p + len)
        PROVE  \E s \in Arc(lo, c + 1) :
                  /\ Decodes(cs2, s)
                  /\ c < s + cs2[s].len
                  /\ s + cs2[s].len <= p + len
    <3>1. p \in Arc(lo, c + 1) /\ c < p + len
        BY DEF Arc
    <3>2. cs2[p].len = len
        BY <1>2, <1>4
    <3> QED
        BY <2>2, <3>1, <3>2
  <2> QED
      BY <1>1, <2>1, <2>3 DEF FramesFill
<1>7. OldestFirst(cs2, lo, p + len)
  <2> SUFFICES ASSUME NEW c \in Arc(lo, p + len), NEW d \in Arc(lo, p + len),
                      c <= d
               PROVE  cs2[c].id <= cs2[d].id
      BY DEF OldestFirst
  <2>1. CASE d \in Arc(lo, p)
    <3>1. c \in Arc(lo, p)
        BY <2>1 DEF Arc
    <3> QED
        BY <1>3, <2>1, <3>1 DEF ArcOK, OldestFirst
  <2>2. CASE d \in Arc(p, p + len)
    <3>1. cs2[d].id = id
        BY <1>4, <2>2
    <3>2. cs2[c].id <= id
        BY <1>5
    <3> QED
        BY <3>1, <3>2
  <2> QED
      BY <1>1, <2>1, <2>2
<1>8. HoldsLatest(cs2, lat2, lo, p + len)
  <2> SUFFICES ASSUME NEW c \in Arc(lo, p + len), NEW k \in cs2[c].keys
               PROVE  /\ cs2[c].id <= lat2[k]
                      /\ \E d \in Arc(lo, p + len) :
                            k \in cs2[d].keys /\ cs2[d].id = lat2[k]
      BY DEF HoldsLatest
  <2>1. k \in Key
      BY <1>5
  <2>2. CASE k \in keys
    <3>1. lat2[k] = id /\ cs2[p].keys = keys /\ cs2[p].id = id
        BY <1>2, <1>4, <2>1, <2>2
    <3>2. cs2[c].id <= id
        BY <1>5, SMTT(60)
    <3> QED
        BY <1>1, <1>2, <2>2, <3>1, <3>2
  <2>3. CASE k \notin keys
    <3>1. c \in Arc(lo, p) /\ lat2[k] = lat[k]
        BY <1>1, <1>4, <2>1, <2>3
    <3> QED
        BY <1>1, <1>3, <3>1 DEF ArcOK, HoldsLatest
  <2> QED
      BY <2>2, <2>3
<1> QED
    BY <1>6, <1>7, <1>8 DEF ArcOK

----------------------------------------------------------------------------
(* Type correctness *)

(* JournalRing::create leaves a well-typed state. *)
LEMMA TypeInit == Init => TypeOK
<1>1. 0 \in Offsets
    BY RingAssumption DEF Offsets
<1>2. FreshHeader \in Header
    BY <1>1 DEF FreshHeader, Header
<1>3. Torn \in Frag /\ NoTx \in [id : Nat, keys : SUBSET Key, len : Nat]
    BY DEF Torn, Frag, NoTx
<1> QED
    BY <1>1, <1>2, <1>3 DEF Init, TypeOK

(* Every step of appends, flushes, crashes and recoveries keeps the types. *)
LEMMA TypeStep == TypeOK /\ [Next]_vars => TypeOK'
<1> SUFFICES ASSUME TypeOK, [Next]_vars
             PROVE  TypeOK'
    OBVIOUS
<1> USE DEF TypeOK
<1>0. 0 \in Offsets /\ NoTx \in [id : Nat, keys : SUBSET Key, len : Nat]
    BY RingAssumption DEF Offsets, NoTx
<1>1. ASSUME NEW keys \in SUBSET Key \ {{}}, NEW len \in Lens, CopyFrame(keys, len)
      PROVE  TypeOK'
  <2>1. len \in Nat /\ Torn \in Frag
      BY LensAssumption DEF Torn, Frag
  <2>2. cells' \in [Offsets -> Frag]
    <3>1. AppendCells(cells, hdr, encoded + 1, keys, len) \in [Offsets -> Frag]
        BY <2>1, AppendCellsType, SMTT(60)
    <3> QED
        BY <1>1, <2>1, <3>1 DEF CopyFrame
  <2> QED
      BY <1>1, <2>1, <2>2 DEF CopyFrame
<1>2. CASE PersistHeader
  <2>1. cells' \in [Offsets -> Frag]
      BY <1>2, AppendCellsType, Zenon DEF PersistHeader
  <2>2. hdr' \in Header
      BY <1>2, AppendType DEF PersistHeader
  <2>3. since' \in Nat
    <3>1. Advance(hdr, tx.len) \in Nat
        BY RingAssumption, SMTT(60) DEF Advance, Header, Offsets
    <3> QED
        BY <1>2, <3>1 DEF PersistHeader
  <2>4. latest' \in [Key -> Nat]
      BY <1>2 DEF PersistHeader
  <2> QED
      BY <1>2, <2>1, <2>2, <2>3, <2>4 DEF PersistHeader
<1>3. ASSUME NEW k \in Key, ApplyKey(k)
      PROVE  TypeOK'
    BY <1>0, <1>3 DEF ApplyKey, observers
<1>4. CASE FlushSnapshot
    BY <1>4 DEF FlushSnapshot, Header
<1>5. CASE FlushSync
    BY <1>5 DEF FlushSync
<1>6. CASE FlushReclaim
    BY <1>0, <1>6, CheckpointTail, Zenon DEF FlushReclaim
<1>7. CASE CheckpointNow
    BY <1>7, CheckpointTail DEF CheckpointNow, observers, Header
<1>8. CASE Crash
  <2>1. straight' \in BOOLEAN
    <3>1. Straight \in BOOLEAN
        BY Zenon DEF Straight
    <3> QED
        BY <1>8, <3>1, Zenon DEF Crash
  <2> QED
      BY <1>0, <1>8, <2>1 DEF Crash, Header
<1>9. CASE RecoverFrame
  <2>1. cells[cursor] \in Frag
      OBVIOUS
  <2>2. NextFrame(cells, cursor) \in Offsets
    <3>1. cursor + cells[cursor].len \in Nat
        BY <2>1 DEF Frag, Offsets
    <3> QED
        BY <3>1, ModInRing DEF NextFrame
  <2> QED
      BY <1>9, <2>1, <2>2 DEF RecoverFrame, observers, Frag
<1>10. ASSUME NEW k \in Key, RecoverKey(k)
       PROVE  TypeOK'
    BY <1>10 DEF RecoverKey, observers
<1>11. CASE RecoverDone
    BY <1>0, <1>11 DEF RecoverDone, ResetHeader, Header
<1>12. CASE UNCHANGED vars
    BY <1>12 DEF vars, observers
<1> QED
    BY <1>1, <1>2, <1>3, <1>4, <1>5, <1>6, <1>7, <1>8, <1>9, <1>10, <1>11,
       <1>12, ZenonT(60) DEF Next

(* The cursors of the header stay inside the ring and the ring holds only  *)
(* well-formed cells, whatever the sequence of appends, flushes, crashes   *)
(* and recoveries.                                                         *)
THEOREM TypeCorrect == Spec => []TypeOK
BY TypeInit, TypeStep, PTL DEF Spec

----------------------------------------------------------------------------
(* The inductive invariant *)

(* A freshly formatted ring satisfies the inductive invariant. *)
LEMMA InvInit == Init => IInv
<1> SUFFICES ASSUME Init PROVE IInv
    OBVIOUS
<1>1. TypeOK
    BY TypeInit
<1>2. IdsOK
    BY DEF Init, IdsOK, Torn, NoTx, FreshHeader
<1>3. ArcOK(cells, latest, hdr.tail, hdr.head)
    BY ArcEmpty DEF Init, FreshHeader
<1> QED
    BY <1>1, <1>2, <1>3 DEF Init, IInv

(* The cells of a frame under construction do not belong to an arc that    *)
(* ends at head, unless the frame wraps onto it.                           *)
LEMMA CopyLeavesArc ==
    ASSUME IInv, NEW keys \in SUBSET Key, NEW len \in 1 .. RingSize,
           CopyFrame(keys, len), NEW lo \in Nat,
           Place(hdr, len) = hdr.head \/ len <= lo,
           ArcOK(cells, latest, lo, hdr.head)
    PROVE  ArcOK(cells', latest', lo, hdr'.head)
<1>1. /\ hdr' = hdr /\ latest' = latest
      /\ hdr.head \in Offsets /\ cells \in [Offsets -> Frag]
    BY DEF CopyFrame, IInv, TypeOK, Header
<1>2. \A c \in Arc(lo, hdr.head) : c \in Offsets /\ c \notin Span(hdr, len)
  <2>1. Place(hdr, len) \in {0, hdr.head}
      BY Zenon DEF Place
  <2> QED
      BY <1>1, <2>1, RingAssumption DEF Arc, Offsets, Span
<1>3. \A c \in Offsets : c \notin Span(hdr, len) => cells'[c] = cells[c]
  <2> SUFFICES ASSUME NEW c \in Offsets, c \notin Span(hdr, len)
               PROVE  cells'[c] = cells[c]
      BY Zenon
  <2>1. AppendCells(cells, hdr, encoded + 1, keys, len)[c] = cells[c]
      BY DEF AppendCells
  <2> QED
      BY <2>1 DEF CopyFrame
<1>4. \A c \in Arc(lo, hdr.head) : cells'[c] = cells[c] /\ cells[c] \in Frag
    BY <1>1, <1>2, <1>3
<1>5. hdr.head \in Nat
    BY <1>1 DEF Offsets
<1> QED
    BY <1>1, <1>4, <1>5, ArcSame, Zenon

(* Copying a frame (append) preserves the invariant, torn cells included. *)
LEMMA InvCopyFrame ==
    ASSUME ShortFlush, IInv, TypeOK',
           NEW keys \in SUBSET Key, NEW len \in Lens, CopyFrame(keys, len)
    PROVE  IInv'
<1>1. len \in 1 .. RingSize
    BY LensAssumption, RingAssumption DEF CopyFrame
<1>2. TypeOK /\ hdr.head \in Nat /\ hdr.tail \in Nat /\ flusher.snap \in Nat
  <2>1. TypeOK /\ Offsets \subseteq Nat
      BY RingAssumption, SMTT(60) DEF IInv, Offsets
  <2> QED
      BY <2>1, Zenon DEF TypeOK, Header
<1>3. IdsOK'
  <2>1. \A c \in Offsets : cells'[c].id <= encoded'
    <3> SUFFICES ASSUME NEW c \in Offsets PROVE cells'[c].id <= encoded'
        BY SMTT(60)
    <3>1. cells[c].id <= encoded /\ cells[c].id \in Nat /\ encoded \in Nat
        BY <1>2 DEF IInv, IdsOK, TypeOK, Frag
    <3>2. AppendCells(cells, hdr, encoded + 1, keys, len)[c].id
            \in {encoded + 1, cells[c].id}
        BY DEF AppendCells
    <3>3. cells'[c].id \in {cells[c].id, 0, encoded + 1}
      <4>1. PICK old, torn \in SUBSET Span(hdr, len) :
              cells' = [x \in Offsets |->
                          IF x \in old THEN cells[x]
                          ELSE IF x \in torn THEN Torn
                          ELSE AppendCells(cells, hdr, encoded + 1, keys, len)[x]]
          BY DEF CopyFrame
      <4>2. cells'[c] \in {cells[c], Torn, AppendCells(cells, hdr, encoded + 1, keys, len)[c]}
          BY <4>1
      <4>3. Torn.id = 0
          BY DEF Torn
      <4> QED
          BY <3>2, <4>2, <4>3, SMTT(60)
    <3>4. encoded' = encoded + 1
        BY DEF CopyFrame
    <3> QED
        BY <3>1, <3>3, <3>4
  <2> QED
      BY <1>2, <2>1, SMTT(30) DEF CopyFrame, IInv, IdsOK, TypeOK
<1>4. flusher'.pc # "idle" => SnapshotOK'
  <2> SUFFICES ASSUME flusher.pc # "idle" PROVE SnapshotOK'
      BY SMTT(60) DEF CopyFrame
  <2>1. SnapshotOK /\ since + Advance(hdr, len) <= FlushWindow
      BY DEF CopyFrame, IInv
  <2>2. CASE flusher.snap + since = hdr.head /\ ArcOK(cells, latest, flusher.snap, hdr.head)
    <3>1. Place(hdr, len) = hdr.head \/ len <= flusher.snap
        BY <1>1, <1>2, <2>1, <2>2, RingAssumption, BoundsAssumption
           DEF Place, Advance, ShortFlush, TypeOK
    <3>2. ArcOK(cells', latest', flusher.snap, hdr'.head)
        BY <1>1, <1>2, <2>2, <3>1, CopyLeavesArc
    <3> QED
        BY <2>1, <2>2, <3>2 DEF SnapshotOK, CopyFrame
  <2>3. CASE flusher.snap + since = hdr.head + RingSize
      BY <2>1, <2>3 DEF SnapshotOK, CopyFrame
  <2> QED
      BY <2>1, <2>2, <2>3, Zenon DEF SnapshotOK
<1>5. Straight' => ArcOK(cells', latest', hdr'.tail, hdr'.head)
  <2> SUFFICES ASSUME Straight' PROVE ArcOK(cells', latest', hdr'.tail, hdr'.head)
      OBVIOUS
  <2>1. /\ phase = "idle" /\ phase' = "copy" /\ hdr' = hdr /\ tx'.len = len
      BY DEF CopyFrame
  <2>2. hdr.tail <= hdr.head /\ hdr.head + len <= RingSize
      BY <2>1 DEF Straight
  <2>3. ArcOK(cells, latest, hdr.tail, hdr.head)
      BY <2>1, <2>2 DEF IInv, Straight
  <2>4. Place(hdr, len) = hdr.head
      BY <1>1, <1>2, <2>2, RingAssumption DEF Place
  <2> QED
      BY <1>1, <1>2, <2>1, <2>3, <2>4, CopyLeavesArc
<1>6. CopyOK'
  <2>1. Advance(hdr, len)' = Advance(hdr, len)
      BY SMTT(60) DEF CopyFrame, Advance, Place
  <2> QED
      BY <1>1, Zenon DEF CopyOK, CopyFrame, Advance, Place
<1>7. phase = "idle" /\ phase' = "copy" /\ todo' = todo /\ image' = image /\ latest' = latest
    BY DEF CopyFrame
<1> QED
    BY <1>3, <1>4, <1>5, <1>6, <1>7, SMTT(60) DEF IInv

(* The commit point of append preserves the invariant: the arc grows by    *)
(* the new frame, or is cut when the frame overwrites it.                  *)
LEMMA InvPersistHeader ==
    ASSUME ShortFlush, IInv, TypeOK', PersistHeader
    PROVE  IInv'
<1> DEFINE len == tx.len
           p   == Place(hdr, tx.len)
<1>1. /\ TypeOK /\ IdsOK /\ CopyOK /\ image = latest
      /\ phase = "copy" /\ phase' = "apply"
      /\ len \in 1 .. RingSize /\ len \in Nat
      /\ hdr \in Header /\ hdr' = AppendHeader(hdr, len)
      /\ tx.id = encoded /\ tx.id \in Nat /\ tx.keys \in SUBSET Key
    BY RingAssumption DEF PersistHeader, IInv, CopyOK, TypeOK
<1>2. Offsets \subseteq Nat
    BY RingAssumption DEF Offsets
<1>3. /\ p \in Offsets /\ p \in Nat
      /\ p + len <= RingSize
      /\ p = hdr.head \/ (p = 0 /\ hdr.head + len > RingSize)
      /\ hdr'.head = IF p + len = RingSize THEN 0 ELSE p + len
      /\ hdr'.tail < hdr'.head =>
            \/ hdr'.tail = p
            \/ p = hdr.head /\ hdr'.tail = hdr.tail /\ hdr.tail <= hdr.head
    BY <1>1, <1>2, AppendCursors, Zenon
<1> HIDE DEF p
<1>4. /\ \A c \in Offsets : c \notin Arc(p, p + len) => cells'[c] = cells[c]
      /\ \A c \in Arc(p, p + len) :
            /\ c \in Offsets
            /\ cells'[c] = [id |-> tx.id, keys |-> tx.keys, pos |-> c - p, len |-> len]
  <2>1. Arc(p, p + len) = Span(hdr, len) /\ Arc(p, p + len) \subseteq Offsets
      BY <1>1, <1>3, RingAssumption, SMTT(30) DEF Arc, Span, p, Offsets
  <2> QED
      BY <1>1, <2>1, SMTT(60) DEF PersistHeader, AppendCells, p
<1>5. ASSUME NEW lo \in Nat, lo <= p, ArcOK(cells, latest, lo, p)
      PROVE  ArcOK(cells', latest', lo, p + len)
  <2>1. \A c \in Arc(lo, p) : cells'[c] = cells[c] /\ cells[c].id <= tx.id
    <3>1. \A c \in Arc(lo, p) : c \in Offsets /\ c \notin Arc(p, p + len)
      <4>1. p \in Nat /\ len \in Nat /\ len > 0 /\ p + len <= RingSize
          BY <1>1, <1>3, RingAssumption, SMTT(60)
      <4> QED
          BY <1>5, <4>1, RingAssumption, SMTT(60) DEF Arc, Offsets
    <3> QED
        BY <1>1, <1>4, <3>1 DEF IdsOK
  <2>2. latest' = [k \in Key |-> IF k \in tx.keys THEN tx.id ELSE latest[k]]
      BY DEF PersistHeader
  <2>3. /\ cells \in [Offsets -> Frag] /\ cells' \in [Offsets -> Frag]
        /\ latest \in [Key -> Nat] /\ len > 0
      BY <1>1, SMTT(60) DEF TypeOK
  <2> QED
      BY <1>1, <1>3, <1>4, <1>5, <2>1, <2>2, <2>3, ArcExtend, ZenonT(60)
<1>6. IdsOK'
  <2>1. ASSUME NEW c \in Offsets PROVE cells'[c].id <= encoded
    <3>1. CASE c \in Arc(p, p + len)
      <4>1. cells'[c] = [id |-> tx.id, keys |-> tx.keys, pos |-> c - p, len |-> len]
          BY <1>4, <3>1
      <4>2. cells'[c].id = tx.id
          BY <4>1, SMTT(60)
      <4> QED
          BY <1>1, <4>2, SMTT(60)
    <3>2. CASE c \notin Arc(p, p + len)
        BY <1>1, <1>4, <3>2 DEF IdsOK
    <3> QED
        BY <3>1, <3>2
  <2> QED
      BY <1>1, <2>1 DEF IdsOK, PersistHeader, TypeOK
<1>7. flusher'.pc # "idle" => SnapshotOK'
  <2> SUFFICES ASSUME flusher.pc # "idle" PROVE SnapshotOK'
      BY Zenon DEF PersistHeader
  <2>1. /\ SnapshotOK
        /\ since + Advance(hdr, len) <= FlushWindow
        /\ since' = since + Advance(hdr, len)
        /\ flusher' = flusher
        /\ flusher.snap \in Nat /\ flusher.snap < RingSize
        /\ since \in Nat /\ hdr.head \in Nat /\ hdr.head < RingSize
      BY <1>1, RingAssumption, SMTT(60)
         DEF IInv, CopyOK, PersistHeader, TypeOK, Header, Offsets
  <2>2. Advance(hdr, len) = IF p = hdr.head THEN len ELSE RingSize - hdr.head + len
      BY DEF Advance, p
  <2>3. since' < RingSize
      BY <1>1, <2>1, <2>2, RingAssumption, BoundsAssumption DEF ShortFlush
  <2>4. \/ flusher.snap + since' = hdr'.head + RingSize
        \/ /\ flusher.snap + since' = hdr'.head
           /\ flusher.snap + since = hdr.head
           /\ p = hdr.head /\ hdr'.head = p + len
           /\ ArcOK(cells, latest, flusher.snap, hdr.head)
    <3>1. /\ len \in Nat /\ len > 0 /\ len <= RingSize /\ p \in Nat /\ p + len <= RingSize
          /\ p = hdr.head \/ (p = 0 /\ hdr.head + len > RingSize)
          /\ hdr'.head = IF p + len = RingSize THEN 0 ELSE p + len
        BY <1>1, <1>3, RingAssumption
    <3>2. \/ /\ flusher.snap + since = hdr.head
             /\ ArcOK(cells, latest, flusher.snap, hdr.head)
          \/ flusher.snap + since = hdr.head + RingSize
        BY <2>1 DEF SnapshotOK
    <3> QED
        BY <2>1, <2>2, <2>3, <3>1, <3>2, RingAssumption, SMTT(60)
  <2>5. CASE flusher.snap + since' = hdr'.head + RingSize
      BY <2>1, <2>3, <2>5 DEF SnapshotOK
  <2>6. CASE /\ flusher.snap + since' = hdr'.head
             /\ flusher.snap + since = hdr.head
             /\ p = hdr.head /\ hdr'.head = p + len
             /\ ArcOK(cells, latest, flusher.snap, hdr.head)
    <3>1. flusher.snap <= p
        BY <2>1, <2>6
    <3>2. ArcOK(cells', latest', flusher.snap, hdr'.head)
        BY <1>5, <2>1, <2>6, <3>1
    <3> QED
        BY <2>1, <2>3, <2>6, <3>2 DEF SnapshotOK
  <2> QED
      BY <2>4, <2>5, <2>6, Zenon
<1>8. ASSUME Straight'
      PROVE  /\ ArcOK(cells', latest', hdr'.tail, hdr'.head)
             /\ p \in Arc(hdr'.tail, hdr'.head)
  <2>1. /\ hdr'.tail < hdr'.head /\ hdr'.tail \in Nat /\ hdr.tail \in Nat
        /\ hdr.head \in Nat
      BY <1>1, <1>2, <1>8, Zenon DEF Straight, TypeOK, Header
  <2>2. hdr'.head = p + len
      BY <1>3, <2>1
  <2>3. CASE hdr'.tail = p
    <3>1. ArcOK(cells, latest, p, p)
        BY <1>3, ArcEmpty, SMTT(60)
    <3> QED
        BY <1>1, <1>3, <1>5, <2>2, <2>3, <3>1 DEF Arc
  <2>4. CASE p = hdr.head /\ hdr'.tail = hdr.tail /\ hdr.tail <= hdr.head
    <3>1. Straight
        BY <1>1, <1>3, <2>4, ZenonT(60) DEF Straight
    <3>2. ArcOK(cells, latest, hdr.tail, hdr.head)
        BY <1>1, <3>1, SMTT(60) DEF IInv
    <3>3. ArcOK(cells', latest', hdr.tail, p + len)
        BY <1>5, <2>1, <2>4, <3>2
    <3> QED
        BY <1>1, <1>3, <2>1, <2>2, <2>4, <3>3 DEF Arc
  <2> QED
      BY <1>3, <2>1, <2>3, <2>4, Zenon
<1>9. ApplyOK'
  <2>1. \A k \in Key : IF k \in todo' THEN latest'[k] = tx'.id
                                      ELSE image'[k] = latest'[k]
      BY <1>1 DEF PersistHeader
  <2>2. ASSUME Straight', NEW k \in todo'
        PROVE  \E c \in Arc(hdr'.tail, hdr'.head) : k \in cells'[c].keys
    <3>1. p \in Arc(p, p + len)
        BY <1>1, <1>3 DEF Arc
    <3>2. cells'[p] = [id |-> tx.id, keys |-> tx.keys, pos |-> p - p, len |-> len]
        BY <1>4, <3>1, Zenon
    <3>3. cells'[p].keys = tx.keys /\ todo' = tx.keys
        <4>1. cells'[p].keys = tx.keys
            BY <3>2
        <4>2. todo' = tx.keys
            BY Zenon DEF PersistHeader
        <4> QED
            BY <4>1, <4>2, Zenon
    <3> QED
        BY <1>8, <2>2, <3>3, SMTT(60)
  <2> QED
      BY <2>1, <2>2, Zenon DEF ApplyOK
<1> QED
    BY <1>1, <1>6, <1>7, <1>8, <1>9, Zenon DEF IInv

(* apply_op_in_place brings one more location up to date. *)
LEMMA InvApplyKey ==
    ASSUME IInv, TypeOK', NEW k \in Key, ApplyKey(k)
    PROVE  IInv'
<1>1. /\ TypeOK /\ IdsOK /\ ApplyOK /\ phase = "apply" /\ k \in todo
      /\ hdr' = hdr /\ cells' = cells /\ latest' = latest /\ encoded' = encoded
      /\ flusher' = flusher /\ since' = since
      /\ image' = [image EXCEPT ![k] = tx.id] /\ todo' = todo \ {k}
    BY Zenon DEF ApplyKey, IInv, observers
<1>2. IdsOK'
  <2>1. tx'.id <= encoded
      BY <1>1 DEF ApplyKey, IdsOK, NoTx, TypeOK
  <2>2. \A j \in Key : image'[j] <= encoded
      BY <1>1 DEF IdsOK, TypeOK
  <2> QED
      BY <1>1, <2>1, <2>2, Zenon DEF IdsOK
<1>3. SnapshotOK' <=> SnapshotOK
    BY <1>1, Zenon DEF SnapshotOK
<1>4. \A j \in Key : IF j \in todo' THEN latest'[j] = tx.id
                                    ELSE image'[j] = latest'[j]
    BY <1>1 DEF ApplyOK, TypeOK
<1>5. CASE todo = {k}
  <2>1. phase' = "idle" /\ todo' = {}
      BY <1>1, <1>5, Zenon DEF ApplyKey
  <2>2. image' = latest'
      BY <1>1, <1>4, <2>1 DEF TypeOK
  <2>3. Straight' => ArcOK(cells', latest', hdr'.tail, hdr'.head)
    <3> SUFFICES ASSUME Straight' PROVE ArcOK(cells, latest, hdr.tail, hdr.head)
        BY <1>1, Zenon
    <3>1. hdr.tail <= hdr.head /\ hdr.tail \in Nat /\ hdr.head \in Nat
        BY <1>1, <2>1, RingAssumption DEF Straight, TypeOK, Header, Offsets
    <3>2. CASE hdr.tail = hdr.head
        BY <3>1, <3>2, ArcEmpty, Zenon
    <3>3. CASE hdr.tail < hdr.head
        BY <1>1, <3>3, Zenon DEF IInv, Straight
    <3> QED
        BY <3>1, <3>2, <3>3
  <2> QED
      BY <1>1, <1>2, <1>3, <2>1, <2>2, <2>3 DEF IInv
<1>6. CASE todo # {k}
  <2>1. phase' = "apply" /\ tx' = tx
      BY <1>1, <1>6 DEF ApplyKey
  <2>2. Straight' <=> Straight
      BY <1>1, <2>1, Zenon DEF Straight
  <2>3. ApplyOK'
      BY <1>1, <1>4, <2>1, <2>2, Zenon DEF ApplyOK
  <2> QED
      BY <1>1, <1>2, <1>3, <2>1, <2>2, <2>3 DEF IInv
<1> QED
    BY <1>5, <1>6

(* flush() reads head: the snapshot is the end of the pending arc. *)
LEMMA InvFlushSnapshot ==
    ASSUME IInv, TypeOK', FlushSnapshot
    PROVE  IInv'
<1>1. /\ TypeOK /\ IdsOK /\ phase = "idle" /\ flusher'.snap = hdr.head /\ since' = 0
      /\ UNCHANGED <<hdr, cells, image, phase, tx, todo, encoded, latest>>
    BY DEF FlushSnapshot, IInv
<1>2. hdr.head \in Nat
    BY <1>1, RingAssumption DEF TypeOK, Header, Offsets
<1>3. SnapshotOK'
  <2>1. ArcOK(cells, latest, hdr.head, hdr.head)
      BY <1>2, ArcEmpty
  <2> QED
      BY <1>1, <1>2, <2>1, RingAssumption DEF SnapshotOK
<1>4. (Straight' <=> Straight) /\ (IdsOK' <=> IdsOK)
    BY <1>1, ZenonT(60) DEF Straight, IdsOK
<1> QED
    BY <1>1, <1>3, <1>4, Zenon DEF IInv

(* flush()'s msync changes nothing that recovery depends on. *)
LEMMA InvFlushSync ==
    ASSUME IInv, TypeOK', FlushSync
    PROVE  IInv'
<1>1. /\ TypeOK /\ IdsOK /\ SnapshotOK /\ phase = "idle"
      /\ flusher'.snap = flusher.snap
      /\ UNCHANGED <<hdr, cells, image, phase, tx, todo, encoded, latest, since>>
    BY Zenon DEF FlushSync, IInv, TypeOK
<1>2. (Straight' <=> Straight) /\ (IdsOK' <=> IdsOK) /\ (SnapshotOK' <=> SnapshotOK)
    BY <1>1, Zenon DEF Straight, IdsOK, SnapshotOK
<1> QED
    BY <1>1, <1>2, SMTT(60) DEF IInv

(* checkpoint_to the snapshot leaves a complete, newest part of the arc. *)
LEMMA InvFlushReclaim ==
    ASSUME IInv, TypeOK', FlushReclaim
    PROVE  IInv'
<1>1. /\ TypeOK /\ IdsOK /\ SnapshotOK /\ phase = "idle" /\ flusher'.pc = "idle"
      /\ hdr' = CheckpointTo(hdr, flusher.snap)
      /\ UNCHANGED <<cells, image, phase, tx, todo, encoded, latest>>
    BY DEF FlushReclaim, IInv
<1>2. hdr'.head = hdr.head /\ hdr'.tail \in {hdr.tail, flusher.snap}
    BY <1>1, CheckpointTail, Zenon DEF TypeOK
<1>3. Straight' => ArcOK(cells', latest', hdr'.tail, hdr'.head)
  <2> SUFFICES ASSUME Straight' PROVE ArcOK(cells, latest, hdr'.tail, hdr.head)
      BY <1>1, <1>2
  <2>1. hdr'.tail <= hdr.head
      BY <1>1, <1>2 DEF Straight
  <2>2. CASE hdr'.tail = hdr.tail
      BY <1>1, <2>1, <2>2, SMTT(60) DEF IInv, Straight
  <2>3. CASE hdr'.tail = flusher.snap
    <3>1. Offsets \subseteq Nat
        BY RingAssumption DEF Offsets
    <3>2. /\ flusher.snap \in Nat /\ since \in Nat /\ hdr.head \in Nat
          /\ since < RingSize /\ flusher.snap <= hdr.head
        BY <1>1, <2>1, <2>3, <3>1, Zenon DEF SnapshotOK, TypeOK, Header
    <3>3. flusher.snap + since # hdr.head + RingSize
        BY <3>2, RingAssumption
    <3> QED
        BY <1>1, <2>3, <3>3 DEF SnapshotOK
  <2> QED
      BY <1>2, <2>2, <2>3, SMTT(60)
<1>4. IdsOK' <=> IdsOK
    BY <1>1, SMTT(60) DEF IdsOK
<1> QED
    BY <1>1, <1>3, <1>4, Zenon DEF IInv

(* checkpoint_journal_now empties the arc of an image that is up to date. *)
LEMMA InvCheckpointNow ==
    ASSUME IInv, TypeOK', CheckpointNow
    PROVE  IInv'
<1>1. /\ TypeOK /\ IdsOK /\ phase = "idle"
      /\ hdr' = CheckpointTo(hdr, hdr.head)
      /\ UNCHANGED <<cells, image, phase, tx, todo, encoded, latest, flusher, since>>
    BY DEF CheckpointNow, IInv, observers
<1>2. /\ hdr'.head = hdr.head /\ hdr'.tail \in {hdr.tail, hdr.head}
      /\ hdr.head \in Nat
  <2>1. hdr \in Header /\ hdr.head \in Offsets /\ Offsets \subseteq Nat
      BY <1>1, RingAssumption DEF TypeOK, Header, Offsets
  <2> QED
      BY <1>1, <2>1, CheckpointTail, Zenon
<1>3. Straight' => ArcOK(cells', latest', hdr'.tail, hdr'.head)
  <2>1. CASE hdr'.tail = hdr.tail
      BY <1>1, <1>2, <2>1 DEF IInv, Straight
  <2>2. CASE hdr'.tail = hdr.head
      BY <1>1, <1>2, <2>2, ArcEmpty, SMTT(60)
  <2> QED
      BY <1>2, <2>1, <2>2, SMTT(60)
<1>4. (IdsOK' <=> IdsOK) /\ (SnapshotOK' <=> SnapshotOK)
    BY <1>1, <1>2 DEF IdsOK, SnapshotOK
<1> QED
    BY <1>1, <1>3, <1>4 DEF IInv

(* The death of the process, at any step, leaves a ring whose replay       *)
(* brings the image up to date.                                            *)
LEMMA InvCrash ==
    ASSUME IInv, TypeOK', Crash
    PROVE  IInv'
<1>1. /\ TypeOK /\ IdsOK /\ phase' = "recover" /\ flusher'.pc = "idle"
      /\ tx' = NoTx /\ todo' = {} /\ cursor' = hdr.tail /\ traversed' = 0
      /\ UNCHANGED <<hdr, cells, image, encoded, latest>>
    BY DEF Crash, IInv
<1>2. straight' => IF phase = "recover" THEN straight ELSE Straight
    BY Zenon DEF Crash
<1>3. IdsOK'
    BY <1>1 DEF IdsOK, NoTx, TypeOK
<1>4. ASSUME straight'
      PROVE  ArcOK(cells', latest', hdr'.tail, hdr'.head) /\ ScanOK'
  <2>1. /\ ArcOK(cells, latest, hdr.tail, hdr.head)
        /\ hdr.tail <= hdr.head
        /\ hdr.tail \in Nat /\ hdr.head \in Nat /\ cursor \in Nat
    <3>1. hdr.tail \in Nat /\ hdr.head \in Nat /\ cursor \in Nat
      <4>1. Offsets \subseteq Nat
          BY RingAssumption, SMTT(60) DEF Offsets
      <4> QED
          BY <1>1, <4>1 DEF TypeOK, Header
    <3>2. CASE phase = "recover"
      <4>1. straight
          BY <1>2, <1>4, <3>2
      <4>2. ArcOK(cells, latest, hdr.tail, hdr.head) /\ ScanOK
          BY <3>2, <4>1, SMTT(60) DEF IInv
      <4> QED
          BY <3>1, <4>2 DEF ScanOK
    <3>3. CASE phase # "recover"
      <4>1. Straight
          BY <1>2, <1>4, <3>3
      <4>2. ArcOK(cells, latest, hdr.tail, hdr.head)
          BY <3>3, <4>1 DEF IInv
      <4> QED
          BY <3>1, <4>1, <4>2 DEF Straight
    <3> QED
        BY <3>2, <3>3
  <2>2. hdr.tail < hdr.head => Decodes(cells, hdr.tail)
    <3> SUFFICES ASSUME hdr.tail < hdr.head PROVE Decodes(cells, hdr.tail)
        OBVIOUS
    <3>1. hdr.tail \in Arc(hdr.tail, hdr.head)
        BY <2>1, SMTT(60) DEF Arc
    <3>2. PICK s \in Arc(hdr.tail, hdr.tail + 1) : Decodes(cells, s)
        BY <2>1, <3>1 DEF ArcOK, FramesFill
    <3>3. s = hdr.tail
        BY <2>1 DEF Arc
    <3> QED
        BY <3>2, <3>3
  <2>3. ASSUME NEW k \in Key
        PROVE  \/ \E c \in Arc(hdr.tail, hdr.head) : k \in cells[c].keys
               \/ image[k] = latest[k]
    <3>1. CASE phase \in {"idle", "copy"}
        BY <3>1, Zenon DEF IInv
    <3>2. CASE phase = "apply"
        BY <1>4, <1>2, <3>2, Zenon DEF IInv, ApplyOK
    <3>3. CASE phase = "recover"
      <4>1. ScanOK
          BY <1>4, <1>2, <3>3, Zenon DEF IInv
      <4>2. CASE k \in todo
          BY <4>1, <4>2 DEF ScanOK
      <4>3. CASE k \notin todo /\ image[k] # latest[k]
        <5>1. PICK c \in Arc(cursor, hdr.head) : k \in cells[c].keys
            BY <4>1, <4>3, Zenon DEF ScanOK
        <5>2. cursor \in Nat /\ hdr.tail <= cursor
            BY <2>1, <4>1 DEF ScanOK
        <5>3. c \in Arc(hdr.tail, hdr.head)
            BY <2>1, <5>2, SMTT(60) DEF Arc
        <5> QED
            BY <5>1, <5>3
      <4> QED
          BY <4>2, <4>3
    <3> QED
        BY <1>1, <3>1, <3>2, <3>3, Zenon DEF TypeOK
  <2>4. ScanOK'
    <3>1. /\ hdr' = hdr /\ cells' = cells /\ image' = image /\ latest' = latest
          /\ cursor' = hdr.tail /\ traversed' = 0 /\ todo' = {}
        BY <1>1
    <3>2. hdr.tail <= hdr.tail /\ 0 = hdr.tail - hdr.tail
        BY <2>1
    <3> QED
        BY <2>1, <2>2, <2>3, <3>1, <3>2 DEF ScanOK
  <2> QED
      BY <1>1, <2>1, <2>4
<1> QED
    BY <1>1, <1>3, <1>4, Zenon DEF IInv

(* Where a frame ends inside an arc, the next one starts. *)
LEMMA NextFrameDecodes ==
    ASSUME NEW cs \in [Offsets -> Frag],
           NEW lo \in Nat, NEW hi \in Nat, hi <= RingSize,
           FramesFill(cs, lo, hi),
           NEW c \in Arc(lo, hi), Decodes(cs, c)
    PROVE  /\ c + cs[c].len <= hi
           /\ c + cs[c].len < hi => Decodes(cs, c + cs[c].len)
<1>1. /\ Arc(lo, hi) \subseteq Offsets /\ Offsets \subseteq Nat
      /\ c \in Nat /\ cs[c].len \in Nat /\ cs[c].len > 0 /\ cs[c].pos = 0
  <2>1. Arc(lo, hi) \subseteq Offsets /\ Offsets \subseteq Nat /\ c \in Nat
      BY RingAssumption DEF Arc, Offsets
  <2>2. cs[c] \in Frag
      BY <2>1
  <2>3. cs[c].len \in Nat /\ cs[c].len > 0
      BY <2>2 DEF Decodes, Frag
  <2>4. cs[c + 0] = [cs[c] EXCEPT !.pos = 0] /\ c + 0 = c
      BY <2>1, <2>3 DEF Decodes
  <2>5. cs[c].pos = 0
      BY <2>2, <2>4 DEF Frag
  <2> QED
      BY <2>1, <2>3, <2>5
<1>2. ASSUME NEW d \in Arc(lo, hi), NEW s \in Arc(lo, d + 1),
             Decodes(cs, s), d < s + cs[s].len
      PROVE  cs[d].pos = d - s /\ s \in Arc(lo, hi) /\ s \in Nat /\ cs[s].len \in Nat
  <2>1. s \in Arc(lo, hi) /\ s \in Nat /\ d \in Nat /\ s <= d
      BY DEF Arc
  <2>2. cs[s] \in Frag
      BY <1>1, <2>1
  <2>3. cs[s].len \in Nat
      BY <2>2 DEF Frag
  <2>4. d - s \in 0 .. cs[s].len - 1 /\ s + (d - s) = d
      BY <1>2, <2>1, <2>3
  <2>5. cs[d] = [cs[s] EXCEPT !.pos = d - s]
      BY <1>2, <2>4 DEF Decodes
  <2> QED
      BY <2>1, <2>2, <2>3, <2>5 DEF Frag
<1>3. PICK t \in Arc(lo, c + 1) :
          Decodes(cs, t) /\ c < t + cs[t].len /\ t + cs[t].len <= hi
    BY DEF FramesFill
<1>4. t = c
    BY <1>1, <1>2, <1>3, SMTT(60) DEF Arc
<1>5. ASSUME c + cs[c].len < hi
      PROVE  Decodes(cs, c + cs[c].len)
  <2> DEFINE e == c + cs[c].len
  <2>1. e \in Arc(lo, hi) /\ e \in Nat
      BY <1>1, <1>5 DEF Arc
  <2> HIDE DEF e
  <2>2. PICK s \in Arc(lo, e + 1) : Decodes(cs, s) /\ e < s + cs[s].len
      BY <2>1 DEF FramesFill
  <2>3. s \in Arc(lo, hi) /\ s \in Nat /\ cs[s].len \in Nat /\ cs[e].pos = e - s /\ s <= e
      BY <1>2, <2>1, <2>2 DEF Arc
  <2>4. CASE s = e
      BY <2>2, <2>4 DEF e
  <2>5. CASE s < c
    <3>1. c \in Arc(lo, hi) /\ s \in Arc(lo, c + 1) /\ c < s + cs[s].len
        BY <1>1, <2>1, <2>2, <2>3, <2>5 DEF Arc, e
    <3>2. cs[c].pos = c - s
        BY <1>2, <2>2, <3>1, Zenon
    <3> QED
        BY <1>1, <2>3, <2>5, <3>2, SMTT(60)
  <2>6. CASE s >= c /\ s < e
    <3>1. c \in Arc(lo, s + 1) /\ s < c + cs[c].len
        BY <1>1, <2>3, <2>6 DEF Arc, e
    <3>2. cs[s].pos = s - c
        BY <1>2, <2>3, <3>1, Zenon
    <3>3. s \in Arc(lo, s + 1) /\ s < s + cs[s].len
        BY <1>1, <2>1, <2>2, <2>3, <2>6 DEF Arc
    <3>4. cs[s].pos = s - s
        BY <1>2, <2>2, <2>3, <3>3, Zenon
    <3>5. s = c
        BY <1>1, <2>3, <3>2, <3>4
    <3> QED
        BY <1>1, <2>1, <2>2, <3>5, SMTT(60) DEF e
  <2> QED
      BY <1>1, <2>1, <2>3, <2>4, <2>5, <2>6, SMTT(60)
<1> QED
    BY <1>3, <1>4, <1>5, SMTT(60)

(* Decoding the next frame keeps the scan on frame boundaries of the arc. *)
LEMMA InvRecoverFrame ==
    ASSUME IInv, TypeOK', RecoverFrame
    PROVE  IInv'
<1> DEFINE len == cells[cursor].len
<1>1. /\ TypeOK /\ IdsOK /\ phase = "recover" /\ todo = {} /\ MoreFrames
      /\ tx'.id = cells[cursor].id /\ todo' = cells[cursor].keys
      /\ cursor' = NextFrame(cells, cursor) /\ traversed' = traversed + len
      /\ UNCHANGED <<hdr, cells, image, phase, flusher, encoded, latest, straight, since>>
    BY Zenon DEF RecoverFrame, IInv, observers
<1>2. IdsOK'
    BY <1>1, Zenon DEF IdsOK, TypeOK
<1>3. ASSUME straight
      PROVE  ScanOK'
  <2>1. ArcOK(cells, latest, hdr.tail, hdr.head) /\ ScanOK
      BY <1>1, <1>3, Zenon DEF IInv
  <2>2. /\ hdr.tail \in Nat /\ hdr.head \in Nat /\ cursor \in Nat /\ traversed \in Nat
        /\ hdr.head < RingSize /\ cursor \in Offsets /\ cells \in [Offsets -> Frag]
    <3>1. Offsets \subseteq Nat /\ \A x \in Offsets : x < RingSize
        BY RingAssumption DEF Offsets
    <3> QED
        BY <1>1, <3>1, Zenon DEF TypeOK, Header
  <2>3. /\ cells[cursor].len \in Nat /\ cells[cursor].len > 0
        /\ cells[cursor].id \in Nat /\ cells[cursor].keys \in SUBSET Key
        /\ Decodes(cells, cursor)
    <3>1. cells[cursor] \in Frag
        BY <2>2, SMTT(60)
    <3>2. Decodes(cells, cursor)
        BY <1>1 DEF MoreFrames
    <3> QED
        BY <3>1, <3>2 DEF Frag, Decodes
  <2>4. cursor \in Arc(hdr.tail, hdr.head) /\ hdr.tail <= cursor /\ cursor < hdr.head
    <3>1. hdr.tail <= cursor /\ cursor <= hdr.head
        BY <2>1, SMTT(60) DEF ScanOK
    <3>2. cursor # hdr.head
        BY <1>1, SMTT(60) DEF MoreFrames
    <3> QED
        BY <2>2, <3>1, <3>2, SMTT(60) DEF Arc
  <2>5. /\ cursor + len <= hdr.head
        /\ cursor + len < hdr.head => Decodes(cells, cursor + len)
    <3>1. hdr.head <= RingSize /\ FramesFill(cells, hdr.tail, hdr.head)
        BY <2>1, <2>2, RingAssumption DEF ArcOK
    <3> QED
        BY <2>2, <2>3, <2>4, <3>1, NextFrameDecodes, SMTT(60)
  <2>6. cursor' = cursor + len
    <3>1. cursor + len \in 0 .. 2 * RingSize - 1 /\ cursor + len < RingSize
        BY <2>2, <2>3, <2>5, RingAssumption
    <3> QED
        BY <1>1, <3>1, ModWrap, ZenonT(60) DEF NextFrame
  <2>7. \A c \in Arc(cursor, cursor + len) :
            /\ cells[c].keys = cells[cursor].keys
            /\ cells[c].id = cells[cursor].id
    <3> SUFFICES ASSUME NEW c \in Arc(cursor, cursor + len)
                 PROVE  /\ cells[c].keys = cells[cursor].keys
                        /\ cells[c].id = cells[cursor].id
        BY Zenon
    <3>1. c - cursor \in 0 .. len - 1 /\ cursor + (c - cursor) = c
        BY <2>2, <2>3 DEF Arc
    <3>2. cells[c] = [cells[cursor] EXCEPT !.pos = c - cursor]
        BY <2>3, <3>1 DEF Decodes
    <3>3. cells[cursor] \in Frag
        BY <2>2, ZenonT(60)
    <3> QED
        BY <3>2, <3>3, Zenon DEF Frag
  <2>8. Arc(cursor, hdr.head) = Arc(cursor, cursor + len) \cup Arc(cursor + len, hdr.head)
      BY <2>2, <2>3, <2>4, <2>5, SMTT(60) DEF Arc
  <2>9. ASSUME NEW k \in Key
        PROVE  \/ \E c \in Arc(cursor + len, hdr.head) : k \in cells[c].keys
               \/ (IF k \in todo' THEN tx'.id ELSE image[k]) = latest[k]
    <3> SUFFICES ASSUME ~ \E c \in Arc(cursor + len, hdr.head) : k \in cells[c].keys
                 PROVE  (IF k \in todo' THEN tx'.id ELSE image[k]) = latest[k]
        BY SMTT(60)
    <3>1. CASE k \in cells[cursor].keys
      <4>1. /\ cells[cursor].id <= latest[k]
            /\ \E d \in Arc(hdr.tail, hdr.head) :
                  k \in cells[d].keys /\ cells[d].id = latest[k]
          BY <2>1, <2>4, <3>1, Zenon DEF ArcOK, HoldsLatest
      <4>2. PICK d \in Arc(hdr.tail, hdr.head) :
                k \in cells[d].keys /\ cells[d].id = latest[k]
          BY <4>1, Zenon
      <4>3. CASE d <= cursor
        <5>1. cells[d].id <= cells[cursor].id
            BY <2>1, <2>4, <4>3, Zenon DEF ArcOK, OldestFirst
        <5>2. latest[k] \in Nat
            BY <1>1, ZenonT(60) DEF TypeOK
        <5>3. cells[cursor].id = latest[k]
            BY <2>3, <4>1, <4>2, <5>1, <5>2, SMTT(60)
        <5> QED
            BY <1>1, <3>1, <5>3, Zenon
      <4>4. CASE d > cursor
        <5>1. d \in Arc(cursor, hdr.head)
            BY <2>2, <4>4, SMTT(60) DEF Arc
        <5>2. d \in Arc(cursor, cursor + len)
            BY <2>8, <4>2, <5>1, SMTT(60)
        <5> QED
            BY <1>1, <2>7, <3>1, <4>2, <5>2, SMTT(60)
      <4>5. d \in Nat
          BY <2>2 DEF Arc
      <4> QED
          BY <2>2, <4>3, <4>4, <4>5
    <3>2. CASE k \notin cells[cursor].keys
      <4>1. ~ \E c \in Arc(cursor, hdr.head) : k \in cells[c].keys
          BY <2>7, <2>8, <3>2, SMTT(60)
      <4> QED
          BY <1>1, <2>1, <3>2, <4>1, ZenonT(60) DEF ScanOK
    <3> QED
        BY <3>1, <3>2, SMTT(60)
  <2>10. traversed' = cursor' - hdr.tail
    <3>1. traversed' = traversed + len /\ traversed = cursor - hdr.tail
        BY <1>1, <2>1, ZenonT(60) DEF ScanOK
    <3> QED
        BY <2>2, <2>3, <2>6, <3>1
  <2>11. hdr.tail <= cursor' /\ cursor' <= hdr.head
      BY <2>2, <2>3, <2>4, <2>5, <2>6
  <2>12. \A k \in todo' : \E c \in Arc(hdr.tail, hdr.head) : k \in cells[c].keys
    <3>1. todo' = cells[cursor].keys
        BY <1>1
    <3> QED
        BY <2>4, <3>1, Zenon
  <2> QED
      BY <1>1, <2>5, <2>6, <2>9, <2>10, <2>11, <2>12, Zenon DEF ScanOK
<1> QED
    BY <1>1, <1>2, <1>3, Zenon DEF IInv

(* Replaying one location of a frame brings it nearer to its last writer. *)
LEMMA InvRecoverKey ==
    ASSUME IInv, TypeOK', NEW k \in Key, RecoverKey(k)
    PROVE  IInv'
<1>1. /\ TypeOK /\ IdsOK /\ phase = "recover" /\ k \in todo
      /\ image' = [image EXCEPT ![k] = tx.id] /\ todo' = todo \ {k}
      /\ UNCHANGED <<hdr, cells, phase, tx, cursor, traversed, flusher, encoded,
                     latest, straight, since>>
    BY DEF RecoverKey, IInv, observers
<1>2. IdsOK'
    BY <1>1, ZenonT(60) DEF IdsOK, TypeOK
<1>3. ASSUME straight PROVE ScanOK'
  <2>1. ScanOK
      BY <1>1, <1>3 DEF IInv
  <2> QED
      BY <1>1, <2>1 DEF ScanOK, TypeOK
<1> QED
    BY <1>1, <1>2, <1>3, Zenon DEF IInv

(* A scan that ends has reached head, and every location is up to date. *)
LEMMA ScanEndsUpToDate ==
    ASSUME IInv, straight, RecoverDone
    PROVE  image = latest
<1>1. /\ TypeOK /\ ScanOK /\ todo = {} /\ ~MoreFrames
    BY DEF IInv, RecoverDone
<1>2. /\ hdr.tail \in Nat /\ cursor \in Nat /\ cursor < RingSize /\ hdr.head \in Nat
    BY <1>1, RingAssumption, SMTT(60) DEF TypeOK, Header, Offsets
<1>3. cursor = hdr.head
    BY <1>1, <1>2, RingAssumption DEF ScanOK, MoreFrames
<1>4. Arc(cursor, hdr.head) = {}
    BY <1>2, <1>3 DEF Arc
<1>5. \A k \in Key : image[k] = latest[k]
    BY <1>1, <1>4 DEF ScanOK
<1> QED
    BY <1>1, <1>5 DEF TypeOK

(* Resetting the ring after the scan preserves the invariant. *)
LEMMA InvRecoverDone ==
    ASSUME IInv, TypeOK', RecoverDone
    PROVE  IInv'
<1>1. /\ TypeOK /\ IdsOK /\ todo = {} /\ phase' = "idle" /\ tx' = NoTx
      /\ flusher.pc = "idle"
      /\ hdr'.head = 0 /\ hdr'.tail = 0 /\ latest' = image
      /\ UNCHANGED <<cells, image, todo, flusher, encoded>>
    BY Zenon DEF RecoverDone, IInv, ResetHeader
<1>2. IdsOK'
    BY <1>1 DEF IdsOK, NoTx, TypeOK
<1>3. ArcOK(cells', latest', hdr'.tail, hdr'.head)
    BY <1>1, ArcEmpty
<1> QED
    BY <1>1, <1>2, <1>3, Zenon DEF IInv

(* Every step of the system preserves the inductive invariant. *)
LEMMA InvStep == ShortFlush /\ IInv /\ [Next]_vars => IInv'
<1> SUFFICES ASSUME ShortFlush, IInv, [Next]_vars
             PROVE  IInv'
    OBVIOUS
<1>1. TypeOK'
    BY TypeStep, Zenon DEF IInv
<1>2. CASE UNCHANGED vars
    BY <1>2, ZenonT(60) DEF vars, observers, IInv, TypeOK, IdsOK, SnapshotOK, Straight,
                CopyOK, ApplyOK, ScanOK, Advance, Place
<1>3. CASE Next
    BY <1>1, <1>3, InvCopyFrame, InvPersistHeader, InvApplyKey,
       InvFlushSnapshot, InvFlushSync, InvFlushReclaim, InvCheckpointNow,
       InvCrash, InvRecoverFrame, InvRecoverKey, InvRecoverDone, SMTT(60) DEF Next
<1> QED
    BY <1>2, <1>3

(* The inductive invariant holds in every reachable state, provided no     *)
(* flush() is overtaken by a whole lap of the ring.                        *)
THEOREM InvCorrect == ASSUME ShortFlush PROVE Spec => []IInv
<1>1. IInv /\ [Next]_vars => IInv'
    BY InvStep
<1> QED
    BY <1>1, InvInit, PTL DEF Spec

(* Mount-time recovery finishes the job: after a crash in any state with a *)
(* straight ring, recover() ends with the image of the last committed      *)
(* transactions, however often it was itself interrupted.                  *)
THEOREM RecoveryCorrect ==
    ASSUME ShortFlush
    PROVE  Spec => RecoveryRestoresCommitted
<1>1. IInv /\ [Next]_vars
        => [phase = "recover" /\ phase' = "idle" /\ straight => image = latest]_vars
  <2> SUFFICES ASSUME IInv, [Next]_vars, phase = "recover", phase' = "idle", straight
               PROVE  image = latest
      OBVIOUS
  <2>1. RecoverDone
      BY DEF Next, vars, CopyFrame, PersistHeader, ApplyKey, FlushSnapshot,
             FlushSync, FlushReclaim, CheckpointNow, Crash, RecoverFrame,
             RecoverKey
  <2> QED
      BY <2>1, ScanEndsUpToDate
<1> QED
    BY <1>1, InvCorrect, PTL DEF Spec, RecoveryRestoresCommitted

----------------------------------------------------------------------------
(* The scan of recover(), whatever the shape of the ring *)

(* Of the frames that recover() has passed, the last to write k is at      *)
(* distance d.                                                             *)
LastSoFar(k, d) ==
    /\ d \in Writers(hdr, cells, k)
    /\ d < traversed
    /\ \A e \in Writers(hdr, cells, k) : e < traversed => e <= d

(* What location k holds once the frame in hand is applied. *)
Pending(k) == IF k \in todo THEN tx.id ELSE image[k]

(* The scan is on its path, and what it has passed has been applied. *)
OnPath ==
    /\ cursor = At(hdr, traversed)
    /\ Reaches(hdr, cells, traversed)
    /\ \A k \in todo : \E d \in Writers(hdr, cells, k) : d < traversed
    /\ \A k \in Key, d \in Offsets :
         LastSoFar(k, d) => Pending(k) = cells[At(hdr, d)].id

ScanInv ==
    /\ TypeOK
    /\ traversed <= RingSize
    /\ phase # "recover" => traversed = 0
    /\ phase = "recover" => OnPath

(* A mount starts the scan at tail. *)
LEMMA ScanCrash ==
    ASSUME ScanInv, TypeOK', Crash
    PROVE  ScanInv'
<1>1. /\ TypeOK /\ phase' = "recover" /\ todo' = {} /\ cursor' = hdr.tail
      /\ traversed' = 0 /\ UNCHANGED <<hdr, cells, image>>
      /\ 0 \in 0 .. RingSize /\ RingSize \in Nat /\ hdr \in Header
      /\ hdr.tail < RingSize /\ hdr.tail \in Nat
    BY RingAssumption DEF ScanInv, Crash, TypeOK, Header, Offsets
<1>2. cursor' = At(hdr', 0)
    BY <1>1, AtWrap
<1>3. Reaches(hdr', cells', 0)
    <2>1. {0} \in SUBSET (0 .. 0) /\ Path(hdr', cells', 0, {0})
        BY DEF Path
    <2> QED
        BY <2>1 DEF Reaches
<1>4. ASSUME NEW k \in Key, NEW d \in Offsets PROVE ~ LastSoFar(k, d)'
    BY <1>1 DEF LastSoFar, Offsets
<1>5. OnPath'
    BY <1>1, <1>2, <1>3, <1>4, Zenon DEF OnPath
<1> QED
    BY <1>1, <1>5, SMTT(60) DEF ScanInv

(* recover passes one more frame. *)
LEMMA ScanRecoverFrame ==
    ASSUME ScanInv, TypeOK', RecoverFrame
    PROVE  ScanInv'
<1> DEFINE d == traversed
           len == cells[cursor].len
<1>1. /\ TypeOK /\ phase = "recover" /\ phase' = "recover" /\ todo = {}
      /\ cursor # hdr.head /\ d < RingSize /\ Decodes(cells, cursor)
      /\ tx'.id = cells[cursor].id /\ todo' = cells[cursor].keys
      /\ cursor' = NextFrame(cells, cursor) /\ traversed' = d + len
      /\ UNCHANGED <<hdr, cells, image>>
      /\ cursor = At(hdr, d) /\ Reaches(hdr, cells, d)
    BY DEF ScanInv, OnPath, RecoverFrame, MoreFrames
<1>2. /\ hdr \in Header /\ cells \in [Offsets -> Frag] /\ cursor \in Offsets
      /\ d \in Offsets /\ d \in Nat /\ d \in 0 .. RingSize /\ len \in Nat
    <2>1. hdr \in Header /\ cells \in [Offsets -> Frag] /\ cursor \in Offsets /\ d \in Nat
        BY <1>1 DEF TypeOK
    <2>2. len \in Nat
        BY <2>1, Zenon DEF Frag
    <2>3. d < RingSize
        BY <1>1, Zenon
    <2>4. d \in Offsets /\ d \in 0 .. RingSize
        BY <2>1, <2>3, RingAssumption DEF Offsets
    <2> QED
        BY <2>1, <2>2, <2>4, ZenonT(60)
<1>3. len > 0 /\ cursor + len <= RingSize
    BY <1>1, Zenon DEF Decodes
<1> HIDE DEF d, len
<1>4. d + len <= RingSize
    BY <1>1, <1>2, ScanStaysInRing, Zenon DEF len
<1>5. cursor' = At(hdr', traversed')
    <2>1. (At(hdr, d) + len) % RingSize = At(hdr, d + len)
        BY <1>1, <1>2, <1>3, NextAt, Zenon
    <2> QED
        BY <1>1, <2>1, Zenon DEF NextFrame, len
<1>6. Reaches(hdr', cells', traversed')
    BY <1>1, <1>2, PathExtend, ZenonT(60) DEF len
<1>7. d \in Replayed(hdr, cells)
    BY <1>1, <1>2, ReplayedReached
<1>8. ASSUME NEW e \in Replayed(hdr, cells), e < d + len
      PROVE  e <= d
    <2>1. e \in Nat
        BY <1>8, SMTT(60) DEF Replayed, Offsets
    <2>2. d <= e => (d < e => d + len <= e)
        BY <1>1, <1>2, <1>8, ReplayedAfter DEF len
    <2> QED
        BY <1>2, <1>8, <2>1, <2>2
<1>9. ASSUME NEW k \in todo' PROVE d \in Writers(hdr', cells', k) /\ d < traversed'
    <2>1. k \in cells[At(hdr, d)].keys /\ hdr' = hdr /\ cells' = cells
        BY <1>1, <1>9, Zenon
    <2>2. d < traversed'
        <3>1. traversed' = d + len /\ d \in Nat /\ len \in Nat /\ len > 0
            BY <1>1, <1>2, <1>3, Zenon
        <3>2. \A a, b \in Nat : b > 0 => a < a + b
            OBVIOUS
        <3> QED
            BY <3>1, <3>2, Zenon
    <2> QED
        BY <1>7, <2>1, <2>2, Zenon DEF Writers
<1>10. ASSUME NEW k \in Key, NEW e \in Offsets, LastSoFar(k, e)'
       PROVE  Pending(k)' = cells'[At(hdr', e)].id
    <2>1. /\ e \in Writers(hdr, cells, k) /\ e \in Replayed(hdr, cells) /\ e < d + len
          /\ \A f \in Writers(hdr, cells, k) : f < d + len => f <= e
        BY <1>1, <1>10, Zenon DEF LastSoFar, Writers
    <2>2. e <= d /\ e \in Nat
        BY <1>8, <2>1 DEF Offsets
    <2>3. CASE k \in cells[cursor].keys
        <3>1. d \in Writers(hdr, cells, k)
            BY <1>1, <1>9, <2>3
        <3>2. e = d
            BY <1>2, <1>3, <2>1, <2>2, <3>1
        <3> QED
            BY <1>1, <2>3, <3>2, ZenonT(60) DEF Pending
    <2>4. CASE k \notin cells[cursor].keys
        <3>1. d \notin Writers(hdr, cells, k)
            BY <1>1, <2>4 DEF Writers
        <3>2. e < d
            BY <1>2, <2>1, <2>2, <3>1
        <3>3. \A f \in Writers(hdr, cells, k) : f < d => f <= e
            <4>1. \A f \in Writers(hdr, cells, k) : f \in Nat
                BY DEF Writers, Replayed, Offsets
            <4> QED
                BY <1>2, <2>1, <4>1
        <3>4. LastSoFar(k, e)
            BY <2>1, <3>2, <3>3, ZenonT(60) DEF LastSoFar, d
        <3>5. Pending(k) = cells[At(hdr, e)].id
            BY <1>1, <3>4 DEF ScanInv, OnPath
        <3> QED
            BY <1>1, <2>4, <3>5, ZenonT(60) DEF Pending
    <2> QED
        BY <2>3, <2>4, Zenon
<1>11. OnPath'
    BY <1>5, <1>6, <1>9, <1>10 DEF OnPath
<1> QED
    BY <1>1, <1>4, <1>11, ZenonT(60) DEF ScanInv

(* recover_journal stores one location of the frame in hand. *)
LEMMA ScanRecoverKey ==
    ASSUME ScanInv, TypeOK', NEW k \in Key, RecoverKey(k)
    PROVE  ScanInv'
<1>1. /\ TypeOK /\ phase = "recover" /\ phase' = "recover" /\ k \in todo
      /\ image' = [image EXCEPT ![k] = tx.id] /\ todo' = todo \ {k}
      /\ UNCHANGED <<hdr, cells, cursor, traversed, tx>> /\ OnPath
    BY Zenon DEF ScanInv, RecoverKey
<1>2. \A j \in Key : Pending(j)' = Pending(j)
    BY <1>1 DEF Pending, TypeOK
<1>3. \A j \in Key, d \in Offsets : LastSoFar(j, d)' <=> LastSoFar(j, d)
    BY <1>1, Zenon DEF LastSoFar
<1>4. OnPath'
    BY <1>1, <1>2, <1>3 DEF OnPath
<1> QED
    BY <1>1, <1>4 DEF ScanInv

(* Steps outside a recovery do not scan. *)
LEMMA ScanStep == ScanInv /\ [Next]_vars => ScanInv'
<1> SUFFICES ASSUME ScanInv, [Next]_vars PROVE ScanInv'
    OBVIOUS
<1>1. TypeOK'
    BY TypeStep, ZenonT(60) DEF ScanInv
<1>2. CASE UNCHANGED vars
    BY <1>1, <1>2 DEF vars, ScanInv, OnPath, LastSoFar, Pending
<1>3. CASE phase # "recover" /\ phase' # "recover" /\ traversed' = traversed
    BY <1>1, <1>3 DEF ScanInv
<1>4. CASE RecoverDone
    BY <1>1, <1>4, RingAssumption DEF RecoverDone, ScanInv
<1>5. CASE Next
    BY <1>1, <1>3, <1>4, <1>5, ScanCrash, ScanRecoverFrame, ScanRecoverKey, ZenonT(60)
    DEF Next, CopyFrame, PersistHeader, ApplyKey, FlushSnapshot, FlushSync,
        FlushReclaim, CheckpointNow, observers
<1> QED
    BY <1>2, <1>5

(* No scan is under way. *)
LEMMA ScanInit == Init => ScanInv
BY TypeInit, RingAssumption DEF Init, ScanInv

(* recover() passes over every cell of the ring at most once: it ends, and *)
(* replays no frame twice, whatever a crash left in the ring.              *)
THEOREM ScanEnds == Spec => []ScanPassesOnce
<1>1. ScanInv => ScanPassesOnce
    BY DEF ScanInv, ScanPassesOnce
<1> QED
    BY <1>1, ScanInit, ScanStep, PTL DEF Spec

(* When the scan stops, it has passed every frame a mount replays, so the  *)
(* image is what mounting yields.                                          *)
LEMMA ScanComplete ==
    ASSUME ScanInv, RecoverDone
    PROVE  Redo(hdr, cells, image) = image
<1>1. /\ TypeOK /\ todo = {} /\ ~ MoreFrames /\ OnPath /\ traversed <= RingSize
      /\ Reaches(hdr, cells, traversed) /\ cursor = At(hdr, traversed)
    BY DEF ScanInv, RecoverDone, OnPath
<1>typed. hdr \in Header /\ cells \in [Offsets -> Frag] /\ traversed \in 0 .. RingSize
    <2>1. hdr \in Header /\ cells \in [Offsets -> Frag] /\ traversed \in Nat
        BY <1>1 DEF TypeOK
    <2> QED
        BY <1>1, <2>1, RingAssumption
<1>2. ASSUME NEW e \in Replayed(hdr, cells) PROVE e < traversed
    <2> SUFFICES ASSUME ~ (e < traversed) PROVE FALSE
        OBVIOUS
    <2>1. e \in Nat /\ e < RingSize
        BY ReplayedOffset, Zenon
    <2>2. traversed <= e /\ traversed < RingSize
        BY <1>typed, <2>1, RingAssumption
    <2>3. At(hdr, traversed) # hdr.head /\ Decodes(cells, At(hdr, traversed))
        BY <1>typed, <1>1, <2>2, ReplayedAfter, Zenon
    <2> QED
        BY <1>1, <2>2, <2>3 DEF MoreFrames
<1>3. ASSUME NEW k \in Key, NEW d \in Offsets, LastWriter(hdr, cells, k, d)
      PROVE  image[k] = cells[At(hdr, d)].id
    <2>1. LastSoFar(k, d)
        BY <1>2, <1>3, Zenon DEF LastSoFar, LastWriter, Writers
    <2> QED
        BY <1>1, <2>1, Zenon DEF OnPath, Pending
<1>4. image \in [Key -> Nat]
    BY <1>1 DEF TypeOK
<1> QED
    BY <1>typed, <1>3, <1>4, RedoSettled, Zenon

(* Redo is idempotent: no step of a recovery changes the image that        *)
(* mounting yields, whatever the shape of the ring, and however often the  *)
(* recovery is itself interrupted.                                         *)
THEOREM RedoCorrect == Spec => RedoIsIdempotent
<1>1. ASSUME ScanInv, [Next]_vars, phase = "recover"
      PROVE  Redo(hdr', cells', image') = Redo(hdr, cells, image)
    <2>1. CASE UNCHANGED <<hdr, cells, image>>
        BY <2>1, Zenon
    <2>2. ASSUME NEW k \in Key, RecoverKey(k)
          PROVE  Redo(hdr', cells', image') = Redo(hdr, cells, image)
        <3>1. /\ hdr \in Header /\ cells \in [Offsets -> Frag]
              /\ UNCHANGED <<hdr, cells>> /\ Writers(hdr, cells, k) # {}
            BY <1>1, <2>2, SMTT(60) DEF ScanInv, OnPath, TypeOK, RecoverKey
        <3>2. \A j \in Key : image'[j] = image[j] \/ Writers(hdr, cells, j) # {}
            BY <1>1, <2>2, <3>1 DEF ScanInv, TypeOK, RecoverKey
        <3> QED
            BY <3>1, <3>2, RedoStore, ZenonT(60)
    <2>3. CASE RecoverDone
        <3>1. /\ hdr' \in Header /\ hdr'.tail = hdr'.head
              /\ cells' \in [Offsets -> Frag] /\ image' = image
              /\ image \in [Key -> Nat]
            BY <1>1, <2>3, TypeStep, ZenonT(60) DEF RecoverDone, ResetHeader, ScanInv, TypeOK
        <3>2. Redo(hdr', cells', image') = image
            BY <3>1, EmptyRedo
        <3> QED
            BY <1>1, <2>3, <3>2, ScanComplete
    <2> QED
        BY <1>1, <2>1, <2>2, <2>3, Zenon
        DEF Next, vars, CopyFrame, PersistHeader, ApplyKey, FlushSnapshot, FlushSync,
            FlushReclaim, CheckpointNow, Crash, RecoverFrame
<1>2. ScanInv /\ [Next]_vars
        => [phase = "recover" => Redo(hdr, cells, image)' = Redo(hdr, cells, image)]_vars
    BY <1>1
<1> QED
    BY <1>2, ScanInit, ScanStep, PTL DEF Spec, RedoIsIdempotent
============================================================================
