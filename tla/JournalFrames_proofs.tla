------------------------ MODULE JournalFrames_proofs ------------------------
(***************************************************************************)
(* Facts about the record ring that hold for every ring size, every set of *)
(* frame lengths and every set of locations: the arithmetic of its         *)
(* cursors, the path that the scan of recover() takes, and the image that  *)
(* replaying the ring produces.                                            *)
(***************************************************************************)
EXTENDS JournalFrames, WellFoundedInduction, TLAPS

----------------------------------------------------------------------------
(* Least and greatest elements.  The scan of recover() is a path through   *)
(* the ring, and facts about paths are proved from the first or the last   *)
(* place where two of them meet.                                           *)

(* A set of naturals has a least element. *)
LEMMA LeastNatural ==
    ASSUME NEW S \in SUBSET Nat, S # {}
    PROVE  \E m \in S : \A n \in S : m <= n
<1> DEFINE R == OpToRel(<, Nat)
<1>1. IsWellFoundedOn(R, Nat)
    BY NatLessThanWellFounded, Zenon
<1>2. \A m, n \in Nat : m < n => <<m, n>> \in R
    BY DEF OpToRel
<1> HIDE DEF R
<1>3. PICK m \in S : \A n \in S : ~ (<<n, m>> \in R)
    BY <1>1, WFMin, Zenon
<1>4. \A n \in S : ~ (n < m)
    BY <1>2, <1>3, Zenon
<1> QED
    BY <1>4

(* A bounded set of naturals has a greatest element. *)
LEMMA GreatestBelow ==
    ASSUME NEW n \in Nat, NEW S \in SUBSET (0 .. n), S # {}
    PROVE  \E m \in S : \A k \in S : k <= m
<1> DEFINE T == {t \in Nat : n - t \in S}
<1>1. \A k \in S : n - k \in T
    OBVIOUS
<1>2. T \in SUBSET Nat /\ T # {}
    BY <1>1, Zenon
<1>3. PICK t \in T : \A u \in T : t <= u
    <2> HIDE DEF T
    <2> QED
        BY <1>2, LeastNatural
<1>4. n - t \in S
    OBVIOUS
<1>5. \A k \in S : t <= n - k
    BY <1>1, <1>3
<1>6. \A k \in S : k <= n - t
    BY <1>5
<1> QED
    BY <1>4, <1>6

----------------------------------------------------------------------------
(* Arithmetic of the ring *)

(* An offset is its own remainder, and a sum of two offsets wraps once:    *)
(* what every "% ring" of journal.rs relies on.                            *)
LEMMA ModWrap ==
    ASSUME NEW x \in 0 .. 2 * RingSize - 1
    PROVE  x % RingSize = IF x < RingSize THEN x ELSE x - RingSize
BY RingAssumption

(* The distance from offset b forward to offset a. *)
LEMMA ModDistance ==
    ASSUME NEW a \in Offsets, NEW b \in Offsets
    PROVE  (a + RingSize - b) % RingSize
             = IF b <= a THEN a - b ELSE a + RingSize - b
<1> DEFINE y == a + RingSize - b
<1>1. y \in 0 .. 2 * RingSize - 1
    BY RingAssumption DEF Offsets
<1> HIDE DEF y
<1>2. y % RingSize = IF y < RingSize THEN y ELSE y - RingSize
    BY <1>1, ModWrap
<1> QED
    BY <1>2, RingAssumption DEF y, Offsets

(* The cell at distance d from tail. *)
LEMMA AtWrap ==
    ASSUME NEW h \in Header, NEW d \in 0 .. RingSize
    PROVE  /\ At(h, d) = IF h.tail + d < RingSize THEN h.tail + d
                         ELSE h.tail + d - RingSize
           /\ At(h, d) \in Offsets
<1>1. h.tail \in Offsets /\ RingSize \in Nat
    BY RingAssumption DEF Header
<1>2. h.tail + d \in 0 .. 2 * RingSize - 1
    BY <1>1 DEF Offsets
<1> DEFINE y == h.tail + d
<1>3. At(h, d) = IF y < RingSize THEN y ELSE y - RingSize
    <2> HIDE DEF y
    <2>1. y % RingSize = IF y < RingSize THEN y ELSE y - RingSize
        BY <1>2, ModWrap DEF y
    <2> QED
        BY <2>1 DEF y, At
<1> QED
    BY <1>1, <1>2, <1>3 DEF Offsets

(* head lies at distance Used from tail, and nowhere else. *)
LEMMA HeadAtUsed ==
    ASSUME NEW h \in Header
    PROVE  /\ Used(h) \in Offsets
           /\ \A d \in Offsets : At(h, d) = h.head <=> d = Used(h)
<1>1. h.tail \in Offsets /\ h.head \in Offsets /\ RingSize \in Nat
    BY RingAssumption DEF Header
<1>2. Used(h) = IF h.tail <= h.head THEN h.head - h.tail
                ELSE h.head + RingSize - h.tail
    BY <1>1, ModDistance DEF Used
<1>3. Used(h) \in Offsets
    BY <1>1, <1>2 DEF Offsets
<1>4. ASSUME NEW d \in Offsets
      PROVE  At(h, d) = h.head <=> d = Used(h)
    <2>1. d \in 0 .. RingSize
        BY <1>1 DEF Offsets
    <2>2. At(h, d) = IF h.tail + d < RingSize THEN h.tail + d
                     ELSE h.tail + d - RingSize
        BY <2>1, AtWrap
    <2> QED
        BY <1>1, <1>2, <2>2 DEF Offsets
<1> QED
    BY <1>3, <1>4

(* The distances before it are cells of the ring. *)
LEMMA LiveOffset ==
    ASSUME NEW h \in Header, NEW d \in 0 .. Used(h) - 1
    PROVE  d \in Offsets /\ At(h, d) \in Offsets
<1>1. Used(h) \in Nat /\ Used(h) < RingSize /\ RingSize \in Nat
    BY HeadAtUsed, RingAssumption DEF Offsets
<1>2. d \in Offsets /\ d \in 0 .. RingSize
    BY <1>1 DEF Offsets
<1> QED
    BY <1>2, AtWrap

(* Different distances are different cells. *)
LEMMA AtInjective ==
    ASSUME NEW h \in Header, NEW d \in Offsets, NEW e \in Offsets,
           At(h, d) = At(h, e)
    PROVE  d = e
<1>1. h.tail \in Offsets /\ RingSize \in Nat
    BY RingAssumption DEF Header
<1>2. d \in 0 .. RingSize /\ e \in 0 .. RingSize
    BY <1>1 DEF Offsets
<1>3. /\ At(h, d) = IF h.tail + d < RingSize THEN h.tail + d
                    ELSE h.tail + d - RingSize
      /\ At(h, e) = IF h.tail + e < RingSize THEN h.tail + e
                    ELSE h.tail + e - RingSize
    BY <1>2, AtWrap
<1>4. (IF h.tail + d < RingSize THEN h.tail + d ELSE h.tail + d - RingSize)
        = (IF h.tail + e < RingSize THEN h.tail + e ELSE h.tail + e - RingSize)
    BY <1>3, Zenon
<1> QED
    BY <1>1, <1>4 DEF Offsets

(* A frame does not wrap: its cells are the next ones on the way from      *)
(* tail.                                                                   *)
LEMMA FrameRun ==
    ASSUME NEW h \in Header, NEW d \in Nat, NEW i \in Nat, d + i <= RingSize,
           At(h, d) + i < RingSize
    PROVE  At(h, d + i) = At(h, d) + i
<1>1. h.tail \in Offsets /\ RingSize \in Nat \ {0}
    BY RingAssumption DEF Header
<1>2. d \in 0 .. RingSize /\ d + i \in 0 .. RingSize
    BY <1>1
<1>3. At(h, d) = IF h.tail + d < RingSize THEN h.tail + d
                 ELSE h.tail + d - RingSize
    BY <1>2, AtWrap
<1>4. At(h, d + i) = IF h.tail + (d + i) < RingSize THEN h.tail + (d + i)
                     ELSE h.tail + (d + i) - RingSize
    BY <1>2, AtWrap
<1> QED
    BY <1>1, <1>3, <1>4 DEF Offsets

(* The scan's next cursor: after the frame at distance d the scan is at    *)
(* distance d + len, also when it goes on at the start of the ring.        *)
LEMMA NextAt ==
    ASSUME NEW h \in Header, NEW d \in Offsets, NEW len \in Nat,
           At(h, d) + len <= RingSize
    PROVE  (At(h, d) + len) % RingSize = At(h, d + len)
<1>1. h.tail \in Offsets /\ RingSize \in Nat \ {0} /\ d \in 0 .. RingSize
    BY RingAssumption DEF Header, Offsets
<1>2. At(h, d) = IF h.tail + d < RingSize THEN h.tail + d
                 ELSE h.tail + d - RingSize
    BY <1>1, AtWrap
<1>3. At(h, d) \in Nat /\ h.tail \in Nat /\ d \in Nat
    BY <1>1, <1>2 DEF Offsets
<1>4. CASE h.tail + d < RingSize
    BY <1>1, <1>2, <1>3, <1>4 DEF At
<1>5. CASE ~(h.tail + d < RingSize)
    <2> DEFINE y == h.tail + (d + len)
    <2>1. At(h, d) + len = y - RingSize
        BY <1>1, <1>2, <1>3, <1>5
    <2>2. y \in Nat /\ y - RingSize \in 0 .. RingSize
        BY <1>1, <1>3, <2>1
    <2> HIDE DEF y
    <2>3. (y - RingSize) % RingSize = y % RingSize
        BY <1>1, <2>2
    <2>4. (At(h, d) + len) % RingSize = y % RingSize
        BY <2>1, <2>3
    <2> QED
        BY <2>4 DEF y, At
<1> QED
    BY <1>4, <1>5

----------------------------------------------------------------------------
(* Types *)

(* checkpoint_to leaves the tail alone or moves it to the cursor, and a    *)
(* cursor beyond head is not accepted while the arc is straight.           *)
LEMMA CheckpointTail ==
    ASSUME NEW h \in Header, NEW c \in Offsets
    PROVE  /\ CheckpointTo(h, c) \in Header
           /\ CheckpointTo(h, c).head = h.head
           /\ CheckpointTo(h, c).tail \in {h.tail, c}
BY DEF CheckpointTo, Header

(* Any cursor reduced modulo the ring is an offset of the ring. *)
LEMMA ModInRing == ASSUME NEW x \in Nat PROVE x % RingSize \in Offsets
BY RingAssumption DEF Offsets

(* append persists a header, whatever the length of the frame. *)
LEMMA AppendType ==
    ASSUME NEW h \in Header, NEW len \in Nat
    PROVE  Place(h, len) \in Offsets /\ AppendHeader(h, len) \in Header
<1>1. Place(h, len) \in Offsets
    BY RingAssumption DEF Place, Header, Offsets
<1>2. KeptTail(h, len) \in Offsets
    BY <1>1 DEF KeptTail, Header
<1>3. (Place(h, len) + len) % RingSize \in Offsets
  <2>1. Place(h, len) + len \in Nat
      BY <1>1 DEF Offsets
  <2> QED
      BY <2>1, ModInRing
<1> QED
    BY <1>1, <1>2, <1>3 DEF AppendHeader, Header

(* Copying a frame writes well-formed cells. *)
LEMMA AppendCellsType ==
    ASSUME NEW cs \in [Offsets -> Frag], NEW h \in Header, NEW id \in Nat,
           NEW keys \in SUBSET Key, NEW len \in Nat
    PROVE  AppendCells(cs, h, id, keys, len) \in [Offsets -> Frag]
<1>1. Place(h, len) \in Offsets
    BY AppendType
<1>2. \A c \in Offsets : c \in Span(h, len) => c - Place(h, len) \in Nat
    BY <1>1 DEF Span, Offsets
<1> QED
    BY <1>2 DEF AppendCells, Frag

(* The cells of a frame that is not longer than the ring are cells of the  *)
(* ring.                                                                   *)
LEMMA SpanType ==
    ASSUME NEW h \in Header, NEW len \in Nat, len <= RingSize
    PROVE  Span(h, len) \subseteq Offsets
BY RingAssumption DEF Span, Place, Header, Offsets

----------------------------------------------------------------------------
(* The path of the scan *)

(* P is a way from tail to distance d over complete frames, none of which  *)
(* starts at head.  Nothing is said of the cell at distance d itself.      *)
Path(h, cells, d, P) ==
    /\ {0, d} \subseteq P
    /\ \A p \in P : \/ p = d
                    \/ /\ At(h, p) # h.head
                       /\ Decodes(cells, At(h, p))
                       /\ p + cells[At(h, p)].len \in P

Reaches(h, cells, d) == \E P \in SUBSET (0 .. d) : Path(h, cells, d, P)

(* A distance is replayed when the scan gets there and goes on. *)
LEMMA ReplayedReached ==
    ASSUME NEW h \in Header, NEW cells \in [Offsets -> Frag], NEW d \in Offsets
    PROVE  d \in Replayed(h, cells) <=>
             /\ Reaches(h, cells, d)
             /\ At(h, d) # h.head
             /\ Decodes(cells, At(h, d))
<1>1. ASSUME d \in Replayed(h, cells)
      PROVE  Reaches(h, cells, d) /\ At(h, d) # h.head /\ Decodes(cells, At(h, d))
    <2>1. PICK P \in SUBSET (0 .. d) :
            /\ {0, d} \subseteq P
            /\ \A p \in P : /\ At(h, p) # h.head
                            /\ Decodes(cells, At(h, p))
                            /\ p = d \/ p + cells[At(h, p)].len \in P
        BY <1>1 DEF Replayed
    <2> QED
        BY <2>1, Zenon DEF Reaches, Path
<1>2. ASSUME Reaches(h, cells, d), At(h, d) # h.head, Decodes(cells, At(h, d))
      PROVE  d \in Replayed(h, cells)
    <2>1. PICK P \in SUBSET (0 .. d) : Path(h, cells, d, P)
        BY <1>2 DEF Reaches
    <2>2. /\ {0, d} \subseteq P
          /\ \A p \in P : /\ At(h, p) # h.head
                          /\ Decodes(cells, At(h, p))
                          /\ p = d \/ p + cells[At(h, p)].len \in P
        BY <1>2, <2>1 DEF Path
    <2> QED
        BY <2>2 DEF Replayed
<1> QED
    BY <1>1, <1>2

(* The scan has one path: of two ways from tail, the longer one passes     *)
(* where the shorter one ends.                                             *)
LEMMA OnePath ==
    ASSUME NEW h \in Header, NEW cells \in [Offsets -> Frag],
           NEW d \in 0 .. RingSize, NEW e \in 0 .. RingSize, d <= e,
           NEW P \in SUBSET (0 .. d), Path(h, cells, d, P),
           NEW Q \in SUBSET (0 .. e), Path(h, cells, e, Q)
    PROVE  d \in Q
<1> DEFINE S == P \cap Q
<1>1. S \in SUBSET (0 .. d) /\ 0 \in S /\ d \in Nat
    BY DEF Path
<1>2. PICK m \in S : \A k \in S : k <= m
    <2> HIDE DEF S
    <2> QED
        BY <1>1, GreatestBelow, Zenon
<1>3. SUFFICES ASSUME m # d PROVE FALSE
    OBVIOUS
<1>4. m < d /\ m # e /\ m \in Nat
    BY <1>1, <1>3
<1>5. /\ Decodes(cells, At(h, m))
      /\ m + cells[At(h, m)].len \in S
    BY <1>4 DEF Path
<1>6. At(h, m) \in Offsets
    BY <1>4, AtWrap, RingAssumption
<1>7. cells[At(h, m)].len \in Nat /\ cells[At(h, m)].len > 0
    BY <1>5, <1>6 DEF Decodes, Frag
<1> QED
    BY <1>2, <1>4, <1>5, <1>7

(* The scan goes on over the frame at the end of its path. *)
LEMMA PathExtend ==
    ASSUME NEW h \in Header, NEW cells \in [Offsets -> Frag], NEW d \in Offsets,
           Reaches(h, cells, d), At(h, d) # h.head, Decodes(cells, At(h, d))
    PROVE  Reaches(h, cells, d + cells[At(h, d)].len)
<1> DEFINE e == d + cells[At(h, d)].len
<1>1. At(h, d) \in Offsets /\ d \in Nat
    BY AtWrap, RingAssumption DEF Offsets
<1>2. e \in Nat /\ d < e
    BY <1>1 DEF Decodes, Frag
<1>3. PICK P \in SUBSET (0 .. d) : Path(h, cells, d, P)
    BY DEF Reaches
<1>4. P \cup {e} \in SUBSET (0 .. e)
    <2> HIDE DEF e
    <2> QED
        BY <1>1, <1>2
<1>5. Path(h, cells, e, P \cup {e})
    BY <1>3 DEF Path
<1> QED
    BY <1>4, <1>5 DEF Reaches

(* From where the scan is, it goes over every frame it will replay.        *)
LEMMA ReplayedAfter ==
    ASSUME NEW h \in Header, NEW cells \in [Offsets -> Frag],
           NEW d \in 0 .. RingSize, Reaches(h, cells, d),
           NEW e \in Replayed(h, cells), d <= e
    PROVE  /\ At(h, d) # h.head
           /\ Decodes(cells, At(h, d))
           /\ d < e => d + cells[At(h, d)].len <= e
<1>1. e \in Offsets /\ e \in 0 .. RingSize
    BY RingAssumption DEF Replayed, Offsets
<1>2. Reaches(h, cells, e) /\ At(h, e) # h.head /\ Decodes(cells, At(h, e))
    BY <1>1, ReplayedReached
<1>3. PICK P \in SUBSET (0 .. d) : Path(h, cells, d, P)
    BY DEF Reaches
<1>4. PICK Q \in SUBSET (0 .. e) : Path(h, cells, e, Q)
    BY <1>2 DEF Reaches
<1>5. d \in Q
    BY <1>1, <1>3, <1>4, OnePath
<1>6. CASE d = e
    BY <1>1, <1>2, <1>6
<1>7. CASE d # e
    <2>1. /\ At(h, d) # h.head
          /\ Decodes(cells, At(h, d))
          /\ d + cells[At(h, d)].len \in Q
        BY <1>4, <1>5, <1>7 DEF Path
    <2>2. \A q \in Q : q <= e
        BY <1>1
    <2> QED
        BY <2>1, <2>2, Zenon
<1> QED
    BY <1>6, <1>7

(* The first cell of a frame says that it is the first, so no frame runs   *)
(* over the frame at tail: recover() never scans more than the ring.       *)
LEMMA ScanStaysInRing ==
    ASSUME NEW h \in Header, NEW cells \in [Offsets -> Frag],
           NEW d \in Offsets, Reaches(h, cells, d), Decodes(cells, At(h, d))
    PROVE  d + cells[At(h, d)].len <= RingSize
<1> DEFINE c == At(h, d)
           n == cells[c].len
<1>1. /\ RingSize \in Nat \ {0} /\ h.tail \in Nat /\ h.tail < RingSize
      /\ h.tail \in Offsets /\ d \in Nat /\ d < RingSize /\ d \in 0 .. RingSize
      /\ 0 \in 0 .. RingSize
    BY RingAssumption DEF Header, Offsets
<1>2. /\ c \in Offsets /\ c \in Nat
      /\ c = IF h.tail + d < RingSize THEN h.tail + d ELSE h.tail + d - RingSize
      /\ At(h, 0) = h.tail
    BY <1>1, AtWrap, SMTT(60) DEF Offsets
<1>3. n \in Nat /\ c + n <= RingSize
    BY <1>2, Zenon DEF Decodes, Frag
<1>4. CASE d = 0
    BY <1>1, <1>2, <1>3, <1>4
<1>5. CASE d # 0
    <2> SUFFICES ASSUME d + n > RingSize PROVE FALSE
        BY <1>1, <1>3
    <2> DEFINE i == RingSize - d
    <2>1. i \in Nat /\ i > 0 /\ i < n
        BY <1>1, <1>3, <1>5
    <2>2. c + i = h.tail
        BY <1>1, <1>2, <1>3, <1>5
    <2>3. i \in 0 .. n - 1 /\ n > 0
        BY <1>3, <2>1
    <2> HIDE DEF i
    <2>4. cells[c + i] = [cells[c] EXCEPT !.pos = i]
        BY <2>3 DEF Decodes
    <2>5. cells[h.tail].pos = i
        <3>1. cells[c] \in Frag
            BY <1>2
        <3> QED
            BY <2>2, <2>4, <3>1 DEF Frag
    <2>6. PICK P \in SUBSET (0 .. d) : Path(h, cells, d, P)
        BY DEF Reaches
    <2>7. Decodes(cells, h.tail)
        BY <1>2, <1>5, <2>6 DEF Path
    <2>8. cells[h.tail].pos = 0
        <3>1. cells[h.tail] \in Frag
            BY <1>1
        <3>2. cells[h.tail].len \in Nat /\ cells[h.tail].len > 0
            BY <2>7, <3>1 DEF Decodes, Frag
        <3>3. 0 \in 0 .. cells[h.tail].len - 1
            BY <3>2
        <3>4. cells[h.tail + 0] = [cells[h.tail] EXCEPT !.pos = 0]
            BY <2>7, <3>3, Zenon DEF Decodes
        <3>5. h.tail + 0 = h.tail
            BY <1>1
        <3> QED
            BY <3>1, <3>4, <3>5 DEF Frag
    <2> QED
        BY <2>1, <2>5, <2>8
<1> QED
    BY <1>4, <1>5

----------------------------------------------------------------------------
(* Rings whose frames fill the cells from tail to head *)

Complete(h, cells) == Reaches(h, cells, Used(h))

(* Two rings that agree on the cells from tail to head. *)
SameLive(h, cs, ct) == \A d \in 0 .. Used(h) - 1 : ct[At(h, d)] = cs[At(h, d)]

(* A frame that ends before head is the same frame in both. *)
LEMMA FrameSame ==
    ASSUME NEW h \in Header,
           NEW cs \in [Offsets -> Frag], NEW ct \in [Offsets -> Frag],
           SameLive(h, cs, ct), NEW p \in Offsets,
           Decodes(cs, At(h, p)), p + cs[At(h, p)].len <= Used(h)
    PROVE  Decodes(ct, At(h, p)) /\ ct[At(h, p)] = cs[At(h, p)]
<1> DEFINE c == At(h, p)
           n == cs[c].len
<1>1. Used(h) \in Offsets /\ Used(h) \in Nat /\ Used(h) < RingSize /\ RingSize \in Nat
    BY HeadAtUsed, RingAssumption DEF Offsets
<1>2. p \in 0 .. RingSize /\ p \in Nat
    BY <1>1 DEF Offsets
<1>3. c \in Offsets
    BY <1>2, AtWrap
<1>4. n \in Nat /\ n > 0 /\ c + n <= RingSize /\ p + n <= Used(h) /\ c \in Nat
    BY <1>3 DEF Decodes, Frag, Offsets
<1>5. \A i \in 0 .. n - 1 : ct[c + i] = cs[c + i]
    <2> SUFFICES ASSUME NEW i \in 0 .. n - 1 PROVE ct[c + i] = cs[c + i]
        OBVIOUS
    <2>1. /\ i \in Nat /\ p \in Nat
          /\ p + i <= RingSize /\ c + i < RingSize
          /\ p + i \in 0 .. Used(h) - 1
        <3> HIDE DEF c, n
        <3> QED
            BY <1>1, <1>2, <1>4
    <2>2. At(h, p + i) = At(h, p) + i
        BY <2>1, FrameRun
    <2> QED
        BY <2>1, <2>2 DEF SameLive
<1>6. ct[c] = cs[c]
    <2>1. 0 \in 0 .. n - 1 /\ c + 0 = c
        BY <1>4
    <2> HIDE DEF c, n
    <2> QED
        BY <1>5, <2>1
<1>7. \A i \in 0 .. n - 1 : cs[c + i] = [cs[c] EXCEPT !.pos = i]
    BY DEF Decodes
<1> HIDE DEF c
<1>8. Decodes(ct, c)
    BY <1>4, <1>5, <1>6, <1>7 DEF Decodes
<1> QED
    BY <1>6, <1>8 DEF c

(* A path that ends no later than head is a path of both. *)
LEMMA PathSame ==
    ASSUME NEW h \in Header,
           NEW cs \in [Offsets -> Frag], NEW ct \in [Offsets -> Frag],
           SameLive(h, cs, ct), NEW d \in Nat, d <= Used(h),
           NEW P \in SUBSET (0 .. d), Path(h, cs, d, P)
    PROVE  Path(h, ct, d, P)
<1> SUFFICES ASSUME NEW p \in P, p # d
             PROVE  /\ At(h, p) # h.head
                    /\ Decodes(ct, At(h, p))
                    /\ p + ct[At(h, p)].len \in P
    BY DEF Path
<1>1. /\ At(h, p) # h.head
      /\ Decodes(cs, At(h, p))
      /\ p + cs[At(h, p)].len \in P
    BY DEF Path
<1>2. Used(h) \in Nat /\ Used(h) < RingSize /\ RingSize \in Nat
    BY HeadAtUsed, RingAssumption DEF Offsets
<1>3. p \in Offsets
    BY <1>2 DEF Offsets
<1> DEFINE n == cs[At(h, p)].len
<1>4. \A q \in P : q <= Used(h)
    BY <1>2
<1> HIDE DEF n
<1>5. p + n <= Used(h)
    BY <1>1, <1>4, Zenon DEF n
<1> QED
    BY <1>1, <1>3, <1>5, FrameSame DEF n

(* In a complete ring every replayed frame ends at head or before it. *)
LEMMA ReplayedInside ==
    ASSUME NEW h \in Header, NEW cells \in [Offsets -> Frag],
           Complete(h, cells), NEW d \in Replayed(h, cells)
    PROVE  /\ d \in Offsets
           /\ d < Used(h)
           /\ d + cells[At(h, d)].len <= Used(h)
<1>1. d \in Offsets /\ d \in 0 .. RingSize
    BY RingAssumption DEF Replayed, Offsets
<1>2. Used(h) \in Offsets /\ Used(h) \in 0 .. RingSize
    BY HeadAtUsed, RingAssumption DEF Offsets
<1>3. /\ Reaches(h, cells, d)
      /\ At(h, d) # h.head
      /\ Decodes(cells, At(h, d))
    BY <1>1, ReplayedReached
<1>4. PICK P \in SUBSET (0 .. Used(h)) : Path(h, cells, Used(h), P)
    BY DEF Complete, Reaches
<1>5. PICK Q \in SUBSET (0 .. d) : Path(h, cells, d, Q)
    BY <1>3 DEF Reaches
<1>6. d < Used(h)
    <2> SUFFICES ASSUME ~(d < Used(h)) PROVE FALSE
        OBVIOUS
    <2>1. Used(h) \in Q
        BY <1>1, <1>2, <1>4, <1>5, OnePath
    <2>2. At(h, Used(h)) = h.head
        BY <1>2, HeadAtUsed
    <2> QED
        BY <1>3, <1>5, <2>1, <2>2, Zenon DEF Path
<1>7. d \in P
    BY <1>1, <1>2, <1>4, <1>5, <1>6, OnePath
<1>8. d + cells[At(h, d)].len \in P
    BY <1>1, <1>2, <1>4, <1>6, <1>7 DEF Path
<1>9. \A q \in P : q <= Used(h)
    BY <1>2
<1> QED
    BY <1>1, <1>6, <1>8, <1>9, Zenon

----------------------------------------------------------------------------
(* The image that replaying produces *)

Writers(h, cells, k) == {d \in Replayed(h, cells) : k \in cells[At(h, d)].keys}

LastWriter(h, cells, k, d) ==
    d \in Writers(h, cells, k) /\ \A e \in Writers(h, cells, k) : e <= d

(* A location that replayed frames write has a last writer. *)
LEMMA HasLastWriter ==
    ASSUME NEW h \in Header, NEW cells \in [Offsets -> Frag], NEW k \in Key,
           Writers(h, cells, k) # {}
    PROVE  \E d \in Offsets : LastWriter(h, cells, k, d)
<1>1. Writers(h, cells, k) \in SUBSET (0 .. RingSize - 1) /\ RingSize - 1 \in Nat
    BY RingAssumption DEF Writers, Replayed, Offsets
<1>2. PICK d \in Writers(h, cells, k) : \A e \in Writers(h, cells, k) : e <= d
    BY <1>1, GreatestBelow, Zenon
<1> QED
    BY <1>1, <1>2 DEF LastWriter, Offsets

(* A frame a mount replays starts at an offset of the ring. *)
LEMMA ReplayedOffset ==
    ASSUME NEW h, NEW cells, NEW d \in Replayed(h, cells)
    PROVE  d \in Offsets /\ d \in Nat /\ d < RingSize
<1>1. d \in Offsets
    BY Zenon DEF Replayed
<1> QED
    BY <1>1, RingAssumption DEF Offsets

(* What a mount yields is an image: a value for every location. *)
LEMMA RedoIsImage ==
    ASSUME NEW h, NEW cells, NEW image
    PROVE  Redo(h, cells, image) = [k \in Key |-> Redo(h, cells, image)[k]]
BY DEF Redo

(* recover_journal applies the frames in order, so the last one to write a *)
(* location decides, and a location no frame writes keeps its value.       *)
LEMMA RedoValue ==
    ASSUME NEW h \in Header, NEW cells \in [Offsets -> Frag], NEW image,
           NEW k \in Key
    PROVE  /\ Writers(h, cells, k) = {} => Redo(h, cells, image)[k] = image[k]
           /\ \A d : LastWriter(h, cells, k, d)
                       => Redo(h, cells, image)[k] = cells[At(h, d)].id
<1> DEFINE W == Writers(h, cells, k)
<1>1. Redo(h, cells, image)[k] =
        IF W = {} THEN image[k]
        ELSE cells[At(h, CHOOSE d \in W : \A e \in W : e <= d)].id
    BY DEF Redo, Writers
<1>2. ASSUME NEW d, LastWriter(h, cells, k, d)
      PROVE  Redo(h, cells, image)[k] = cells[At(h, d)].id
    <2>1. d \in W /\ \A e \in W : e <= d
        BY <1>2 DEF LastWriter
    <2>2. W \subseteq Nat
        BY DEF Writers, Replayed, Offsets
    <2> HIDE DEF W
    <2>3. (CHOOSE f \in W : \A e \in W : e <= f) = d
        <3> DEFINE f == CHOOSE f \in W : \A e \in W : e <= f
        <3>1. f \in W /\ \A e \in W : e <= f
            BY <2>1
        <3> HIDE DEF f
        <3>2. f = d
            BY <2>1, <2>2, <3>1
        <3> QED
            BY <3>2 DEF f
    <2> QED
        BY <1>1, <2>1, <2>3, Zenon
<1> QED
    BY <1>1, <1>2

(* Replaying changes nothing in an image that has, for each location some  *)
(* replayed frame writes, the value of the last one.                       *)
LEMMA RedoSettled ==
    ASSUME NEW h \in Header, NEW cells \in [Offsets -> Frag], NEW image \in [Key -> Nat],
           \A k \in Key, d \in Offsets :
             LastWriter(h, cells, k, d) => image[k] = cells[At(h, d)].id
    PROVE  Redo(h, cells, image) = image
<1>1. ASSUME NEW k \in Key PROVE Redo(h, cells, image)[k] = image[k]
    <2>1. CASE Writers(h, cells, k) = {}
        BY <2>1, RedoValue
    <2>2. CASE Writers(h, cells, k) # {}
        <3>1. PICK d \in Offsets : LastWriter(h, cells, k, d)
            BY <2>2, HasLastWriter
        <3>2. image[k] = cells[At(h, d)].id
            BY <3>1
        <3>3. Redo(h, cells, image)[k] = cells[At(h, d)].id
            BY <3>1, RedoValue
        <3> QED
            BY <3>2, <3>3
    <2> QED
        BY <2>1, <2>2
<1>2. Redo(h, cells, image) = [k \in Key |-> Redo(h, cells, image)[k]]
    BY RedoIsImage, Zenon
<1>3. image = [k \in Key |-> image[k]]
    OBVIOUS
<1> QED
    BY <1>1, <1>2, <1>3, Zenon

(* Replaying a ring into an image yields an image. *)
LEMMA RedoType ==
    ASSUME NEW h \in Header, NEW cells \in [Offsets -> Frag],
           NEW image \in [Key -> Nat]
    PROVE  Redo(h, cells, image) \in [Key -> Nat]
<1>1. ASSUME NEW k \in Key PROVE Redo(h, cells, image)[k] \in Nat
    <2>1. CASE Writers(h, cells, k) = {}
        BY <2>1, RedoValue
    <2>2. CASE Writers(h, cells, k) # {}
        <3>1. PICK d \in Offsets : LastWriter(h, cells, k, d)
            BY <2>2, HasLastWriter
        <3>2. At(h, d) \in Offsets
            BY AtWrap, RingAssumption DEF Offsets
        <3> QED
            BY <3>1, <3>2, RedoValue DEF Frag
    <2> QED
        BY <2>1, <2>2
<1>2. Redo(h, cells, image) = [k \in Key |-> Redo(h, cells, image)[k]]
    BY DEF Redo
<1> QED
    BY <1>1, <1>2

(* Storing into the image what replaying gives the locations anyway, or    *)
(* into locations that replayed frames write, does not change what         *)
(* replaying produces.                                                     *)
LEMMA RedoStore ==
    ASSUME NEW h \in Header, NEW cells \in [Offsets -> Frag], NEW image, NEW stored,
           \A k \in Key : \/ stored[k] = image[k]
                          \/ Writers(h, cells, k) # {}
                          \/ stored[k] = Redo(h, cells, image)[k]
    PROVE  Redo(h, cells, stored) = Redo(h, cells, image)
<1>1. ASSUME NEW k \in Key
      PROVE  Redo(h, cells, stored)[k] = Redo(h, cells, image)[k]
    <2>1. CASE Writers(h, cells, k) = {}
        BY <2>1, RedoValue
    <2>2. CASE Writers(h, cells, k) # {}
        <3>1. PICK d \in Offsets : LastWriter(h, cells, k, d)
            BY <2>2, HasLastWriter
        <3> QED
            BY <3>1, RedoValue
    <2> QED
        BY <2>1, <2>2
<1>2. /\ Redo(h, cells, stored) = [k \in Key |-> Redo(h, cells, stored)[k]]
      /\ Redo(h, cells, image) = [k \in Key |-> Redo(h, cells, image)[k]]
    BY DEF Redo
<1> QED
    BY <1>1, <1>2

(* What is replayed is decided by the cells from tail to head. *)
LEMMA LiveReplayed ==
    ASSUME NEW h \in Header,
           NEW cs \in [Offsets -> Frag], NEW ct \in [Offsets -> Frag],
           Complete(h, cs), SameLive(h, cs, ct)
    PROVE  /\ Complete(h, ct)
           /\ Replayed(h, cs) \subseteq Replayed(h, ct)
<1>1. Used(h) \in Nat /\ Used(h) <= Used(h)
    BY HeadAtUsed DEF Offsets
<1>2. Complete(h, ct)
    BY <1>1, PathSame DEF Complete, Reaches
<1>3. ASSUME NEW d \in Replayed(h, cs)
      PROVE  d \in Replayed(h, ct)
    <2>1. /\ d \in Offsets
          /\ d < Used(h)
          /\ d + cs[At(h, d)].len <= Used(h)
        BY ReplayedInside
    <2>2. /\ Reaches(h, cs, d)
          /\ At(h, d) # h.head
          /\ Decodes(cs, At(h, d))
        BY <2>1, ReplayedReached
    <2>3. d \in Nat /\ d <= Used(h)
        BY <1>1, <2>1 DEF Offsets
    <2>4. Reaches(h, ct, d)
        BY <2>2, <2>3, PathSame DEF Reaches
    <2>5. Decodes(ct, At(h, d))
        BY <2>1, <2>2, FrameSame
    <2> QED
        BY <2>1, <2>2, <2>4, <2>5, ReplayedReached
<1> QED
    BY <1>2, <1>3

(* So is the image, given the one that replaying starts from: whatever     *)
(* else reaches the disk in the rest of the ring does not matter.          *)
LEMMA LiveRedo ==
    ASSUME NEW h \in Header,
           NEW cs \in [Offsets -> Frag], NEW ct \in [Offsets -> Frag],
           Complete(h, cs), SameLive(h, cs, ct), NEW image
    PROVE  /\ Complete(h, ct)
           /\ Redo(h, ct, image) = Redo(h, cs, image)
           /\ \A k \in Key : Writers(h, ct, k) = Writers(h, cs, k)
<1>1. Complete(h, ct) /\ Replayed(h, cs) \subseteq Replayed(h, ct)
    BY LiveReplayed
<1>2. SameLive(h, ct, cs)
    BY DEF SameLive
<1>3. Replayed(h, ct) \subseteq Replayed(h, cs)
    BY <1>1, <1>2, LiveReplayed
<1>4. Replayed(h, ct) = Replayed(h, cs)
    BY <1>1, <1>3
<1>5. \A d \in Replayed(h, cs) : ct[At(h, d)] = cs[At(h, d)]
    <2> SUFFICES ASSUME NEW d \in Replayed(h, cs)
                 PROVE  ct[At(h, d)] = cs[At(h, d)]
        OBVIOUS
    <2>1. d \in Offsets /\ d < Used(h)
        BY ReplayedInside
    <2>2. d \in 0 .. Used(h) - 1
        BY <2>1, HeadAtUsed DEF Offsets
    <2> QED
        BY <2>2 DEF SameLive
<1>6. ASSUME NEW k \in Key
      PROVE  /\ Redo(h, ct, image)[k] = Redo(h, cs, image)[k]
             /\ Writers(h, ct, k) = Writers(h, cs, k)
    <2>1. Writers(h, ct, k) = Writers(h, cs, k)
        BY <1>4, <1>5 DEF Writers
    <2>2. CASE Writers(h, cs, k) = {}
        BY <2>1, <2>2, RedoValue
    <2>3. CASE Writers(h, cs, k) # {}
        <3>1. PICK d \in Offsets : LastWriter(h, cs, k, d)
            BY <2>3, HasLastWriter
        <3>2. LastWriter(h, ct, k, d) /\ d \in Replayed(h, cs)
            BY <2>1, <3>1 DEF LastWriter, Writers
        <3> QED
            BY <1>5, <2>1, <3>1, <3>2, RedoValue
    <2> QED
        BY <2>1, <2>2, <2>3
<1>7. /\ Redo(h, ct, image) = [k \in Key |-> Redo(h, ct, image)[k]]
      /\ Redo(h, cs, image) = [k \in Key |-> Redo(h, cs, image)[k]]
    BY DEF Redo
<1> QED
    BY <1>1, <1>6, <1>7

----------------------------------------------------------------------------
(* An append that fits behind the frames in the ring *)

(* The frame is placed at head, and neither overwrites a frame that is     *)
(* still to be replayed nor fills the ring, which would look empty.        *)
Fits(h, len) == Place(h, len) = h.head /\ Used(h) + len < RingSize

(* Its header: tail stays, and head moves by the length of the frame. *)
LEMMA FitHeader ==
    ASSUME NEW h \in Header, NEW len \in Nat \ {0}, Fits(h, len)
    PROVE  /\ h.head + len <= RingSize
           /\ AppendHeader(h, len) \in Header
           /\ AppendHeader(h, len).tail = h.tail
           /\ Used(AppendHeader(h, len)) = Used(h) + len
           /\ \A d : At(AppendHeader(h, len), d) = At(h, d)
<1> DEFINE n == AppendHeader(h, len)
           u == Used(h)
<1>1. /\ RingSize \in Nat \ {0} /\ h.tail \in Offsets /\ h.head \in Offsets
      /\ h.head \in Nat /\ h.txSeq \in Nat
    BY RingAssumption DEF Header, Offsets
<1>2. u \in Offsets /\ u \in Nat /\ At(h, u) = h.head
    BY HeadAtUsed DEF Offsets
<1>3. u + len \in Offsets /\ len < RingSize
    BY <1>1, <1>2 DEF Fits, Offsets
<1>4. h.head + len <= RingSize
    BY <1>1, <1>3 DEF Fits, Place
<1>5. KeptTail(h, len) = h.tail
    <2>1. [h EXCEPT !.head = Place(h, len)] = h
        BY DEF Fits, Header
    <2>2. ~(u + len > RingSize)
        BY <1>1, <1>2 DEF Fits
    <2> QED
        BY <2>1, <2>2 DEF KeptTail
<1>6. n = [head |-> (h.head + len) % RingSize, tail |-> h.tail,
           txSeq |-> h.txSeq + 1, clean |-> FALSE]
    BY <1>5 DEF AppendHeader, Fits
<1>7. (h.head + len) % RingSize \in Offsets
    <2> DEFINE y == h.head + len
    <2>1. y \in Nat
        BY <1>1
    <2> HIDE DEF y
    <2>2. y % RingSize \in Offsets
        BY <1>1, <2>1 DEF Offsets
    <2> QED
        BY <2>2 DEF y
<1>8. n \in Header /\ n.tail = h.tail /\ n.head = (h.head + len) % RingSize
    BY <1>1, <1>6, <1>7 DEF Header
<1>9. \A d : At(n, d) = At(h, d)
    BY <1>8 DEF At
<1>10. n.head = At(n, u + len)
    <2>1. (At(h, u) + len) % RingSize = At(h, u + len)
        BY <1>2, <1>4, NextAt
    <2> QED
        BY <1>2, <1>8, <1>9, <2>1
<1>11. Used(n) = u + len
    <2> HIDE DEF n, u
    <2> QED
        BY <1>3, <1>8, <1>10, HeadAtUsed
<1> QED
    BY <1>4, <1>8, <1>9, <1>11

(* Its cells are none of those still to be replayed, and they are the next *)
(* ones behind them.                                                       *)
LEMMA SpanFree ==
    ASSUME NEW h \in Header, NEW len \in Nat \ {0}, Fits(h, len),
           NEW d \in 0 .. Used(h) - 1
    PROVE  At(h, d) \notin Span(h, len)
<1> DEFINE u == Used(h)
<1>1. /\ RingSize \in Nat \ {0} /\ h.head \in Nat
      /\ h.head + len <= RingSize /\ len \in Nat
    BY RingAssumption, FitHeader DEF Header, Offsets
<1>2. u \in Offsets /\ u \in Nat /\ At(h, u) = h.head /\ u + len < RingSize
    BY HeadAtUsed DEF Offsets, Fits
<1>3. d \in Offsets /\ d \in 0 .. RingSize /\ d \in Nat /\ d < u
    BY <1>1, <1>2 DEF Offsets
<1>4. At(h, d) \in Offsets
    BY <1>3, AtWrap
<1> SUFFICES ASSUME At(h, d) \in Span(h, len) PROVE FALSE
    OBVIOUS
<1> DEFINE i == At(h, d) - h.head
<1>5. At(h, d) \in h.head .. h.head + len - 1
    BY DEF Span, Fits
<1>6. /\ i \in Nat /\ i < len /\ At(h, d) = h.head + i
      /\ At(h, d) < RingSize
    BY <1>1, <1>4, <1>5 DEF Offsets
<1> HIDE DEF i
<1>7. u + i <= RingSize /\ u + i \in Offsets /\ h.head + i < RingSize
    BY <1>1, <1>2, <1>6 DEF Offsets
<1>8. At(h, u + i) = At(h, u) + i
    BY <1>2, <1>6, <1>7, FrameRun
<1>9. d = u + i
    BY <1>2, <1>3, <1>6, <1>7, <1>8, AtInjective
<1> QED
    BY <1>2, <1>3, <1>6, <1>9

(* A cell between the tail of the ring and the end of the next frame is in its span. *)
LEMMA SpanNext ==
    ASSUME NEW h \in Header, NEW len \in Nat \ {0}, Fits(h, len),
           NEW d \in 0 .. Used(h) + len - 1, ~(d < Used(h))
    PROVE  At(h, d) \in Span(h, len)
<1> DEFINE u == Used(h)
           i == d - u
<1>1. /\ RingSize \in Nat \ {0} /\ h.head \in Nat
      /\ h.head + len <= RingSize /\ len \in Nat
    BY RingAssumption, FitHeader DEF Header, Offsets
<1>2. u \in Offsets /\ u \in Nat /\ At(h, u) = h.head /\ u + len < RingSize
    BY HeadAtUsed DEF Offsets, Fits
<1>3. i \in Nat /\ i < len /\ d = u + i
    BY <1>1, <1>2
<1> HIDE DEF i, u
<1>4. At(h, u + i) = At(h, u) + i
    BY <1>1, <1>2, <1>3, FrameRun
<1>5. At(h, d) = h.head + i
    BY <1>2, <1>3, <1>4
<1>6. Span(h, len) = h.head .. h.head + len - 1
    BY DEF Span, Fits
<1> QED
    BY <1>1, <1>3, <1>5, <1>6

(* Its cells: the frames before it are untouched, and it decodes. *)
LEMMA FitCells ==
    ASSUME NEW h \in Header, NEW len \in Nat \ {0}, Fits(h, len),
           NEW cs \in [Offsets -> Frag], NEW id \in Nat, NEW keys \in SUBSET Key
    PROVE  LET ca == AppendCells(cs, h, id, keys, len)
           IN  /\ ca \in [Offsets -> Frag]
               /\ SameLive(h, cs, ca)
               /\ Decodes(ca, h.head)
               /\ ca[h.head] = [id |-> id, keys |-> keys, pos |-> 0, len |-> len]
<1> DEFINE ca == AppendCells(cs, h, id, keys, len)
           u == Used(h)
<1>1. /\ RingSize \in Nat \ {0} /\ h.head \in Offsets /\ h.head \in Nat
      /\ h.head + len <= RingSize /\ len \in Nat /\ len > 0
    BY RingAssumption, FitHeader DEF Header, Offsets
<1>2. u \in Offsets /\ u \in Nat /\ At(h, u) = h.head /\ u + len < RingSize
    BY HeadAtUsed DEF Offsets, Fits
<1>3. Place(h, len) = h.head /\ Span(h, len) = h.head .. h.head + len - 1
    BY DEF Fits, Span
<1>4. \A c \in Offsets :
        ca[c] = IF c \in h.head .. h.head + len - 1
                THEN [id |-> id, keys |-> keys, pos |-> c - h.head, len |-> len]
                ELSE cs[c]
    BY <1>3 DEF AppendCells
<1>5. ca \in [Offsets -> Frag]
    <2>1. ca = [c \in Offsets |-> ca[c]]
        BY DEF AppendCells
    <2>2. ASSUME NEW c \in Offsets PROVE ca[c] \in Frag
        <3>1. CASE c \in h.head .. h.head + len - 1
            <4>1. c - h.head \in Nat
                BY <1>1, <3>1
            <4>2. ca[c] = [id |-> id, keys |-> keys, pos |-> c - h.head, len |-> len]
                BY <1>4, <3>1
            <4> HIDE DEF ca
            <4> QED
                BY <1>1, <4>1, <4>2 DEF Frag
        <3>2. CASE c \notin h.head .. h.head + len - 1
            <4>1. ca[c] = cs[c]
                BY <1>4, <3>2, Zenon
            <4> QED
                BY <4>1
        <3> QED
            BY <3>1, <3>2
    <2> HIDE DEF ca
    <2> QED
        BY <2>1, <2>2
<1>6. SameLive(h, cs, ca)
    <2> SUFFICES ASSUME NEW d \in 0 .. u - 1 PROVE ca[At(h, d)] = cs[At(h, d)]
        BY DEF SameLive
    <2>1. d \in Offsets /\ d \in 0 .. RingSize /\ d \in Nat /\ d < u
        BY <1>1, <1>2 DEF Offsets
    <2>2. At(h, d) \in Offsets
        BY <2>1, AtWrap
    <2>3. At(h, d) \notin h.head .. h.head + len - 1
        BY <1>3, SpanFree, Zenon
    <2> QED
        BY <1>4, <2>2, <2>3, Zenon
<1>7. \A i \in 0 .. len - 1 :
        ca[h.head + i] = [id |-> id, keys |-> keys, pos |-> i, len |-> len]
    <2> SUFFICES ASSUME NEW i \in 0 .. len - 1
                 PROVE  ca[h.head + i] = [id |-> id, keys |-> keys, pos |-> i, len |-> len]
        OBVIOUS
    <2>1. /\ h.head + i \in Offsets
          /\ h.head + i \in h.head .. h.head + len - 1
          /\ (h.head + i) - h.head = i
        BY <1>1 DEF Offsets
    <2> QED
        BY <1>4, <2>1
<1>8. ca[h.head] = [id |-> id, keys |-> keys, pos |-> 0, len |-> len]
    <2>1. 0 \in 0 .. len - 1 /\ h.head + 0 = h.head
        BY <1>1
    <2> HIDE DEF ca
    <2> QED
        BY <1>7, <2>1
<1>9. Decodes(ca, h.head)
    <2> HIDE DEF ca
    <2> QED
        BY <1>1, <1>7, <1>8 DEF Decodes
<1> QED
    BY <1>5, <1>6, <1>8, <1>9

(* Replaying the ring after the append replays what it replayed before,    *)
(* and then the new frame: the header's arrival commits the transaction    *)
(* as a whole.                                                             *)
LEMMA FitReplayed ==
    ASSUME NEW h \in Header, NEW len \in Nat \ {0}, Fits(h, len),
           NEW cs \in [Offsets -> Frag], NEW id \in Nat, NEW keys \in SUBSET Key,
           Complete(h, cs)
    PROVE  LET n == AppendHeader(h, len)
               ca == AppendCells(cs, h, id, keys, len)
           IN  /\ Complete(n, ca)
               /\ Replayed(n, ca) = Replayed(h, cs) \cup {Used(h)}
<1> DEFINE n == AppendHeader(h, len)
           ca == AppendCells(cs, h, id, keys, len)
           u == Used(h)
<1>1. /\ n \in Header /\ Used(n) = u + len
      /\ \A d : At(n, d) = At(h, d)
    BY FitHeader
<1>2. /\ ca \in [Offsets -> Frag]
      /\ SameLive(h, cs, ca) /\ SameLive(h, ca, cs)
      /\ Decodes(ca, h.head)
      /\ ca[h.head].len = len
    <2>1. /\ ca \in [Offsets -> Frag]
          /\ SameLive(h, cs, ca)
          /\ Decodes(ca, h.head)
          /\ ca[h.head] = [id |-> id, keys |-> keys, pos |-> 0, len |-> len]
        BY FitCells
    <2> HIDE DEF ca
    <2>2. SameLive(h, ca, cs)
        BY <2>1 DEF SameLive
    <2> QED
        BY <2>1, <2>2
<1>3. /\ u \in Offsets /\ u \in Nat /\ At(h, u) = h.head /\ u + len \in Offsets
      /\ len > 0 /\ u \in 0 .. RingSize /\ RingSize \in Nat
    BY HeadAtUsed, RingAssumption DEF Offsets, Fits
<1> HIDE DEF n, ca, u
<1>4. \A d \in Offsets : At(h, d) = n.head <=> d = u + len
    BY <1>1, HeadAtUsed
<1>5. Complete(h, ca) /\ Replayed(h, ca) = Replayed(h, cs)
    <2>1. Complete(h, ca) /\ Replayed(h, cs) \subseteq Replayed(h, ca)
        BY <1>2, LiveReplayed
    <2>2. Replayed(h, ca) \subseteq Replayed(h, cs)
        BY <1>2, <2>1, LiveReplayed
    <2> QED
        BY <2>1, <2>2
(* Ways no longer than u are the same with either header. *)
<1>6. ASSUME NEW d \in Nat, d <= u, NEW Q \in SUBSET (0 .. d)
      PROVE  Path(h, ca, d, Q) <=> Path(n, ca, d, Q)
    <2>1. ASSUME NEW q \in Q, q # d
          PROVE  At(h, q) # h.head /\ At(n, q) # n.head /\ At(n, q) = At(h, q)
        <3>1. q \in Offsets /\ q # u /\ q # u + len
            BY <1>3, <1>6, <2>1 DEF Offsets
        <3> QED
            BY <1>1, <1>4, <3>1, HeadAtUsed DEF u
    <2> QED
        BY <2>1 DEF Path
<1>7. Reaches(n, ca, u)
    <2>1. Reaches(h, ca, u)
        BY <1>5 DEF Complete, u
    <2> QED
        BY <1>3, <1>6, <2>1 DEF Reaches
<1>8. At(n, u) = h.head /\ At(n, u) # n.head /\ Decodes(ca, At(n, u))
    BY <1>1, <1>2, <1>3, <1>4
<1>9. Complete(n, ca)
    <2>1. Reaches(n, ca, u + ca[At(n, u)].len)
        BY <1>1, <1>2, <1>3, <1>7, <1>8, PathExtend
    <2> QED
        BY <1>1, <1>2, <1>8, <2>1 DEF Complete
<1>10. u \in Replayed(n, ca)
    BY <1>1, <1>2, <1>3, <1>7, <1>8, ReplayedReached, SMTT(60)
<1>11. ASSUME NEW d \in Offsets, d < u
       PROVE  d \in Replayed(n, ca) <=> d \in Replayed(h, ca)
    <2>1. d \in Nat /\ d <= u
        BY <1>3, <1>11 DEF Offsets
    <2>2. Reaches(n, ca, d) <=> Reaches(h, ca, d)
        BY <1>6, <2>1 DEF Reaches
    <2>3. d # u /\ d # u + len
        BY <1>3, <1>11, <2>1
    <2>4. At(n, d) = At(h, d) /\ At(h, d) # h.head /\ At(n, d) # n.head
        BY <1>1, <1>4, <2>3, HeadAtUsed DEF u
    <2> QED
        BY <1>1, <1>2, <2>2, <2>4, ReplayedReached
<1>12. ASSUME NEW d \in Replayed(n, ca), d # u
       PROVE  d \in Offsets /\ d < u
    <2>1. d \in Offsets /\ d < u + len
        BY <1>1, <1>2, <1>9, ReplayedInside, SMTT(60)
    <2> SUFFICES ASSUME ~(d < u) PROVE FALSE
        BY <2>1
    <2>2. d \in 0 .. RingSize /\ u < d /\ d \in Nat
        BY <1>3, <1>12, <2>1 DEF Offsets
    <2>3. PICK P \in SUBSET (0 .. u) : Path(n, ca, u, P)
        BY <1>7 DEF Reaches
    <2>4. Reaches(n, ca, d)
        BY <1>1, <1>2, <2>1, ReplayedReached
    <2>5. PICK Q \in SUBSET (0 .. d) : Path(n, ca, d, Q)
        BY <2>4 DEF Reaches
    <2>6. u \in Q
        BY <1>1, <1>2, <1>3, <2>2, <2>3, <2>5, OnePath, SMTT(60)
    <2>7. u + len \in Q
        BY <1>2, <1>8, <1>12, <2>5, <2>6, Zenon DEF Path
    <2> QED
        BY <1>3, <2>1, <2>2, <2>7
<1>13. ASSUME NEW d \in Replayed(h, ca)
       PROVE  d \in Offsets /\ d < u
    BY <1>2, <1>5, ReplayedInside DEF u
<1>14. Replayed(n, ca) = Replayed(h, ca) \cup {u}
    BY <1>10, <1>11, <1>12, <1>13
<1> QED
    BY <1>5, <1>9, <1>14 DEF n, ca, u

(* The image after it: the new transaction's locations hold its            *)
(* post-image, all others what they held.                                  *)
LEMMA FitRedo ==
    ASSUME NEW h \in Header, NEW len \in Nat \ {0}, Fits(h, len),
           NEW cs \in [Offsets -> Frag], NEW id \in Nat, NEW keys \in SUBSET Key,
           Complete(h, cs), NEW image, NEW k \in Key
    PROVE  LET n == AppendHeader(h, len)
               ca == AppendCells(cs, h, id, keys, len)
           IN  /\ Redo(n, ca, image)[k]
                    = IF k \in keys THEN id ELSE Redo(h, cs, image)[k]
               /\ k \in keys => Writers(n, ca, k) # {}
<1> DEFINE n == AppendHeader(h, len)
           ca == AppendCells(cs, h, id, keys, len)
           u == Used(h)
<1>1. n \in Header /\ \A d : At(n, d) = At(h, d)
    BY FitHeader
<1>2. /\ ca \in [Offsets -> Frag]
      /\ SameLive(h, cs, ca)
      /\ ca[h.head].keys = keys /\ ca[h.head].id = id
    <2>1. /\ ca \in [Offsets -> Frag]
          /\ SameLive(h, cs, ca)
          /\ ca[h.head] = [id |-> id, keys |-> keys, pos |-> 0, len |-> len]
        BY FitCells
    <2> HIDE DEF ca
    <2> QED
        BY <2>1
<1>3. Replayed(n, ca) = Replayed(h, cs) \cup {u}
    BY FitReplayed
<1>4. u \in Offsets /\ At(n, u) = h.head
    BY <1>1, HeadAtUsed
<1> HIDE DEF n, ca, u
<1>5. ASSUME NEW d \in Replayed(h, cs)
      PROVE  ca[At(n, d)] = cs[At(h, d)] /\ d <= u /\ d # u
    <2>1. d \in Offsets /\ d < u
        BY ReplayedInside DEF u
    <2>2. d \in 0 .. u - 1
        BY <1>4, <2>1, SMTT(60) DEF Offsets
    <2> QED
        BY <1>1, <1>2, <1>4, <2>1, <2>2 DEF SameLive, u, Offsets
<1>6. CASE k \in keys
    <2>1. LastWriter(n, ca, k, u)
        <3>1. u \in Writers(n, ca, k)
            BY <1>2, <1>3, <1>4, <1>6, SMTT(60) DEF Writers
        <3>2. ASSUME NEW e \in Writers(n, ca, k) PROVE e <= u
            BY <1>3, <1>4, <1>5 DEF Writers, Offsets
        <3> QED
            BY <3>1, <3>2, SMTT(60) DEF LastWriter
    <2> QED
        BY <1>1, <1>2, <1>4, <1>6, <2>1, RedoValue DEF n, ca, LastWriter
<1>7. CASE k \notin keys
    <2>1. Writers(n, ca, k) = Writers(h, cs, k)
        BY <1>2, <1>3, <1>4, <1>5, <1>7, SMTT(60) DEF Writers
    <2>2. CASE Writers(h, cs, k) = {}
        BY <1>1, <1>2, <1>7, <2>1, <2>2, RedoValue DEF n, ca
    <2>3. CASE Writers(h, cs, k) # {}
        <3>1. PICK d \in Offsets : LastWriter(h, cs, k, d)
            BY <2>3, HasLastWriter, SMTT(60)
        <3>2. LastWriter(n, ca, k, d) /\ d \in Replayed(h, cs)
            BY <2>1, <3>1, SMTT(60) DEF LastWriter, Writers
        <3>3. Redo(n, ca, image)[k] = ca[At(n, d)].id
            BY <1>1, <1>2, <3>2, RedoValue, SMTT(60)
        <3>4. Redo(h, cs, image)[k] = cs[At(h, d)].id
            BY <3>1, RedoValue
        <3> QED
            BY <1>5, <1>7, <3>2, <3>3, <3>4 DEF n, ca
    <2> QED
        BY <2>2, <2>3
<1> QED
    BY <1>6, <1>7

(* An empty ring replays nothing: mounting leaves the image as it is. *)
LEMMA EmptyRedo ==
    ASSUME NEW h \in Header, h.tail = h.head, NEW cells \in [Offsets -> Frag]
    PROVE  /\ Used(h) = 0
           /\ Complete(h, cells)
           /\ \A image : image \in [Key -> Nat] => Redo(h, cells, image) = image
<1>1. 0 \in Offsets /\ 0 \in 0 .. RingSize /\ h.tail \in 0 .. RingSize - 1
    BY RingAssumption DEF Offsets, Header
<1>2. At(h, 0) = h.head
    BY <1>1, AtWrap, RingAssumption
<1>3. Used(h) = 0
    BY <1>1, <1>2, HeadAtUsed
<1>4. Complete(h, cells)
    <2>1. {0} \in SUBSET (0 .. 0) /\ Path(h, cells, 0, {0})
        BY DEF Path
    <2> QED
        BY <1>3, <2>1 DEF Complete, Reaches
<1>5. Replayed(h, cells) = {}
    <2> SUFFICES ASSUME NEW d \in Replayed(h, cells) PROVE FALSE
        OBVIOUS
    <2>1. d \in Offsets /\ d < 0
        BY <1>3, <1>4, ReplayedInside
    <2> QED
        BY <2>1 DEF Offsets
<1>6. ASSUME NEW image \in [Key -> Nat]
      PROVE  Redo(h, cells, image) = image
    <2>1. \A k \in Key : Writers(h, cells, k) = {}
        BY <1>5 DEF Writers
    <2>2. \A k \in Key : Redo(h, cells, image)[k] = image[k]
        BY <2>1, RedoValue, SMTT(60)
    <2>3. Redo(h, cells, image) = [k \in Key |-> Redo(h, cells, image)[k]]
        BY DEF Redo
    <2> QED
        BY <2>2, <2>3
<1> QED
    BY <1>3, <1>4, <1>6
=============================================================================
