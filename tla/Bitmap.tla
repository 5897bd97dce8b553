------------------------------- MODULE Bitmap -------------------------------
(***************************************************************************)
(* The word-at-a-time scans and byte-at-a-time range updates of a bitmap,  *)
(* as a machine that updates one, next to the set of bits it should hold.  *)
(* BlockAllocator states what the scans find; here they are computed as    *)
(* the code does: whole words first, then the bytes left over, with masks. *)
(* A byte is a set of bit positions, the bitmap a function from 0 .. n-1.  *)
(***************************************************************************)
EXTENDS Integers, FiniteSetsExt

CONSTANTS ByteBits,     \* bits of a byte (8 in the code)
          WordBytes,    \* bytes of a word (8 in the code)
          MaxBytes,     \* bound on the length of the bitmap
          UsizeMax      \* largest index; sums past it overflow

ASSUME BitmapAssumption ==
  /\ ByteBits \in Nat \ {0} /\ WordBytes \in Nat \ {0} /\ MaxBytes \in Nat
  /\ UsizeMax \in Nat /\ MaxBytes * ByteBits < UsizeMax

VARIABLES bytes,        \* the bitmap
          used          \* the bits that were set and not cleared since

bvars == <<bytes, used>>

None == -1
Word == WordBytes * ByteBits
FullByte == 0 .. ByteBits - 1
FullWord == 0 .. Word - 1

NBytes(d) == Cardinality(DOMAIN d)
TotalBits(d) == NBytes(d) * ByteBits
ChunkCount(d) == NBytes(d) \div WordBytes

Get(d, i) == i \div ByteBits \in DOMAIN d /\ i % ByteBits \in d[i \div ByteBits]

\* u64::from_le_bytes of a whole word, and the bytes after the last one.
WordAt(d, c) == {j \in FullWord : j % ByteBits \in d[c * WordBytes + j \div ByteBits]}
Remainder(d) == {b \in DOMAIN d : b >= ChunkCount(d) * WordBytes}

\* A value with the bits below  n  masked out, and its first free position.
Masked(bits, n) == bits \cup 0 .. n - 1
FirstZero(full, bits) == Min(full \ bits)

\* Mutant: the mask of the first word is applied to the words after it too.
FindFirstFreeFrom_MasksEveryWord(d, start) ==
  LET M(c) == Masked(WordAt(d, c), start % Word)
      open == {c \in start \div Word .. ChunkCount(d) - 1 : M(c) # FullWord}
      R(b) == Masked(d[b], start - b * ByteBits)
      rest == {b \in Remainder(d) : R(b) # FullByte}
  IN  IF start >= TotalBits(d) THEN None
      ELSE IF open # {} THEN Min(open) * Word + FirstZero(FullWord, M(Min(open)))
      ELSE IF rest # {} THEN Min(rest) * ByteBits + FirstZero(FullByte, R(Min(rest)))
      ELSE None

FindFirstFreeFrom(d, start) ==
  LET first == start \div Word
      M(c) == Masked(WordAt(d, c), IF c = first THEN start % Word ELSE 0)
      open == {c \in first .. ChunkCount(d) - 1 : M(c) # FullWord}
      base == ChunkCount(d) * Word
      skip == ChunkCount(d) * WordBytes
              + (IF start > base THEN (start - base) \div ByteBits ELSE 0)
      R(b) == Masked(d[b], start - b * ByteBits)
      rest == {b \in Remainder(d) : b >= skip /\ R(b) # FullByte}
  IN  IF start >= TotalBits(d) THEN None
      ELSE IF open # {} THEN Min(open) * Word + FirstZero(FullWord, M(Min(open)))
      ELSE IF rest # {} THEN Min(rest) * ByteBits + FirstZero(FullByte, R(Min(rest)))
      ELSE None

Below(i, limit) == IF i < limit THEN i ELSE None

FindNextFreeWrapped(d, hint) ==
  LET ahead == FindFirstFreeFrom(d, hint)
  IN  IF ahead # None THEN ahead ELSE Below(FindFirstFreeFrom(d, 0), hint)

FindNextFreeBounded(d, start, limit) ==
  LET s == Min({start, limit})
      ahead == FindFirstFreeFrom(d, s)
  IN  IF limit = 0 THEN None
      ELSE IF ahead # None /\ ahead < limit THEN ahead
      ELSE Below(FindFirstFreeFrom(d, 0), s)

SaturatingAdd(a, b) == Min({a + b, UsizeMax})

\* From a free bit, look at the ones after it; restart past the first used one.
FindContiguousFreeFrom(d, start, count) ==
  LET total == TotalBits(d)
      from[s \in 0 .. UsizeMax] ==
        LET c == FindFirstFreeFrom(d, s)
            blocked == {i \in 1 .. count - 1 : Get(d, c + i)}
        IN  IF SaturatingAdd(s, count) > total \/ c = None THEN None
            ELSE IF SaturatingAdd(c, count) > total THEN None
            ELSE IF blocked = {} THEN c
            ELSE from[c + Min(blocked) + 1]
  IN  CASE count = 0 -> IF start <= total THEN start ELSE None
        [] count > 0 /\ (count > total \/ start >= total) -> None
        [] count = 1 /\ start < total -> FindFirstFreeFrom(d, start)
        [] OTHER -> from[start]

FindContiguousFreeWrapped(d, hint, count) ==
  LET ahead == FindContiguousFreeFrom(d, hint, count)
  IN  IF ahead # None THEN ahead
      ELSE Below(FindContiguousFreeFrom(d, 0, count), hint)

\* for_each_set_bit: words then bytes of the first max_bits, rounded up to a
\* byte; ids at or past max_bits are dropped.
ForEachSetBit(d, maxBits) ==
  LET n == Min({(maxBits + ByteBits - 1) \div ByteBits, NBytes(d)})
      s == [b \in 0 .. n - 1 |-> d[b]]
      words == {c * Word + j : c \in 0 .. ChunkCount(s) - 1, j \in FullWord}
      rest == {b * ByteBits + j : b \in Remainder(s), j \in FullByte}
  IN  {i \in words : i < maxBits /\ i % Word \in WordAt(s, i \div Word)}
      \cup {i \in rest : i < maxBits /\ i % ByteBits \in s[i \div ByteBits]}

\* The bits of byte  b  a range update touches: the one byte that holds both
\* ends, or the head from start on, whole bytes, and the tail up to end.
RangeMask(d, start, count, b) ==
  LET total == TotalBits(d)
      end == IF start + count > UsizeMax THEN total ELSE Min({start + count, total})
      sb == start \div ByteBits
      eb == end \div ByteBits
      head == start % ByteBits
      tail == end % ByteBits
  IN  IF count = 0 \/ start >= end THEN {}
      ELSE IF sb = eb THEN IF b = sb THEN head .. head + (end - start) - 1 ELSE {}
      ELSE IF b = sb /\ head # 0 THEN head .. ByteBits - 1
      ELSE IF b \in (IF head # 0 THEN sb + 1 ELSE sb) .. eb - 1 THEN FullByte
      ELSE IF b = eb /\ tail # 0 THEN 0 .. tail - 1
      ELSE {}

\* Mutant: the tail byte is filled whole.
SetRange_WholeTail(d, start, count) ==
  [b \in DOMAIN d |-> IF RangeMask(d, start, count, b) = {} THEN d[b] ELSE FullByte]

SetRange(d, start, count) == [b \in DOMAIN d |-> d[b] \cup RangeMask(d, start, count, b)]
ClearRange(d, start, count) == [b \in DOMAIN d |-> d[b] \ RangeMask(d, start, count, b)]

SetBit(d, i) == [b \in DOMAIN d |->
                   IF b = i \div ByteBits THEN d[b] \cup {i % ByteBits} ELSE d[b]]
ClearBit(d, i) == [b \in DOMAIN d |->
                     IF b = i \div ByteBits THEN d[b] \ {i % ByteBits} ELSE d[b]]

-----------------------------------------------------------------------------

EmptyBitmap(n) == [b \in 0 .. n - 1 |-> {}]

BInit == bytes \in {EmptyBitmap(n) : n \in 0 .. MaxBytes} /\ used = {}

Bits == 0 .. TotalBits(bytes) - 1
Indexes == 0 .. TotalBits(bytes) + 1
Counts == 0 .. TotalBits(bytes) + 1 \cup {UsizeMax}

Set(i) == bytes' = SetBit(bytes, i) /\ used' = used \cup ({i} \cap Bits)
Clear(i) == bytes' = ClearBit(bytes, i) /\ used' = used \ {i}
SetMany(i, n) ==
  bytes' = SetRange(bytes, i, n) /\ used' = used \cup ((i .. i + n - 1) \cap Bits)
ClearMany(i, n) ==
  bytes' = ClearRange(bytes, i, n) /\ used' = used \ (i .. i + n - 1)

BNext == \/ \E i \in Indexes : Set(i) \/ Clear(i)
         \/ \E i \in Indexes, n \in Counts : SetMany(i, n) \/ ClearMany(i, n)

-----------------------------------------------------------------------------

Base == 1
Ref == INSTANCE BlockAllocator WITH
         DataStart  <- Base,
         BlockCount <- Base + TotalBits(bytes),
         TrackedEnd <- Base + TotalBits(bytes)

\* Range updates touch the bits of their range and no others, whichever bytes
\* the range starts and ends in, and also when it is empty, runs past the end
\* or overflows.
UpdatesAreExact == {i \in Bits : Get(bytes, i)} = used

\* Every scan agrees with the allocator's definitions: the first free bit, the
\* first free run, wrapped or bounded, from any hint, across word boundaries
\* and in the bytes after the last word; and the iteration visits the set bits.
ScansAgree ==
  LET ids == {Base + i : i \in used}
      Id(i) == IF i = None THEN Ref!NoBlock ELSE Base + i
      free == {i \in Bits : i \notin used}
  IN  \A h \in Indexes :
        /\ Id(FindNextFreeWrapped(bytes, h)) = Ref!NextFreeWrapped(ids, Base + h)
        /\ \A n \in Counts \ {0} :
             /\ Id(FindContiguousFreeFrom(bytes, h, n)) = Ref!RunFreeFrom(ids, Base + h, n)
             /\ Id(FindContiguousFreeWrapped(bytes, h, n))
                  = Ref!RunFreeWrapped(ids, Base + h, n)
        /\ \A limit \in Indexes :
             LET open == {i \in free : i < limit}
                 ahead == {i \in open : i >= h}
             IN  FindNextFreeBounded(bytes, h, limit)
                   = IF ahead # {} THEN Min(ahead) ELSE IF open # {} THEN Min(open) ELSE None
        /\ ForEachSetBit(bytes, h) = {i \in used : i < h}
=============================================================================
