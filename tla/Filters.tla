------------------------------- MODULE Filters -------------------------------
(***************************************************************************)
(* The reversible pre-compression filters: first-order delta over elements *)
(* of  typesize  bytes, byte shuffle, and bit shuffle (a byte shuffle, then *)
(* a transposition of every word as a bit matrix by delta swaps).  A byte  *)
(* is a number below 2^W and a word is W bytes, W = 8 in the code; data is *)
(* a function from 0 .. n-1.  The machine stores one input and loads it.   *)
(***************************************************************************)
EXTENDS Integers, FiniteSets, FiniteSetsExt, SequencesExt

CONSTANTS W,            \* bits of a byte and bytes of a word, a power of two
          Typesizes,    \* element sizes the pipeline accepts (1, 2, 4, 8)
          Configs,      \* filter configurations: [typesize, delta, shuffle, bitshuffle]
          Inputs        \* the data offered

VARIABLES input, config, stored, loaded

fvars == <<input, config, stored, loaded>>

Base2(n) == 2^n
Size(d) == Cardinality(DOMAIN d)
Absent == [i \in {} |-> 0]

\* Little-endian value of element  i,  and the data with element  i  replaced.
Elem(d, ts, i) == FoldLeft(LAMBDA a, j : a + d[i * ts + j - 1] * Base2(W * (j - 1)),
                           0, [j \in 1 .. ts |-> j])
WithElem(d, ts, i, v) ==
  [k \in DOMAIN d |-> IF k \div ts # i THEN d[k]
                      ELSE (v \div Base2(W * (k % ts))) % Base2(W)]

\* In place, from the last element to the first; a tail shorter than an element
\* and an unsupported size are left alone.
DeltaEncode(d, ts) ==
  LET n == IF ts = 0 THEN 0 ELSE Size(d) \div ts
      Sub(cur, i) == WithElem(cur, ts, i,
                       (Elem(cur, ts, i) - Elem(cur, ts, i - 1)) % Base2(W * ts))
  IN  IF ts \notin Typesizes \/ n <= 1 THEN d
      ELSE FoldLeft(Sub, d, [i \in 1 .. n - 1 |-> n - i])

\* In place, from the second element on.
DeltaDecode(d, ts) ==
  LET n == IF ts = 0 THEN 0 ELSE Size(d) \div ts
      Add(cur, i) == WithElem(cur, ts, i,
                       (Elem(cur, ts, i - 1) + Elem(cur, ts, i)) % Base2(W * ts))
  IN  IF ts \notin Typesizes \/ n <= 1 THEN d
      ELSE FoldLeft(Add, d, [i \in 1 .. n - 1 |-> i])

\* Byte  j  of element  i  goes to place  j * n + i;  the tail stays.
ShuffleEncode(d, ts) ==
  LET n == Size(d) \div ts
  IN  IF ts <= 1 THEN d
      ELSE [k \in DOMAIN d |-> IF k >= n * ts THEN d[k] ELSE d[(k % n) * ts + k \div n]]

ShuffleDecode(d, ts) ==
  LET n == Size(d) \div ts
  IN  IF ts <= 1 THEN d
      ELSE [k \in DOMAIN d |-> IF k >= n * ts THEN d[k] ELSE d[(k % ts) * n + k \div ts]]

-----------------------------------------------------------------------------
(* A word as the set of its bit positions, bit  c  of byte  r  at  r * W + c *)

WordBits(d, w) == {b \in 0 .. W * W - 1 :
                     (d[w * W + b \div W] \div Base2(b % W)) % 2 = 1}
ByteOf(word, r) == FoldSet(LAMBDA c, a : a + Base2(c), 0,
                           {c \in 0 .. W - 1 : r * W + c \in word})

Xor(a, b) == (a \ b) \cup (b \ a)
Shl(a, n) == {b + n : b \in a} \cap (0 .. W * W - 1)
Shr(a, n) == {b - n : b \in a} \cap (0 .. W * W - 1)

\* Mutant: the swapped columns are the even ones.
SwapMask_Even(j) == {b \in 0 .. W * W - 1 : /\ ((b \div W) \div Base2(j)) % 2 = 0
                                            /\ ((b % W) \div Base2(j)) % 2 = 0}

\* The masks of the delta swaps: even rows and odd columns by bit  j.  For
\* W = 8 they are 0x00AA00AA00AA00AA, 0x0000CCCC0000CCCC and 0x00000000F0F0F0F0.
SwapMask(j) == {b \in 0 .. W * W - 1 : /\ ((b \div W) \div Base2(j)) % 2 = 0
                                       /\ ((b % W) \div Base2(j)) % 2 = 1}

\* transpose_8x8_u64
TransposeWord(x) ==
  LET Swap(y, j) == LET by == (W - 1) * Base2(j)
                        t == Xor(y, Shr(y, by)) \cap SwapMask(j)
                    IN  Xor(Xor(y, t), Shl(t, by))
      rounds == {j \in 0 .. W : Base2(j) < W}
  IN  IF x = {} \/ x = 0 .. W * W - 1 THEN x
      ELSE FoldLeft(Swap, x, [j \in 1 .. Cardinality(rounds) |-> j - 1])

TransposeWords(d) ==
  LET n == Size(d) \div W
      words == [w \in 0 .. n - 1 |-> TransposeWord(WordBits(d, w))]
  IN  [k \in DOMAIN d |-> IF k >= n * W THEN d[k] ELSE ByteOf(words[k \div W], k % W)]

BitshuffleEncode(d, ts) == IF ts = 0 THEN d ELSE TransposeWords(ShuffleEncode(d, ts))
BitshuffleDecode(d, ts) == IF ts = 0 THEN d ELSE ShuffleDecode(TransposeWords(d), ts)

-----------------------------------------------------------------------------
(* Pipelines *)

IsActive(c) == c.typesize > 0 /\ (c.delta \/ c.shuffle \/ c.bitshuffle)

ToPipeline(c) == (IF c.delta THEN <<"Delta">> ELSE <<>>)
                 \o (IF c.shuffle THEN <<"ByteShuffle">> ELSE <<>>)
                 \o (IF c.bitshuffle THEN <<"BitShuffle">> ELSE <<>>)

Encode(f, d, ts) == CASE f = "Delta"       -> DeltaEncode(d, ts)
                      [] f = "ByteShuffle" -> ShuffleEncode(d, ts)
                      [] f = "BitShuffle"  -> BitshuffleEncode(d, ts)

Decode(f, d, ts) == CASE f = "Delta"       -> DeltaDecode(d, ts)
                      [] f = "ByteShuffle" -> ShuffleDecode(d, ts)
                      [] f = "BitShuffle"  -> BitshuffleDecode(d, ts)

Bypassed(d, c) == Size(d) = 0 \/ ~IsActive(c) \/ c.typesize \notin Typesizes

ApplyFilters(d, c) ==
  IF Bypassed(d, c) THEN d
  ELSE FoldLeft(LAMBDA cur, f : Encode(f, cur, c.typesize), d, ToPipeline(c))

\* Mutant: the filters are undone in the order they were applied.
UnapplyFilters_SameOrder(d, c) ==
  IF Bypassed(d, c) THEN d
  ELSE FoldLeft(LAMBDA cur, f : Decode(f, cur, c.typesize), d, ToPipeline(c))

UnapplyFilters(d, c) ==
  IF Bypassed(d, c) THEN d
  ELSE FoldLeft(LAMBDA cur, f : Decode(f, cur, c.typesize), d, Reverse(ToPipeline(c)))

FInit == /\ input \in Inputs /\ config \in Configs
         /\ stored = Absent /\ loaded = Absent

Store == stored = Absent /\ stored' = ApplyFilters(input, config)
         /\ UNCHANGED <<input, config, loaded>>

Load == stored # Absent /\ loaded' = UnapplyFilters(stored, config)
        /\ UNCHANGED <<input, config, stored>>

FNext == Store \/ Load

\* What was stored through any configuration is loaded unchanged: the filters
\* are undone in the reverse order, wrap on overflow, and agree on the tail
\* that does not fill an element or a word.
FiltersRoundTrip == loaded # Absent => loaded = input

\* The delta swaps transpose: in data that was only bit-shuffled, bit  c  of
\* byte  r  of a whole word is bit  r  of byte  c  of the input.
BitShuffleTransposes ==
  /\ ToPipeline(config) = <<"BitShuffle">> /\ config.typesize = 1 /\ stored # Absent
  => \A w \in 0 .. Size(input) \div W - 1, r, c \in 0 .. W - 1 :
       r * W + c \in WordBits(stored, w) <=> c * W + r \in WordBits(input, w)
=============================================================================
