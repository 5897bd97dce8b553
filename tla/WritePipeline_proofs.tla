------------------------ MODULE WritePipeline_proofs ------------------------
(***************************************************************************)
(* Writes are atomic, for any number of writers, any requests and any      *)
(* sizes, and with any number of changes of a file in one second.          *)
(*                                                                         *)
(* A plan read from a file that had last changed in an earlier second is   *)
(* fresh when it passes the comparison at the commit: times only grow, a   *)
(* plan is no younger than the file, and a plan of the file's own age is   *)
(* a copy of it (Fresh).  Any plan that passes has the file's sizes, and   *)
(* the content read for it their length (Held).                            *)
(*                                                                         *)
(* From that follows WritesAreAtomic: whichever way a commit stores its    *)
(* payload (over the whole file, recompressed, appended as a frame, raw,   *)
(* or chunk by chunk), the content it leaves is the one its write means.   *)
(***************************************************************************)
EXTENDS WritePipeline, TLAPS

\* The shape of the state that reading and updating its fields relies on.
Shape ==
  /\ clock \in Nat
  /\ "mtime" \in DOMAIN file /\ file.mtime \in Nat
  /\ file = [k \in DOMAIN file |-> file[k]]
  /\ writer = [w \in Writers |-> writer[w]]

\* A plan and the file it was made from: a file that changed in an earlier
\* second than the one in which it was read is known by the time of its change.
PlanFits(c) ==
  /\ c.ino.mtime \in Nat /\ c.ino.mtime <= file.mtime
  /\ c.at \in Nat /\ c.ino.mtime <= c.at /\ c.at <= clock
  /\ c.ino.mtime = file.mtime /\ c.ino.mtime # c.at =>
       /\ c.ino = [file EXCEPT !.content = <<>>]
       /\ c.existing = Existing(c.seek, c.req)

Fresh ==
  /\ Shape
  /\ file.mtime <= clock
  /\ \A w \in Writers : writer[w].pc = "prepared" => PlanFits(writer[w])

\* A change of the file moves its time past that of every plan made in a later
\* second than the change before.
LEMMA NewerFile ==
  ASSUME Fresh, Shape', file'.mtime = clock, clock' = clock,
         NEW w \in Writers, writer'[w] = writer[w], writer[w].pc = "prepared"
  PROVE  PlanFits(writer[w])'
<1>1. /\ writer[w].ino.mtime \in Nat /\ writer[w].at \in Nat /\ clock \in Nat
      /\ writer[w].ino.mtime <= writer[w].at /\ writer[w].at <= clock
  BY DEF Fresh, PlanFits, Shape
<1>2. writer'[w].ino.mtime = writer[w].ino.mtime /\ writer'[w].at = writer[w].at
  OBVIOUS
<1>3. writer[w].ino.mtime <= file'.mtime
      /\ (writer[w].ino.mtime # writer[w].at => writer[w].ino.mtime # file'.mtime)
  BY <1>1
<1> QED
  BY <1>1, <1>2, <1>3 DEF PlanFits

\* A step that leaves the file alone leaves the plans alone as well.
LEMMA SameFile ==
  ASSUME Fresh, Shape', file' = file, clock' \in {clock, clock + 1},
         NEW w \in Writers, writer'[w] = writer[w], writer[w].pc = "prepared"
  PROVE  PlanFits(writer[w])'
<1>1. PlanFits(writer[w])
  BY DEF Fresh
<1>2. Existing(writer[w].seek, writer[w].req)' = Existing(writer[w].seek, writer[w].req)
  BY DEF Existing, NeedsExisting, IsFullOverwrite, PayloadIsTransformed,
         MayAppendZstdFrame, Codec
<1>3. writer[w].at \in Nat /\ writer[w].at <= clock'
  BY <1>1 DEF PlanFits, Fresh, Shape
<1> QED
  BY <1>1, <1>2, <1>3 DEF PlanFits

\* The commit's result keeps the record's fields and stamps it with the time.
LEMMA CommittedTime ==
  ASSUME Shape, NEW c, NEW moved
  PROVE  /\ Committed(c, moved).mtime = clock
         /\ "mtime" \in DOMAIN Committed(c, moved)
         /\ Committed(c, moved) = [k \in DOMAIN Committed(c, moved) |-> Committed(c, moved)[k]]
BY ZenonT(60) DEF Committed, Shape

\* No plan has been made yet.
LEMMA InitFresh == Init => Fresh
BY DEF Init, Fresh, Shape, Idle

\* Routing a write makes no plan.
LEMMA BeginFresh ==
  ASSUME Fresh, NEW w \in Writers, NEW r \in Requests, Begin(w, r)
  PROVE  Fresh'
<1>1. Shape'
  BY DEF Begin, Fresh, Shape
<1>2. ASSUME NEW v \in Writers, writer'[v].pc = "prepared"
      PROVE  PlanFits(writer[v])'
  <2>1. v # w /\ writer'[v] = writer[v]
    BY <1>2 DEF Begin, Fresh, Shape
  <2> QED
    BY <1>1, <2>1, <1>2, SameFile DEF Begin
<1> QED
  BY <1>1, <1>2 DEF Fresh, Begin

\* A plan is made from the file as it is, and holds its time.
LEMMA InspectFresh ==
  ASSUME Fresh, NEW w \in Writers, Inspect(w)
  PROVE  Fresh'
<1>1. Shape'
  BY DEF Inspect, Fresh, Shape
<1>2. ASSUME NEW v \in Writers, writer'[v].pc = "prepared"
      PROVE  PlanFits(writer[v])'
  <2>1. CASE v = w
    <3>1. /\ writer'[w].ino = [file EXCEPT !.content = <<>>]
          /\ writer'[w].existing = Existing(writer[w].seek, writer[w].req)
          /\ writer'[w].seek = writer[w].seek /\ writer'[w].req = writer[w].req
          /\ writer'[w].at = clock
      BY DEF Inspect, Fresh, Shape
    <3>2. writer'[w].ino.mtime = file.mtime
      BY <3>1 DEF Fresh, Shape
    <3>3. Existing(writer[w].seek, writer[w].req)' = Existing(writer[w].seek, writer[w].req)
      BY <3>1 DEF Inspect, Existing, NeedsExisting, IsFullOverwrite, PayloadIsTransformed,
             MayAppendZstdFrame, Codec
    <3> QED
      BY <2>1, <3>1, <3>2, <3>3 DEF PlanFits, Inspect, Fresh, Shape
  <2>2. CASE v # w
    <3>1. writer'[v] = writer[v]
      BY <2>2 DEF Inspect, Fresh, Shape
    <3> QED
      BY <1>1, <3>1, <1>2, SameFile DEF Inspect
  <2> QED
    BY <2>1, <2>2
<1> QED
  BY <1>1, <1>2 DEF Fresh, Inspect

\* A commit outdates every plan that the others made in a later second than the
\* change before it.
LEMMA CommitFresh ==
  ASSUME Fresh, NEW w \in Writers, NEW moved \in BOOLEAN, Commit(w, moved)
  PROVE  Fresh'
<1>2. Shape' /\ file'.mtime = clock
  BY CommittedTime DEF Commit, Fresh, Shape, Idle
<1>3. ASSUME NEW v \in Writers, writer'[v].pc = "prepared"
      PROVE  PlanFits(writer[v])'
  <2>1. v # w /\ writer'[v] = writer[v]
    BY <1>3 DEF Commit, Fresh, Shape, Idle
  <2> QED
    BY <2>1, <1>2, <1>3, NewerFile DEF Commit
<1> QED
  BY <1>2, <1>3 DEF Fresh, Commit, Shape

\* So does a truncation.
LEMMA TruncateFresh ==
  ASSUME Fresh, NEW n, NEW z, NEW moved, Truncate(n, z, moved)
  PROVE  Fresh'
<1>2. Shape' /\ file'.mtime = clock
  BY Zenon DEF Truncate, Fresh, Shape
<1>3. ASSUME NEW v \in Writers, writer'[v].pc = "prepared"
      PROVE  PlanFits(writer[v])'
  BY <1>2, <1>3, NewerFile DEF Truncate
<1> QED
  BY <1>2, <1>3 DEF Fresh, Truncate, Shape

\* Time passing changes neither the file nor a plan.
LEMMA TickFresh ==
  ASSUME Fresh, Tick
  PROVE  Fresh'
<1>1. Shape'
  BY DEF Tick, Fresh, Shape
<1>2. ASSUME NEW v \in Writers, writer'[v].pc = "prepared"
      PROVE  PlanFits(writer[v])'
  BY <1>1, <1>2, SameFile DEF Tick
<1> QED
  BY <1>1, <1>2 DEF Fresh, Tick, Shape

\* Nor does nothing happening.
LEMMA StutterFresh ==
  ASSUME Fresh, UNCHANGED vars
  PROVE  Fresh'
<1>1. Shape'
  BY DEF vars, Fresh, Shape
<1>2. ASSUME NEW v \in Writers, writer'[v].pc = "prepared"
      PROVE  PlanFits(writer[v])'
  BY <1>1, <1>2, SameFile DEF vars
<1> QED
  BY <1>1, <1>2 DEF Fresh, vars

\* Every step keeps the plans fresh.
LEMMA FreshNext ==
  ASSUME Fresh, [Next]_vars
  PROVE  Fresh'
<1>1. CASE \E w \in Writers, r \in Requests : Begin(w, r)
  BY <1>1, BeginFresh
<1>2. CASE \E w \in Writers : Inspect(w)
  BY <1>2, InspectFresh
<1>3. CASE \E w \in Writers, moved \in BOOLEAN : Commit(w, moved)
  BY <1>3, CommitFresh
<1>4. CASE \E n \in Sizes, z \in ZLens, moved \in BOOLEAN : Truncate(n, z, moved)
  BY <1>4, TruncateFresh
<1>5. CASE Tick
  BY <1>5, TickFresh
<1>6. CASE UNCHANGED vars
  BY <1>6, StutterFresh
<1> QED
  BY <1>1, <1>2, <1>3, <1>4, <1>5, <1>6 DEF Next

-----------------------------------------------------------------------------
(* Sequences of tokens *)

\* The greater of two sizes.
LEMMA MaxOfTwo ==
  ASSUME NEW a \in Nat, NEW b \in Nat
  PROVE  Max({a, b}) = IF a >= b THEN a ELSE b
<1>1. \E x \in {a, b} : \A y \in {a, b} : x >= y
  BY SMT
<1>2. Max({a, b}) \in {a, b} /\ \A y \in {a, b} : Max({a, b}) >= y
  BY <1>1 DEF Max
<1> QED BY <1>2

\* A function on an initial segment is a sequence.
LEMMA SegmentIsSeq ==
  ASSUME NEW n \in Nat, NEW s \in [1 .. n -> Nat]
  PROVE  s \in Seq(Nat) /\ Len(s) = n
OBVIOUS

\* A write's payload is a sequence of its token, as long as the request says.
LEMMA DataIsSeq ==
  ASSUME NEW r, r.len \in Nat, NEW tok \in Nat
  PROVE  /\ Data(r, tok) \in Seq(Nat) /\ Len(Data(r, tok)) = r.len
         /\ \A i \in 1 .. r.len : Data(r, tok)[i] = tok
BY SegmentIsSeq DEF Data

\* A truncation gives a sequence of the size asked for.
LEMMA ResizeIsSeq ==
  ASSUME NEW s \in Seq(Nat), NEW n \in Nat
  PROVE  /\ Resize(s, n) \in Seq(Nat) /\ Len(Resize(s, n)) = n
         /\ n = Len(s) => Resize(s, n) = s
<1>1. Resize(s, n) \in [1 .. n -> Nat]
  BY DEF Resize, At
<1>2. n = Len(s) => Resize(s, n) = s
  BY DEF Resize, At
<1> QED BY <1>1, <1>2, SegmentIsSeq

\* Writing over a sequence keeps or extends its length, and decides every place.
LEMMA OverlayIsSeq ==
  ASSUME NEW s \in Seq(Nat), NEW off \in Nat, NEW data \in Seq(Nat)
  PROVE  LET n == IF Len(s) >= off + Len(data) THEN Len(s) ELSE off + Len(data)
         IN  /\ Overlay(s, off, data) \in Seq(Nat)
             /\ Len(Overlay(s, off, data)) = n
             /\ Overlay(s, off, data) =
                  [i \in 1 .. n |-> IF i - off \in DOMAIN data THEN data[i - off] ELSE At(s, i)]
<1> DEFINE n == IF Len(s) >= off + Len(data) THEN Len(s) ELSE off + Len(data)
           f == [i \in 1 .. n |-> IF i - off \in DOMAIN data THEN data[i - off] ELSE At(s, i)]
<1>1. Len(s) \in Nat /\ Len(data) \in Nat /\ off + Len(data) \in Nat
  OBVIOUS
<1>2. Max({Len(s), off + Len(data)}) = n /\ n \in Nat
  BY <1>1, MaxOfTwo, Zenon
<1> HIDE DEF n
<1>3. Overlay(s, off, data) = f
  BY <1>2 DEF Overlay
<1>4. f \in [1 .. n -> Nat]
  BY DEF At
<1> HIDE DEF f
<1>5. f \in Seq(Nat) /\ Len(f) = n
  BY <1>2, <1>4, SegmentIsSeq
<1> QED BY <1>3, <1>5 DEF f, n

\* Appending is an overlay at the end.
LEMMA AppendIsOverlay ==
  ASSUME NEW s \in Seq(Nat), NEW data \in Seq(Nat)
  PROVE  s \o data = Overlay(s, Len(s), data)
<1> DEFINE n == Len(s) + Len(data)
<1>1. Len(s) \in Nat /\ Len(data) \in Nat
  OBVIOUS
<1>2. Len(s) >= Len(s) + Len(data) => Len(s) = n
  BY <1>1
<1>3. Overlay(s, Len(s), data) =
        [i \in 1 .. n |-> IF i - Len(s) \in DOMAIN data THEN data[i - Len(s)] ELSE At(s, i)]
  BY <1>1, <1>2, OverlayIsSeq
<1>4. s \o data = [i \in 1 .. n |-> IF i <= Len(s) THEN s[i] ELSE data[i - Len(s)]]
  <2>1. s \o data \in Seq(Nat) /\ Len(s \o data) = n
    OBVIOUS
  <2>2. \A i \in 1 .. n : (s \o data)[i] = IF i <= Len(s) THEN s[i] ELSE data[i - Len(s)]
    OBVIOUS
  <2>3. s \o data = [i \in 1 .. n |-> (s \o data)[i]]
    <3>1. \A q \in Seq(Nat) : q = [i \in 1 .. Len(q) |-> q[i]]
      OBVIOUS
    <3> QED BY <2>1, <3>1, Zenon
  <2> QED BY <2>2, <2>3
<1>5. ASSUME NEW i \in 1 .. n
      PROVE  (IF i <= Len(s) THEN s[i] ELSE data[i - Len(s)]) =
             (IF i - Len(s) \in DOMAIN data THEN data[i - Len(s)] ELSE At(s, i))
  BY <1>1 DEF At
<1> QED BY <1>3, <1>4, <1>5

-----------------------------------------------------------------------------
(* What a commit makes of the file *)

FileType ==
  [size : Nat, csize : Nat, seek : BOOLEAN, enc : {FALSE}, filt : {FALSE}, mtime : Nat,
   blocks : Nat, content : Seq(Nat)]

\* The inode has the size of the content it leads to.
Sized == file \in FileType /\ file.size = Len(file.content)

\* What a write holds from its first lock on.
Asked(c) == c.req \in Requests /\ c.tok \in Nat /\ c.seek \in BOOLEAN

\* The content is stored again, in part at least.
Needed(c) == c.seek \/ NeedsExisting(file, c.req.off, c.req.len, Codec(c.req)) \/ file.size = 0

\* The inode that a commit plans with is that of the file, as far as it uses it,
\* and the content it plans with is as long as the file's when it is needed.
PlansFor(c, ino, existing) ==
  /\ ino.size = file.size /\ ino.enc = file.enc /\ ino.filt = file.filt
  /\ ~c.seek => ino.csize = file.csize
  /\ existing \in Seq(Nat)
  /\ Needed(c) => Len(existing) = file.size

\* What a request offers: an offset, a length and a mode of compression.
LEMMA RequestType ==
  ASSUME NEW r \in Requests
  PROVE  /\ r.off \in Nat /\ r.len \in Nat /\ r.zlen \in Nat /\ Codec(r).zlen = r.zlen
         /\ ~ Codec(r).filt /\ ~ Codec(r).key /\ Codec(r).mode = r.mode
BY PipelineAssumption DEF Codec

\* A later byte lies in the same chunk or a later one.
LEMMA ChunkGrows ==
  ASSUME NEW i \in Nat, NEW j \in Nat, 1 <= i, i <= j
  PROVE  Chunk(i) \in Int /\ Chunk(j) \in Int /\ Chunk(i) <= Chunk(j)
<1> DEFINE a == i - 1
           b == j - 1
           q == a \div ChunkLen
           p == b \div ChunkLen
<1>1. ChunkLen \in Nat /\ ChunkLen > 0 /\ a \in Nat /\ b \in Nat /\ a <= b
  BY PipelineAssumption
<1>2. /\ q \in Int /\ p \in Int
      /\ ChunkLen * q <= a /\ b < ChunkLen * p + ChunkLen
  <2> HIDE DEF a, b
  <2> QED BY <1>1
<1>3. Chunk(i) = q /\ Chunk(j) = p
  BY DEF Chunk
<1> HIDE DEF a, b, q, p
<1>4. ~ (p + 1 <= q)
  <2> SUFFICES ASSUME p + 1 <= q PROVE FALSE
    OBVIOUS
  <2>1. ChunkLen * (p + 1) <= ChunkLen * q
    BY <1>1, <1>2
  <2>2. ChunkLen * (p + 1) = ChunkLen * p + ChunkLen
    BY <1>1, <1>2
  <2>3. ChunkLen * p \in Int /\ ChunkLen * q \in Int
    BY <1>1, <1>2
  <2> QED BY <1>1, <1>2, <2>1, <2>2, <2>3
<1> QED BY <1>2, <1>3, <1>4

\* Chunks are stored whole, and those a write does not touch hold none of it.
LEMMA ChunksAgree ==
  ASSUME Sized, NEW r \in Requests, NEW data \in Seq(Nat), Len(data) = r.len
  PROVE  ChunkContent(r, data, file.content) = Overlay(file.content, r.off, data)
<1> DEFINE s == file.content
           over == Overlay(s, r.off, data)
           n == IF Len(s) >= r.off + Len(data) THEN Len(s) ELSE r.off + Len(data)
<1>1. /\ s \in Seq(Nat) /\ Len(s) \in Nat /\ file.size = Len(s) /\ r.off \in Nat /\ r.len \in Nat
      /\ r.off + r.len \in Nat
  BY RequestType DEF Sized, FileType
<1>2. Max({file.size, r.off + r.len}) = n /\ n \in Nat
  <2>1. \A a, b \in Nat : Max({a, b}) = IF a >= b THEN a ELSE b
    BY MaxOfTwo
  <2> DEFINE a == file.size
             b == r.off + r.len
  <2>2. a \in Nat /\ b \in Nat /\ a = Len(s) /\ n = IF a >= b THEN a ELSE b
    BY <1>1
  <2> HIDE DEF a, b, n
  <2>3. Max({a, b}) = n /\ n \in Nat
    BY <2>1, <2>2, SMTT(60)
  <2> QED BY <2>3 DEF a, b
<1>3. over = [i \in 1 .. n |-> IF i - r.off \in DOMAIN data THEN data[i - r.off] ELSE At(s, i)]
  <2>1. ASSUME NEW t \in Seq(Nat), NEW k \in Nat, NEW d \in Seq(Nat)
        PROVE  Overlay(t, k, d) =
                 [i \in 1 .. (IF Len(t) >= k + Len(d) THEN Len(t) ELSE k + Len(d)) |->
                    IF i - k \in DOMAIN d THEN d[i - k] ELSE At(t, i)]
    BY OverlayIsSeq
  <2> DEFINE k == r.off
  <2>2. s \in Seq(Nat) /\ k \in Nat
    BY <1>1
  <2> HIDE DEF s, k
  <2>3. Overlay(s, k, data) =
          [i \in 1 .. (IF Len(s) >= k + Len(data) THEN Len(s) ELSE k + Len(data)) |->
             IF i - k \in DOMAIN data THEN data[i - k] ELSE At(s, i)]
    BY <2>1, <2>2, ZenonT(60)
  <2> QED BY <2>3 DEF k
<1> HIDE DEF over, n, s
<1>4. DOMAIN over = 1 .. n
  BY <1>3
<1>5. ASSUME NEW i \in 1 .. n, Chunk(i) \notin Touched(r)
      PROVE  over[i] = At(s, i)
  <2>1. i \in Nat /\ DOMAIN data = 1 .. r.len
    BY <1>2
  <2>2. i - r.off \notin 1 .. r.len
    <3> SUFFICES ASSUME i - r.off \in 1 .. r.len PROVE Chunk(i) \in Touched(r)
      BY <1>5
    <3>1. r.off + 1 <= i /\ i <= r.off + r.len
      BY <1>1, <2>1, SMTT(60)
    <3>2. /\ Chunk(i) \in Int /\ Chunk(r.off + 1) \in Int /\ Chunk(r.off + r.len) \in Int
          /\ Chunk(r.off + 1) <= Chunk(i) /\ Chunk(i) <= Chunk(r.off + r.len)
      <4>1. r.off + 1 \in Nat /\ 1 <= r.off + 1 /\ 1 <= i
        BY <1>1, <2>1, <3>1, SMTT(60)
      <4> QED BY <1>1, <2>1, <3>1, <4>1, ChunkGrows, SMTT(60)
    <3> QED BY <3>2 DEF Touched
  <2> QED BY <1>3, <2>1, <2>2
<1>6. ChunkContent(r, data, s) =
        [i \in 1 .. n |-> IF Chunk(i) \in Touched(r) THEN At(over, i) ELSE At(s, i)]
  BY <1>2 DEF ChunkContent, over, s
<1>7. \A i \in 1 .. n : (IF Chunk(i) \in Touched(r) THEN At(over, i) ELSE At(s, i)) = over[i]
  BY <1>4, <1>5 DEF At
<1>8. over = [i \in 1 .. n |-> over[i]]
  BY <1>3
<1>9. ChunkContent(r, data, s) = over
  BY <1>6, <1>7, <1>8, Zenon
<1> QED BY <1>9 DEF over, s

\* Chunks prepared from any content of the file's length leave a file of the
\* right size.
LEMMA ChunksSized ==
  ASSUME Sized, NEW r \in Requests, NEW data \in Seq(Nat), NEW s \in Seq(Nat)
  PROVE  /\ ChunkContent(r, data, s) \in Seq(Nat)
         /\ Len(ChunkContent(r, data, s)) = Max({file.size, r.off + r.len})
<1> DEFINE n == Max({file.size, r.off + r.len})
           over == Overlay(s, r.off, data)
           f == [i \in 1 .. n |-> IF Chunk(i) \in Touched(r) THEN At(over, i)
                                  ELSE At(file.content, i)]
<1>1. file.content \in Seq(Nat) /\ file.size \in Nat /\ r.off \in Nat /\ r.len \in Nat
  BY RequestType DEF Sized, FileType
<1>2. n \in Nat
  <2>1. r.off + r.len \in Nat
    BY <1>1
  <2> QED BY <1>1, <2>1, MaxOfTwo
<1>3. over \in Seq(Nat)
  BY <1>1, OverlayIsSeq, Zenon
<1>4. ChunkContent(r, data, s) = f
  BY DEF ChunkContent
<1> HIDE DEF n, over
<1>5. \A t \in Seq(Nat), i \in Nat : At(t, i) \in Nat
  BY DEF At
<1>6. f \in [1 .. n -> Nat]
  <2>1. \A i \in 1 .. n : i \in Nat
    BY <1>2
  <2>2. \A i \in 1 .. n : At(over, i) \in Nat /\ At(file.content, i) \in Nat
    BY <1>1, <1>3, <1>5, <2>1, Zenon
  <2> QED BY <2>2, Zenon
<1> HIDE DEF f
<1>7. f \in Seq(Nat) /\ Len(f) = n
  BY <1>2, <1>6, SegmentIsSeq
<1> QED BY <1>4, <1>7 DEF n

\* Each of the four cases of a plain write leaves a file of the size it records,
\* and stores what the write means when its content is that of the file.
LEMMA PlainAgrees ==
  ASSUME Sized, NEW c, Asked(c), ~ c.seek, ~ file.seek, NEW ino, NEW existing,
         PlansFor(c, ino, existing),
         file.csize > 0 /\ c.req.off = 0 => Stored(c.req.len, Codec(c.req)).comp
  PROVE  LET r == c.req
             data == Data(r, c.tok)
             plan == PlanWrite(ino, Len(existing), r.off, r.len, Codec(r))
             content == PlainContent(plan, r, data, existing)
         IN  /\ content \in Seq(Nat) /\ plan.size = Len(content) /\ plan.csize \in Nat
             /\ (Needed(c) => existing = file.content) => content = Effect(c)
<1> DEFINE r == c.req
           z == Codec(r)
           s == file.content
           data == Data(r, c.tok)
           plan == PlanWrite(ino, Len(existing), r.off, r.len, z)
           content == PlainContent(plan, r, data, existing)
           full == IsFullOverwrite(file, r.off, r.len, z)
           trans == PayloadIsTransformed(file, z)
           app == MayAppendZstdFrame(file, r.off, z)
           over == Overlay(s, r.off, data)
<1>1. /\ s \in Seq(Nat) /\ file.size = Len(s) /\ file.size \in Nat /\ file.csize \in Nat
      /\ ~ file.enc /\ ~ file.filt
  BY Zenon DEF Sized, FileType
<1>2. /\ r \in Requests /\ r.off \in Nat /\ r.len \in Nat /\ z.zlen \in Nat
      /\ ~ z.filt /\ ~ z.key /\ r.zlen \in Nat /\ z.zlen = r.zlen
  BY RequestType DEF Asked
<1>3. data \in Seq(Nat) /\ Len(data) = r.len
  BY <1>2, DataIsSeq, Zenon DEF Asked
<1>4. /\ ino.size = file.size /\ ino.csize = file.csize /\ ~ ino.enc /\ ~ ino.filt
      /\ existing \in Seq(Nat)
      /\ NeedsExisting(file, r.off, r.len, z) \/ file.size = 0 => Len(existing) = Len(s)
  BY <1>1 DEF PlansFor, Needed
<1>5. /\ IsFullOverwrite(ino, r.off, r.len, z) <=> full
      /\ PayloadIsTransformed(ino, z) <=> trans
      /\ MayAppendZstdFrame(ino, r.off, z) <=> app
      /\ trans <=> file.csize > 0
  BY <1>1, <1>2, <1>4, Zenon DEF IsFullOverwrite, PayloadIsTransformed, MayAppendZstdFrame
<1>6. /\ over \in Seq(Nat)
      /\ Len(over) = IF Len(s) >= r.off + r.len THEN Len(s) ELSE r.off + r.len
      /\ Max({file.size, r.off + r.len}) = Len(over)
  <2>1. r.off + r.len \in Nat /\ Len(s) \in Nat
    BY <1>1, <1>2, SMTT(60)
  <2>2. over \in Seq(Nat)
        /\ Len(over) = IF Len(s) >= r.off + r.len THEN Len(s) ELSE r.off + r.len
    <3> HIDE DEF data, s
    <3>1. /\ over \in Seq(Nat)
          /\ Len(over) = IF Len(s) >= r.off + Len(data) THEN Len(s) ELSE r.off + Len(data)
      BY <1>1, <1>2, <1>3, OverlayIsSeq, Zenon
    <3> QED BY <1>3, <3>1
  <2>3. Max({file.size, r.off + r.len}) = IF Len(s) >= r.off + r.len THEN Len(s) ELSE r.off + r.len
    BY <1>1, <2>1, MaxOfTwo
  <2> QED BY <2>2, <2>3
<1>7. Effect(c) = IF full THEN data ELSE over
  BY DEF Effect
<1>8. Stored(r.len, z).len = (IF Stored(r.len, z).comp THEN z.zlen ELSE r.len)
      /\ Stored(Len(over), z).len = (IF Stored(Len(over), z).comp THEN z.zlen ELSE Len(over))
  <2>1. ASSUME NEW len \in Nat
        PROVE  Stored(len, z).len = IF Stored(len, z).comp THEN z.zlen ELSE len
    <3>1. /\ Stored(len, z).comp = (z.mode = "always" \/ (z.mode = "auto" /\ len >= AutoMin /\ z.zlen < len))
          /\ Stored(len, z).len = (IF Stored(len, z).comp THEN z.zlen ELSE len) + 0
      BY <1>2, ZenonT(60) DEF Stored
    <3> HIDE DEF z
    <3> QED BY <1>2, <3>1
  <2>2. Len(over) \in Nat
    BY <1>6
  <2> QED BY <1>2, <2>1, <2>2
<1> HIDE DEF z, data, over, s
<1>9. CASE full
  <2>1. plan = PlanFullOverwrite(ino, r.len, z)
    BY <1>5, <1>9 DEF PlanWrite
  <2>2. /\ plan.case = "FullOverwrite"
        /\ plan.size = (IF Stored(r.len, z).comp THEN r.len ELSE Max({file.size, r.len}))
        /\ plan.csize = (IF Stored(r.len, z).comp THEN z.zlen ELSE 0)
    BY <1>2, <1>4, <1>8, <2>1, SMTT(60) DEF PlanFullOverwrite, EffectiveFilter
  <2>3. plan.size = r.len /\ plan.csize \in Nat
    <3>1. Max({file.size, r.len}) = IF file.size >= r.len THEN file.size ELSE r.len
      BY <1>1, <1>2, MaxOfTwo, Zenon
    <3>2. r.off = 0 /\ (file.size = 0 \/ r.len >= file.size \/ trans)
      BY <1>9 DEF IsFullOverwrite
    <3>3. ~ Stored(r.len, z).comp => file.size <= r.len
      BY <1>1, <1>2, <1>5, <3>2 DEF z
    <3> QED BY <1>1, <1>2, <2>2, <3>1, <3>3
  <2> HIDE DEF plan
  <2>4. content = Resize(data, plan.size)
    BY <2>2 DEF PlainContent
  <2>5. content = data
    BY <1>2, <1>3, <2>3, <2>4, ResizeIsSeq, Zenon
  <2> QED BY <1>3, <1>7, <1>9, <2>3, <2>5 DEF plan, content, z, data
<1>10. CASE ~ full /\ ~ trans
  <2>1. plan = PlanRaw(ino, r.off, r.len)
    BY <1>5, <1>10 DEF PlanWrite
  <2>2. plan.case = "Raw" /\ plan.size = Len(over) /\ plan.csize = 0
    BY <1>4, <1>6, <2>1 DEF PlanRaw
  <2> HIDE DEF plan
  <2>3. content = over
    BY <2>2, SMTT(60) DEF PlainContent, over, s
  <2> QED BY <1>6, <1>7, <1>10, <2>2, <2>3 DEF plan, content, z, data
<1>11. CASE ~ full /\ trans /\ app
  <2>1. plan = PlanAppend(ino, r.len, z)
    BY <1>5, <1>11, SMTT(60) DEF PlanWrite
  <2>2. /\ plan.case = "CompressedAppend" /\ plan.size = file.size + r.len
        /\ plan.csize = file.csize + z.zlen
    BY <1>4, <2>1 DEF PlanAppend
  <2>3. r.off = Len(s)
    BY <1>1, <1>11 DEF MayAppendZstdFrame
  <2> HIDE DEF plan
  <2>4. content = s \o data
    BY <2>2 DEF PlainContent, s
  <2>5. content = over
    BY <1>1, <1>3, <2>3, <2>4, AppendIsOverlay DEF over
  <2>6. plan.size = Len(over) /\ plan.csize \in Nat
    BY <1>1, <1>2, <1>6, <2>2, <2>3, SMTT(60)
  <2> QED BY <1>6, <1>7, <1>11, <2>5, <2>6, SMTT(60) DEF plan, content, z, data
<1>12. CASE ~ full /\ trans /\ ~ app
  <2> DEFINE kept == Overlay(existing, r.off, data)
  <2>1. plan = PlanRecompress(Len(existing), r.off, r.len, z)
    BY <1>5, <1>12 DEF PlanWrite
  <2>2. NeedsExisting(file, r.off, r.len, z) \/ file.size = 0
    BY <1>1, <1>12, SMTT(60) DEF NeedsExisting
  <2>3. kept \in Seq(Nat) /\ Len(kept) = Len(over)
    <3>1. Len(existing) = Len(s)
      BY <1>4, <2>2
    <3>2. /\ kept \in Seq(Nat)
          /\ Len(kept) = IF Len(existing) >= r.off + Len(data)
                         THEN Len(existing) ELSE r.off + Len(data)
      BY <1>2, <1>3, <1>4, OverlayIsSeq, Zenon
    <3> QED BY <1>3, <1>6, <3>1, <3>2
  <2>4. /\ plan.case = "Recompress"
        /\ plan.size = Len(over)
        /\ plan.csize = (IF Stored(Len(over), z).comp THEN z.zlen ELSE 0)
    <3>1. Max({Len(existing), r.off + r.len}) = Len(over)
      BY <1>1, <1>4, <1>6, <2>2
    <3> QED BY <1>8, <2>1, <3>1, SMTT(60) DEF PlanRecompress
  <2> HIDE DEF plan
  <2>5. content = kept
    BY <2>4 DEF PlainContent
  <2>6. (Needed(c) => existing = file.content) => kept = over
    BY <2>2 DEF Needed, over, s, z
  <2> HIDE DEF kept
  <2> QED BY <1>2, <1>6, <1>7, <1>12, <2>3, <2>4, <2>5, <2>6 DEF plan, content, z, data
<1> QED BY <1>9, <1>10, <1>11, <1>12

\* The copy made under the second lock: as much content as the inode says.
Copied(c) ==
  /\ c.ino.size \in Nat /\ c.ino.csize \in Nat
  /\ c.ino.enc = FALSE /\ c.ino.filt = FALSE
  /\ c.existing \in Seq(Nat)
  /\ c.seek \/ NeedsExisting(c.ino, c.req.off, c.req.len, Codec(c.req)) \/ c.ino.size = 0
       => Len(c.existing) = c.ino.size

\* What each writer holds, and the counters.
Held ==
  /\ Sized /\ clock \in Nat /\ writes \in Nat
  /\ \A w \in Writers :
       \/ writer[w] = Idle
       \/ writer[w].pc = "routed" /\ Asked(writer[w])
       \/ writer[w].pc = "prepared" /\ Asked(writer[w]) /\ Copied(writer[w])

\* What a commit plans with: the copy made under the second lock when nothing
\* seems to have changed since, and the file itself otherwise.
LEMMA CommitPlans ==
  ASSUME Fresh, Held, NEW w \in Writers, writer[w].pc = "prepared"
  PROVE  LET c == writer[w]
             valid == CanUsePrepared(c)
             existing == IF valid THEN c.existing ELSE file.content
         IN  /\ PlansFor(c, IF valid THEN c.ino ELSE file, existing)
             /\ ~SameSecond(c) => (Needed(c) => existing = file.content)
<1> DEFINE c == writer[w]
           valid == CanUsePrepared(c)
<1>1. /\ file.content \in Seq(Nat) /\ Len(file.content) = file.size
      /\ file.enc = FALSE /\ file.filt = FALSE
      /\ Asked(c) /\ Copied(c) /\ c.seek \in BOOLEAN
  <2>1. Asked(c) /\ Copied(c)
    BY DEF Held, Idle
  <2> QED BY <2>1 DEF Held, Sized, FileType, Asked
<1>2. CASE ~ valid
  BY <1>1, <1>2 DEF PlansFor
<1>3. CASE valid
  <2>1. /\ c.ino.size = file.size /\ (~c.seek => c.ino.csize = file.csize)
        /\ c.ino.enc = FALSE /\ c.ino.filt = FALSE /\ c.ino.mtime = file.mtime
        /\ c.existing \in Seq(Nat)
    BY <1>1, <1>3 DEF CanUsePrepared, Copied
  <2>2. ~c.seek => (NeedsExisting(c.ino, c.req.off, c.req.len, Codec(c.req))
                      <=> NeedsExisting(file, c.req.off, c.req.len, Codec(c.req)))
    BY <1>1, <2>1, Zenon DEF NeedsExisting, IsFullOverwrite, PayloadIsTransformed, MayAppendZstdFrame
  <2>3. Needed(c) => Len(c.existing) = file.size
    BY <1>1, <2>1, <2>2 DEF Needed, Copied
  <2>4. ASSUME ~SameSecond(c), Needed(c) PROVE c.existing = file.content
    <3>1. CASE c.ino.mtime # c.at
      <4>1. c.existing = Existing(c.seek, c.req)
        BY <2>1, <3>1 DEF Fresh, PlanFits
      <4>2. file.size = 0 => file.content = <<>>
        BY <1>1
      <4> QED BY <2>4, <4>1, <4>2 DEF Needed, Existing
    <3>2. CASE c.ino.mtime = c.at
      <4>1. file.size = 0
        BY <1>3, <2>2, <2>4, <3>2 DEF SameSecond, Needed
      <4>2. Len(c.existing) = 0 /\ Len(file.content) = 0
        BY <1>1, <2>3, <2>4, <4>1
      <4>3. c.existing = <<>> /\ file.content = <<>>
        BY <1>1, <2>1, <4>2
      <4> QED BY <4>3
    <3> QED BY <3>1, <3>2
  <2> QED BY <1>1, <1>3, <2>1, <2>3, <2>4 DEF PlansFor
<1> QED BY <1>2, <1>3

\* A commit leaves a file of the size it records and, unless it escapes the
\* comparison of times, what its own write means there.
LEMMA CommitIs ==
  ASSUME Fresh, Held, NEW w \in Writers, NEW moved \in BOOLEAN, Commit(w, moved),
         "turns_seekable" \in Avoid, "codec_switch" \in Avoid
  PROVE  Sized' /\ (~SameSecond(writer[w]) => file'.content = Effect(writer[w]))
<1> DEFINE c == writer[w]
           r == c.req
           data == Data(r, c.tok)
           valid == CanUsePrepared(c)
           ino == IF valid THEN c.ino ELSE file
           existing == IF valid THEN c.existing ELSE file.content
           plan == PlanWrite(ino, Len(existing), r.off, r.len, Codec(r))
           blocks == IF moved THEN writes ELSE file.blocks
<1>1. /\ c.pc = "prepared" /\ Asked(c) /\ file' = Committed(c, moved)
      /\ ~ c.seek => ~ file.seek
      /\ ~ c.seek /\ file.csize > 0 /\ r.off = 0 => Stored(r.len, Codec(r)).comp
  BY DEF Commit, Avoids, Held, Idle
<1>2. PlansFor(c, ino, existing) /\ (~SameSecond(c) => (Needed(c) => existing = file.content))
  BY <1>1, CommitPlans
<1>3. /\ file \in FileType /\ file.size = Len(file.content) /\ file.content \in Seq(Nat)
      /\ Sized /\ clock \in Nat /\ blocks \in Nat
  BY Zenon DEF Held, Sized, FileType
<1>4. CASE c.seek
  <2> DEFINE over == Overlay(file.content, r.off, data)
             size == Max({file.size, r.off + r.len})
  <2>1. file' = [file EXCEPT !.content = ChunkContent(r, data, existing), !.seek = TRUE,
                             !.size = size, !.mtime = clock, !.blocks = blocks]
    BY <1>1, <1>3, <1>4 DEF Committed, FileType
  <2>2. existing \in Seq(Nat) /\ (~SameSecond(c) => existing = file.content)
    BY <1>2, <1>4 DEF PlansFor, Needed
  <2>3. r \in Requests /\ data \in Seq(Nat) /\ Len(data) = r.len /\ r.off \in Nat /\ r.len \in Nat
    BY <1>1, RequestType, DataIsSeq, Zenon DEF Asked
  <2> HIDE DEF data
  <2> HIDE DEF existing
  <2>4. ~SameSecond(c) => ChunkContent(r, data, existing) = over
    BY <1>3, <2>2, <2>3, ChunksAgree
  <2>5. ChunkContent(r, data, existing) \in Seq(Nat) /\ Len(ChunkContent(r, data, existing)) = size
    BY <1>3, <2>2, <2>3, ChunksSized
  <2> HIDE DEF over, size, blocks
  <2>6. size \in Nat
    BY <2>5
  <2>7. file'.content = ChunkContent(r, data, existing) /\ Sized'
    BY <1>3, <2>1, <2>5, <2>6, Zenon DEF Sized, FileType
  <2> QED BY <1>4, <2>4, <2>7 DEF Effect, over, data
<1>5. CASE ~ c.seek
  <2> DEFINE content == PlainContent(plan, r, data, existing)
  <2>1. file' = [file EXCEPT !.content = content, !.size = plan.size, !.csize = plan.csize,
                             !.mtime = clock, !.blocks = blocks]
    BY <1>1, <1>3, <1>5, SMTT(60) DEF Committed, FileType
  <2>2. /\ content \in Seq(Nat) /\ plan.size = Len(content) /\ plan.csize \in Nat
        /\ ~SameSecond(c) => content = Effect(c)
    <3>1. /\ Sized /\ Asked(c) /\ ~ c.seek /\ ~ file.seek /\ PlansFor(c, ino, existing)
          /\ file.csize > 0 /\ c.req.off = 0 => Stored(c.req.len, Codec(c.req)).comp
          /\ ~SameSecond(c) => (Needed(c) => existing = file.content)
      BY <1>1, <1>2, <1>3, <1>5
    <3> HIDE DEF ino, existing, c
    <3> QED BY <3>1, PlainAgrees, SMTT(60) DEF content, plan, r, data
  <2> HIDE DEF content, plan, blocks
  <2>3. plan.size \in Nat
    BY <2>2
  <2>4. file'.content = content /\ Sized'
    BY <1>3, <2>1, <2>2, <2>3, Zenon DEF Sized, FileType
  <2> QED BY <2>2, <2>4
<1> QED BY <1>1, <1>4, <1>5 DEF Asked

\* Every step leaves the file and the writers in shape.
LEMMA HeldNext ==
  ASSUME Fresh, Held, [Next]_vars, "turns_seekable" \in Avoid, "codec_switch" \in Avoid
  PROVE  Held'
<1>1. ASSUME NEW w \in Writers, NEW r \in Requests, Begin(w, r) PROVE Held'
  <2> DEFINE g == [pc |-> "routed", req |-> r, tok |-> writes + 1,
                   seek |-> file.seek \/ r.kind = "seekable"]
  <2>1. writer' = [writer EXCEPT ![w] = g] /\ UNCHANGED <<file, clock>> /\ writes' = writes + 1
    BY <1>1 DEF Begin
  <2>2. g.pc = "routed" /\ Asked(g)
    BY DEF Asked, Held, Sized, FileType
  <2> HIDE DEF g
  <2>3. \A v \in Writers : writer'[v] = writer[v] \/ writer'[v] = g
    BY <2>1 DEF Fresh, Shape
  <2> QED BY <2>1, <2>2, <2>3 DEF Held, Sized
<1>2. ASSUME NEW w \in Writers, Inspect(w) PROVE Held'
  <2> DEFINE c == writer[w]
             g == [pc |-> "prepared", req |-> c.req, tok |-> c.tok, seek |-> c.seek,
                   ino |-> [file EXCEPT !.content = <<>>], at |-> clock,
                   existing |-> Existing(c.seek, c.req)]
  <2>1. /\ writer' = [writer EXCEPT ![w] = g] /\ g.pc = "prepared"
        /\ g.req = writer[w].req /\ g.tok = writer[w].tok /\ g.seek = writer[w].seek
        /\ g.ino = [file EXCEPT !.content = <<>>] /\ g.existing = Existing(g.seek, g.req)
    BY <1>2 DEF Inspect
  <2> HIDE DEF g
  <2>2. writer[w].pc = "routed" /\ UNCHANGED <<file, clock, writes>>
    BY <1>2 DEF Inspect
  <2>3. Asked(g)
    BY <2>1, <2>2 DEF Held, Asked, Idle
  <2>4. Copied(g)
    <3>1. /\ g.ino.size = file.size /\ g.ino.csize = file.csize /\ g.ino.enc = file.enc
          /\ g.ino.filt = file.filt /\ file.size \in Nat /\ file.csize \in Nat
          /\ file.enc = FALSE /\ file.filt = FALSE
      BY <2>1 DEF Held, Sized, FileType
    <3>2. file.content \in Seq(Nat) /\ Len(file.content) = file.size
      BY DEF Held, Sized, FileType
    <3>3. NeedsExisting(g.ino, g.req.off, g.req.len, Codec(g.req))
            <=> NeedsExisting(file, g.req.off, g.req.len, Codec(g.req))
      BY <3>1, Zenon DEF NeedsExisting, IsFullOverwrite, PayloadIsTransformed, MayAppendZstdFrame
    <3>4. g.existing \in {file.content, <<>>}
          /\ (g.seek \/ NeedsExisting(file, g.req.off, g.req.len, Codec(g.req))
                => g.existing = file.content)
      BY <2>1 DEF Existing
    <3>5. <<>> \in Seq(Nat) /\ Len(<<>>) = 0
      OBVIOUS
    <3> QED BY <3>1, <3>2, <3>3, <3>4, <3>5, Zenon DEF Copied
  <2>5. \A v \in Writers : writer'[v] = writer[v] \/ writer'[v] = g
    BY <2>1, SMTT(60) DEF Fresh, Shape
  <2> QED BY <2>1, <2>2, <2>3, <2>4, <2>5 DEF Held, Sized
<1>3. ASSUME NEW w \in Writers, NEW moved \in BOOLEAN, Commit(w, moved) PROVE Held'
  <2>1. Sized'
    BY <1>3, CommitIs
  <2>2. \A v \in Writers : writer'[v] = writer[v] \/ writer'[v] = Idle
    BY <1>3 DEF Commit, Fresh, Shape
  <2> QED BY <1>3, <2>1, <2>2 DEF Held, Commit
<1>4. ASSUME NEW n \in Sizes, NEW z \in ZLens, NEW moved \in BOOLEAN, Truncate(n, z, moved)
      PROVE  Held'
  <2>1. n \in Nat /\ file.content \in Seq(Nat)
    BY PipelineAssumption DEF Held, Sized, FileType
  <2>2. Resize(file.content, n) \in Seq(Nat) /\ Len(Resize(file.content, n)) = n
    BY <2>1, ResizeIsSeq, SMTT(60)
  <2>3. PICK csize, blocks \in Nat :
          file' = [file EXCEPT !.content = Resize(file.content, n), !.size = n, !.mtime = clock,
                               !.csize = csize, !.blocks = blocks]
    <3> DEFINE codec == [mode |-> "always", filt |-> FALSE, key |-> FALSE, zlen |-> z]
               plan == PlanWrite(file, file.size, 0, n, codec)
               csize == IF file.csize > 0 /\ ~file.seek THEN plan.csize ELSE file.csize
               blocks == IF moved /\ ((file.csize > 0 /\ ~file.seek) \/ n < file.size)
                         THEN writes' ELSE file.blocks
    <3>1. file.csize > 0 => plan.csize = z
      <4>1. file.csize > 0 => plan = PlanFullOverwrite(file, n, codec)
        BY DEF PlanWrite, IsFullOverwrite, PayloadIsTransformed
      <4>2. Stored(n, codec).comp /\ Stored(n, codec).len = z + 0
        BY DEF Stored
      <4>3. z \in Nat
        BY RequestType DEF ZLens
      <4>4. PlanFullOverwrite(file, n, codec).csize = Stored(n, codec).len
        BY <4>2 DEF PlanFullOverwrite
      <4> HIDE DEF plan, codec
      <4> QED BY <4>1, <4>2, <4>3, <4>4
    <3>2. z \in Nat
      BY RequestType DEF ZLens
    <3>3. csize \in Nat /\ blocks \in Nat
      <4> HIDE DEF plan
      <4>1. writes' \in Nat /\ file.csize \in Nat /\ file.blocks \in Nat
        BY <1>4 DEF Truncate, Held, Sized, FileType
      <4> QED BY <3>1, <3>2, <4>1
    <3>4. file' = [file EXCEPT !.content = Resize(file.content, n), !.size = n, !.mtime = clock,
                               !.csize = csize, !.blocks = blocks]
      BY <1>4, Zenon DEF Truncate, Held, Sized, FileType
    <3> HIDE DEF csize, blocks
    <3> QED BY <3>3, <3>4
  <2>4. Sized'
    BY <2>1, <2>2, <2>3, Zenon DEF Held, Sized, FileType
  <2> QED BY <1>4, <2>4 DEF Held, Truncate
<1>5. CASE Tick \/ UNCHANGED vars
  BY <1>5 DEF Held, Tick, vars, Sized
<1> QED BY <1>1, <1>2, <1>3, <1>4, <1>5 DEF Next

\* The file is empty and nobody writes.
LEMMA HeldInit == Init => Held
BY DEF Init, Held, Sized, FileType

\* Only a commit takes a writer that has a plan back to idle.
LEMMA StepIsAtomic ==
  ASSUME Fresh, Held, Next, "turns_seekable" \in Avoid, "codec_switch" \in Avoid,
         NEW w \in Writers, writer[w].pc = "prepared", writer'[w].pc = "idle"
  PROVE  /\ ~SameSecond(writer[w]) => file'.content = Effect(writer[w])
         /\ file'.size = Len(file'.content)
<1>1. ASSUME NEW v \in Writers, NEW r \in Requests, Begin(v, r) PROVE FALSE
  <2>1. writer[v].pc = "idle" /\ writer'[v].pc = "routed" /\ (v # w => writer'[w] = writer[w])
    BY <1>1 DEF Begin, Fresh, Shape, Idle
  <2> QED BY <2>1
<1>2. ASSUME NEW v \in Writers, Inspect(v) PROVE FALSE
  <2>1. writer[v].pc = "routed" /\ (v # w => writer'[w] = writer[w])
    BY <1>2 DEF Inspect, Fresh, Shape
  <2> QED BY <2>1
<1>3. ASSUME NEW v \in Writers, NEW moved \in BOOLEAN, Commit(v, moved)
      PROVE  /\ ~SameSecond(writer[w]) => file'.content = Effect(writer[w])
             /\ file'.size = Len(file'.content)
  <2>1. v # w => writer'[w] = writer[w]
    BY <1>3 DEF Commit, Fresh, Shape
  <2>2. v = w
    BY <2>1
  <2> QED BY <1>3, <2>2, CommitIs DEF Sized
<1>4. ASSUME NEW n, NEW z, NEW moved, Truncate(n, z, moved) PROVE FALSE
  BY <1>4 DEF Truncate
<1>5. CASE Tick
  BY <1>5 DEF Tick
<1> QED BY <1>1, <1>2, <1>3, <1>4, <1>5 DEF Next

\* Writes are atomic, for any number of writers, requests, sizes and chunk
\* lengths, and any number of changes in one second: with the two uses left out
\* for which the code is known not to promise it (a plain write that finds the
\* file turned seekable, a write that changes how a file is stored), the commit
\* of write_data_with_filters and write_chunked_64k_pipeline leaves in the file
\* what its own write means there, over whatever the others did since it
\* planned, unless it stores content read in the second of the file's last
\* change; and the inode's size is the length of the content it leaves.
THEOREM CommitsAreAtomic ==
  ASSUME "turns_seekable" \in Avoid, "codec_switch" \in Avoid
  PROVE  Spec => WritesAreAtomic
<1> DEFINE A == \A w \in Writers : (writer[w].pc = "prepared" /\ writer'[w].pc = "idle") =>
                  /\ ~SameSecond(writer[w]) => file'.content = Effect(writer[w])
                  /\ file'.size = Len(file'.content)
<1>1. Init => Fresh /\ Held
  BY InitFresh, HeldInit
<1>2. ASSUME Fresh, Held, [Next]_vars PROVE Fresh' /\ Held'
  BY <1>2, FreshNext, HeldNext
<1>3. ASSUME Fresh, Held, [Next]_vars PROVE [A]_vars
  BY <1>3, StepIsAtomic
<1> QED BY <1>1, <1>2, <1>3, PTL DEF Spec, WritesAreAtomic
=============================================================================
