---------------------------- MODULE WritePipeline ----------------------------
(***************************************************************************)
(* Concurrent writers of one file.  A write takes the lock three times:    *)
(* shared, to see whether the file is seekable; shared, to copy the inode  *)
(* and the content the plan needs; exclusive, to commit.  Between the last *)
(* two the payload is filtered, compressed and encrypted with no lock, and *)
(* the commit uses that work only if the inode looks unchanged; otherwise  *)
(* it plans again.  The time of the last change is a count of seconds.     *)
(*                                                                         *)
(* The content of the file is a sequence of tokens, one per write; where   *)
(* its blocks are is one number, which a commit may or may not change      *)
(* (blocks freed and taken again are often the same ones).  The compressed *)
(* size of a chunked file, which no step of a chunked write looks at, is   *)
(* left out.                                                               *)
(***************************************************************************)
EXTENDS WritePlan, Sequences

CONSTANTS Writers,
          Requests,     \* writes offered: [kind, off, len, mode, zlen]
          Sizes,        \* sizes a truncation may ask for
          ChunkLen,     \* bytes of a chunk (65536 in the code)
          Avoid,        \* uses left out of a run, each named where it is tested
          MaxWrites, MaxClock

ASSUME PipelineAssumption ==
  /\ ChunkLen \in Nat \ {0} /\ Sizes \subseteq Nat
  /\ Requests \subseteq [kind : {"plain", "seekable"}, off : Nat, len : Nat,
                         mode : {"never", "auto", "always"}, zlen : Nat]

VARIABLES file,     \* the inode and what it holds
          writer,   \* writer -> how far its write is
          clock,    \* seconds
          writes    \* writes and truncations begun

vars == <<file, writer, clock, writes>>

Avoids(use, cond) == use \in Avoid => ~cond

Idle == [pc |-> "idle"]

Init ==
  /\ file = [size |-> 0, csize |-> 0, seek |-> FALSE, enc |-> FALSE, filt |-> FALSE,
             mtime |-> 0, blocks |-> 0, content |-> <<>>]
  /\ writer = [w \in Writers |-> Idle]
  /\ clock = 0
  /\ writes = 0

Data(r, tok) == [i \in 1 .. r.len |-> tok]
At(s, i) == IF i \in DOMAIN s THEN s[i] ELSE 0
Resize(s, n) == [i \in 1 .. n |-> At(s, i)]
Overlay(s, off, data) ==
  [i \in 1 .. Max({Len(s), off + Len(data)}) |->
     IF i - off \in DOMAIN data THEN data[i - off] ELSE At(s, i)]

Codec(r) == [mode |-> r.mode, filt |-> FALSE, key |-> FALSE, zlen |-> r.zlen]

Chunk(i) == (i - 1) \div ChunkLen
Touched(r) == Chunk(r.off + 1) .. Chunk(r.off + r.len)

\* First lock: the route is chosen from the file's flag and the mode asked for.
Begin(w, r) ==
  /\ writer[w] = Idle /\ writes < MaxWrites
  /\ writes' = writes + 1
  /\ writer' = [writer EXCEPT ![w] =
       [pc |-> "routed", req |-> r, tok |-> writes + 1,
        seek |-> file.seek \/ r.kind = "seekable"]]
  /\ UNCHANGED <<file, clock>>

\* The content a plan is made from: a chunked write prepares every chunk it
\* touches from the content it sees, a plain one decodes it when it needs it.
Existing(seek, r) ==
  IF seek \/ NeedsExisting(file, r.off, r.len, Codec(r)) THEN file.content ELSE <<>>

\* Second lock: the inode and that content.  The second in which it is read,
\* at, is an observer: the code does not keep it.
Inspect(w) ==
  LET c == writer[w]
      r == c.req
  IN  /\ c.pc = "routed"
      /\ Avoids("turns_seekable", ~c.seek /\ file.seek)
      /\ writer' = [writer EXCEPT ![w] =
           [pc |-> "prepared", req |-> r, tok |-> c.tok, seek |-> c.seek,
            ino |-> [file EXCEPT !.content = <<>>], at |-> clock,
            existing |-> Existing(c.seek, r)]]
      /\ UNCHANGED <<file, clock, writes>>

\* Mutant: the time of the last change is not compared.
CanUsePrepared_IgnoresTime(c) ==
  /\ file.size = c.ino.size
  /\ ~c.seek => file.csize = c.ino.csize /\ file.enc = c.ino.enc
  /\ file.blocks = c.ino.blocks

\* What the commit compares; a chunked write does not look at csize, and looks
\* at the triple table as well, which  blocks  stands for here.
CanUsePrepared(c) ==
  /\ file.size = c.ino.size
  /\ ~c.seek => file.csize = c.ino.csize /\ file.enc = c.ino.enc
  /\ file.mtime = c.ino.mtime
  /\ file.blocks = c.ino.blocks

\* What the plan's buffer makes of the content now in the file.  Plain block
\* pointers in a file marked seekable read as empty chunks.
PlainContent(plan, r, bytes, existing) ==
  LET data == IF file.seek THEN Data(r, 0) ELSE bytes IN
  CASE plan.case = "FullOverwrite" -> Resize(data, plan.size)
    [] plan.case = "Recompress" -> Overlay(existing, r.off, data)
    [] plan.case = "CompressedAppend" -> file.content \o data
    [] plan.case = "Raw" -> Overlay(file.content, r.off, data)

\* Chunks are stored whole, as they were prepared.
ChunkContent(r, data, existing) ==
  LET size == Max({file.size, r.off + r.len})
      prepared == Overlay(existing, r.off, data)
  IN  [i \in 1 .. size |-> IF Chunk(i) \in Touched(r) THEN At(prepared, i)
                           ELSE At(file.content, i)]

Committed(c, moved) ==
  LET r == c.req
      data == Data(r, c.tok)
      valid == CanUsePrepared(c)
      ino == IF valid THEN c.ino ELSE file
      existing == IF valid THEN c.existing ELSE file.content
      plan == PlanWrite(ino, Len(existing), r.off, r.len, Codec(r))
      blocks == IF moved THEN writes ELSE file.blocks
  IN  IF c.seek
      THEN [file EXCEPT !.content = ChunkContent(r, data, existing), !.seek = TRUE,
                        !.size = Max({@, r.off + r.len}),
                        !.mtime = clock, !.blocks = blocks]
      ELSE [file EXCEPT !.content = PlainContent(plan, r, data, existing),
                        !.size = plan.size, !.csize = plan.csize,
                        !.mtime = clock, !.blocks = blocks]

\* Third lock.  A plain write that finds the file turned seekable, and a write
\* that changes how the file is stored, are the uses a run may leave out.
Commit(w, moved) ==
  LET c == writer[w]
  IN  /\ c.pc = "prepared"
      /\ Avoids("turns_seekable", ~c.seek /\ file.seek)
      /\ Avoids("codec_switch", c.seek /\ ~file.seek /\ file.size > 0)
      /\ Avoids("codec_switch", ~c.seek /\ file.csize > 0 /\ c.req.off = 0
                                /\ ~Stored(c.req.len, Codec(c.req)).comp)
      /\ file' = Committed(c, moved)
      /\ writer' = [writer EXCEPT ![w] = Idle]
      /\ UNCHANGED <<clock, writes>>

\* truncate runs under the exclusive lock from start to end.  A compressed
\* file is decoded, cut or padded, and stored anew like a write of all of it.
Truncate(n, zlen, moved) ==
  LET rewritten == file.csize > 0 /\ ~file.seek
      plan == PlanWrite(file, file.size, 0, n,
                        [mode |-> "always", filt |-> FALSE, key |-> FALSE, zlen |-> zlen])
  IN  /\ writes < MaxWrites /\ n # file.size
      /\ writes' = writes + 1
      /\ file' = [file EXCEPT
           !.content = Resize(@, n), !.size = n, !.mtime = clock,
           !.csize = IF rewritten THEN plan.csize ELSE @,
           !.blocks = IF moved /\ (rewritten \/ n < file.size) THEN writes' ELSE @]
      /\ UNCHANGED <<writer, clock>>

ZLens == {r.zlen : r \in Requests}

Tick ==
  /\ clock < MaxClock
  /\ clock' = clock + 1
  /\ UNCHANGED <<file, writer, writes>>

Next ==
  \/ \E w \in Writers :
       \/ \E r \in Requests : Begin(w, r)
       \/ Inspect(w)
       \/ \E moved \in BOOLEAN : Commit(w, moved)
  \/ \E n \in Sizes, z \in ZLens, moved \in BOOLEAN : Truncate(n, z, moved)
  \/ Tick

Spec == Init /\ [][Next]_vars

-----------------------------------------------------------------------------

\* What a write means when nothing else happens: the whole file when it covers
\* it or the payload is transformed and written from the start, else its range.
Effect(c) ==
  LET r == c.req
      data == Data(r, c.tok)
  IN  IF ~c.seek /\ IsFullOverwrite(file, r.off, r.len, Codec(r)) THEN data
      ELSE Overlay(file.content, r.off, data)

\* The commit stores content that was read in the second of the file's last
\* change then: another change in that second escapes the comparison.
SameSecond(c) ==
  /\ CanUsePrepared(c) /\ c.ino.mtime = c.at
  /\ c.seek \/ NeedsExisting(c.ino, c.req.off, c.req.len, Codec(c.req))

\* A commit changes what its own write covers in the file as it is then,
\* whatever writers and truncations did since it looked at the file, within one
\* second or not: no update of another is lost to a plan made before it.  The
\* exception is a commit that stores content it read in the second in which
\* the file had last changed.  Every commit leaves an inode with the size of
\* its content.
WritesAreAtomic ==
  [][\A w \in Writers : (writer[w].pc = "prepared" /\ writer'[w].pc = "idle") =>
       /\ ~SameSecond(writer[w]) => file'.content = Effect(writer[w])
       /\ file'.size = Len(file'.content)]_vars

\* The same without the exception, for every pair of writes ("Raced with another
\* writer on this specific inode: re-compute plan under write lock").
EveryWriteIsAtomic ==
  [][\A w \in Writers : (writer[w].pc = "prepared" /\ writer'[w].pc = "idle")
       => file'.content = Effect(writer[w])]_vars
=============================================================================
