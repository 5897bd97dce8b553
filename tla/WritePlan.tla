------------------------------ MODULE WritePlan ------------------------------
(***************************************************************************)
(* The decision half of a write: which of the four cases applies, where    *)
(* the stored buffer lands, how long it is, and what the inode becomes.    *)
(*                                                                         *)
(* A request  c  is the compression mode, whether the caller asks for a    *)
(* filter, whether the image has a key, and  zlen,  the length the         *)
(* compressor returns for this input (an input of the model: any length).  *)
(***************************************************************************)
EXTENDS Integers, FiniteSetsExt

CONSTANTS AutoMin,      \* shortest input the Auto mode compresses (8192 bytes)
          FrameSlack,   \* allowance of the append rule (4096 bytes)
          TagLen        \* bytes encryption adds

PayloadIsTransformed(ino, c) ==
  ino.csize > 0 \/ ino.enc \/ c.key \/ c.filt \/ ino.filt

IsFullOverwrite(ino, off, len, c) ==
  off = 0 /\ (ino.size = 0 \/ len >= ino.size \/ PayloadIsTransformed(ino, c))

MayAppendZstdFrame(ino, off, c) ==
  /\ ino.csize > 0 /\ off = ino.size
  /\ ~ino.enc /\ ~ino.filt /\ ~c.filt /\ ~c.key
  /\ ino.csize <= ino.size + ino.size \div 4 + FrameSlack

EffectiveFilter(ino, c) == c.filt \/ ino.filt

\* build_full_overwrite_buffer_pure: filter, compress, encrypt.
Stored(len, c) ==
  LET comp == \/ c.mode = "always"
              \/ c.mode = "auto" /\ len >= AutoMin /\ c.zlen < len
  IN  [comp |-> comp,
       len  |-> (IF comp THEN c.zlen ELSE len) + (IF c.key THEN TagLen ELSE 0)]

\* Whether the plan needs the decoded content of the file.
NeedsExisting(ino, off, len, c) ==
  /\ ~IsFullOverwrite(ino, off, len, c)
  /\ PayloadIsTransformed(ino, c)
  /\ ino.size > 0
  /\ ~MayAppendZstdFrame(ino, off, c)

PlanFullOverwrite(ino, len, c) ==
  LET b == Stored(len, c)
  IN  [case  |-> "FullOverwrite", at |-> 0, len |-> b.len,
       size  |-> IF b.comp THEN len
                 ELSE IF c.key \/ EffectiveFilter(ino, c) THEN b.len
                 ELSE Max({ino.size, b.len}),
       csize |-> IF b.comp THEN b.len ELSE 0]

PlanAppend(ino, len, c) ==
  [case |-> "CompressedAppend", at |-> ino.csize, len |-> c.zlen,
   size |-> ino.size + len, csize |-> ino.csize + c.zlen]

\* old  is the length of the decoded content the plan was given.
PlanRecompress(old, off, len, c) ==
  LET full == Max({old, off + len})
      b == Stored(full, c)
  IN  [case  |-> "Recompress", at |-> 0, len |-> b.len,
       size  |-> IF b.comp THEN full ELSE b.len,
       csize |-> IF b.comp THEN b.len ELSE 0]

PlanRaw(ino, off, len) ==
  [case |-> "Raw", at |-> off, len |-> len,
   size |-> Max({ino.size, off + len}), csize |-> 0]

PlanWrite(ino, old, off, len, c) ==
  IF IsFullOverwrite(ino, off, len, c) THEN PlanFullOverwrite(ino, len, c)
  ELSE IF ~PayloadIsTransformed(ino, c) THEN PlanRaw(ino, off, len)
  ELSE IF MayAppendZstdFrame(ino, off, c) THEN PlanAppend(ino, len, c)
  ELSE PlanRecompress(old, off, len, c)

FreesPreviousBlocks(plan) == plan.case \in {"FullOverwrite", "Recompress"}
=============================================================================
