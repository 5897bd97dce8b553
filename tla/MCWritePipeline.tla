--------------------------- MODULE MCWritePipeline ---------------------------
(***************************************************************************)
(* Two writers of one file, plain and chunked, over chunks of two bytes.   *)
(***************************************************************************)
EXTENDS WritePipeline, TLC

Plain(off, len, mode) ==
  [kind |-> "plain", off |-> off, len |-> len, mode |-> mode, zlen |-> 2]
Seekable(off, len) ==
  [kind |-> "seekable", off |-> off, len |-> len, mode |-> "always", zlen |-> 2]

\* Compressed and raw overwrites, partial writes and appends; chunked writes
\* of one chunk in part, and of parts of two.
MCRequests ==
  {Plain(0, 2, "always"), Plain(0, 2, "never"), Plain(1, 1, "always"),
   Plain(2, 1, "never"), Plain(0, 1, "auto"), Seekable(0, 2), Seekable(1, 2), Seekable(3, 1)}

WriterSymmetry == Permutations(Writers)
==============================================================================
