----------------------------- MODULE MCFileStore -----------------------------
(***************************************************************************)
(* The instance of FileStore.  A block holds two pointers and an inode two *)
(* direct ones, so block 4 is in the double and block 8 in the triple      *)
(* table, and block 12 under the second entry of the triple table.         *)
(***************************************************************************)
EXTENDS FileStore

Raw(off, len) == [off |-> off, len |-> len, mode |-> "never", zlen |-> 0]
Packed(off, len, zlen) == [off |-> off, len |-> len, mode |-> "always", zlen |-> zlen]

\* A small write, one that grows the file into the tables and ends on a block
\* boundary, one far out in the triple range, a compressed write that fits the
\* direct pointers, and one that appends to it.
MCRequests ==
  {Raw(0, 3), Raw(5, 5), Raw(24, 1), Packed(0, 6, 3), Packed(6, 4, 6)}

\* Two large chunks; three small ones that replace one of the two.
MCChunkWrites ==
  {[first |-> 0, last |-> 1, blocks |-> 2, size |-> 8],
   [first |-> 1, last |-> 3, blocks |-> 1, size |-> 16]}
==============================================================================
