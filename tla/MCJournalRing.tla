--------------------------- MODULE MCJournalRing ---------------------------
(* JournalRing on small rings for TLC. *)
EXTENDS JournalRing, TLC

CONSTANTS k1, k2

MCKey == {k1, k2}
MCLens12 == {1, 2}
MCLens1 == {1}
MCLens123 == {1, 2, 3}
Symmetry == Permutations(MCKey)
============================================================================
