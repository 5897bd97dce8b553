--------------------------- MODULE MCStrictCommit ---------------------------
(* StrictCommit on a small ring for TLC. *)
EXTENDS StrictCommit, TLC

CONSTANTS k1, k2

MCKey == {k1, k2}
MCLens1 == {1}
MCPointerKeys == {k2}
MCNone == {}
Symmetry == Permutations(MCKey)
MCCreate == {"create"}
MCCreateWrite == {"create", "write"}
MCShrink == {"shrink"}
MCExpand == {"expand"}
MCFrameRace == {"frame"}
MCMountRace == {"mount"}
=============================================================================
