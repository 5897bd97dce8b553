--------------------------- MODULE BlockAllocator ---------------------------
(***************************************************************************)
(* The data-block allocator: first fit from a hint, with wrap-around, over *)
(* a bitmap whose bit  i  stands for block  DataStart + i.  A bitmap is    *)
(* the set of block ids whose bit is set.  The bitmap is a whole number of *)
(* blocks long, so it usually has bits for ids at and past BlockCount,     *)
(* which the image does not have.  Bitmap.tla checks the word-by-word      *)
(* scans of src/bitmap.rs against the definitions used here.               *)
(***************************************************************************)
EXTENDS Integers, FiniteSets, FiniteSetsExt

CONSTANTS DataStart,    \* first block of the data area
          BlockCount,   \* blocks of the image
          TrackedEnd    \* first id the bitmap has no bit for

ASSUME AllocatorAssumption ==
  /\ DataStart \in Nat \ {0}
  /\ BlockCount \in Nat /\ DataStart < BlockCount
  /\ TrackedEnd \in Nat /\ BlockCount <= TrackedEnd

NoBlock == -1

DataBlocks == DataStart .. BlockCount - 1
TrackedIds == DataStart .. TrackedEnd - 1

FirstFreeFrom(used, start) ==
  LET free == {b \in TrackedIds : b >= start /\ b \notin used}
  IN  IF free = {} THEN NoBlock ELSE Min(free)

\* A hint below the data area is bit 0 (saturating_sub).
NextFreeWrapped(used, hint) ==
  LET ahead == FirstFreeFrom(used, hint)
  IN  IF ahead # NoBlock THEN ahead ELSE FirstFreeFrom(used, DataStart)

RunFreeFrom(used, start, count) ==
  LET starts == {b \in TrackedIds : /\ b >= start
                                    /\ b + count <= TrackedEnd
                                    /\ (b .. b + count - 1) \cap used = {}}
  IN  IF starts = {} THEN NoBlock ELSE Min(starts)

RunFreeWrapped(used, hint, count) ==
  LET ahead == RunFreeFrom(used, hint, count)
  IN  IF ahead # NoBlock THEN ahead ELSE RunFreeFrom(used, DataStart, count)

\* One block: the found id is refused when the image does not have it (SEC-25).
AllocBlock(used, hint) ==
  LET b == NextFreeWrapped(used, hint)
  IN  IF b = NoBlock \/ b >= BlockCount THEN NoBlock ELSE b

\* A run of blocks as the journal's simulator allocates it (SEC-25 again).
AllocRun(used, hint, count) ==
  LET b == RunFreeWrapped(used, hint, count)
  IN  IF b = NoBlock \/ b + count > BlockCount THEN NoBlock ELSE b

\* Mutant: one below the lowest id freed.
LowerHint_OneBelow(hint, freed) == Min({f - 1 : f \in freed} \cup {hint})

\* Freeing lowers the hint to the lowest id freed.
LowerHint(hint, freed) == Min(freed \cup {hint})
=============================================================================
