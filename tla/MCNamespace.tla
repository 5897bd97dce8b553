----------------------------- MODULE MCNamespace -----------------------------
(***************************************************************************)
(* Instances of Namespace: every image mode, and the threads alike.        *)
(***************************************************************************)
EXTENDS Namespace, TLC

ThreadSymmetry == Permutations(Threads)
AllModes == BOOLEAN \X BOOLEAN
==============================================================================
