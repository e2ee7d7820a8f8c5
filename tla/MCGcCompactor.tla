---------------------------- MODULE MCGcCompactor ----------------------------
(***************************************************************************)
(* Symmetry for TLC runs of GcCompactor.                                   *)
(***************************************************************************)
EXTENDS GcCompactor

Symmetry == Permutations(Models) \union Permutations(Threads)
=============================================================================
