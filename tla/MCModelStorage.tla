--------------------------- MODULE MCModelStorage ---------------------------
(***************************************************************************)
(* Symmetry for TLC runs of ModelStorage.                                  *)
(***************************************************************************)
EXTENDS ModelStorage

\* Threads, keys, blobs and inodes are only compared for equality.
Symmetry ==
    Permutations(Threads) \union Permutations(Keys)
      \union Permutations(Data) \union Permutations(Inodes)
=============================================================================
