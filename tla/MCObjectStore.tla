--------------------------- MODULE MCObjectStore ---------------------------
(***************************************************************************)
(* Model values and symmetry for TLC runs of ObjectStore.                  *)
(***************************************************************************)
EXTENDS StoreImplementsLog, TLC

\* Clients, tables and rows are only compared for equality.
Symmetry ==
    Permutations(Clients) \union Permutations(Tables) \union Permutations(Rows)
=============================================================================
