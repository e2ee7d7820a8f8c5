---------------------------- MODULE MCTimeTravel ----------------------------
(***************************************************************************)
(* Samples and symmetry for TLC runs of TimeTravel.                        *)
(***************************************************************************)
EXTENDS TimeTravel

\* Every sample of up to three numbers out of three, and four that tie.
MCSamples == (BoundedSeq(1..3, 3) \ {<<>>}) \union {<<1, 1, 1, 2>>, <<2, 2, 2, 2>>}

Symmetry == Permutations(Models)
=============================================================================
