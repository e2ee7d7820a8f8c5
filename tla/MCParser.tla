------------------------------ MODULE MCParser ------------------------------
(***************************************************************************)
(* TLC runs of Parser.                                                     *)
(***************************************************************************)
EXTENDS Parser
=============================================================================
