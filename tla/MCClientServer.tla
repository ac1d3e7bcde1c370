--------------------------- MODULE MCClientServer ---------------------------
(***************************************************************************)
(* ClientServer for TLC.                                                   *)
(***************************************************************************)
EXTENDS ClientServer, TLC

Symmetry == Permutations(Addresses) \cup Permutations(ValidNames)
=============================================================================
