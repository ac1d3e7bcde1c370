------------------------------- MODULE MCDisk -------------------------------
(***************************************************************************)
(* DiskOperations for TLC.                                                 *)
(***************************************************************************)
EXTENDS DiskOperations

\* The name of the directory is unlike the others.
Symmetry == Permutations(ValidNames \ {DirectoryName})
=============================================================================
