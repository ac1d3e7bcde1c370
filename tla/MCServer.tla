------------------------------ MODULE MCServer ------------------------------
(***************************************************************************)
(* ClientMessageHandler and its refinement of Feed for TLC.  Addresses are *)
(* model values, and so are user names; each kind is interchangeable.      *)
(***************************************************************************)
EXTENDS ServerFeed, TLC

CONSTANTS InvalidName, InvalidMessage

MCNames == ValidNames \cup {InvalidName}

MCMessages == ValidMessages \cup {InvalidMessage}

Symmetry == Permutations(Addresses) \cup Permutations(ValidNames)
=============================================================================
