------------------------------- MODULE MCMatch -------------------------------
(***************************************************************************)
(* Small instances of Match.                                               *)
(***************************************************************************)
EXTENDS Match

Symmetry == Permutations(Player) \cup Permutations(Connection) \cup Permutations(Room)
=============================================================================
