------------------------------ MODULE MCFriends ------------------------------
(***************************************************************************)
(* Small instances of Friends.                                             *)
(***************************************************************************)
EXTENDS Friends

Symmetry == Permutations(Player)
=============================================================================
