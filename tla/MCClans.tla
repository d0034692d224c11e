------------------------------- MODULE MCClans -------------------------------
(***************************************************************************)
(* Small instances of Clans.  ClansApart and ClansFaults run one request   *)
(* at a time: two players between two clans and two emblems, and three     *)
(* players and one clan with calls that fail and a server that crashes.    *)
(* ClansRaces lets the requests of three players overlap.                  *)
(***************************************************************************)
EXTENDS Clans

Symmetry == Permutations(Player) \cup Permutations(Name)
=============================================================================
