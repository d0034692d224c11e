------------------------------- MODULE MCRooms -------------------------------
(***************************************************************************)
(* Small instances of Rooms.  RoomsSeats: three connections meet in one    *)
(* room of two users.  RoomsRegistry: two connections open, leave and      *)
(* abandon two rooms while the two room numbers go round.                  *)
(***************************************************************************)
EXTENDS Rooms

Symmetry == Permutations(Session) \cup Permutations(Object)
=============================================================================
