-------------------------------- MODULE Room --------------------------------
(***************************************************************************)
(* The slice of users a room keeps (Room.Users in proudnet/room.go) and    *)
(* the methods of Room that read or change it.  Every method holds the     *)
(* room's mutex for its whole body, so each is one operator here and one   *)
(* step of the modules that use it.                                        *)
(*                                                                         *)
(* A seat keeps what the properties tell apart: the id the room knows the  *)
(* user by, the session that was seated and the team.                      *)
(***************************************************************************)
EXTENDS Rows

Teams == {1, 2}

User(Holder) == [id : Nat \ {0}, owner : Holder, team : Teams]

\* Faulty variant: one user too many.
IsFullOffByOne(users, maxUsers) == Len(users) > maxUsers

IsFull(users, maxUsers) == Len(users) >= maxUsers

-----------------------------------------------------------------------------
(***************************************************************************)
(* AddUser numbers the newcomer one above the highest id still seated, so  *)
(* an id comes back into use once its holder was the highest and has left. *)
(* The caller has checked that the room is not full.                       *)
(***************************************************************************)
AddUser(users, owner, team) ==
    Append(users, [id |-> NextID(users), owner |-> owner, team |-> team])

RemoveUser(users, id) == Without(users, id)

(***************************************************************************)
(* NextTeam puts the next user in team 1 unless it already holds more than *)
(* half of the room.                                                       *)
(***************************************************************************)
TeamSize(users, team) == Cardinality({i \in DOMAIN users : users[i].team = team})

NextTeam(users) == IF 2 * TeamSize(users, 1) <= Len(users) THEN 1 ELSE 2
=============================================================================
