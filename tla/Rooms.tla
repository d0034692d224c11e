-------------------------------- MODULE Rooms --------------------------------
(***************************************************************************)
(* The waiting rooms of the lobby: proudnet/room.go, room_registry.go,     *)
(* identity.go and releaseSession of server.go.                            *)
(*                                                                         *)
(* Every connection has a goroutine of its own that runs its handlers one  *)
(* after another.  A handler takes several locks in turn (the registry's,  *)
(* the room's, the session's) and never two at once, so it is a sequence   *)
(* of atomic steps and the steps of different connections interleave.      *)
(* pc[s] says between which two steps the goroutine of session s is, and   *)
(* target, team and seat are the local variables of its handler.           *)
(***************************************************************************)
EXTENDS Room

CONSTANTS
    Session,       \* the connections; each is one player's lobby session
    Object,        \* the Room values the program may allocate
    NoRoom,        \* the nil *Room
    MaxNumber,     \* the largest room number (65535, a uint16, in the code)
    RequestedMax,  \* the values of the max-users byte that clients send
    MaxSeatID      \* bound: nobody starts a join that could be given a larger
                   \* id (a uint32 in the code)

ASSUME RoomsAssumption ==
    /\ NoRoom \notin Object
    /\ MaxNumber \in Nat \ {0}
    /\ RequestedMax \subseteq Nat
    /\ MaxSeatID \in Nat \ {0}

VARIABLES
    registry,  \* RoomRegistry.rooms: number -> room, NoRoom where no key
    lastRoom,  \* RoomRegistry.lastRoom
    number,    \* Room.Number
    maxUsers,  \* Room.MaxUsers
    users,     \* Room.Users
    room,      \* sessionData.room
    roomUser,  \* sessionData.roomUser
    pc,        \* where the session's goroutine is
    target,    \* the room its handler works on
    team,      \* the team joinRoom got from NextTeam
    seat       \* the id joinRoom got from AddUser

roomVars    == <<number, maxUsers, users>>
sessionVars == <<room, roomUser>>
localVars   == <<target, team, seat>>
vars        == <<registry, lastRoom, roomVars, sessionVars, pc, localVars>>

Number == 1 .. MaxNumber

\* What the handler of a session does next; "idle" and "out" are between
\* handlers, "out" without a bound player.
PC == {"out", "idle", "opened", "entered", "found", "teamed", "seated", "pointed",
       "emptied", "removed", "dropEmptied", "dropRemoved"}

\* parseCreate reads a zero max-users byte as sixteen.
ParseMaxUsers(byte) == IF byte = 0 THEN 16 ELSE byte

TypeOK ==
    /\ registry \in [Number -> Object \cup {NoRoom}]
    /\ lastRoom \in 0 .. MaxNumber
    /\ number \in [Object -> 0 .. MaxNumber]
    /\ maxUsers \in [Object -> Nat]
    /\ users \in [Object -> Seq(User(Session))]
    /\ room \in [Session -> Object \cup {NoRoom}]
    /\ roomUser \in [Session -> Nat]
    /\ pc \in [Session -> PC]
    /\ target \in [Session -> Object \cup {NoRoom}]
    /\ team \in [Session -> {0} \cup Teams]
    /\ seat \in [Session -> Nat]

Init ==
    /\ registry = [n \in Number |-> NoRoom]
    /\ lastRoom = 0
    /\ number = [o \in Object |-> 0]
    /\ maxUsers = [o \in Object |-> 0]
    /\ users = [o \in Object |-> <<>>]
    /\ room = [s \in Session |-> NoRoom]
    /\ roomUser = [s \in Session |-> 0]
    /\ pc = [s \in Session |-> "out"]
    /\ target = [s \in Session |-> NoRoom]
    /\ team = [s \in Session |-> 0]
    /\ seat = [s \in Session |-> 0]

-----------------------------------------------------------------------------
(***************************************************************************)
(* A Room value nothing refers to: one the program may allocate afresh.    *)
(***************************************************************************)
Unreferenced(o) ==
    /\ users[o] = <<>>
    /\ \A n \in Number : registry[n] # o
    /\ \A s \in Session : room[s] # o /\ target[s] # o

\* RoomRegistry.Open counts on from the last number it gave, round the end of
\* the uint16 and past the zero, to the first number that is not taken.
Free == {n \in Number : registry[n] = NoRoom}

\* Faulty variants: without the test for a taken number; without the wrap.
NextNumberUnchecked == IF lastRoom = MaxNumber THEN 1 ELSE lastRoom + 1

NextNumberUnwrapped == lastRoom + 1

NextNumber ==
    LET above == {n \in Free : n > lastRoom}
    IN  IF above # {} THEN Min(above) ELSE Min(Free)

\* Faulty variant: the room is told the number given before its own.
OpenStaleNumber(o) ==
    /\ registry' = [registry EXCEPT ![NextNumber] = o]
    /\ lastRoom' = NextNumber
    /\ number' = [number EXCEPT ![o] = lastRoom]

Open(o) ==
    /\ registry' = [registry EXCEPT ![NextNumber] = o]
    /\ lastRoom' = NextNumber
    /\ number' = [number EXCEPT ![o] = NextNumber]

\* The goroutine returns from its handler and forgets its local variables.
Return(s, at) ==
    /\ pc' = [pc EXCEPT ![s] = at]
    /\ target' = [target EXCEPT ![s] = NoRoom]
    /\ team' = [team EXCEPT ![s] = 0]
    /\ seat' = [seat EXCEPT ![s] = 0]

(***************************************************************************)
(* bindPlayer: authentication replaces the session's whole state, so a     *)
(* session that authenticates again forgets the room it sits in.           *)
(***************************************************************************)
BindPlayer(s) ==
    /\ pc[s] \in {"out", "idle"}
    /\ pc' = [pc EXCEPT ![s] = "idle"]
    /\ room' = [room EXCEPT ![s] = NoRoom]
    /\ roomUser' = [roomUser EXCEPT ![s] = 0]
    /\ UNCHANGED <<registry, lastRoom, roomVars, localVars>>

(***************************************************************************)
(* createRoom: parseCreate builds the room and seats its creator out of    *)
(* everybody's sight, then the registry publishes it.  A room the session  *)
(* already sits in is not left.                                            *)
(***************************************************************************)
CreateRoom(s, o, byte) ==
    /\ pc[s] = "idle"
    /\ Unreferenced(o)
    /\ Free # {}
    /\ Open(o)
    /\ maxUsers' = [maxUsers EXCEPT ![o] = ParseMaxUsers(byte)]
    /\ users' = [users EXCEPT ![o] = AddUser(<<>>, s, 1)]
    /\ pc' = [pc EXCEPT ![s] = "opened"]
    /\ target' = [target EXCEPT ![s] = o]
    /\ UNCHANGED <<sessionVars, team, seat>>

(***************************************************************************)
(* joinRoom: look the number up, ask the room for a team, then for a seat. *)
(* A join refused for its number or its password changes nothing.          *)
(***************************************************************************)
Joining(o) == {t \in Session : target[t] = o /\ pc[t] \in {"found", "teamed"}}

JoinFind(s, n) ==
    /\ pc[s] = "idle"
    /\ registry[n] # NoRoom
    /\ Highest(users[registry[n]]) + Cardinality(Joining(registry[n])) < MaxSeatID
    /\ pc' = [pc EXCEPT ![s] = "found"]
    /\ target' = [target EXCEPT ![s] = registry[n]]
    /\ UNCHANGED <<registry, lastRoom, roomVars, sessionVars, team, seat>>

JoinNextTeam(s) ==
    /\ pc[s] = "found"
    /\ pc' = [pc EXCEPT ![s] = "teamed"]
    /\ team' = [team EXCEPT ![s] = NextTeam(users[target[s]])]
    /\ UNCHANGED <<registry, lastRoom, roomVars, sessionVars, target, seat>>

JoinFull(s) ==
    /\ pc[s] = "teamed"
    /\ IsFull(users[target[s]], maxUsers[target[s]])
    /\ Return(s, "idle")
    /\ UNCHANGED <<registry, lastRoom, roomVars, sessionVars>>

JoinAddUser(s) ==
    LET o == target[s]
    IN  /\ pc[s] = "teamed"
        /\ ~ IsFull(users[o], maxUsers[o])
        /\ users' = [users EXCEPT ![o] = AddUser(users[o], s, team[s])]
        /\ seat' = [seat EXCEPT ![s] = NextID(users[o])]
        /\ pc' = [pc EXCEPT ![s] = "seated"]
        /\ UNCHANGED <<registry, lastRoom, number, maxUsers,
                       sessionVars, target, team>>

\* setSessionRoom and setSessionRoomUser end createRoom and joinRoom alike.
SetSessionRoom(s) ==
    /\ pc[s] \in {"opened", "seated"}
    /\ room' = [room EXCEPT ![s] = target[s]]
    /\ pc' = [pc EXCEPT ![s] = IF pc[s] = "opened" THEN "entered" ELSE "pointed"]
    /\ UNCHANGED <<registry, lastRoom, roomVars, roomUser, localVars>>

SetSessionRoomUser(s, id) ==
    /\ roomUser' = [roomUser EXCEPT ![s] = id]
    /\ Return(s, "idle")
    /\ UNCHANGED <<registry, lastRoom, roomVars, room>>

JoinEnds(s) == pc[s] = "pointed" /\ SetSessionRoomUser(s, seat[s])

\* Faulty variant: reads the newest seat, not the first.
CreateEndsNewest(s) ==
    /\ pc[s] = "entered"
    /\ SetSessionRoomUser(s, users[target[s]][Len(users[target[s]])].id)

\* createRoom reads room.Users[0].ID, when others may have joined already.
CreateEnds(s) == pc[s] = "entered" /\ SetSessionRoomUser(s, users[target[s]][1].id)

-----------------------------------------------------------------------------
(***************************************************************************)
(* leaveRoom and releaseSession give the seat up the same way: RemoveUser, *)
(* close the room if that emptied it, forget the room.  The seat id stays  *)
(* in the session.  A connection ends only between two handlers.           *)
(***************************************************************************)
GiveUpSeat(s, ifEmpty, otherwise) ==
    LET o    == room[s]
        left == RemoveUser(users[o], roomUser[s])
    IN  /\ pc[s] = "idle"
        /\ o # NoRoom
        /\ users' = [users EXCEPT ![o] = left]
        /\ target' = [target EXCEPT ![s] = o]
        /\ pc' = [pc EXCEPT ![s] = IF left = <<>> THEN ifEmpty ELSE otherwise]
        /\ UNCHANGED <<registry, lastRoom, number, maxUsers,
                       sessionVars, team, seat>>

LeaveRoom(s) == GiveUpSeat(s, "emptied", "removed")

\* Faulty variant: a dropped connection does not close the room it empties.
DisconnectUnclosed(s) == GiveUpSeat(s, "dropRemoved", "dropRemoved")

Disconnect(s) == GiveUpSeat(s, "dropEmptied", "dropRemoved")

\* RoomRegistry.Close deletes whatever the number names by now.
CloseRoom(s) ==
    /\ pc[s] \in {"emptied", "dropEmptied"}
    /\ registry' = [registry EXCEPT ![number[target[s]]] = NoRoom]
    /\ pc' = [pc EXCEPT ![s] = IF pc[s] = "emptied" THEN "removed" ELSE "dropRemoved"]
    /\ UNCHANGED <<lastRoom, roomVars, sessionVars, localVars>>

\* Faulty variant: the session goes on pointing at the room it left.
ForgetRoomKept(s) ==
    /\ pc[s] \in {"removed", "dropRemoved"}
    /\ Return(s, IF pc[s] = "removed" THEN "idle" ELSE "out")
    /\ UNCHANGED <<registry, lastRoom, roomVars, sessionVars>>

ForgetRoom(s) ==
    /\ pc[s] \in {"removed", "dropRemoved"}
    /\ room' = [room EXCEPT ![s] = NoRoom]
    /\ Return(s, IF pc[s] = "removed" THEN "idle" ELSE "out")
    /\ UNCHANGED <<registry, lastRoom, roomVars, roomUser>>

DisconnectOutside(s) ==
    /\ pc[s] = "idle"
    /\ room[s] = NoRoom
    /\ pc' = [pc EXCEPT ![s] = "out"]
    /\ UNCHANGED <<registry, lastRoom, roomVars, sessionVars, localVars>>

-----------------------------------------------------------------------------
\* The steps a goroutine takes on its own once its handler has begun.
HandlerStep(s) ==
    \/ JoinNextTeam(s)
    \/ JoinFull(s)
    \/ JoinAddUser(s)
    \/ SetSessionRoom(s)
    \/ JoinEnds(s)
    \/ CreateEnds(s)
    \/ CloseRoom(s)
    \/ ForgetRoom(s)

Next ==
    \E s \in Session :
        \/ BindPlayer(s)
        \/ \E o \in Object, byte \in RequestedMax : CreateRoom(s, o, byte)
        \/ \E n \in Number : JoinFind(s, n)
        \/ LeaveRoom(s)
        \/ Disconnect(s)
        \/ DisconnectOutside(s)
        \/ HandlerStep(s)

Spec == Init /\ [][Next]_vars

\* The Go scheduler runs every goroutine that can run: a handler that has
\* begun goes on.  Clients owe nothing.
FairSpec == Spec /\ \A s \in Session : WF_vars(HandlerStep(s))

-----------------------------------------------------------------------------
(***************************************************************************)
(* SeatIDsUnique: no two users of a room share an id, however joins, exits *)
(* and reuse of ids interleave (AddUser numbers from the highest id left). *)
(***************************************************************************)
SeatIDsUnique == \A o \in Object : Unique(users[o])

(***************************************************************************)
(* CapacityRespected: a room never seats more than its maxUsers, however   *)
(* many joins found it open at once (AddUser checks under the room lock).  *)
(***************************************************************************)
CapacityRespected == \A o \in Object : Len(users[o]) <= maxUsers[o]

(***************************************************************************)
(* HoldsOwnSeat: between two handlers, the room and the id in a session    *)
(* name a seat that was given to that very session: leaveRoom, ready and   *)
(* releaseSession act through these two fields alone.                      *)
(***************************************************************************)
SeatOf(s, o, id) == \E i \in DOMAIN users[o] : users[o][i].id = id /\ users[o][i].owner = s

HoldsOwnSeat ==
    \A s \in Session : pc[s] = "idle" /\ room[s] # NoRoom => SeatOf(s, room[s], roomUser[s])

(***************************************************************************)
(* SessionsConsistent is HoldsOwnSeat carried through the handlers: while  *)
(* a handler looks for another room the old seat is still held; a creator  *)
(* stays the first user of its room until it has read its id; once AddUser *)
(* has returned a joiner's seat it is held; and a handler under way has a  *)
(* room to work on.                                                        *)
(***************************************************************************)
Looking == {"idle", "opened", "found", "teamed", "seated"}
Created == {"opened", "entered"}
Seated  == {"seated", "pointed"}

FirstUser(s, o) == 1 \in DOMAIN users[o] /\ users[o][1].owner = s

SessionConsistent(s) ==
    /\ target[s] # NoRoom <=> pc[s] \notin {"out", "idle"}
    /\ pc[s] = "teamed" => team[s] # 0
    /\ pc[s] \in {"entered", "pointed"} => room[s] = target[s]
    /\ pc[s] \in Looking /\ room[s] # NoRoom => SeatOf(s, room[s], roomUser[s])
    /\ pc[s] \in Created => FirstUser(s, target[s])
    /\ pc[s] \in Seated => SeatOf(s, target[s], seat[s])

SessionsConsistent == \A s \in Session : SessionConsistent(s)

(***************************************************************************)
(* RegistryAgrees: a room is listed under its own number only, so that     *)
(* Close(room.Number) of a room that is listed takes that room off.        *)
(***************************************************************************)
RegistryAgrees == \A n \in Number : registry[n] # NoRoom => number[registry[n]] = n

(***************************************************************************)
(* EmptyRoomHasCloser: a listed room without users is one that some        *)
(* leaveRoom or releaseSession is about to close: no room is ever stranded *)
(* in the list with nobody left to empty it again.                         *)
(***************************************************************************)
EmptyRoomHasCloser ==
    \A n \in Number : registry[n] # NoRoom /\ users[registry[n]] = <<>> =>
        \E s \in Session : pc[s] \in {"emptied", "dropEmptied"} /\ target[s] = registry[n]

(***************************************************************************)
(* RoomsInv: the parts above together are inductive.                       *)
(***************************************************************************)
RoomsInv ==
    /\ TypeOK
    /\ SeatIDsUnique
    /\ CapacityRespected
    /\ SessionsConsistent
    /\ RegistryAgrees
    /\ EmptyRoomHasCloser

(***************************************************************************)
(* OnlyOwnSeatGivenUp: a user disappears from a room only when the session *)
(* that holds the seat leaves or disconnects, never by the exit of another *)
(* session whose id went back into use.                                    *)
(***************************************************************************)
GivesUp(s, o, id) ==
    pc[s] = "idle" /\ pc'[s] # "idle" /\ room[s] = o /\ roomUser[s] = id

OnlyOwnSeatGivenUp ==
    [][\A o \in Object : \A i \in DOMAIN users[o] :
            users[o][i].id \notin IDs(users'[o]) => GivesUp(users[o][i].owner, o, users[o][i].id)
      ]_vars

(***************************************************************************)
(* ListedRoomNotReplaced: Open never takes a number away from a listed     *)
(* room, also once the numbers have gone round and are being reused.       *)
(***************************************************************************)
ListedRoomNotReplaced ==
    [][\A n \in Number : registry[n] # NoRoom => registry'[n] \in {registry[n], NoRoom}]_vars

(***************************************************************************)
(* EmptyRoomsClose: a listed room that has become empty is eventually      *)
(* taken off the list, or somebody joins it first.                         *)
(***************************************************************************)
Listed(o) == \E n \in Number : registry[n] = o

EmptyRoomsClose ==
    \A o \in Object : (Listed(o) /\ users[o] = <<>>) ~> ~ (Listed(o) /\ users[o] = <<>>)
=============================================================================
