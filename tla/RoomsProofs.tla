----------------------------- MODULE RoomsProofs -----------------------------
(***************************************************************************)
(* Proofs about Rooms, for any number of connections, rooms, room numbers  *)
(* and seats.                                                              *)
(***************************************************************************)
EXTENDS Rooms, RowLemmas

-----------------------------------------------------------------------------
(***************************************************************************)
(* What the methods of Room promise about the slice of users.              *)
(***************************************************************************)
LEMMA UsersNumbered == \A H : Numbered(User(H))
BY DEF Numbered, User

(***************************************************************************)
(* AddUser appends one user, under an id nobody else has.                  *)
(***************************************************************************)
LEMMA AddUserAppends ==
    ASSUME NEW H, NEW u \in Seq(User(H)), NEW h \in H, NEW t \in Teams,
           NEW v, v = AddUser(u, h, t)
    PROVE  /\ v \in Seq(User(H))
           /\ Len(v) = Len(u) + 1
           /\ v # <<>>
           /\ \A i \in DOMAIN u : i \in DOMAIN v /\ v[i] = u[i]
           /\ Len(v) \in DOMAIN v
           /\ v[Len(v)].id = NextID(u) /\ v[Len(v)].owner = h
           /\ NextID(u) \in Nat \ {0}
           /\ Unique(u) => Unique(v)
<1>1. PICK R : R = User(H)
  OBVIOUS
<1>2. Numbered(R) /\ u \in Seq(R)
  BY <1>1, UsersNumbered
<1>3. NextID(u) \in Nat \ {0}
  BY <1>2, NextIDFresh
<1>4. PICK e : e = [id |-> NextID(u), owner |-> h, team |-> t]
  OBVIOUS
<1>5. e \in R /\ e.id = NextID(u) /\ e.owner = h
  BY <1>1, <1>3, <1>4 DEF User
<1>6. v = Append(u, e)
  BY <1>4 DEF AddUser
<1>7. /\ v \in Seq(R)
      /\ Len(v) = Len(u) + 1
      /\ v # <<>>
      /\ \A i \in DOMAIN u : i \in DOMAIN v /\ v[i] = u[i]
      /\ Len(v) \in DOMAIN v /\ v[Len(v)] = e
  BY <1>2, <1>5, <1>6, AppendKeeps
<1>8. Unique(u) => Unique(v)
  BY <1>2, <1>5, <1>6, AppendUnique
<1> QED
  BY <1>1, <1>3, <1>5, <1>7, <1>8

(***************************************************************************)
(* RemoveUser takes away the user with this id and nobody else.            *)
(***************************************************************************)
LEMMA RemoveUserRemoves ==
    ASSUME NEW H, NEW u \in Seq(User(H)), NEW id, Unique(u),
           NEW v, v = RemoveUser(u, id)
    PROVE  /\ v \in Seq(User(H))
           /\ Len(v) <= Len(u)
           /\ Unique(v)
           /\ \A i \in DOMAIN u : u[i].id # id => \E j \in DOMAIN v : v[j] = u[i]
           /\ \A j \in DOMAIN v : \E i \in DOMAIN u : v[j] = u[i]
           /\ 1 \in DOMAIN u /\ u[1].id # id => 1 \in DOMAIN v /\ v[1] = u[1]
<1>1. v = Without(u, id)
  BY DEF RemoveUser
<1> QED
  BY <1>1, WithoutRemoves

USE RoomsAssumption

-----------------------------------------------------------------------------
(***************************************************************************)
(* The registry's next number is free, when there is one.                  *)
(***************************************************************************)
LEMMA NextNumberFree ==
    ASSUME TypeOK, Free # {}
    PROVE  NextNumber \in Free /\ NextNumber \in Number
<1> DEFINE above == {n \in Free : n > lastRoom}
<1>1. Free \subseteq Number /\ Free \in SUBSET Nat /\ above \in SUBSET Nat /\ above \subseteq Free
  BY DEF Free, Number
<1>2. NextNumber = IF above # {} THEN Min(above) ELSE Min(Free)
  BY DEF NextNumber
<1> HIDE DEF above
<1>3. above # {} => Min(above) \in above
  BY <1>1, MinIsLeast
<1>4. Min(Free) \in Free
  BY <1>1, MinIsLeast
<1> QED
  BY <1>1, <1>2, <1>3, <1>4

(***************************************************************************)
(* A seat outlives a newcomer's AddUser, and the RemoveUser of the session *)
(* that holds another seat of the room.                                    *)
(***************************************************************************)
LEMMA SeatSurvivesAdd ==
    ASSUME TypeOK, NEW o \in Object, NEW s \in Session, NEW t \in Teams,
           users' = [users EXCEPT ![o] = AddUser(users[o], s, t)],
           NEW h \in Session, NEW p \in Object, NEW id, SeatOf(h, p, id)
    PROVE  SeatOf(h, p, id)'
<1>1. users[o] \in Seq(User(Session)) /\ users' \in [Object -> Seq(User(Session))]
  <2>1. users[o] \in Seq(User(Session))
    BY DEF TypeOK
  <2>2. AddUser(users[o], s, t) \in Seq(User(Session))
    BY <2>1, AddUserAppends
  <2> QED
    BY <2>1, <2>2 DEF TypeOK
<1>2. CASE p # o
  BY <1>2 DEF SeatOf, TypeOK
<1>3. CASE p = o
  <2>1. users'[o] = AddUser(users[o], s, t)
    BY DEF TypeOK
  <2>2. \A i \in DOMAIN users[o] : i \in DOMAIN users'[o] /\ users'[o][i] = users[o][i]
    <3> DEFINE u == users[o]
               v == users'[o]
    <3>1. u \in Seq(User(Session)) /\ v = AddUser(u, s, t)
      BY <1>1, <2>1
    <3> HIDE DEF u, v
    <3>2. \A i \in DOMAIN u : i \in DOMAIN v /\ v[i] = u[i]
      BY ONLY <3>1, s \in Session, t \in Teams, AddUserAppends
    <3> QED
      BY <3>2 DEF u, v
  <2> QED
    BY <1>3, <2>2 DEF SeatOf
<1> QED
  BY <1>2, <1>3

LEMMA FirstSurvivesAdd ==
    ASSUME TypeOK, NEW o \in Object, NEW s \in Session, NEW t \in Teams,
           users' = [users EXCEPT ![o] = AddUser(users[o], s, t)],
           NEW h \in Session, NEW p \in Object, FirstUser(h, p)
    PROVE  FirstUser(h, p)'
<1>1. CASE p # o
  BY <1>1 DEF FirstUser, TypeOK
<1>2. CASE p = o
  <2>1. PICK u : u = users[o]
    OBVIOUS
  <2>2. PICK v : v = AddUser(u, s, t)
    OBVIOUS
  <2>3. u \in Seq(User(Session)) /\ users'[o] = v
    BY <2>1, <2>2 DEF TypeOK
  <2>4. 1 \in DOMAIN u => 1 \in DOMAIN v /\ v[1] = u[1]
    BY <2>2, <2>3, AddUserAppends
  <2> QED
    BY <1>2, <2>1, <2>3, <2>4 DEF FirstUser
<1> QED
  BY <1>1, <1>2

LEMMA SeatSurvivesRemove ==
    ASSUME TypeOK, SeatIDsUnique, NEW o \in Object, NEW s \in Session, NEW gone,
           SeatOf(s, o, gone),
           users' = [users EXCEPT ![o] = RemoveUser(users[o], gone)],
           NEW h \in Session, h # s, NEW p \in Object, NEW id, SeatOf(h, p, id)
    PROVE  SeatOf(h, p, id)'
<1>1. CASE p # o
  BY <1>1 DEF SeatOf, TypeOK
<1>2. CASE p = o
  <2> DEFINE u == users[o]
             v == RemoveUser(u, gone)
  <2>1. u \in Seq(User(Session)) /\ Unique(u) /\ users'[o] = v
    BY DEF TypeOK, SeatIDsUnique
  <2>2. PICK k \in DOMAIN u : u[k].id = gone /\ u[k].owner = s
    BY DEF SeatOf
  <2>3. PICK i \in DOMAIN u : u[i].id = id /\ u[i].owner = h
    BY <1>2 DEF SeatOf
  <2>4. u[i].id # gone
    BY <2>1, <2>2, <2>3 DEF Unique
  <2>5. \E j \in DOMAIN v : v[j] = u[i]
    BY <2>1, <2>4, RemoveUserRemoves
  <2>6. \E j \in DOMAIN v : v[j].id = id /\ v[j].owner = h
    BY <2>3, <2>5
  <2> QED
    BY <1>2, <2>1, <2>6 DEF SeatOf
<1> QED
  BY <1>1, <1>2

LEMMA FirstSurvivesRemove ==
    ASSUME TypeOK, SeatIDsUnique, NEW o \in Object, NEW s \in Session, NEW gone,
           SeatOf(s, o, gone),
           users' = [users EXCEPT ![o] = RemoveUser(users[o], gone)],
           NEW h \in Session, h # s, NEW p \in Object, FirstUser(h, p)
    PROVE  FirstUser(h, p)'
<1>1. CASE p # o
  BY <1>1 DEF FirstUser, TypeOK
<1>2. CASE p = o
  <2>1. PICK u : u = users[o]
    OBVIOUS
  <2>2. PICK v : v = RemoveUser(u, gone)
    OBVIOUS
  <2>3. u \in Seq(User(Session)) /\ Unique(u) /\ users'[o] = v
    BY <2>1, <2>2 DEF TypeOK, SeatIDsUnique
  <2>4. PICK k \in DOMAIN u : u[k].id = gone /\ u[k].owner = s
    BY <2>1 DEF SeatOf
  <2>5. 1 \in DOMAIN u /\ u[1].owner = h
    BY <1>2, <2>1 DEF FirstUser
  <2>6. u[1].id # gone
    BY <2>3, <2>4, <2>5 DEF Unique
  <2>7. 1 \in DOMAIN v /\ v[1] = u[1]
    BY <2>2, <2>3, <2>5, <2>6, RemoveUserRemoves
  <2> QED
    BY <1>2, <2>3, <2>5, <2>7 DEF FirstUser
<1> QED
  BY <1>1, <1>2

(***************************************************************************)
(* A session that takes no step stays consistent while its seats survive.  *)
(***************************************************************************)
LEMMA BystanderConsistent ==
    ASSUME TypeOK, NEW h \in Session, SessionConsistent(h),
           pc'[h] = pc[h], target'[h] = target[h], team'[h] = team[h],
           seat'[h] = seat[h], room'[h] = room[h], roomUser'[h] = roomUser[h],
           \A p \in Object, id \in Nat : SeatOf(h, p, id) => SeatOf(h, p, id)',
           \A p \in Object : FirstUser(h, p) => FirstUser(h, p)'
    PROVE  SessionConsistent(h)'
<1>1. pc[h] \in Looking /\ room[h] # NoRoom => SeatOf(h, room[h], roomUser[h])'
  BY DEF SessionConsistent, TypeOK
<1>2. pc[h] \in Seated => SeatOf(h, target[h], seat[h])'
  BY DEF SessionConsistent, TypeOK, Seated
<1>3. pc'[h] \in Looking /\ room'[h] # NoRoom => SeatOf(h, room[h], roomUser[h])'
  BY <1>1 DEF Looking
<1>4. pc'[h] \in Seated => SeatOf(h, target[h], seat[h])'
  BY <1>2 DEF Seated
<1>5. pc[h] \in Created => FirstUser(h, target[h])'
  BY DEF SessionConsistent, TypeOK, Created
<1>6. pc'[h] \in Created => FirstUser(h, target[h])'
  BY <1>5 DEF Created
<1> QED
  BY <1>3, <1>4, <1>6 DEF SessionConsistent

(***************************************************************************)
(* The older seat of a session that takes another one.                     *)
(***************************************************************************)
LEMMA OldSeatKept ==
    ASSUME TypeOK, NEW s \in Session, SessionConsistent(s), pc[s] \in {"idle", "teamed"},
           room'[s] = room[s], roomUser'[s] = roomUser[s],
           \A p \in Object, n \in Nat : SeatOf(s, p, n) => SeatOf(s, p, n)'
    PROVE  room'[s] # NoRoom => SeatOf(s, room[s], roomUser[s])'
<1>1. room[s] # NoRoom => SeatOf(s, room[s], roomUser[s])
  BY DEF SessionConsistent, Looking
<1>2. PICK r : r = room[s]
  OBVIOUS
<1>3. PICK n : n = roomUser[s]
  OBVIOUS
<1>4. r # NoRoom => SeatOf(s, r, n)'
  BY <1>1, <1>2, <1>3 DEF TypeOK
<1> QED
  BY <1>2, <1>3, <1>4

-----------------------------------------------------------------------------
LEMMA InitInv == Init => RoomsInv
<1> SUFFICES ASSUME Init PROVE RoomsInv
  OBVIOUS
<1>1. TypeOK
  BY DEF Init, TypeOK, PC, Number, User
<1>2. SeatIDsUnique /\ CapacityRespected
  BY DEF Init, SeatIDsUnique, CapacityRespected, Unique
<1>3. SessionsConsistent
  BY DEF Init, SessionsConsistent, SessionConsistent, Looking, Created, Seated
<1>4. RegistryAgrees /\ EmptyRoomHasCloser
  BY DEF Init, RegistryAgrees, EmptyRoomHasCloser
<1> QED
  BY <1>1, <1>2, <1>3, <1>4 DEF RoomsInv

-----------------------------------------------------------------------------
(***************************************************************************)
(* Each action preserves the invariant.                                    *)
(***************************************************************************)
LEMMA BindPlayerInv ==
    ASSUME RoomsInv, NEW s \in Session, BindPlayer(s)
    PROVE  RoomsInv'
<1> USE DEF RoomsInv, BindPlayer, roomVars, localVars
<1>1. TypeOK'
  BY DEF TypeOK, PC
<1>2. SeatIDsUnique' /\ CapacityRespected' /\ RegistryAgrees'
  BY DEF SeatIDsUnique, CapacityRespected, RegistryAgrees
<1>3. SessionsConsistent'
  BY DEF SessionsConsistent, SessionConsistent, SeatOf, FirstUser, Looking, Created, Seated, TypeOK
<1>4. EmptyRoomHasCloser'
  BY DEF EmptyRoomHasCloser, TypeOK
<1> QED
  BY <1>1, <1>2, <1>3, <1>4

LEMMA CreateRoomInv ==
    ASSUME RoomsInv, NEW s \in Session, NEW o \in Object, NEW byte \in RequestedMax,
           CreateRoom(s, o, byte)
    PROVE  RoomsInv'
<1> USE DEF RoomsInv, sessionVars
<1>1. NextNumber \in Free /\ NextNumber \in Number
  BY NextNumberFree DEF CreateRoom
<1>2. PICK u : u = <<>>
  OBVIOUS
<1>3. PICK t : t = 1
  OBVIOUS
<1>4. PICK v : v = AddUser(u, s, t)
  OBVIOUS
<1>5. /\ v \in Seq(User(Session))
      /\ Len(v) = 1 /\ v # <<>>
      /\ 1 \in DOMAIN v /\ v[1].owner = s
      /\ Unique(v)
  <2>1. u \in Seq(User(Session)) /\ Unique(u) /\ t \in Teams
    BY <1>2, <1>3 DEF Unique, Teams
  <2>2. Len(u) = 0
    BY <1>2
  <2>3. /\ v \in Seq(User(Session)) /\ v # <<>>
        /\ Len(v) = Len(u) + 1
        /\ Len(v) \in DOMAIN v
        /\ v[Len(v)].owner = s
        /\ Unique(v)
    BY <1>4, <2>1, AddUserAppends
  <2>4. Len(v) = 1
    BY <2>2, <2>3
  <2> QED
    BY ONLY <2>3, <2>4
<1>6. users' = [users EXCEPT ![o] = v] /\ users[o] = <<>>
  BY <1>2, <1>3, <1>4 DEF CreateRoom, Unreferenced
<1>7. ParseMaxUsers(byte) \in Nat /\ ParseMaxUsers(byte) >= 1
  BY DEF ParseMaxUsers
<1>8. TypeOK'
  <2>1. /\ registry' \in [Number -> Object \cup {NoRoom}]
        /\ lastRoom' \in 0 .. MaxNumber
        /\ number' \in [Object -> 0 .. MaxNumber]
    BY <1>1 DEF TypeOK, CreateRoom, Open, Number
  <2>2. maxUsers' \in [Object -> Nat]
    BY <1>7 DEF TypeOK, CreateRoom
  <2>3. users' \in [Object -> Seq(User(Session))]
    BY <1>5, <1>6 DEF TypeOK
  <2>4. /\ pc' \in [Session -> PC]
        /\ target' \in [Session -> Object \cup {NoRoom}]
    BY DEF TypeOK, CreateRoom, PC
  <2> QED
    BY <2>1, <2>2, <2>3, <2>4 DEF TypeOK, CreateRoom
<1>9. SeatIDsUnique' /\ CapacityRespected'
  <2>1. \A p \in Object : users'[p] = IF p = o THEN v ELSE users[p]
    BY <1>6 DEF TypeOK
  <2>2. \A p \in Object : maxUsers'[p] = IF p = o THEN ParseMaxUsers(byte) ELSE maxUsers[p]
    BY DEF TypeOK, CreateRoom
  <2>3. SeatIDsUnique'
    BY <1>5, <2>1 DEF SeatIDsUnique
  <2>4. CapacityRespected'
    BY <1>5, <1>7, <2>1, <2>2 DEF CapacityRespected
  <2> QED
    BY <2>3, <2>4
<1>10. RegistryAgrees'
  BY <1>1 DEF RegistryAgrees, TypeOK, CreateRoom, Open, Unreferenced
<1>11. SessionsConsistent'
  <2>1. ASSUME NEW h \in Session, h # s
        PROVE  SessionConsistent(h)'
    <3>1. \A p \in Object, n \in Nat : SeatOf(h, p, n) => SeatOf(h, p, n)'
      BY <1>6 DEF SeatOf, TypeOK
    <3>2. \A p \in Object : FirstUser(h, p) => FirstUser(h, p)'
      BY <1>6 DEF FirstUser, TypeOK
    <3> QED
      BY <2>1, <3>1, <3>2, BystanderConsistent DEF SessionsConsistent, CreateRoom, TypeOK
  <2>2. SessionConsistent(s)'
    <3>1. FirstUser(s, o)'
      BY <1>5, <1>6 DEF FirstUser, TypeOK
    <3>2. \A p \in Object, n \in Nat : SeatOf(s, p, n) => SeatOf(s, p, n)'
      BY <1>6 DEF SeatOf, TypeOK
    <3>3. /\ target'[s] = o /\ pc'[s] = "opened"
          /\ room'[s] = room[s] /\ roomUser'[s] = roomUser[s] /\ pc[s] = "idle"
      BY DEF CreateRoom, TypeOK
    <3>4. room'[s] # NoRoom => SeatOf(s, room[s], roomUser[s])'
      BY <3>2, <3>3, OldSeatKept DEF SessionsConsistent
    <3>5. FirstUser(s, target[s])'
      BY <3>1, <3>3
    <3> QED
      BY <3>3, <3>4, <3>5 DEF SessionConsistent, Seated
  <2> QED
    BY <2>1, <2>2 DEF SessionsConsistent
<1>12. EmptyRoomHasCloser'
  <2>1. users'[o] # <<>>
    <3>1. users'[o] = v
      BY <1>6 DEF TypeOK
    <3>2. v # <<>>
      BY ONLY <1>5
    <3> QED
      BY ONLY <3>1, <3>2
  <2>2. SUFFICES ASSUME NEW n \in Number, registry'[n] # NoRoom, users'[registry'[n]] = <<>>
                 PROVE  \E h \in Session : /\ pc'[h] \in {"emptied", "dropEmptied"}
                                            /\ target'[h] = registry'[n]
    BY DEF EmptyRoomHasCloser
  <2>3. registry'[n] # o
    BY <2>1, <2>2
  <2>4. registry'[n] = registry[n] /\ users'[registry[n]] = users[registry[n]]
    BY <1>1, <1>6, <2>3 DEF TypeOK, CreateRoom, Open
  <2>5. PICK h \in Session : pc[h] \in {"emptied", "dropEmptied"} /\ target[h] = registry[n]
    BY <2>2, <2>4 DEF EmptyRoomHasCloser
  <2>6. h # s /\ pc'[h] = pc[h] /\ target'[h] = target[h]
    BY <2>5 DEF TypeOK, CreateRoom
  <2> QED
    BY <2>4, <2>5, <2>6
<1> QED
  BY <1>8, <1>9, <1>10, <1>11, <1>12

LEMMA JoinFindInv ==
    ASSUME RoomsInv, NEW s \in Session, NEW n \in Number, JoinFind(s, n)
    PROVE  RoomsInv'
<1> USE DEF RoomsInv, JoinFind, roomVars, sessionVars
<1>1. TypeOK'
  BY DEF TypeOK, PC
<1>2. SeatIDsUnique' /\ CapacityRespected' /\ RegistryAgrees'
  BY DEF SeatIDsUnique, CapacityRespected, RegistryAgrees
<1>3. SessionsConsistent'
  BY DEF SessionsConsistent, SessionConsistent, SeatOf, FirstUser, Looking, Created, Seated, TypeOK
<1>4. EmptyRoomHasCloser'
  BY DEF EmptyRoomHasCloser, TypeOK
<1> QED
  BY <1>1, <1>2, <1>3, <1>4

LEMMA JoinNextTeamInv ==
    ASSUME RoomsInv, NEW s \in Session, JoinNextTeam(s)
    PROVE  RoomsInv'
<1> USE DEF RoomsInv, JoinNextTeam, roomVars, sessionVars
<1>0. NextTeam(users[target[s]]) \in Teams
  BY DEF NextTeam, Teams
<1>1. TypeOK'
  BY <1>0 DEF TypeOK, PC
<1>2. SeatIDsUnique' /\ CapacityRespected' /\ RegistryAgrees'
  BY DEF SeatIDsUnique, CapacityRespected, RegistryAgrees
<1>3. SessionsConsistent'
  <2>1. NextTeam(users[target[s]]) # 0
    BY DEF NextTeam
  <2> QED
    BY <2>1 DEF SessionsConsistent, SessionConsistent, SeatOf, FirstUser, Looking, Created, Seated, TypeOK
<1>4. EmptyRoomHasCloser'
  BY DEF EmptyRoomHasCloser, TypeOK
<1> QED
  BY <1>1, <1>2, <1>3, <1>4

LEMMA JoinFullInv ==
    ASSUME RoomsInv, NEW s \in Session, JoinFull(s)
    PROVE  RoomsInv'
<1> USE DEF RoomsInv, JoinFull, Return, roomVars, sessionVars
<1>1. TypeOK'
  BY DEF TypeOK, PC
<1>2. SeatIDsUnique' /\ CapacityRespected' /\ RegistryAgrees'
  BY DEF SeatIDsUnique, CapacityRespected, RegistryAgrees
<1>3. SessionsConsistent'
  BY DEF SessionsConsistent, SessionConsistent, SeatOf, FirstUser, Looking, Created, Seated, TypeOK
<1>4. EmptyRoomHasCloser'
  BY DEF EmptyRoomHasCloser, TypeOK
<1> QED
  BY <1>1, <1>2, <1>3, <1>4

LEMMA JoinAddUserInv ==
    ASSUME RoomsInv, NEW s \in Session, JoinAddUser(s)
    PROVE  RoomsInv'
<1>1. pc[s] = "teamed" /\ target[s] \in Object /\ team[s] \in Teams
  BY DEF RoomsInv, TypeOK, SessionsConsistent, SessionConsistent, JoinAddUser
<1>2. PICK o \in Object : o = target[s]
  BY <1>1
<1>3. PICK u : u = users[o]
  OBVIOUS
<1>4. PICK v : v = AddUser(u, s, team[s])
  OBVIOUS
<1>5. /\ u \in Seq(User(Session)) /\ Unique(u) /\ Len(u) < maxUsers[o]
      /\ users' = [users EXCEPT ![o] = v]
      /\ seat' = [seat EXCEPT ![s] = NextID(u)]
      /\ pc' = [pc EXCEPT ![s] = "seated"]
  BY <1>2, <1>3, <1>4 DEF RoomsInv, TypeOK, SeatIDsUnique, JoinAddUser, IsFull
<1>6. /\ v \in Seq(User(Session))
      /\ Len(v) = Len(u) + 1
      /\ Len(v) \in DOMAIN v
      /\ v[Len(v)].id = NextID(u) /\ v[Len(v)].owner = s
      /\ NextID(u) \in Nat
      /\ Unique(v)
  BY <1>1, <1>4, <1>5, AddUserAppends
<1>7. UNCHANGED <<registry, lastRoom, number, maxUsers, room, roomUser, target, team>>
  BY DEF JoinAddUser, sessionVars
<1> USE DEF RoomsInv
<1>8. TypeOK'
  BY <1>5, <1>6, <1>7 DEF TypeOK, PC
<1>9. SeatIDsUnique' /\ CapacityRespected'
  BY <1>5, <1>6, <1>7 DEF SeatIDsUnique, CapacityRespected, TypeOK
<1>10. RegistryAgrees'
  BY <1>7 DEF RegistryAgrees
<1>11. SessionsConsistent'
  <2>1. \A h \in Session, p \in Object, id \in Nat : SeatOf(h, p, id) => SeatOf(h, p, id)'
    BY <1>1, <1>3, <1>4, <1>5, SeatSurvivesAdd
  <2>2. \A h \in Session, p \in Object : FirstUser(h, p) => FirstUser(h, p)'
    BY <1>1, <1>3, <1>4, <1>5, FirstSurvivesAdd
  <2>3. ASSUME NEW h \in Session, h # s
        PROVE  SessionConsistent(h)'
    BY <1>5, <1>7, <2>1, <2>2, <2>3, BystanderConsistent DEF SessionsConsistent, TypeOK
  <2>4. SessionConsistent(s)'
    <3>1. SeatOf(s, o, NextID(u))'
      BY <1>5, <1>6 DEF SeatOf, TypeOK
    <3>2. /\ target'[s] = o /\ pc'[s] = "seated" /\ seat'[s] = NextID(u)
          /\ room'[s] = room[s] /\ roomUser'[s] = roomUser[s]
      BY <1>2, <1>5, <1>7 DEF TypeOK
    <3>3. room'[s] # NoRoom => SeatOf(s, room[s], roomUser[s])'
      BY <1>1, <2>1, <3>2, OldSeatKept DEF SessionsConsistent
    <3>4. SeatOf(s, target[s], seat[s])'
      BY <3>1, <3>2
    <3> QED
      BY <3>2, <3>3, <3>4 DEF SessionConsistent, Created
  <2> QED
    BY <2>3, <2>4 DEF SessionsConsistent
<1>12. EmptyRoomHasCloser'
  <2>1. users'[o] # <<>>
    BY <1>5, <1>6 DEF TypeOK
  <2> QED
    BY <1>1, <1>5, <1>7, <2>1 DEF EmptyRoomHasCloser, TypeOK
<1> QED
  BY <1>8, <1>9, <1>10, <1>11, <1>12

LEMMA SetSessionRoomInv ==
    ASSUME RoomsInv, NEW s \in Session, SetSessionRoom(s)
    PROVE  RoomsInv'
<1> USE DEF RoomsInv, SetSessionRoom, roomVars, localVars
<1>1. TypeOK'
  BY DEF TypeOK, PC, SessionsConsistent, SessionConsistent
<1>2. SeatIDsUnique' /\ CapacityRespected' /\ RegistryAgrees'
  BY DEF SeatIDsUnique, CapacityRespected, RegistryAgrees
<1>3. SessionsConsistent'
  <2>1. ASSUME NEW h \in Session, h # s
        PROVE  SessionConsistent(h)'
    BY <2>1 DEF SessionsConsistent, SessionConsistent, SeatOf, FirstUser, TypeOK
  <2>2. SessionConsistent(s)'
    <3>1. SessionConsistent(s)
      BY DEF SessionsConsistent
    <3>2. CASE pc[s] = "opened"
      <4>1. pc'[s] = "entered" /\ room'[s] = target[s]
        BY <3>2 DEF TypeOK
      <4> QED
        BY <3>1, <3>2, <4>1
           DEF SessionConsistent, SeatOf, FirstUser, Looking, Created, Seated
    <3>3. CASE pc[s] = "seated"
      <4>1. pc'[s] = "pointed" /\ room'[s] = target[s]
        BY <3>3 DEF TypeOK
      <4> QED
        BY <3>1, <3>3, <4>1
           DEF SessionConsistent, SeatOf, FirstUser, Looking, Created, Seated
    <3> QED
      BY <3>2, <3>3
  <2> QED
    BY <2>1, <2>2 DEF SessionsConsistent
<1>4. EmptyRoomHasCloser'
  BY DEF EmptyRoomHasCloser, TypeOK
<1> QED
  BY <1>1, <1>2, <1>3, <1>4

(***************************************************************************)
(* Either handler ends with an id that names the session's own seat.       *)
(***************************************************************************)
LEMMA SetSessionRoomUserInv ==
    ASSUME RoomsInv, NEW s \in Session, NEW id \in Nat, pc[s] \in {"entered", "pointed"},
           SeatOf(s, target[s], id), SetSessionRoomUser(s, id)
    PROVE  RoomsInv'
<1> USE DEF RoomsInv, SetSessionRoomUser, Return, roomVars
<1>1. TypeOK'
  BY DEF TypeOK, PC
<1>2. SeatIDsUnique' /\ CapacityRespected' /\ RegistryAgrees'
  BY DEF SeatIDsUnique, CapacityRespected, RegistryAgrees
<1>3. SessionsConsistent'
  <2>1. \A h \in Session, p \in Object, n \in Nat : SeatOf(h, p, n) => SeatOf(h, p, n)'
    BY DEF SeatOf
  <2>2. \A h \in Session, p \in Object : FirstUser(h, p) => FirstUser(h, p)'
    BY DEF FirstUser
  <2>3. ASSUME NEW h \in Session, h # s
        PROVE  SessionConsistent(h)'
    BY <2>1, <2>2, <2>3, BystanderConsistent DEF SessionsConsistent, TypeOK
  <2>4. SessionConsistent(s)'
    <3>1. PICK o \in Object : o = target[s]
      BY DEF SessionsConsistent, SessionConsistent, TypeOK
    <3>2. room[s] = o
      BY <3>1 DEF SessionsConsistent, SessionConsistent
    <3>3. SeatOf(s, o, id)' /\ room'[s] = o /\ roomUser'[s] = id
      BY <2>1, <3>1, <3>2 DEF TypeOK
    <3>4. pc'[s] = "idle" /\ target'[s] = NoRoom
      BY DEF TypeOK
    <3>5. SeatOf(s, room[s], roomUser[s])'
      BY <3>3
    <3> QED
      BY <3>4, <3>5 DEF SessionConsistent, Created, Seated
  <2> QED
    BY <2>3, <2>4 DEF SessionsConsistent
<1>4. EmptyRoomHasCloser'
  BY DEF EmptyRoomHasCloser, TypeOK
<1> QED
  BY <1>1, <1>2, <1>3, <1>4

LEMMA JoinEndsInv ==
    ASSUME RoomsInv, NEW s \in Session, JoinEnds(s)
    PROVE  RoomsInv'
<1>1. SeatOf(s, target[s], seat[s]) /\ seat[s] \in Nat
  BY DEF RoomsInv, TypeOK, SessionsConsistent, SessionConsistent, Seated, JoinEnds
<1> QED
  BY <1>1, SetSessionRoomUserInv DEF JoinEnds

LEMMA CreateEndsInv ==
    ASSUME RoomsInv, NEW s \in Session, CreateEnds(s)
    PROVE  RoomsInv'
<1>1. target[s] \in Object /\ FirstUser(s, target[s])
  BY DEF RoomsInv, TypeOK, SessionsConsistent, SessionConsistent, Created, CreateEnds
<1>2. PICK u \in Seq(User(Session)) : u = users[target[s]]
  BY <1>1 DEF RoomsInv, TypeOK
<1>3. 1 \in DOMAIN u /\ u[1].owner = s /\ u[1].id \in Nat
  <2>1. 1 \in DOMAIN u /\ u[1].owner = s
    BY <1>1, <1>2 DEF FirstUser
  <2>2. \A i \in DOMAIN u : u[i] \in User(Session)
    BY <1>2
  <2>3. u[1].id \in Nat
    BY <2>1, <2>2, UsersNumbered DEF Numbered
  <2> QED
    BY <2>1, <2>3
<1>4. SeatOf(s, target[s], u[1].id)
  BY <1>2, <1>3 DEF SeatOf
<1> QED
  BY <1>2, <1>3, <1>4, SetSessionRoomUserInv DEF CreateEnds

LEMMA ForgetRoomInv ==
    ASSUME RoomsInv, NEW s \in Session, ForgetRoom(s)
    PROVE  RoomsInv'
<1> USE DEF RoomsInv, ForgetRoom, Return, roomVars
<1>1. TypeOK'
  BY DEF TypeOK, PC, SessionsConsistent, SessionConsistent
<1>2. SeatIDsUnique' /\ CapacityRespected' /\ RegistryAgrees'
  BY DEF SeatIDsUnique, CapacityRespected, RegistryAgrees
<1>3. SessionsConsistent'
  BY DEF SessionsConsistent, SessionConsistent, SeatOf, FirstUser, Looking, Created, Seated, TypeOK
<1>4. EmptyRoomHasCloser'
  BY DEF EmptyRoomHasCloser, TypeOK
<1> QED
  BY <1>1, <1>2, <1>3, <1>4

LEMMA DisconnectOutsideInv ==
    ASSUME RoomsInv, NEW s \in Session, DisconnectOutside(s)
    PROVE  RoomsInv'
<1> USE DEF RoomsInv, DisconnectOutside, roomVars, sessionVars, localVars
<1>1. TypeOK'
  BY DEF TypeOK, PC, SessionsConsistent, SessionConsistent
<1>2. SeatIDsUnique' /\ CapacityRespected' /\ RegistryAgrees'
  BY DEF SeatIDsUnique, CapacityRespected, RegistryAgrees
<1>3. SessionsConsistent'
  BY DEF SessionsConsistent, SessionConsistent, SeatOf, FirstUser, Looking, Created, Seated, TypeOK
<1>4. EmptyRoomHasCloser'
  BY DEF EmptyRoomHasCloser, TypeOK
<1> QED
  BY <1>1, <1>2, <1>3, <1>4

(***************************************************************************)
(* The seat a session gives up is its own, so the seats of the others      *)
(* survive; if the room is empty now, this session is the one to close it. *)
(***************************************************************************)
LEMMA GiveUpSeatInv ==
    ASSUME RoomsInv, NEW s \in Session,
           NEW ifEmpty \in {"emptied", "dropEmptied"},
           NEW otherwise \in {"removed", "dropRemoved"},
           GiveUpSeat(s, ifEmpty, otherwise)
    PROVE  RoomsInv'
<1>1. PICK o \in Object : o = room[s]
  BY DEF RoomsInv, TypeOK, GiveUpSeat
<1>2. PICK id : id = roomUser[s]
  OBVIOUS
<1>3. PICK u : u = users[o]
  OBVIOUS
<1>4. PICK left : left = RemoveUser(u, id)
  OBVIOUS
<1>5. /\ pc[s] = "idle"
      /\ users' = [users EXCEPT ![o] = left]
      /\ target' = [target EXCEPT ![s] = o]
      /\ pc' = [pc EXCEPT ![s] = IF left = <<>> THEN ifEmpty ELSE otherwise]
      /\ UNCHANGED <<registry, lastRoom, number, maxUsers, room, roomUser, team, seat>>
  BY <1>1, <1>2, <1>3, <1>4 DEF GiveUpSeat, sessionVars
<1>6. u \in Seq(User(Session)) /\ Unique(u) /\ Len(u) <= maxUsers[o] /\ SeatOf(s, o, id)
  BY <1>1, <1>2, <1>3, <1>5
     DEF RoomsInv, TypeOK, SeatIDsUnique, CapacityRespected,
         SessionsConsistent, SessionConsistent, Looking
<1>7. left \in Seq(User(Session)) /\ Unique(left) /\ Len(left) <= Len(u)
  BY <1>4, <1>6, RemoveUserRemoves
<1>8. /\ \A p \in Object : users'[p] = IF p = o THEN left ELSE users[p]
      /\ \A h \in Session : h # s => pc'[h] = pc[h] /\ target'[h] = target[h]
      /\ pc'[s] = IF left = <<>> THEN ifEmpty ELSE otherwise
      /\ target'[s] = o
  BY <1>5 DEF RoomsInv, TypeOK
<1> USE DEF RoomsInv
<1>9. TypeOK'
  BY <1>5, <1>7 DEF TypeOK, PC
<1>10. SeatIDsUnique' /\ CapacityRespected'
  <2>1. SeatIDsUnique'
    BY <1>7, <1>8 DEF SeatIDsUnique
  <2>2. \A p \in Object : users[p] \in Seq(User(Session)) /\ maxUsers[p] \in Nat
    BY DEF TypeOK
  <2>3. CapacityRespected'
    BY <1>5, <1>6, <1>7, <1>8, <2>2 DEF CapacityRespected
  <2> QED
    BY <2>1, <2>3
<1>11. RegistryAgrees'
  BY <1>5 DEF RegistryAgrees
<1>12. SessionsConsistent'
  <2>1. ASSUME NEW h \in Session, h # s
        PROVE  SessionConsistent(h)'
    <3>1. \A p \in Object, n \in Nat : SeatOf(h, p, n) => SeatOf(h, p, n)'
      BY <1>3, <1>4, <1>5, <1>6, <2>1, SeatSurvivesRemove
    <3>2. \A p \in Object : FirstUser(h, p) => FirstUser(h, p)'
      BY <1>3, <1>4, <1>5, <1>6, <2>1, FirstSurvivesRemove
    <3> QED
      BY <1>5, <1>8, <2>1, <3>1, <3>2, BystanderConsistent DEF SessionsConsistent
  <2>2. SessionConsistent(s)'
    BY <1>8 DEF SessionConsistent, Looking, Created, Seated
  <2> QED
    BY <2>1, <2>2 DEF SessionsConsistent
<1>13. EmptyRoomHasCloser'
  <2>1. SUFFICES ASSUME NEW n \in Number, registry[n] # NoRoom, users'[registry[n]] = <<>>
                 PROVE  \E h \in Session : /\ pc'[h] \in {"emptied", "dropEmptied"}
                                            /\ target'[h] = registry[n]
    BY <1>5 DEF EmptyRoomHasCloser
  <2>2. registry[n] \in Object
    BY <2>1 DEF TypeOK
  <2>3. CASE registry[n] = o
    BY <1>8, <2>1, <2>2, <2>3
  <2>4. CASE registry[n] # o
    <3>1. users[registry[n]] = <<>>
      BY <1>8, <2>1, <2>2, <2>4
    <3>2. PICK h \in Session : pc[h] \in {"emptied", "dropEmptied"} /\ target[h] = registry[n]
      BY <2>1, <3>1 DEF EmptyRoomHasCloser
    <3> QED
      BY <1>5, <1>8, <3>2
  <2> QED
    BY <2>3, <2>4
<1> QED
  BY <1>9, <1>10, <1>11, <1>12, <1>13

(***************************************************************************)
(* Closing takes the session's own room off the list, and no room that     *)
(* another session has yet to close.                                       *)
(***************************************************************************)
LEMMA CloseRoomInv ==
    ASSUME RoomsInv, NEW s \in Session, CloseRoom(s)
    PROVE  RoomsInv'
<1> USE DEF RoomsInv, CloseRoom, roomVars, sessionVars, localVars
<1>1. TypeOK'
  BY DEF TypeOK, PC
<1>2. SeatIDsUnique' /\ CapacityRespected' /\ RegistryAgrees'
  BY DEF SeatIDsUnique, CapacityRespected, RegistryAgrees, TypeOK
<1>3. SessionsConsistent'
  BY DEF SessionsConsistent, SessionConsistent, SeatOf, FirstUser, Looking, Created, Seated, TypeOK
<1>4. EmptyRoomHasCloser'
  <2>1. SUFFICES ASSUME NEW n \in Number, registry'[n] # NoRoom, users[registry'[n]] = <<>>
                 PROVE  \E h \in Session : /\ pc'[h] \in {"emptied", "dropEmptied"}
                                            /\ target[h] = registry'[n]
    BY DEF EmptyRoomHasCloser
  <2>2. registry'[n] = registry[n] /\ n # number[target[s]]
    BY <2>1 DEF TypeOK
  <2>3. PICK h \in Session : pc[h] \in {"emptied", "dropEmptied"} /\ target[h] = registry[n]
    BY <2>1, <2>2 DEF EmptyRoomHasCloser
  <2>4. number[registry[n]] = n
    BY <2>1, <2>2 DEF RegistryAgrees
  <2>5. h # s
    BY <2>2, <2>3, <2>4
  <2>6. pc'[h] = pc[h]
    BY <2>5 DEF TypeOK
  <2> QED
    BY <2>2, <2>3, <2>6
<1> QED
  BY <1>1, <1>2, <1>3, <1>4

-----------------------------------------------------------------------------
LEMMA NextInv ==
    ASSUME RoomsInv, [Next]_vars
    PROVE  RoomsInv'
<1>1. CASE Next
  <2>1. PICK s \in Session :
            \/ BindPlayer(s)
            \/ \E o \in Object, byte \in RequestedMax : CreateRoom(s, o, byte)
            \/ \E n \in Number : JoinFind(s, n)
            \/ LeaveRoom(s)
            \/ Disconnect(s)
            \/ DisconnectOutside(s)
            \/ HandlerStep(s)
    BY <1>1 DEF Next
  <2>2. CASE BindPlayer(s)
    BY <2>2, BindPlayerInv
  <2>3. CASE \E o \in Object, byte \in RequestedMax : CreateRoom(s, o, byte)
    BY <2>3, CreateRoomInv
  <2>4. CASE \E n \in Number : JoinFind(s, n)
    BY <2>4, JoinFindInv
  <2>5. CASE LeaveRoom(s)
    BY <2>5, GiveUpSeatInv DEF LeaveRoom
  <2>6. CASE Disconnect(s)
    BY <2>6, GiveUpSeatInv DEF Disconnect
  <2>7. CASE DisconnectOutside(s)
    BY <2>7, DisconnectOutsideInv
  <2>8. CASE HandlerStep(s)
    BY <2>8, JoinNextTeamInv, JoinFullInv, JoinAddUserInv, SetSessionRoomInv,
       JoinEndsInv, CreateEndsInv, CloseRoomInv, ForgetRoomInv DEF HandlerStep
  <2> QED
    BY <2>1, <2>2, <2>3, <2>4, <2>5, <2>6, <2>7, <2>8
<1>2. CASE UNCHANGED vars
  <2>1. TypeOK'
    BY <1>2 DEF RoomsInv, TypeOK, vars, roomVars, sessionVars, localVars
  <2>2. SeatIDsUnique' /\ CapacityRespected' /\ RegistryAgrees' /\ EmptyRoomHasCloser'
    BY <1>2 DEF RoomsInv, SeatIDsUnique, CapacityRespected, RegistryAgrees,
                EmptyRoomHasCloser, vars, roomVars, sessionVars, localVars
  <2>3. SessionsConsistent'
    BY <1>2 DEF RoomsInv, SessionsConsistent, SessionConsistent, SeatOf, FirstUser,
                vars, roomVars, sessionVars, localVars
  <2> QED
    BY <2>1, <2>2, <2>3 DEF RoomsInv
<1> QED
  BY <1>1, <1>2

(***************************************************************************)
(* RoomsInv holds always: the types, unique seat ids, the capacity, every  *)
(* session's own seat and the registry's promises together, for any number *)
(* of connections and rooms.                                               *)
(***************************************************************************)
THEOREM RoomsInvariant == Spec => []RoomsInv
<1>1. Init => RoomsInv
  BY InitInv
<1>2. RoomsInv /\ [Next]_vars => RoomsInv'
  BY NextInv
<1> QED
  BY <1>1, <1>2, PTL DEF Spec

(***************************************************************************)
(* HoldsOwnSeat: the room and the id in a session between two handlers     *)
(* name a seat given to that session.                                      *)
(***************************************************************************)
THEOREM OwnSeatHeld == Spec => []HoldsOwnSeat
<1>1. RoomsInv => HoldsOwnSeat
  BY DEF RoomsInv, SessionsConsistent, SessionConsistent, HoldsOwnSeat, Looking
<1> QED
  BY <1>1, RoomsInvariant, PTL

(***************************************************************************)
(* EmptyRoomHasCloser: no empty room is stranded in the list.              *)
(***************************************************************************)
THEOREM NoRoomStranded == Spec => []EmptyRoomHasCloser
<1>1. RoomsInv => EmptyRoomHasCloser
  BY DEF RoomsInv
<1> QED
  BY <1>1, RoomsInvariant, PTL

(***************************************************************************)
(* The other parts of the invariant, each by its name.                     *)
(***************************************************************************)
THEOREM TypeCorrect == Spec => []TypeOK
<1>1. RoomsInv => TypeOK
  BY DEF RoomsInv
<1> QED
  BY <1>1, RoomsInvariant, PTL

\* SeatIDsUnique: a room never knows two users by one id.
THEOREM SeatIDsStayUnique == Spec => []SeatIDsUnique
<1>1. RoomsInv => SeatIDsUnique
  BY DEF RoomsInv
<1> QED
  BY <1>1, RoomsInvariant, PTL

\* CapacityRespected: racing joins never overfill a room.
THEOREM CapacityKept == Spec => []CapacityRespected
<1>1. RoomsInv => CapacityRespected
  BY DEF RoomsInv
<1> QED
  BY <1>1, RoomsInvariant, PTL

\* RegistryAgrees: a listed room is listed under its own number.
THEOREM RegistryAlwaysAgrees == Spec => []RegistryAgrees
<1>1. RoomsInv => RegistryAgrees
  BY DEF RoomsInv
<1> QED
  BY <1>1, RoomsInvariant, PTL

-----------------------------------------------------------------------------
(***************************************************************************)
(* ListedRoomNotReplaced: Open never takes a number away from a listed     *)
(* room, wherever the counter stands.                                      *)
(***************************************************************************)
THEOREM NumbersNotStolen == Spec => ListedRoomNotReplaced
<1> DEFINE Kept == \A n \in Number : registry[n] # NoRoom => registry'[n] \in {registry[n], NoRoom}
<1>1. ASSUME RoomsInv, [Next]_vars
      PROVE  Kept
  <2>1. CASE UNCHANGED registry
    BY <2>1
  <2>2. ASSUME NEW s \in Session, NEW o \in Object, NEW byte \in RequestedMax,
               CreateRoom(s, o, byte)
        PROVE  Kept
    <3>1. NextNumber \in Free /\ NextNumber \in Number
      BY <1>1, <2>2, NextNumberFree DEF RoomsInv, CreateRoom
    <3> QED
      BY <1>1, <2>2, <3>1 DEF RoomsInv, TypeOK, CreateRoom, Open, Free
  <2>3. ASSUME NEW s \in Session, CloseRoom(s)
        PROVE  Kept
    BY <1>1, <2>3 DEF RoomsInv, TypeOK, CloseRoom
  <2> HIDE DEF Kept
  <2> QED
    BY <1>1, <2>1, <2>2, <2>3
       DEF Next, HandlerStep, BindPlayer, JoinFind, JoinNextTeam, JoinFull, JoinAddUser,
           SetSessionRoom, SetSessionRoomUser, JoinEnds, CreateEnds, GiveUpSeat, LeaveRoom, Disconnect,
           ForgetRoom, DisconnectOutside, vars
<1> QED
  BY <1>1, RoomsInvariant, PTL DEF Spec, ListedRoomNotReplaced

(***************************************************************************)
(* OnlyOwnSeatGivenUp: a user disappears from a room only when the session *)
(* it stands for leaves or disconnects.                                    *)
(***************************************************************************)
LEMMA GiveUpTakesOwnSeat ==
    ASSUME RoomsInv, NEW s \in Session, NEW ifEmpty \in {"emptied", "dropEmptied"},
           NEW otherwise \in {"removed", "dropRemoved"},
           GiveUpSeat(s, ifEmpty, otherwise),
           NEW o \in Object, NEW i \in DOMAIN users[o],
           users[o][i].id \notin IDs(users'[o])
    PROVE  GivesUp(users[o][i].owner, o, users[o][i].id)
<1>1. PICK id : id = roomUser[s]
  OBVIOUS
<1>2. PICK u : u = users[o]
  OBVIOUS
<1>3. PICK left : left = RemoveUser(u, id)
  OBVIOUS
<1>4. pc[s] = "idle" /\ pc'[s] # "idle"
  BY DEF GiveUpSeat, RoomsInv, TypeOK
<1>5. CASE o # room[s]
  BY <1>5 DEF GiveUpSeat, RoomsInv, TypeOK, IDs
<1>6. CASE o = room[s]
  <2>1. users'[o] = left
    BY <1>1, <1>2, <1>3, <1>6 DEF GiveUpSeat, RoomsInv, TypeOK
  <2>2. u \in Seq(User(Session)) /\ Unique(u) /\ i \in DOMAIN u
    BY <1>2 DEF RoomsInv, TypeOK, SeatIDsUnique
  <2>3. u[i].id = id
    <3>1. SUFFICES ASSUME u[i].id # id
                   PROVE  FALSE
      OBVIOUS
    <3>2. PICK j \in DOMAIN left : left[j] = u[i]
      BY <1>3, <2>2, <3>1, RemoveUserRemoves
    <3> QED
      BY <1>2, <2>1, <3>2 DEF IDs
  <2>4. PICK k \in DOMAIN u : u[k].id = id /\ u[k].owner = s
    BY <1>1, <1>2, <1>4, <1>6
       DEF RoomsInv, TypeOK, SessionsConsistent, SessionConsistent, Looking, SeatOf, GiveUpSeat
  <2>5. u[i].owner = s
    BY <2>2, <2>3, <2>4 DEF Unique
  <2> QED
    BY <1>1, <1>2, <1>4, <1>6, <2>3, <2>5 DEF GivesUp
<1> QED
  BY <1>5, <1>6

THEOREM SeatsOnlyGivenUp == Spec => OnlyOwnSeatGivenUp
<1> DEFINE OnlyOwn ==
        \A o \in Object : \A i \in DOMAIN users[o] :
            users[o][i].id \notin IDs(users'[o]) => GivesUp(users[o][i].owner, o, users[o][i].id)
<1>1. ASSUME RoomsInv, [Next]_vars
      PROVE  OnlyOwn
  <2>1. SUFFICES ASSUME NEW o \in Object, NEW i \in DOMAIN users[o],
                        users[o][i].id \notin IDs(users'[o])
                 PROVE  GivesUp(users[o][i].owner, o, users[o][i].id)
    OBVIOUS
  <2>2. CASE UNCHANGED users
    BY <2>1, <2>2 DEF IDs
  <2>3. ASSUME NEW s \in Session, NEW p \in Object, NEW byte \in RequestedMax,
               CreateRoom(s, p, byte)
        PROVE  FALSE
    <3>1. o # p
      BY <2>1, <2>3 DEF CreateRoom, Unreferenced
    <3> QED
      BY <1>1, <2>1, <2>3, <3>1 DEF RoomsInv, TypeOK, CreateRoom, IDs
  <2>4. ASSUME NEW s \in Session, JoinAddUser(s)
        PROVE  FALSE
    <3>1. PICK u : u = users[o]
      OBVIOUS
    <3>2. PICK v : v = AddUser(u, s, team[s])
      OBVIOUS
    <3>3. u \in Seq(User(Session)) /\ team[s] \in Teams /\ i \in DOMAIN u
      BY <1>1, <2>4, <3>1
         DEF RoomsInv, TypeOK, SessionsConsistent, SessionConsistent, JoinAddUser
    <3>4. users'[o] \in {u, v}
      BY <1>1, <2>4, <3>1, <3>2 DEF RoomsInv, TypeOK, JoinAddUser
    <3>5. i \in DOMAIN v /\ v[i] = u[i]
      BY <3>2, <3>3, AddUserAppends
    <3> QED
      BY <2>1, <3>1, <3>3, <3>4, <3>5 DEF IDs
  <2>5. ASSUME NEW s \in Session, LeaveRoom(s) \/ Disconnect(s)
        PROVE  GivesUp(users[o][i].owner, o, users[o][i].id)
    BY <1>1, <2>1, <2>5, GiveUpTakesOwnSeat DEF LeaveRoom, Disconnect
  <2> QED
    BY <1>1, <2>2, <2>3, <2>4, <2>5
       DEF Next, HandlerStep, BindPlayer, JoinFind, JoinNextTeam, JoinFull,
           SetSessionRoom, SetSessionRoomUser, JoinEnds, CreateEnds, CloseRoom, ForgetRoom, DisconnectOutside,
           vars, roomVars
<1> QED
  BY <1>1, RoomsInvariant, PTL DEF Spec, OnlyOwnSeatGivenUp
=============================================================================
