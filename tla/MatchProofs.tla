----------------------------- MODULE MatchProofs -----------------------------
(***************************************************************************)
(* Proofs about Match, for any number of players, rooms and connections    *)
(* and for any bounds: who leads a listed room, who hears that a match is  *)
(* loaded, which rounds are announced, where tickets lead and to whom      *)
(* kills and deaths are credited.                                          *)
(***************************************************************************)
EXTENDS Match, RowLemmas, FiniteSetTheorems

-----------------------------------------------------------------------------
(***************************************************************************)
(* Seats.                                                                  *)
(***************************************************************************)
LEMMA SeatsNumbered == Numbered(SeatRow)
BY DEF Numbered, SeatRow

LEMMA PeoplePlay == ASSUME NEW u \in Seq(SeatRow) PROVE People(u) \subseteq Player
<1>1. \A i \in DOMAIN u : u[i] \in SeatRow
  OBVIOUS
<1>2. \A i \in DOMAIN u : u[i].who \in Player
  BY <1>1 DEF SeatRow
<1> QED
  BY <1>2 DEF People

LEMMA WithoutTyped ==
    ASSUME NEW u \in Seq(SeatRow), NEW id
    PROVE  Without(u, id) \in Seq(SeatRow)
<1>1. CASE id \in IDs(u)
  <2>1. IndexOf(u, id) \in DOMAIN u
    BY <1>1, IndexFound
  <2>2. RemoveAt(u, IndexOf(u, id)) \in Seq(SeatRow)
    BY <2>1, RemoveAtShifts
  <2> QED
    BY <1>1, <2>2 DEF Without
<1>2. CASE id \notin IDs(u)
  BY <1>2 DEF Without
<1> QED
  BY <1>1, <1>2

(***************************************************************************)
(* A newcomer gets a seat of the room, and the leader's only in an empty   *)
(* room.                                                                   *)
(***************************************************************************)
LEMMA AddUserSeats ==
    ASSUME NEW u \in Seq(SeatRow), NEW p \in Player, NEW v, v = AddUser(u, p)
    PROVE  /\ v \in Seq(SeatRow) /\ v # <<>>
           /\ v[Len(v)].id \in Nat
           /\ u # <<>> => v[Len(v)].id # LeaderID
<1>1. /\ NextID(u) \in Nat \ {0}
      /\ \A i \in DOMAIN u : u[i].id \in Nat /\ u[i].id < NextID(u)
  BY SeatsNumbered, NextIDFresh
<1>2. PICK e : e = [id |-> NextID(u), who |-> p, kills |-> 0, deaths |-> 0]
  OBVIOUS
<1>3. e \in SeatRow /\ e.id = NextID(u)
  BY <1>1, <1>2 DEF SeatRow
<1>4. v = Append(u, e)
  BY <1>2 DEF AddUser
<1>5. v \in Seq(SeatRow) /\ v # <<>> /\ v[Len(v)] = e
  BY <1>3, <1>4, AppendKeeps
<1>6. ASSUME u # <<>> PROVE NextID(u) # LeaderID
  <2>1. 1 \in DOMAIN u /\ u[1] \in SeatRow
    BY <1>6
  <2>2. u[1].id \in Nat \ {0}
    BY <2>1 DEF SeatRow
  <2> QED
    BY <1>1, <2>1, <2>2 DEF LeaderID
<1> QED
  BY <1>1, <1>3, <1>5, <1>6

LEMMA RecordDeathKeeps ==
    ASSUME NEW u \in Seq(SeatRow), NEW killer, NEW victim, NEW v, v = RecordDeath(u, killer, victim)
    PROVE  v \in Seq(SeatRow) /\ (u # <<>> => v # <<>>)
<1>1. ASSUME NEW i \in DOMAIN u PROVE v[i] \in SeatRow
  <2>1. u[i] \in SeatRow
    OBVIOUS
  <2>2. \/ v[i] = u[i]
        \/ v[i] = [u[i] EXCEPT !.deaths = @ + 1]
        \/ v[i] = [u[i] EXCEPT !.kills = @ + 1]
    BY DEF RecordDeath
  <2>3. ASSUME NEW e \in SeatRow
        PROVE  [e EXCEPT !.deaths = @ + 1] \in SeatRow /\ [e EXCEPT !.kills = @ + 1] \in SeatRow
    <3>1. e.deaths + 1 \in Nat /\ e.kills + 1 \in Nat
      <4>1. e.deaths \in Nat /\ e.kills \in Nat
        BY DEF SeatRow
      <4> QED
        BY <4>1
    <3>2. ASSUME NEW n \in Nat
          PROVE  [e EXCEPT !.deaths = n] \in SeatRow /\ [e EXCEPT !.kills = n] \in SeatRow
      BY DEF SeatRow
    <3> QED
      BY <3>1, <3>2
  <2> QED
    BY <2>1, <2>2, <2>3
<1>2. DOMAIN v = 1 .. Len(u) /\ Len(u) \in Nat
  BY DEF RecordDeath
<1>3. v = [i \in 1 .. Len(u) |-> v[i]]
  BY DEF RecordDeath
<1>4. v \in Seq(SeatRow)
  <2>1. \A i \in 1 .. Len(u) : v[i] \in SeatRow
    BY <1>1, <1>2
  <2> QED
    BY <1>2, <1>3, <2>1
<1>5. Len(v) = Len(u)
  BY <1>2, <1>4
<1> QED
  BY <1>4, <1>5

-----------------------------------------------------------------------------
(***************************************************************************)
(* The steps that neither seat nor unseat anybody.                         *)
(***************************************************************************)
LEMMA QuietStep ==
    ASSUME LeaderInv, UNCHANGED <<users, open, creator, lobby>>,
           todo' = [a \in Player \cup Connection |-> todo'[a]],
           \A p \in Player : todo'[p] = todo[p]
    PROVE  LeaderInv'
BY DEF LeaderInv, LeaderIsCreator

LEMMA ConnectionStep ==
    ASSUME LeaderInv, NEW c \in Connection, UNCHANGED <<users, open, creator, lobby>>,
           UNCHANGED todo \/ \E items : todo' = [todo EXCEPT ![c] = items]
    PROVE  LeaderInv'
<1>1. c \notin Player
  BY MatchAssumption
<1>2. CASE UNCHANGED todo
  BY <1>2, QuietStep DEF LeaderInv
<1>3. CASE \E items : todo' = [todo EXCEPT ![c] = items]
  <2>1. PICK items : todo' = [todo EXCEPT ![c] = items]
    BY <1>3
  <2> QED
    BY <1>1, <2>1, QuietStep DEF LeaderInv
<1> QED
  BY <1>2, <1>3

(***************************************************************************)
(* What a player's handler has left to do is a task, and it joins only     *)
(* rooms that have been created.                                           *)
(***************************************************************************)
LEMMA PlayerStep ==
    ASSUME LeaderInv, NEW p \in Player, UNCHANGED <<users, open, creator, lobby>>,
           NEW items \in Seq(Task), todo' = [todo EXCEPT ![p] = items],
           items # <<>> /\ Head(items).do = "join" => creator[Head(items).room] # Nobody
    PROVE  LeaderInv'
<1>1. todo'[p] = items /\ \A q \in Player : q # p => todo'[q] = todo[q]
  BY DEF LeaderInv
<1>2. todo' = [a \in Player \cup Connection |-> todo'[a]]
  BY DEF LeaderInv
<1> QED
  BY <1>1, <1>2 DEF LeaderInv, LeaderIsCreator

LEMMA JoinFindInv ==
    ASSUME LeaderInv, NEW p \in Player, NEW r \in Room, JoinFind(p, r) PROVE LeaderInv'
<1>1. PICK w : w = [do |-> "join", room |-> r]
  OBVIOUS
<1>2. w \in Task /\ w.room = r
  BY <1>1 DEF Task
<1>3. <<w>> \in Seq(Task) /\ Head(<<w>>) = w
  BY <1>2
<1>4. /\ creator[r] # Nobody
      /\ UNCHANGED <<users, open, creator, lobby>>
      /\ todo' = [todo EXCEPT ![p] = <<w>>]
  BY <1>1 DEF JoinFind, roomVars, history, LeaderInv
<1> QED
  BY <1>2, <1>3, <1>4, PlayerStep

LEMMA GameStartInv ==
    ASSUME LeaderInv, NEW p \in Player, GameStart(p) PROVE LeaderInv'
<1>1. PICK w : w = [do |-> "issue", room |-> lobby[p].room, left |-> InRoom(lobby[p].room)]
  OBVIOUS
<1>2. lobby[p].room \in Room
  BY DEF GameStart, LeaderInv
<1>3. w \in Task /\ w.do = "issue"
  BY <1>1, <1>2 DEF Task, InRoom
<1>4. <<w>> \in Seq(Task) /\ Head(<<w>>) = w
  BY <1>3
<1>5. /\ UNCHANGED <<users, open, creator, lobby>>
      /\ todo' = [todo EXCEPT ![p] = <<w>>]
  BY <1>1 DEF GameStart, roomVars, history
<1> QED
  BY <1>3, <1>4, <1>5, PlayerStep

LEMMA IssueInv == ASSUME LeaderInv, NEW p \in Player, Issue(p) PROVE LeaderInv'
<1>1. PICK w : w = Head(todo[p])
  OBVIOUS
<1>2. w \in Task /\ w.do = "issue"
  <2>1. todo[p] \in Seq(Task) /\ todo[p] # <<>>
    BY DEF Issue, Idle, LeaderInv
  <2> QED
    BY <1>1, <2>1 DEF Issue
<1>3. UNCHANGED <<users, open, creator, lobby>>
  BY DEF Issue, roomVars, history
<1>4. PICK q \in w.left :
        todo' = [todo EXCEPT ![p] =
                    IF w.left = {q} THEN <<>> ELSE <<[w EXCEPT !.left = @ \ {q}]>>]
  BY <1>1 DEF Issue
<1>5. PICK rest : rest = [w EXCEPT !.left = @ \ {q}]
  OBVIOUS
<1>6. rest \in Task /\ rest.do = "issue"
  BY <1>2, <1>5 DEF Task
<1>7. PICK items : items = IF w.left = {q} THEN <<>> ELSE <<rest>>
  OBVIOUS
<1>8. items \in Seq(Task) /\ (items # <<>> => Head(items).do = "issue")
  BY <1>6, <1>7
<1>9. todo' = [todo EXCEPT ![p] = items]
  BY <1>4, <1>5, <1>7
<1> QED
  BY <1>3, <1>8, <1>9, PlayerStep

LEMMA MatchStartInv ==
    ASSUME LeaderInv, NEW p \in Player, NEW c \in Connection, MatchStart(p, c) PROVE LeaderInv'
<1>1. /\ UNCHANGED <<users, open, creator, lobby>>
      /\ \E items : todo' = [todo EXCEPT ![c] = items]
  BY DEF MatchStart, roomVars, history
<1> QED
  BY <1>1, ConnectionStep

LEMMA MatchInv ==
    ASSUME LeaderInv, NEW c \in Connection,
           \/ JoinMatch(c) \/ LoadComplete(c) \/ TellOn(c) \/ MatchLeave(c)
           \/ BeginRound(c) \/ TimeOut(c) \/ TellRound(c) \/ TellOver(c)
    PROVE  LeaderInv'
<1>1. UNCHANGED <<users, open, creator, lobby>>
  BY DEF JoinMatch, LoadComplete, TellOn, MatchLeave, BeginRound, TimeOut, TellRound, TellOver,
         roomVars, history
<1>2. UNCHANGED todo \/ \E items : todo' = [todo EXCEPT ![c] = items]
  <2>1. CASE JoinMatch(c) \/ LoadComplete(c) \/ TellOn(c) \/ MatchLeave(c)
    BY <2>1 DEF JoinMatch, LoadComplete, TellOn, MatchLeave
  <2>2. CASE BeginRound(c) \/ TimeOut(c) \/ TellRound(c) \/ TellOver(c)
    BY <2>2 DEF BeginRound, TimeOut, TellRound, TellOver
  <2> QED
    BY <2>1, <2>2
<1> QED
  BY <1>1, <1>2, ConnectionStep

-----------------------------------------------------------------------------
(***************************************************************************)
(* Taking a seat: whoever creates a room leads it, whoever finds somebody  *)
(* in it does not.                                                         *)
(***************************************************************************)
LEMMA CreateInv ==
    ASSUME LeaderInv, NEW p \in Player, NEW r \in Room, Create(p, r) PROVE LeaderInv'
<1>1. PICK v : v = AddUser(<<>>, p)
  OBVIOUS
<1>2. v \in Seq(SeatRow) /\ v # <<>> /\ v[Len(v)].id \in Nat
  <2>1. <<>> \in Seq(SeatRow)
    OBVIOUS
  <2> QED
    BY <1>1, <2>1, AddUserSeats
<1>3. PICK seat : seat = v[Len(v)].id
  OBVIOUS
<1>4. /\ users' = [users EXCEPT ![r] = v]
      /\ lobby' = [lobby EXCEPT ![p] = [room |-> r, seat |-> seat]]
      /\ open' = open \cup {r}
      /\ creator' = [creator EXCEPT ![r] = p]
      /\ creator[r] = Nobody
      /\ UNCHANGED todo
  BY <1>1, <1>3 DEF Create, Seated
<1>5. p # Nobody /\ NoRoom # r
  BY MatchAssumption
<1>6. lobby' \in [Player -> [room : Room \cup {NoRoom}, seat : Nat]]
  BY <1>2, <1>3, <1>4 DEF LeaderInv
<1>7. /\ lobby'[p].room = r
      /\ \A q \in Player : q # p => lobby'[q] = lobby[q] /\ lobby[q].room # r
  BY <1>4, <1>5 DEF LeaderInv
<1>8. /\ creator' \in [Room -> Player \cup {Nobody}]
      /\ creator'[r] = p
      /\ \A x : x # r => creator'[x] = creator[x]
  BY <1>4 DEF LeaderInv
<1>9. LeaderIsCreator'
  BY <1>4, <1>7, <1>8 DEF LeaderInv, LeaderIsCreator
<1>10. /\ users' \in [Room -> Seq(SeatRow)]
       /\ open' \subseteq Room
       /\ \A x \in open' : users'[x] # <<>> /\ creator'[x] # Nobody
  BY <1>2, <1>4, <1>5, <1>8 DEF LeaderInv
<1>11. \A q \in Player :
         /\ lobby'[q].room # NoRoom => creator'[lobby'[q].room] # Nobody
         /\ todo'[q] # <<>> /\ Head(todo'[q]).do = "join" => creator'[Head(todo'[q]).room] # Nobody
  BY <1>4, <1>5, <1>7, <1>8 DEF LeaderInv
<1> QED
  BY <1>4, <1>6, <1>8, <1>9, <1>10, <1>11 DEF LeaderInv

LEMMA JoinAddUserInv == ASSUME LeaderInv, NEW p \in Player, JoinAddUser(p) PROVE LeaderInv'
<1>1. todo[p] # <<>> /\ Head(todo[p]).do = "join" /\ Head(todo[p]) \in Task
  <2>1. todo[p] \in Seq(Task) /\ todo[p] # <<>>
    BY DEF JoinAddUser, Idle, LeaderInv
  <2> QED
    BY <2>1 DEF JoinAddUser
<1>2. PICK r : r = Head(todo[p]).room
  OBVIOUS
<1>3. r \in Room /\ creator[r] # Nobody
  BY <1>1, <1>2 DEF Task, LeaderInv
<1>4. PICK v : v = AddUser(users[r], p)
  OBVIOUS
<1>5. users[r] \in Seq(SeatRow)
  BY <1>3 DEF LeaderInv
<1>6. /\ v \in Seq(SeatRow) /\ v # <<>>
      /\ v[Len(v)].id \in Nat
      /\ users[r] # <<>> => v[Len(v)].id # LeaderID
  BY <1>4, <1>5, AddUserSeats
<1>7. PICK seat : seat = v[Len(v)].id
  OBVIOUS
<1>8. /\ users' = [users EXCEPT ![r] = v]
      /\ lobby' = [lobby EXCEPT ![p] = [room |-> r, seat |-> seat]]
      /\ todo' = [todo EXCEPT ![p] = <<>>]
      /\ UNCHANGED <<open, creator>>
  BY <1>2, <1>4, <1>7 DEF JoinAddUser, Seated
<1>9. lobby' \in [Player -> [room : Room \cup {NoRoom}, seat : Nat]]
  BY <1>3, <1>6, <1>7, <1>8 DEF LeaderInv
<1>10. /\ lobby'[p].room = r /\ lobby'[p].seat = seat
       /\ \A q \in Player : q # p => lobby'[q] = lobby[q]
  BY <1>8 DEF LeaderInv
<1>11. r \in open => seat # LeaderID
  BY <1>6, <1>7 DEF LeaderInv
<1>12. LeaderIsCreator'
  BY <1>8, <1>10, <1>11 DEF LeaderInv, LeaderIsCreator
<1>13. /\ users' \in [Room -> Seq(SeatRow)]
       /\ \A x \in open : users'[x] # <<>>
  BY <1>6, <1>8 DEF LeaderInv
<1>14. /\ todo' = [a \in Player \cup Connection |-> todo'[a]]
       /\ todo'[p] = <<>>
       /\ \A q \in Player : q # p => todo'[q] = todo[q]
  BY <1>8 DEF LeaderInv
<1>15. \A q \in Player : todo'[q] \in Seq(Task)
  <2>1. <<>> \in Seq(Task) /\ \A q \in Player : todo[q] \in Seq(Task)
    BY DEF LeaderInv
  <2> QED
    BY <1>14, <2>1
<1>16. \A q \in Player :
         /\ lobby'[q].room # NoRoom => creator'[lobby'[q].room] # Nobody
         /\ todo'[q] # <<>> /\ Head(todo'[q]).do = "join" => creator'[Head(todo'[q]).room] # Nobody
  BY <1>3, <1>8, <1>10, <1>14 DEF LeaderInv
<1> QED
  BY <1>8, <1>9, <1>12, <1>13, <1>14, <1>15, <1>16 DEF LeaderInv

-----------------------------------------------------------------------------
(***************************************************************************)
(* Giving a seat up closes the room when nobody is left.                   *)
(***************************************************************************)
LEMMA GiveUpKeeps ==
    ASSUME LeaderInv, NEW r, NEW seat, GiveUp(r, seat)
    PROVE  /\ users' \in [Room -> Seq(SeatRow)]
           /\ open' \subseteq open
           /\ \A x \in open' : users'[x] # <<>>
<1>1. PICK left : left = Without(users[r], seat)
  OBVIOUS
<1>2. /\ users' = [users EXCEPT ![r] = left]
      /\ open' = IF left = <<>> THEN open \ {r} ELSE open
  BY <1>1 DEF GiveUp
<1>3. r \in Room => left \in Seq(SeatRow)
  BY <1>1, WithoutTyped DEF LeaderInv
<1>4. users \in [Room -> Seq(SeatRow)] /\ \A x \in open : x \in Room /\ users[x] # <<>>
  BY DEF LeaderInv
<1>5. users' \in [Room -> Seq(SeatRow)]
  BY <1>2, <1>3, <1>4
<1>6. open' \subseteq open
  BY <1>2
<1>7. ASSUME NEW x \in open' PROVE users'[x] # <<>>
  BY <1>2, <1>4, <1>7
<1> QED
  BY <1>5, <1>6, <1>7

LEMMA LeaveInv == ASSUME LeaderInv, NEW p \in Player, Leave(p) PROVE LeaderInv'
<1>1. PICK r, seat : r = lobby[p].room /\ seat = lobby[p].seat
  OBVIOUS
<1>2. /\ GiveUp(r, seat)
      /\ lobby' = [lobby EXCEPT ![p].room = NoRoom]
      /\ UNCHANGED <<creator, todo>>
  BY <1>1 DEF Leave
<1>3. /\ users' \in [Room -> Seq(SeatRow)]
      /\ open' \subseteq open
      /\ \A x \in open' : users'[x] # <<>>
  BY <1>2, GiveUpKeeps
<1>4. /\ lobby' \in [Player -> [room : Room \cup {NoRoom}, seat : Nat]]
      /\ lobby'[p].room = NoRoom
      /\ \A q \in Player : q # p => lobby'[q] = lobby[q]
  BY <1>2 DEF LeaderInv
<1>5. NoRoom \notin open'
  BY <1>3, MatchAssumption DEF LeaderInv
<1> QED
  BY <1>2, <1>3, <1>4, <1>5 DEF LeaderInv, LeaderIsCreator

LEMMA MatchDropInv == ASSUME LeaderInv, NEW c \in Connection, MatchDrop(c) PROVE LeaderInv'
<1>1. PICK r, seat : r = conn[c].room /\ seat = conn[c].seat
  OBVIOUS
<1>2. GiveUp(r, seat) /\ UNCHANGED <<creator, todo, lobby>>
  BY <1>1 DEF MatchDrop
<1>3. /\ users' \in [Room -> Seq(SeatRow)]
      /\ open' \subseteq open
      /\ \A x \in open' : users'[x] # <<>>
  BY <1>2, GiveUpKeeps
<1> QED
  BY <1>2, <1>3 DEF LeaderInv, LeaderIsCreator

(***************************************************************************)
(* A death changes scores, not seats.                                      *)
(***************************************************************************)
LEMMA DeathInv == ASSUME LeaderInv, NEW c \in Connection, Death(c) PROVE LeaderInv'
<1>1. UNCHANGED <<open, lobby, todo, creator>>
  BY DEF Death
<1>2. PICK killer, victim :
        users' = [users EXCEPT ![conn[c].room] = RecordDeath(@, killer, victim)]
  BY DEF Death
<1>3. PICK r, v : r = conn[c].room /\ v = RecordDeath(users[r], killer, victim)
  OBVIOUS
<1>4. users' = [users EXCEPT ![r] = v]
  BY <1>2, <1>3
<1>5. r \in Room => v \in Seq(SeatRow) /\ (users[r] # <<>> => v # <<>>)
  BY <1>3, RecordDeathKeeps DEF LeaderInv
<1>6. /\ users' \in [Room -> Seq(SeatRow)]
      /\ \A x \in open : users'[x] # <<>>
  BY <1>4, <1>5 DEF LeaderInv
<1> QED
  BY <1>1, <1>6 DEF LeaderInv, LeaderIsCreator

-----------------------------------------------------------------------------
LEMMA InitInv == Init => LeaderInv
BY MatchAssumption DEF Init, LeaderInv, LeaderIsCreator

LEMMA NextInv == LeaderInv /\ [Next]_vars => LeaderInv'
<1>1. SUFFICES ASSUME LeaderInv, [Next]_vars PROVE LeaderInv'
  OBVIOUS
<1>2. CASE UNCHANGED vars
  BY <1>1, <1>2 DEF vars, roomVars, history, LeaderInv, LeaderIsCreator
<1>3. ASSUME NEW p \in Player, NEW r \in Room, Create(p, r) \/ JoinFind(p, r) PROVE LeaderInv'
  BY <1>1, <1>3, CreateInv, JoinFindInv
<1>4. ASSUME NEW p \in Player, JoinAddUser(p) \/ Leave(p) \/ GameStart(p) \/ Issue(p)
      PROVE  LeaderInv'
  BY <1>1, <1>4, JoinAddUserInv, LeaveInv, GameStartInv, IssueInv
<1>5. ASSUME NEW p \in Player, NEW c \in Connection, MatchStart(p, c) PROVE LeaderInv'
  BY <1>1, <1>5, MatchStartInv
<1>6. ASSUME NEW c \in Connection,
             \/ JoinMatch(c) \/ LoadComplete(c) \/ TellOn(c) \/ MatchLeave(c) \/ MatchDrop(c)
             \/ BeginRound(c) \/ TimeOut(c) \/ TellRound(c) \/ TellOver(c) \/ Death(c)
      PROVE  LeaderInv'
  BY <1>1, <1>6, MatchInv, MatchDropInv, DeathInv
<1> QED
  BY <1>1, <1>2, <1>3, <1>4, <1>5, <1>6 DEF Next

(***************************************************************************)
(* LeaderInv holds always: a listed room has somebody in it, and whoever   *)
(* sits in a room or is about to does so after it was created, for any     *)
(* number of players, rooms and connections.                               *)
(***************************************************************************)
THEOREM LeaderInvariant == Spec => []LeaderInv
<1>1. Init => LeaderInv
  BY InitInv
<1>2. LeaderInv /\ [Next]_vars => LeaderInv'
  BY NextInv
<1> QED
  BY <1>1, <1>2, PTL DEF Spec

(***************************************************************************)
(* LeaderIsCreator: gameStart and soloStartOnReady take whoever has the    *)
(* first seat's id for the leader, and in a listed room that is never      *)
(* anybody but who created it, though ids are given out again.             *)
(***************************************************************************)
THEOREM LeaderAlwaysCreator == Spec => []LeaderIsCreator
<1>1. LeaderInv => LeaderIsCreator
  BY DEF LeaderInv
<1> QED
  BY <1>1, LeaderInvariant, PTL

-----------------------------------------------------------------------------
(***************************************************************************)
(* The types of a match.                                                   *)
(***************************************************************************)
LEMMA InitTyped == Init => MatchTyped
<1> SUFFICES ASSUME Init PROVE MatchTyped
  OBVIOUS
<1>1. <<>> \in Seq(Player)
  OBVIOUS
<1>2. Untold \in Knowledge /\ Unused \in Bond /\ NoAdvert \in Advert
  BY <1>1, MatchAssumption DEF Untold, Knowledge, Unused, Bond, NoAdvert, Advert
<1> QED
  BY <1>2, MatchAssumption DEF Init, MatchTyped, Duty

(***************************************************************************)
(* The steps of the waiting rooms leave what belongs to a match alone.     *)
(***************************************************************************)
LEMMA LobbyStepTyped ==
    ASSUME MatchTyped, LeaderInv,
           UNCHANGED <<round, tickets, issued, advert, conn, joined, loaded, client>>,
           \A p \in Player : lobby'[p].seat \in 0 .. MaxSeatID,
           \A c \in Connection : todo'[c] = todo[c]
    PROVE  MatchTyped'
BY DEF MatchTyped

LEMMA SeatedTyped ==
    ASSUME MatchTyped, LeaderInv, NEW p \in Player,
           NEW r \in Room, NEW u \in Seq(SeatRow), NextID(u) <= MaxSeatID,
           Seated(p, r, AddUser(u, p)),
           \A c \in Connection : todo'[c] = todo[c]
    PROVE  MatchTyped'
<1>1. PICK v : v = AddUser(u, p)
  OBVIOUS
<1>2. NextID(u) \in Nat
  BY SeatsNumbered, NextIDFresh
<1>3. v[Len(v)].id = NextID(u)
  <2>1. PICK e : e = [id |-> NextID(u), who |-> p, kills |-> 0, deaths |-> 0]
    OBVIOUS
  <2>2. e \in SeatRow /\ e.id = NextID(u)
    BY <2>1, SeatsNumbered, NextIDFresh DEF SeatRow
  <2> QED
    BY <1>1, <2>1, <2>2, AppendKeeps DEF AddUser
<1>4. lobby' = [lobby EXCEPT ![p] = [room |-> r, seat |-> NextID(u)]]
  BY <1>1, <1>3 DEF Seated
<1>5. \A q \in Player : lobby'[q].seat \in 0 .. MaxSeatID
  BY <1>2, <1>4, MatchAssumption DEF MatchTyped, LeaderInv
<1> QED
  BY <1>5, LobbyStepTyped DEF Seated, ticketVars, matchVars

LEMMA TasksTyped ==
    ASSUME LeaderInv, NEW p \in Player, todo[p] # <<>>
    PROVE  /\ Head(todo[p]) \in Task
           /\ Head(todo[p]).room \in Room
           /\ Head(todo[p]).do = "issue" => Head(todo[p]).left \subseteq Player
<1>1. todo[p] \in Seq(Task)
  BY DEF LeaderInv
<1>2. Head(todo[p]) \in Task
  BY <1>1
<1> QED
  BY <1>2 DEF Task

LEMMA LobbyTyped ==
    ASSUME MatchTyped, LeaderInv, NEW p \in Player,
           \/ \E r \in Room : Create(p, r) \/ JoinFind(p, r)
           \/ JoinAddUser(p) \/ Leave(p) \/ GameStart(p)
    PROVE  MatchTyped'
<1> \A c \in Connection : c # p
  BY MatchAssumption
<1>1. ASSUME NEW r \in Room, Create(p, r) PROVE MatchTyped'
  <2>1. <<>> \in Seq(SeatRow) /\ NextID(<<>>) <= MaxSeatID
    <3>1. IDs(<<>>) = {}
      BY DEF IDs
    <3>2. Max({0} \cup {}) = 0
      BY DEF Max
    <3>3. Max({0} \cup IDs(<<>>)) = 0
      BY <3>1, <3>2, Zenon
    <3>4. NextID(<<>>) = 1
      BY <3>2, <3>3 DEF NextID, Highest
    <3> QED
      BY <3>4, MatchAssumption
  <2> QED
    BY <1>1, <2>1, SeatedTyped DEF Create
<1>2. ASSUME NEW r \in Room, JoinFind(p, r) PROVE MatchTyped'
  BY <1>2, LobbyStepTyped DEF JoinFind, roomVars, ticketVars, matchVars, LeaderInv, MatchTyped
<1>3. CASE JoinAddUser(p)
  <2>1. PICK r : r = Head(todo[p]).room
    OBVIOUS
  <2>2. r \in Room /\ users[r] \in Seq(SeatRow)
    BY <1>3, <2>1, TasksTyped DEF JoinAddUser, Idle, LeaderInv
  <2> QED
    BY <1>3, <2>1, <2>2, SeatedTyped DEF JoinAddUser, LeaderInv
<1>4. CASE Leave(p)
  BY <1>4, LobbyStepTyped DEF Leave, ticketVars, matchVars, LeaderInv, MatchTyped
<1>5. CASE GameStart(p)
  BY <1>5, LobbyStepTyped DEF GameStart, roomVars, ticketVars, matchVars, LeaderInv, MatchTyped
<1> QED
  BY <1>1, <1>2, <1>3, <1>4, <1>5

LEMMA TicketTyped == ASSUME MatchTyped PROVE Ticket \in 0 .. MaxTicket
BY MatchAssumption DEF Ticket, MatchTyped

LEMMA IssueTyped == ASSUME MatchTyped, LeaderInv, NEW p \in Player, Issue(p) PROVE MatchTyped'
<1>1. PICK w : w = Head(todo[p])
  OBVIOUS
<1>2. w.room \in Room /\ w.left \subseteq Player
  BY <1>1, TasksTyped DEF Issue, Idle
<1>3. PICK q \in w.left :
        /\ tickets' = [tickets EXCEPT ![<<Ticket, lobby[q].seat>>] = w.room]
        /\ issued' = issued + 1
        /\ advert' = [advert EXCEPT ![q] =
                         [ticket |-> Ticket, seat |-> lobby[q].seat, room |-> w.room,
                          at |-> issued + 1]]
        /\ \E items : todo' = [todo EXCEPT ![p] = items]
  BY <1>1 DEF Issue
<1>4. \A c \in Connection : todo'[c] = todo[c]
  BY <1>3, MatchAssumption DEF LeaderInv
<1>5. tickets' \in [(0 .. MaxTicket) \X (0 .. MaxSeatID) -> Room \cup {NoRoom}]
  BY <1>2, <1>3 DEF MatchTyped
<1>6. [ticket |-> Ticket, seat |-> lobby[q].seat, room |-> w.room, at |-> issued + 1] \in Advert
  <2>1. PICK t, seat, n : t = Ticket /\ seat = lobby[q].seat /\ n = issued + 1
    OBVIOUS
  <2>2. t \in 0 .. MaxTicket /\ seat \in 0 .. MaxSeatID /\ n \in Nat
    BY <1>2, <2>1, TicketTyped DEF MatchTyped
  <2>3. [ticket |-> t, seat |-> seat, room |-> w.room, at |-> n] \in Advert
    BY <1>2, <2>2 DEF Advert
  <2> QED
    BY <2>1, <2>3
<1>7. advert' \in [Player -> Advert] /\ issued' \in Nat
  <2>1. PICK a \in Advert : advert' = [advert EXCEPT ![q] = a]
    BY <1>3, <1>6
  <2>2. advert \in [Player -> Advert] /\ issued + 1 \in Nat
    BY DEF MatchTyped
  <2> QED
    BY <1>3, <2>1, <2>2
<1>8. UNCHANGED <<round, lobby, conn, joined, loaded, client>>
  BY DEF Issue, roomVars, matchVars
<1> QED
  BY <1>4, <1>5, <1>7, <1>8 DEF MatchTyped

(***************************************************************************)
(* The steps of a match connection.                                        *)
(***************************************************************************)
LEMMA RosterTyped ==
    ASSUME LeaderInv, NEW r \in Room
    PROVE  Roster(r) \in Seq(Player)
<1>1. users[r] \in Seq(SeatRow)
  BY DEF LeaderInv
<1>2. ASSUME NEW i \in 1 .. Len(users[r]) PROVE users[r][i].who \in Player
  <2>1. users[r][i] \in SeatRow
    BY <1>1
  <2> QED
    BY <2>1 DEF SeatRow
<1>3. Roster(r) = [i \in 1 .. Len(users[r]) |-> users[r][i].who]
  BY <1>1 DEF Roster
<1> QED
  BY <1>1, <1>2, <1>3

LEMMA PlayingTyped ==
    ASSUME MatchTyped, NEW c \in Connection, conn[c].alive \/ todo[c] # <<>> \/ Playing(c)
    PROVE  conn[c].room \in Room /\ conn[c].who \in Player /\ conn[c] # Unused
<1>1. ~ Unused.alive /\ Unused.room \notin Room
  BY MatchAssumption DEF Unused
<1> QED
  BY <1>1 DEF MatchTyped, Playing

LEMMA MatchStartTyped ==
    ASSUME MatchTyped, LeaderInv, NEW p \in Player, NEW c \in Connection, MatchStart(p, c)
    PROVE  MatchTyped'
<1>1. PICK a, r : a = advert[p] /\ r = tickets[<<a.ticket, a.seat>>]
  OBVIOUS
<1>2. a.ticket \in 0 .. MaxTicket /\ a.seat \in 0 .. MaxSeatID
  BY <1>1 DEF MatchTyped, Advert
<1>3. r \in Room
  BY <1>1, <1>2 DEF MatchStart, MatchTyped
<1>4. PICK b : b = [who |-> p, room |-> r, seat |-> a.seat, alive |-> TRUE]
  OBVIOUS
<1>5. b \in Bond /\ b.room \in Room /\ b.who \in Player
  BY <1>2, <1>3, <1>4 DEF Bond
<1>6. /\ conn' = [conn EXCEPT ![c] = b]
      /\ todo' = [todo EXCEPT ![c] = <<"join">>]
      /\ UNCHANGED <<lobby, round, tickets, issued, advert, joined, loaded, client>>
  BY <1>1, <1>4 DEF MatchStart, roomVars, ticketVars
<1> QED
  BY <1>5, <1>6 DEF MatchTyped, LeaderInv, Duty

LEMMA JoinMatchTyped ==
    ASSUME MatchTyped, LeaderInv, NEW c \in Connection, JoinMatch(c)
    PROVE  MatchTyped'
<1>1. conn[c].room \in Room /\ conn[c].who \in Player /\ conn[c] # Unused
  BY PlayingTyped DEF JoinMatch
<1>2. PICK roster \in Seq(Player) : roster = Roster(conn[c].room)
  BY <1>1, RosterTyped
<1>3. [client[c] EXCEPT !.roster = roster] \in Knowledge
  BY DEF Knowledge, MatchTyped
<1>4. /\ joined' = [joined EXCEPT ![conn[c].room] = @ \cup {c}]
      /\ client' = [client EXCEPT ![c] = [client[c] EXCEPT !.roster = roster]]
      /\ todo' = [todo EXCEPT ![c] = <<>>]
      /\ UNCHANGED <<lobby, round, tickets, issued, advert, conn, loaded>>
  BY <1>2 DEF JoinMatch, roomVars, ticketVars
<1>5. joined' \in [Room -> SUBSET Connection]
  BY <1>4 DEF MatchTyped
<1>6. client' \in [Connection -> Knowledge]
  BY <1>3, <1>4 DEF MatchTyped
<1> QED
  BY <1>1, <1>4, <1>5, <1>6 DEF MatchTyped, LeaderInv, Duty

LEMMA LoadingTyped ==
    ASSUME MatchTyped, LeaderInv, NEW c \in Connection,
           LoadComplete(c) \/ MatchLeave(c) \/ MatchDrop(c) \/ Death(c)
    PROVE  MatchTyped'
<1>1. conn[c].room \in Room /\ conn[c].who \in Player /\ conn[c] # Unused
  BY PlayingTyped DEF LoadComplete, MatchLeave, MatchDrop, Death
<1>2. CASE LoadComplete(c)
  <2>1. PICK duty \in Duty : todo' = [todo EXCEPT ![c] = duty]
    BY <1>2 DEF LoadComplete, Duty
  <2> QED
    BY <1>1, <1>2, <2>1 DEF LoadComplete, roomVars, ticketVars, MatchTyped, LeaderInv
<1>3. CASE MatchLeave(c)
  BY <1>1, <1>3 DEF MatchLeave, roomVars, ticketVars, MatchTyped
<1>4. CASE MatchDrop(c)
  <2>1. PICK b : b = [conn[c] EXCEPT !.alive = FALSE]
    OBVIOUS
  <2>2. b \in Bond /\ b.room \in Room /\ b.who \in Player
    BY <1>1, <2>1 DEF MatchTyped, Bond
  <2>3. /\ conn' = [conn EXCEPT ![c] = b]
        /\ UNCHANGED <<round, lobby, tickets, issued, advert, joined, loaded, client, todo>>
    BY <1>4, <2>1 DEF MatchDrop, ticketVars
  <2> QED
    BY <2>2, <2>3 DEF MatchTyped
<1>5. CASE Death(c)
  BY <1>5 DEF Death, ticketVars, matchVars, MatchTyped
<1> QED
  BY <1>2, <1>3, <1>4, <1>5

LEMMA BegunTyped ==
    ASSUME MatchTyped, NEW r \in Room
    PROVE  Begun(r) \in Nat \ {0} /\ (round[r] # 0 => Begun(r) = round[r])
BY DEF MatchTyped, Begun

LEMMA RoundTyped ==
    ASSUME MatchTyped, LeaderInv, NEW c \in Connection, BeginRound(c) \/ TimeOut(c)
    PROVE  MatchTyped'
<1>1. conn[c].room \in Room /\ conn[c].who \in Player /\ conn[c] # Unused
  BY PlayingTyped DEF BeginRound, TimeOut
<1>2. Begun(conn[c].room) \in Nat /\ Begun(conn[c].room) + 1 \in Nat
  BY <1>1, BegunTyped
<1>3. \E n \in Nat : round' = [round EXCEPT ![conn[c].room] = n]
  BY <1>2 DEF BeginRound, TimeOut
<1>4. \A n \in Nat : <<"tellRound", n>> \in Duty
  BY DEF Duty
<1>5. <<"tellOver">> \in Duty
  BY DEF Duty
<1>6. PICK duty \in Duty : todo' = [todo EXCEPT ![c] = duty]
  BY <1>2, <1>4, <1>5 DEF BeginRound, TimeOut
<1>7. UNCHANGED <<lobby, tickets, issued, advert, conn, joined, loaded, client>>
  BY DEF BeginRound, TimeOut, ticketVars, matchVars
<1> QED
  BY <1>1, <1>3, <1>6, <1>7 DEF MatchTyped, LeaderInv

(***************************************************************************)
(* What a step in which connections are told something may have changed.   *)
(***************************************************************************)
Heard(c) ==
    /\ conn[c].room \in Room
    /\ todo' = [todo EXCEPT ![c] = <<>>]
    /\ client' \in [Connection -> Knowledge]
    /\ \A d \in Connection :
         /\ client'[d].roster = client[d].roster
         /\ client[d].on => client'[d].on
         /\ d \notin joined[conn[c].room] => client'[d] = client[d]
    /\ UNCHANGED <<users, open, round, lobby, tickets, issued, advert, conn, joined, loaded,
                   creator, changed, deserted, feats, leaves>>

LEMMA TellingIsHeard ==
    ASSUME MatchTyped, NEW c \in Connection, TellOn(c) \/ TellRound(c) \/ TellOver(c)
    PROVE  Heard(c)
<1>1. conn[c].room \in Room
  BY PlayingTyped DEF TellOn, TellRound, TellOver
<1>2. /\ todo' = [todo EXCEPT ![c] = <<>>]
      /\ UNCHANGED <<users, open, round, lobby, tickets, issued, advert, conn, joined, loaded,
                     creator, changed, deserted, feats, leaves>>
  BY DEF TellOn, TellRound, TellOver, roomVars, ticketVars, history
<1>3. ASSUME NEW n \in Nat, NEW k \in Knowledge
      PROVE  /\ [k EXCEPT !.on = TRUE] \in Knowledge
             /\ [k EXCEPT !.round = n] \in Knowledge
             /\ [k EXCEPT !.over = TRUE] \in Knowledge
  BY DEF Knowledge
<1>4. todo[c] # <<>> /\ todo[c][1] = "tellRound" => todo[c][2] \in Nat
  BY DEF MatchTyped, Duty
<1>5. /\ client' = [d \in Connection |-> client'[d]]
      /\ \A d \in Connection :
            \/ client'[d] = client[d]
            \/ /\ d \in joined[conn[c].room]
               /\ \/ client'[d] = [client[d] EXCEPT !.on = TRUE]
                  \/ \E n \in Nat : client'[d] = [client[d] EXCEPT !.round = n]
                  \/ client'[d] = [client[d] EXCEPT !.over = TRUE]
  BY <1>4 DEF TellOn, TellRound, TellOver, Hear
<1>6. ASSUME NEW d \in Connection
      PROVE  /\ client'[d] \in Knowledge
             /\ client'[d].roster = client[d].roster
             /\ client[d].on => client'[d].on
  <2>1. client[d] \in Knowledge
    BY DEF MatchTyped
  <2>2. ASSUME NEW n \in Nat
        PROVE  /\ [client[d] EXCEPT !.on = TRUE].roster = client[d].roster
               /\ [client[d] EXCEPT !.on = TRUE].on
               /\ [client[d] EXCEPT !.round = n].roster = client[d].roster
               /\ [client[d] EXCEPT !.round = n].on = client[d].on
               /\ [client[d] EXCEPT !.over = TRUE].roster = client[d].roster
               /\ [client[d] EXCEPT !.over = TRUE].on = client[d].on
    BY <2>1 DEF Knowledge
  <2>3. CASE client'[d] = client[d]
    BY <2>1, <2>3
  <2>4. CASE client'[d] = [client[d] EXCEPT !.on = TRUE]
    BY <1>3, <2>1, <2>2, <2>4
  <2>5. CASE \E n \in Nat : client'[d] = [client[d] EXCEPT !.round = n]
    BY <1>3, <2>1, <2>2, <2>5
  <2>6. CASE client'[d] = [client[d] EXCEPT !.over = TRUE]
    BY <1>3, <2>1, <2>2, <2>6
  <2> QED
    BY <1>5, <2>3, <2>4, <2>5, <2>6
<1> QED
  BY <1>1, <1>2, <1>5, <1>6 DEF Heard

LEMMA HeardTyped ==
    ASSUME MatchTyped, LeaderInv, LoadInv, NEW c \in Connection, Heard(c)
    PROVE  MatchTyped'
<1>1. Unused.room \notin Room
  BY MatchAssumption DEF Unused
<1>2. ASSUME NEW d \in Connection
      PROVE  /\ todo'[d] \in Duty
             /\ \/ conn[d] = Unused /\ todo'[d] = <<>> /\ client'[d] = Untold
                \/ conn[d].room \in Room /\ conn[d].who \in Player
  <2>1. \/ conn[d] = Unused /\ todo[d] = <<>> /\ client[d] = Untold
        \/ conn[d].room \in Room /\ conn[d].who \in Player
    BY DEF MatchTyped
  <2>2. todo'[d] = todo[d] \/ todo'[d] = <<>>
    BY DEF Heard, LeaderInv
  <2>3. todo'[d] \in Duty
    BY <2>2 DEF Duty, MatchTyped
  <2>4. conn[d] = Unused => client'[d] = client[d]
    BY <1>1 DEF Heard, LoadInv, Entered
  <2> QED
    BY <2>1, <2>2, <2>3, <2>4
<1> QED
  BY <1>2 DEF Heard, MatchTyped

-----------------------------------------------------------------------------
(***************************************************************************)
(* Loading.  A step that neither lets anybody into a match nor takes       *)
(* anybody out, and after which all that were about to tell the rest still *)
(* are, keeps LoadInv.                                                     *)
(***************************************************************************)
LEMMA LoadStep ==
    ASSUME LoadInv, MatchTyped, UNCHANGED <<joined, loaded>>, deserted \subseteq deserted',
           \A d \in Connection :
              /\ conn'[d].room = conn[d].room
              /\ client[d].on => client'[d].on
              /\ todo'[d] = todo[d] \/ (todo[d] # <<"tellOn">> /\ todo'[d] # <<"join">>)
    PROVE  LoadInv'
<1>1. joined \in [Room -> SUBSET Connection]
  BY DEF MatchTyped
<1>2. Entered'
  BY <1>1 DEF LoadInv, Entered
<1>3. ASSUME NEW r \in Room \ deserted' PROVE WillHear(r)'
  <2>1. WillHear(r)
    BY <1>3 DEF LoadInv
  <2> QED
    BY <1>1, <2>1 DEF WillHear
<1> QED
  BY <1>2, <1>3 DEF LoadInv

LEMMA LobbyLoad ==
    ASSUME LoadInv, MatchTyped, LeaderInv, NEW p \in Player,
           \/ \E r \in Room : Create(p, r) \/ JoinFind(p, r)
           \/ JoinAddUser(p) \/ Leave(p) \/ GameStart(p) \/ Issue(p)
    PROVE  LoadInv'
<1>1. \A d \in Connection : d # p
  BY MatchAssumption
<1>2. UNCHANGED <<joined, loaded, deserted, conn, client>>
  BY DEF Create, JoinFind, JoinAddUser, Leave, GameStart, Issue, Seated, matchVars, history
<1>3. UNCHANGED todo \/ \E items : todo' = [todo EXCEPT ![p] = items]
  <2>1. CASE \E r \in Room : Create(p, r) \/ JoinFind(p, r)
    BY <2>1 DEF Create, JoinFind
  <2>2. CASE JoinAddUser(p) \/ Leave(p)
    BY <2>2 DEF JoinAddUser, Leave
  <2>3. CASE GameStart(p) \/ Issue(p)
    BY <2>3 DEF GameStart, Issue
  <2> QED
    BY <2>1, <2>2, <2>3
<1>4. \A d \in Connection : todo'[d] = todo[d]
  BY <1>1, <1>3 DEF LeaderInv
<1> QED
  BY <1>2, <1>4, LoadStep

LEMMA MatchStartLoad ==
    ASSUME LoadInv, MatchTyped, LeaderInv, NEW p \in Player, NEW c \in Connection, MatchStart(p, c)
    PROVE  LoadInv'
<1>1. conn[c] = Unused /\ todo[c] = <<>> /\ \A r \in Room : conn[c].room # r
  <2>1. Unused.room \notin Room
    BY MatchAssumption DEF Unused
  <2> QED
    BY <2>1 DEF MatchStart, MatchTyped
<1>2. /\ \E b : conn' = [conn EXCEPT ![c] = b]
      /\ todo' = [todo EXCEPT ![c] = <<"join">>]
      /\ UNCHANGED <<joined, loaded, client, deserted>>
  BY DEF MatchStart, history
<1>3. \A r \in Room : c \notin joined[r]
  BY <1>1 DEF LoadInv, Entered
<1>4. \A d \in Connection : d # c => conn'[d] = conn[d] /\ todo'[d] = todo[d]
  BY <1>2 DEF MatchTyped, LeaderInv
<1>5. joined \in [Room -> SUBSET Connection]
  BY DEF MatchTyped
<1>6. Entered'
  BY <1>2, <1>3, <1>4, <1>5 DEF LoadInv, Entered
<1>7. ASSUME NEW r \in Room \ deserted' PROVE WillHear(r)'
  <2>1. WillHear(r) /\ todo[c] # <<"tellOn">>
    BY <1>1, <1>2, <1>7 DEF LoadInv
  <2> QED
    BY <1>2, <1>4, <2>1 DEF WillHear
<1> QED
  BY <1>6, <1>7 DEF LoadInv

LEMMA JoinMatchLoad ==
    ASSUME LoadInv, MatchTyped, LeaderInv, NEW c \in Connection, JoinMatch(c)
    PROVE  LoadInv'
<1>1. PICK x : x = conn[c].room
  OBVIOUS
<1>2. x \in Room
  BY <1>1, PlayingTyped DEF JoinMatch
<1>3. /\ todo[c] = <<"join">>
      /\ joined' = [joined EXCEPT ![x] = @ \cup {c}]
      /\ client' = [client EXCEPT ![c] = [client[c] EXCEPT !.roster = Roster(x)]]
      /\ todo' = [todo EXCEPT ![c] = <<>>]
      /\ UNCHANGED <<conn, loaded, deserted>>
  BY <1>1 DEF JoinMatch, history
<1>4. c \notin loaded
  BY <1>3 DEF LoadInv, Entered
<1>5. /\ \A r \in Room : joined'[r] = IF r = x THEN joined[r] \cup {c} ELSE joined[r]
      /\ \A d \in Connection : d # c => client'[d] = client[d] /\ todo'[d] = todo[d]
      /\ todo'[c] = <<>>
  BY <1>3 DEF MatchTyped, LeaderInv
<1>6. \A r \in Room : joined[r] \subseteq Connection
  BY DEF MatchTyped
<1>7. Entered'
  BY <1>1, <1>3, <1>5 DEF LoadInv, Entered
<1>8. ASSUME NEW r \in Room \ deserted' PROVE WillHear(r)'
  <2>1. WillHear(r)
    BY <1>3, <1>8 DEF LoadInv
  <2>2. CASE r = x
    <3>1. c \in joined'[r] /\ c \notin loaded'
      BY <1>3, <1>4, <1>5, <1>8, <2>2
    <3> QED
      BY <3>1 DEF WillHear
  <2>3. CASE r # x
    <3>1. joined'[r] = joined[r] /\ c \notin joined[r]
      BY <1>1, <1>5, <2>3 DEF LoadInv, Entered
    <3> QED
      BY <1>3, <1>5, <1>6, <2>1, <3>1 DEF WillHear
  <2> QED
    BY <2>2, <2>3
<1> QED
  BY <1>7, <1>8 DEF LoadInv

LEMMA LoadCompleteLoad ==
    ASSUME LoadInv, MatchTyped, LeaderInv, NEW c \in Connection, LoadComplete(c)
    PROVE  LoadInv'
<1>1. PICK x : x = conn[c].room
  OBVIOUS
<1>2. x \in Room
  BY <1>1, PlayingTyped DEF LoadComplete
<1>3. /\ todo[c] = <<>>
      /\ c \in joined[x]
      /\ loaded' = loaded \cup {c}
      /\ todo' = [todo EXCEPT ![c] =
                     IF joined[x] \subseteq loaded \cup {c} THEN <<"tellOn">> ELSE <<>>]
      /\ UNCHANGED <<conn, joined, client, deserted>>
  BY <1>1 DEF LoadComplete, Complete, Playing, history
<1>4. /\ \A d \in Connection : d # c => todo'[d] = todo[d]
      /\ todo'[c] = IF joined[x] \subseteq loaded \cup {c} THEN <<"tellOn">> ELSE <<>>
  BY <1>3 DEF LeaderInv
<1>5. todo'[c] # <<"join">>
  BY <1>4
<1>6. Entered'
  BY <1>2, <1>3, <1>4, <1>5 DEF LoadInv, Entered
<1>7. ASSUME NEW r \in Room \ deserted' PROVE WillHear(r)'
  <2>1. WillHear(r)
    BY <1>3, <1>7 DEF LoadInv
  <2>2. CASE r = x
    BY <1>1, <1>3, <1>4, <2>2 DEF WillHear
  <2>3. CASE r # x
    <3>1. c \notin joined[r]
      BY <1>1, <2>3 DEF LoadInv, Entered
    <3>2. joined[r] \subseteq loaded' => joined[r] \subseteq loaded
      BY <1>3, <3>1
    <3>3. todo[c] # <<"tellOn">>
      BY <1>3
    <3> QED
      BY <1>3, <1>4, <2>1, <3>2, <3>3 DEF WillHear
  <2> QED
    BY <2>2, <2>3
<1> QED
  BY <1>6, <1>7 DEF LoadInv

LEMMA TellOnLoad ==
    ASSUME LoadInv, MatchTyped, LeaderInv, NEW c \in Connection, TellOn(c)
    PROVE  LoadInv'
<1>1. Heard(c)
  BY TellingIsHeard
<1>2. PICK x : x = conn[c].room
  OBVIOUS
<1>3. /\ UNCHANGED <<conn, joined, loaded, deserted>>
      /\ \A d \in Connection : todo'[d] = IF d = c THEN <<>> ELSE todo[d]
      /\ \A d \in Connection : client[d].on => client'[d].on
  BY <1>1 DEF Heard, LeaderInv
<1>4. \A d \in joined[x] : client'[d].on
  <2>1. ASSUME NEW d \in joined[x] PROVE client'[d].on
    <3>1. d \in Connection
      BY <1>1, <1>2 DEF Heard, MatchTyped
    <3>2. client[d] \in Knowledge
      BY <3>1 DEF MatchTyped
    <3>3. client'[d] = [client[d] EXCEPT !.on = TRUE]
      BY <1>2, <2>1, <3>1 DEF TellOn, Hear
    <3> QED
      BY <3>2, <3>3 DEF Knowledge
  <2> QED
    BY <2>1
<1>5. <<"join">> # <<>>
  OBVIOUS
<1>6. Entered'
  BY <1>3, <1>5 DEF LoadInv, Entered
<1>7. ASSUME NEW r \in Room \ deserted' PROVE WillHear(r)'
  <2>1. WillHear(r) /\ joined[r] \subseteq Connection
    BY <1>3, <1>7 DEF LoadInv, MatchTyped
  <2>2. CASE r = x
    BY <1>3, <1>4, <2>2 DEF WillHear
  <2>3. CASE r # x
    BY <1>2, <1>3, <2>1, <2>3 DEF WillHear
  <2> QED
    BY <2>2, <2>3
<1> QED
  BY <1>6, <1>7 DEF LoadInv

LEMMA MatchLeaveLoad ==
    ASSUME LoadInv, MatchTyped, LeaderInv, NEW c \in Connection, MatchLeave(c)
    PROVE  LoadInv'
<1>1. PICK x : x = conn[c].room
  OBVIOUS
<1>2. /\ joined' = [joined EXCEPT ![x] = @ \ {c}]
      /\ loaded' = loaded \ {c}
      /\ deserted' = deserted \cup {x}
      /\ UNCHANGED <<conn, client, todo>>
  BY <1>1 DEF MatchLeave
<1>3. \A r \in Room : /\ joined'[r] = IF r = x THEN joined[r] \ {c} ELSE joined[r]
                      /\ r # x => c \notin joined[r]
  BY <1>1, <1>2 DEF MatchTyped, LoadInv, Entered
<1>4. Entered'
  BY <1>2, <1>3 DEF LoadInv, Entered
<1>5. ASSUME NEW r \in Room \ deserted' PROVE WillHear(r)'
  <2>1. WillHear(r) /\ joined'[r] = joined[r] /\ c \notin joined[r]
    BY <1>2, <1>3, <1>5 DEF LoadInv
  <2> QED
    BY <1>2, <2>1 DEF WillHear
<1> QED
  BY <1>4, <1>5 DEF LoadInv

LEMMA OtherLoad ==
    ASSUME LoadInv, MatchTyped, LeaderInv, NEW c \in Connection,
           \/ MatchDrop(c) \/ BeginRound(c) \/ TimeOut(c) \/ Death(c)
           \/ TellRound(c) \/ TellOver(c)
    PROVE  LoadInv'
<1>1. CASE MatchDrop(c)
  <2>1. /\ UNCHANGED <<joined, loaded, client, todo>> /\ deserted \subseteq deserted'
        /\ conn' = [conn EXCEPT ![c].alive = FALSE]
    BY <1>1 DEF MatchDrop
  <2>2. \A d \in Connection : conn'[d].room = conn[d].room
    BY <2>1 DEF MatchTyped, Bond
  <2> QED
    BY <2>1, <2>2, LoadStep
<1>2. CASE BeginRound(c) \/ TimeOut(c)
  <2>1. /\ UNCHANGED <<joined, loaded, client, conn, deserted>>
        /\ todo[c] = <<>>
    BY <1>2 DEF BeginRound, TimeOut, Playing, matchVars, history
  <2>2. PICK item : todo' = [todo EXCEPT ![c] = item] /\ item # <<"join">>
    BY <1>2 DEF BeginRound, TimeOut
  <2>3. <<"tellOn">> # <<>>
    OBVIOUS
  <2>4. \A d \in Connection :
          todo'[d] = todo[d] \/ (todo[d] # <<"tellOn">> /\ todo'[d] # <<"join">>)
    BY <2>1, <2>2, <2>3 DEF LeaderInv
  <2> QED
    BY <2>1, <2>4, LoadStep
<1>3. CASE Death(c)
  BY <1>3, LoadStep DEF Death, matchVars
<1>4. CASE TellRound(c) \/ TellOver(c)
  <2>1. Heard(c)
    BY <1>4, TellingIsHeard
  <2>2. todo[c] # <<"tellOn">> /\ <<"join">> # <<>>
    BY <1>4 DEF TellRound, TellOver
  <2>3. \A d \in Connection :
          todo'[d] = todo[d] \/ (todo[d] # <<"tellOn">> /\ todo'[d] # <<"join">>)
    BY <2>1, <2>2 DEF Heard, LeaderInv
  <2> QED
    BY <2>1, <2>3, LoadStep DEF Heard
<1> QED
  BY <1>1, <1>2, <1>3, <1>4

LEMMA LoadingInit == Init => MatchTyped /\ LoadInv
<1>1. SUFFICES ASSUME Init PROVE LoadInv
  BY InitTyped
<1>2. /\ joined = [r \in Room |-> {}]
      /\ loaded = {}
      /\ \A c \in Connection : todo[c] = <<>>
  BY <1>1 DEF Init
<1>3. <<"join">> # <<>>
  OBVIOUS
<1> QED
  BY <1>2, <1>3 DEF LoadInv, Entered, WillHear

LEMMA LoadingStep ==
    ASSUME MatchTyped, LoadInv, LeaderInv, [Next]_vars PROVE MatchTyped' /\ LoadInv'
<1>1. CASE UNCHANGED vars
  <2>1. UNCHANGED <<round, lobby, tickets, issued, advert, conn, joined, loaded, client, todo>>
    BY <1>1 DEF vars, roomVars, ticketVars, matchVars
  <2>2. UNCHANGED deserted
    BY <1>1 DEF vars, history
  <2>3. MatchTyped'
    BY <2>1 DEF MatchTyped
  <2>4. LoadInv'
    BY <2>1, <2>2, LoadStep
  <2> QED
    BY <2>3, <2>4
<1>2. ASSUME NEW p \in Player, NEW r \in Room, Create(p, r) \/ JoinFind(p, r)
      PROVE  MatchTyped' /\ LoadInv'
  BY <1>2, LobbyTyped, LobbyLoad
<1>3. ASSUME NEW p \in Player, JoinAddUser(p) \/ Leave(p) \/ GameStart(p)
      PROVE  MatchTyped' /\ LoadInv'
  BY <1>3, LobbyTyped, LobbyLoad
<1>4. ASSUME NEW p \in Player, Issue(p) PROVE MatchTyped' /\ LoadInv'
  BY <1>4, IssueTyped, LobbyLoad
<1>5. ASSUME NEW p \in Player, NEW c \in Connection, MatchStart(p, c)
      PROVE  MatchTyped' /\ LoadInv'
  BY <1>5, MatchStartTyped, MatchStartLoad
<1>6. ASSUME NEW c \in Connection, JoinMatch(c) PROVE MatchTyped' /\ LoadInv'
  BY <1>6, JoinMatchTyped, JoinMatchLoad
<1>7. ASSUME NEW c \in Connection, LoadComplete(c) PROVE MatchTyped' /\ LoadInv'
  BY <1>7, LoadingTyped, LoadCompleteLoad
<1>8. ASSUME NEW c \in Connection, MatchLeave(c) PROVE MatchTyped' /\ LoadInv'
  BY <1>8, LoadingTyped, MatchLeaveLoad
<1>9. ASSUME NEW c \in Connection, MatchDrop(c) \/ Death(c) PROVE MatchTyped' /\ LoadInv'
  BY <1>9, LoadingTyped, OtherLoad
<1>10. ASSUME NEW c \in Connection, BeginRound(c) \/ TimeOut(c) PROVE MatchTyped' /\ LoadInv'
  BY <1>10, RoundTyped, OtherLoad
<1>11. ASSUME NEW c \in Connection, TellOn(c) PROVE MatchTyped' /\ LoadInv'
  BY <1>11, TellingIsHeard, HeardTyped, TellOnLoad
<1>12. ASSUME NEW c \in Connection, TellRound(c) \/ TellOver(c) PROVE MatchTyped' /\ LoadInv'
  BY <1>12, TellingIsHeard, HeardTyped, OtherLoad
<1> QED
  BY <1>1, <1>2, <1>3, <1>4, <1>5, <1>6, <1>7, <1>8, <1>9, <1>10, <1>11, <1>12 DEF Next

LEMMA TypedAndLoaded == Spec => [](MatchTyped /\ LoadInv /\ LeaderInv)
<1>1. Init => MatchTyped /\ LoadInv /\ LeaderInv
  BY LoadingInit, InitInv
<1>2. MatchTyped /\ LoadInv /\ LeaderInv /\ [Next]_vars => (MatchTyped /\ LoadInv /\ LeaderInv)'
  BY LoadingStep, NextInv
<1> QED
  BY <1>1, <1>2, PTL DEF Spec

(***************************************************************************)
(* MatchTyped and LoadInv hold always: tickets stay within their width and *)
(* lead to rooms, a connection not in use has nothing to do; and whoever   *)
(* completes the loading of a match is still to tell the rest, unless all  *)
(* have been told.                                                         *)
(***************************************************************************)
THEOREM MatchTypeCorrect == Spec => []MatchTyped
BY TypedAndLoaded, PTL

THEOREM LoadInvariant == Spec => []LoadInv
BY TypedAndLoaded, PTL

(***************************************************************************)
(* AllLoadedHear: loadComplete reports the last arrival and tells the rest *)
(* in a step of its own; as long as nobody leaves, everybody has heard     *)
(* when all have loaded and the handlers are through, in whatever order    *)
(* they entered and loaded, and whoever entered in between.                *)
(***************************************************************************)
THEOREM AllLoadedAlwaysHear == Spec => []AllLoadedHear
<1>1. MatchTyped /\ LoadInv => AllLoadedHear
  <2> SUFFICES ASSUME MatchTyped, LoadInv, NEW r \in Room \ deserted,
                      joined[r] # {}, joined[r] \subseteq loaded,
                      \A c \in Connection : conn[c].room = r => todo[c] = <<>>
               PROVE  \A c \in joined[r] : client[c].on
    BY DEF AllLoadedHear
  <2>1. WillHear(r)
    BY DEF LoadInv
  <2>2. \A c \in Connection : conn[c].room = r => todo[c] # <<"tellOn">>
    OBVIOUS
  <2> QED
    BY <2>1, <2>2 DEF WillHear
<1> QED
  BY <1>1, TypedAndLoaded, PTL

-----------------------------------------------------------------------------
(***************************************************************************)
(* Rounds.  A step that neither moves a room on nor tells anybody of a     *)
(* round keeps RoundInv, whatever it gives a handler to do but that.       *)
(***************************************************************************)
Quiet(items) == (items # <<>> => items[1] # "tellRound") /\ items # <<"tellOver">>

LEMMA RoundStep ==
    ASSUME RoundInv, UNCHANGED round,
           \A c \in Connection :
              /\ client'[c].round = client[c].round /\ client'[c].over = client[c].over
              /\ \/ conn'[c].room = conn[c].room
                 \/ Quiet(todo'[c]) /\ ~ client[c].over
              /\ todo'[c] = todo[c] \/ Quiet(todo'[c])
    PROVE  RoundInv'
BY DEF RoundInv, RoundsKept, Quiet

LEMMA LobbyRounds ==
    ASSUME RoundInv, LeaderInv, NEW p \in Player,
           \/ \E r \in Room : Create(p, r) \/ JoinFind(p, r)
           \/ JoinAddUser(p) \/ Leave(p) \/ GameStart(p) \/ Issue(p)
    PROVE  RoundInv'
<1>1. \A d \in Connection : d # p
  BY MatchAssumption
<1>2. UNCHANGED <<round, conn, client>>
  BY DEF Create, JoinFind, JoinAddUser, Leave, GameStart, Issue, Seated, matchVars, roomVars
<1>3. UNCHANGED todo \/ \E items : todo' = [todo EXCEPT ![p] = items]
  <2>1. CASE \E r \in Room : Create(p, r) \/ JoinFind(p, r)
    BY <2>1 DEF Create, JoinFind
  <2>2. CASE JoinAddUser(p) \/ Leave(p)
    BY <2>2 DEF JoinAddUser, Leave
  <2>3. CASE GameStart(p) \/ Issue(p)
    BY <2>3 DEF GameStart, Issue
  <2> QED
    BY <2>1, <2>2, <2>3
<1>4. \A d \in Connection : todo'[d] = todo[d]
  BY <1>1, <1>3 DEF LeaderInv
<1> QED
  BY <1>2, <1>4, RoundStep

LEMMA MatchStartRounds ==
    ASSUME RoundInv, LeaderInv, MatchTyped,
           NEW p \in Player, NEW c \in Connection, MatchStart(p, c)
    PROVE  RoundInv'
<1>1. conn[c] = Unused /\ client[c] = Untold
  <2>1. Unused.room \notin Room
    BY MatchAssumption DEF Unused
  <2> QED
    BY <2>1 DEF MatchStart, MatchTyped
<1>2. ~ client[c].over
  BY <1>1 DEF Untold
<1>3. /\ \E b : conn' = [conn EXCEPT ![c] = b]
      /\ todo' = [todo EXCEPT ![c] = <<"join">>]
      /\ UNCHANGED <<round, client>>
  BY DEF MatchStart, roomVars
<1>4. Quiet(<<"join">>)
  BY DEF Quiet
<1>5. /\ todo'[c] = <<"join">>
      /\ \A d \in Connection : d # c => conn'[d] = conn[d] /\ todo'[d] = todo[d]
  BY <1>3 DEF MatchTyped, LeaderInv
<1> QED
  BY <1>2, <1>3, <1>4, <1>5, RoundStep

LEMMA OtherRounds ==
    ASSUME RoundInv, LeaderInv, MatchTyped, NEW c \in Connection,
           \/ JoinMatch(c) \/ LoadComplete(c) \/ TellOn(c)
           \/ MatchLeave(c) \/ MatchDrop(c) \/ Death(c)
    PROVE  RoundInv'
<1>1. Quiet(<<>>) /\ Quiet(<<"tellOn">>)
  <2>1. <<"tellOn">> # <<"tellOver">> /\ <<>> # <<"tellOver">>
    OBVIOUS
  <2> QED
    BY <2>1 DEF Quiet
<1>2. UNCHANGED round
  BY DEF JoinMatch, LoadComplete, TellOn, MatchLeave, MatchDrop, Death, roomVars
<1>3. \A d \in Connection : conn'[d].room = conn[d].room
  <2>1. CASE MatchDrop(c)
    <3>1. conn' = [conn EXCEPT ![c].alive = FALSE]
      BY <2>1 DEF MatchDrop
    <3> QED
      BY <3>1 DEF MatchTyped, Bond
  <2>2. CASE ~ MatchDrop(c)
    <3>1. UNCHANGED conn
      BY <2>2 DEF JoinMatch, LoadComplete, TellOn, MatchLeave, Death, matchVars
    <3> QED
      BY <3>1
  <2> QED
    BY <2>1, <2>2
<1>4. \A d \in Connection : todo'[d] = todo[d] \/ Quiet(todo'[d])
  <2>1. \/ UNCHANGED todo
        \/ todo' = [todo EXCEPT ![c] = <<>>]
        \/ todo' = [todo EXCEPT ![c] = <<"tellOn">>]
    BY DEF JoinMatch, LoadComplete, TellOn, MatchLeave, MatchDrop, Death
  <2> QED
    BY <1>1, <2>1 DEF LeaderInv
<1>5. \A d \in Connection :
        client'[d].round = client[d].round /\ client'[d].over = client[d].over
  <2>1. CASE JoinMatch(c)
    <3>1. client' = [client EXCEPT ![c].roster = Roster(conn[c].room)]
      BY <2>1 DEF JoinMatch
    <3> QED
      BY <3>1 DEF MatchTyped, Knowledge
  <2>2. CASE TellOn(c)
    <3>1. \A d \in Connection :
            client'[d] = client[d] \/ client'[d] = [client[d] EXCEPT !.on = TRUE]
      BY <2>2 DEF TellOn, Hear
    <3>2. \A d \in Connection : client[d] \in Knowledge
      BY DEF MatchTyped
    <3> QED
      BY <3>1, <3>2 DEF Knowledge
  <2>3. CASE LoadComplete(c) \/ MatchLeave(c) \/ MatchDrop(c) \/ Death(c)
    BY <2>3 DEF LoadComplete, MatchLeave, MatchDrop, Death, matchVars
  <2> QED
    BY <2>1, <2>2, <2>3
<1> QED
  BY <1>2, <1>3, <1>4, <1>5, RoundStep

(***************************************************************************)
(* A room moves on as long as it is not in its last round.                 *)
(***************************************************************************)
LEMMA MovingOn ==
    ASSUME RoundInv, LeaderInv, MatchTyped, NEW c \in Connection, BeginRound(c) \/ TimeOut(c)
    PROVE  RoundInv'
<1>1. PICK r : r = conn[c].room
  OBVIOUS
<1>2. r \in Room
  BY <1>1, PlayingTyped DEF BeginRound, TimeOut
<1>3. /\ Begun(r) \in Nat \ {0} /\ Begun(r) <= RoundLimit
      /\ round[r] \in Nat /\ RoundLimit \in Nat
      /\ round[r] = RoundLimit => Begun(r) = RoundLimit
  BY <1>2, MatchAssumption DEF Begun, MatchTyped, RoundInv
<1>4. PICK n, items :
        /\ n \in Nat
        /\ round' = [round EXCEPT ![r] = n]
        /\ todo' = [todo EXCEPT ![c] = items]
        /\ n <= RoundLimit
        /\ round[r] = RoundLimit => n = RoundLimit
        /\ \/ items = <<"tellRound", n>>
           \/ items = <<"tellOver">> /\ n = RoundLimit
  <2>1. CASE BeginRound(c)
    BY <1>1, <1>3, <2>1 DEF BeginRound
  <2>2. CASE TimeOut(c) /\ IsLast(r)
    <3>1. Begun(r) = RoundLimit
      BY <1>3, <2>2 DEF IsLast
    <3> QED
      BY <1>1, <1>3, <2>2, <3>1 DEF TimeOut
  <2>3. CASE TimeOut(c) /\ ~ IsLast(r)
    <3>1. Begun(r) + 1 \in Nat /\ Begun(r) + 1 <= RoundLimit /\ round[r] # RoundLimit
      BY <1>3, <2>3 DEF IsLast
    <3> QED
      BY <1>1, <1>3, <2>3, <3>1 DEF TimeOut
  <2> QED
    BY <2>1, <2>2, <2>3
<1>5. UNCHANGED <<conn, client>>
  BY DEF BeginRound, TimeOut, matchVars
<1>6. /\ round'[r] = n
      /\ \A x \in Room : x # r => round'[x] = round[x]
      /\ todo'[c] = items
      /\ \A d \in Connection : d # c => todo'[d] = todo[d]
  BY <1>2, <1>4 DEF MatchTyped, LeaderInv
<1>7. \A x : round[x] = RoundLimit => round'[x] = RoundLimit
  <2> TAKE x
  <2>1. CASE x = r
    BY <1>4, <1>6, <2>1
  <2>2. CASE x # r
    BY <1>4, <2>2 DEF MatchTyped
  <2> QED
    BY <2>1, <2>2
<1>8. items[1] = "tellRound" => items[2] <= RoundLimit
  BY <1>4
<1>9. items = <<"tellOver">> => n = RoundLimit
  BY <1>4
<1>10. RoundsKept'
  BY <1>5, <1>7 DEF RoundInv, RoundsKept
<1>11. \A x \in Room : round'[x] <= RoundLimit
  BY <1>4, <1>6 DEF RoundInv
<1>12. ASSUME NEW d \in Connection
       PROVE  /\ todo'[d] # <<>> /\ todo'[d][1] = "tellRound" => todo'[d][2] <= RoundLimit
              /\ todo'[d] = <<"tellOver">> => round'[conn'[d].room] = RoundLimit
  <2>1. CASE d = c
    BY <1>1, <1>5, <1>6, <1>8, <1>9, <2>1
  <2>2. CASE d # c
    BY <1>5, <1>6, <1>7, <2>2 DEF RoundInv
  <2> QED
    BY <2>1, <2>2
<1> QED
  BY <1>10, <1>11, <1>12 DEF RoundInv

LEMMA TellingRounds ==
    ASSUME RoundInv, LeaderInv, MatchTyped, LoadInv,
           NEW c \in Connection, TellRound(c) \/ TellOver(c)
    PROVE  RoundInv'
<1>1. PICK r : r = conn[c].room
  OBVIOUS
<1>2. /\ UNCHANGED <<round, conn>>
      /\ todo' = [todo EXCEPT ![c] = <<>>]
  BY DEF TellRound, TellOver, roomVars
<1>3. r \in Room
  BY <1>1, PlayingTyped DEF TellRound, TellOver
<1>4. \A d \in joined[r] : conn[d].room = r
  BY <1>3 DEF LoadInv, Entered
<1>5. \A d \in Connection : todo'[d] = todo[d] \/ todo'[d] = <<>>
  BY <1>2 DEF LeaderInv
<1>6. ASSUME NEW d \in Connection
      PROVE  /\ client'[d].round <= RoundLimit
             /\ client'[d].over => round[conn[d].room] = RoundLimit
  <2>1. /\ client[d] \in Knowledge /\ client[d].round <= RoundLimit
        /\ client[d].over => round[conn[d].room] = RoundLimit
    BY DEF MatchTyped, RoundInv, RoundsKept
  <2>2. CASE client'[d] = client[d]
    BY <2>1, <2>2
  <2>3. CASE TellRound(c) /\ client'[d] = [client[d] EXCEPT !.round = todo[c][2]]
    <3>1. todo[c][2] <= RoundLimit
      BY <2>3 DEF TellRound, RoundInv
    <3>2. client'[d].round = todo[c][2] /\ client'[d].over = client[d].over
      BY <2>1, <2>3 DEF Knowledge
    <3> QED
      BY <2>1, <3>1, <3>2
  <2>4. CASE TellOver(c) /\ d \in joined[r] /\ client'[d] = [client[d] EXCEPT !.over = TRUE]
    <3>1. round[conn[d].room] = RoundLimit
      BY <1>1, <1>4, <2>4 DEF TellOver, RoundInv
    <3>2. client'[d].round = client[d].round
      BY <2>1, <2>4 DEF Knowledge
    <3> QED
      BY <2>1, <3>1, <3>2
  <2> QED
    BY <1>1, <2>2, <2>3, <2>4 DEF TellRound, TellOver, Hear
<1>7. <<>> # <<"tellOver">>
  OBVIOUS
<1> QED
  BY <1>2, <1>5, <1>6, <1>7 DEF RoundInv, RoundsKept

LEMMA RoundNext ==
    ASSUME RoundInv, MatchTyped, LoadInv, LeaderInv, [Next]_vars PROVE RoundInv'
<1>1. CASE UNCHANGED vars
  BY <1>1 DEF vars, roomVars, matchVars, RoundInv, RoundsKept
<1>2. ASSUME NEW p \in Player,
             \/ \E r \in Room : Create(p, r) \/ JoinFind(p, r)
             \/ JoinAddUser(p) \/ Leave(p) \/ GameStart(p) \/ Issue(p)
      PROVE  RoundInv'
  BY <1>2, LobbyRounds
<1>3. ASSUME NEW p \in Player, NEW c \in Connection, MatchStart(p, c) PROVE RoundInv'
  BY <1>3, MatchStartRounds
<1>4. ASSUME NEW c \in Connection,
             \/ JoinMatch(c) \/ LoadComplete(c) \/ TellOn(c)
             \/ MatchLeave(c) \/ MatchDrop(c) \/ Death(c)
      PROVE  RoundInv'
  BY <1>4, OtherRounds
<1>5. ASSUME NEW c \in Connection,
             BeginRound(c) \/ TimeOut(c) \/ TellRound(c) \/ TellOver(c)
      PROVE  RoundInv'
  BY <1>5, MovingOn, TellingRounds
<1> QED
  BY <1>1, <1>2, <1>3, <1>4, <1>5 DEF Next

LEMMA RoundInit == Init => RoundInv
<1> SUFFICES ASSUME Init PROVE RoundInv
  OBVIOUS
<1>1. /\ \A r \in Room : round[r] = 0
      /\ \A c \in Connection : todo[c] = <<>> /\ client[c] = Untold
  BY DEF Init
<1>2. Untold.round = 0 /\ ~ Untold.over
  BY DEF Untold
<1>3. <<>> # <<"tellOver">>
  OBVIOUS
<1> QED
  BY <1>1, <1>2, <1>3, MatchAssumption DEF RoundInv, RoundsKept

(***************************************************************************)
(* RoundsKept: every client that reports the end of a round moves the room *)
(* on (timeOut), and all of them do; yet none ever hears of a round past   *)
(* the limit, and the game is over in the last round only.                 *)
(***************************************************************************)
THEOREM RoundsAlwaysKept == Spec => []RoundsKept
<1>1. Init => RoundInv
  BY RoundInit
<1>2. MatchTyped /\ LoadInv /\ LeaderInv /\ RoundInv /\ [Next]_vars => RoundInv'
  BY RoundNext
<1>3. RoundInv => RoundsKept
  BY DEF RoundInv
<1> QED
  BY <1>1, <1>2, <1>3, TypedAndLoaded, PTL DEF Spec

-----------------------------------------------------------------------------
(***************************************************************************)
(* Tickets.  An entry is written over only by a ticket that is a whole     *)
(* turn of the counter, or more, younger.                                  *)
(***************************************************************************)
LEMMA IssueTickets ==
    ASSUME TicketInv, MatchTyped, LeaderInv, NEW p \in Player, Issue(p) PROVE TicketInv'
<1>1. PICK w : w = Head(todo[p])
  OBVIOUS
<1>2. w.room \in Room /\ w.left \subseteq Player
  BY <1>1, TasksTyped DEF Issue, Idle
<1>3. PICK q, seat :
        /\ q \in w.left
        /\ seat = lobby[q].seat
        /\ tickets' = [tickets EXCEPT ![<<Ticket, seat>>] = w.room]
        /\ issued' = issued + 1
        /\ advert' = [advert EXCEPT ![q] =
                         [ticket |-> Ticket, seat |-> seat, room |-> w.room, at |-> issued + 1]]
  BY <1>1 DEF Issue
<1>4. PICK t, n : t = Ticket /\ n = issued + 1
  OBVIOUS
<1>5. /\ q \in Player
      /\ t \in 0 .. MaxTicket /\ seat \in 0 .. MaxSeatID
      /\ issued \in Nat /\ n \in Nat /\ t = n % (MaxTicket + 1)
  BY <1>2, <1>3, <1>4, TicketTyped DEF MatchTyped, Ticket
<1>6. PICK a : a = [ticket |-> t, seat |-> seat, room |-> w.room, at |-> n]
  OBVIOUS
<1>7. /\ advert'[q] = a
      /\ \A x \in Player : x # q => advert'[x] = advert[x]
      /\ tickets' = [tickets EXCEPT ![<<t, seat>>] = w.room]
      /\ issued' = n
  BY <1>3, <1>4, <1>5, <1>6 DEF MatchTyped
<1>8. <<t, seat>> \in DOMAIN tickets
  BY <1>5 DEF MatchTyped
<1>9. ASSUME NEW x \in Player, advert'[x] # NoAdvert
      PROVE  advert'[x].at \in 1 .. n /\ advert'[x].ticket = advert'[x].at % (MaxTicket + 1)
  <2>1. CASE x = q
    <3>1. a.at = n /\ a.ticket = t /\ n \in 1 .. n
      BY <1>4, <1>5, <1>6
    <3> QED
      BY <1>5, <1>7, <2>1, <3>1
  <2>2. CASE x # q
    <3>1. /\ advert[x] # NoAdvert /\ advert'[x] = advert[x]
          /\ advert[x].at \in 1 .. issued /\ advert[x].ticket = advert[x].at % (MaxTicket + 1)
      BY <1>7, <1>9, <2>2 DEF TicketInv
    <3>2. advert[x].at \in 1 .. n
      BY <1>4, <1>5, <3>1
    <3> QED
      BY <3>1, <3>2
  <2> QED
    BY <2>1, <2>2
<1>10. ASSUME NEW x \in Player, NEW b, b = advert'[x], b # NoAdvert, n - b.at <= MaxTicket
       PROVE  tickets'[<<b.ticket, b.seat>>] = b.room
  <2>1. CASE x = q
    BY <1>6, <1>7, <1>8, <1>10, <2>1
  <2>2. CASE x # q
    <3>1. b = advert[x] /\ b \in Advert
      BY <1>7, <1>10, <2>2 DEF MatchTyped
    <3>2. b.at \in 1 .. issued /\ b.ticket = b.at % (MaxTicket + 1)
      BY <1>10, <3>1 DEF TicketInv
    <3>3. tickets[<<b.ticket, b.seat>>] = b.room
      <4>1. issued - b.at <= MaxTicket
        BY <1>4, <1>5, <1>10, <3>2, MatchAssumption
      <4> QED
        BY <1>10, <3>1, <4>1 DEF TicketInv, TicketsLeadBack
    <3>4. b.ticket # t
      <4>1. /\ MaxTicket + 1 \in Nat \ {0} /\ b.at \in Nat
            /\ b.at < n /\ n - b.at < MaxTicket + 1
        BY <1>4, <1>5, <1>10, <3>2, MatchAssumption
      <4>2. n % (MaxTicket + 1) # b.at % (MaxTicket + 1)
        BY <1>5, <4>1, ModApart
      <4> QED
        BY <1>5, <3>2, <4>2
    <3>5. <<b.ticket, b.seat>> # <<t, seat>>
      BY <3>4
    <3>6. <<b.ticket, b.seat>> \in DOMAIN tickets
      BY <3>1 DEF MatchTyped, Advert
    <3> QED
      BY <1>7, <3>3, <3>5, <3>6
  <2> QED
    BY <2>1, <2>2
<1> QED
  BY <1>7, <1>9, <1>10 DEF TicketInv, TicketsLeadBack

LEMMA TicketNext ==
    ASSUME TicketInv, MatchTyped, LeaderInv, [Next]_vars PROVE TicketInv'
<1>1. UNCHANGED ticketVars => TicketInv'
  BY DEF ticketVars, TicketInv, TicketsLeadBack
<1>2. ASSUME NEW p \in Player,
             \/ \E r \in Room : Create(p, r) \/ JoinFind(p, r)
             \/ JoinAddUser(p) \/ Leave(p) \/ GameStart(p)
      PROVE  UNCHANGED ticketVars
  BY <1>2 DEF Create, JoinFind, JoinAddUser, Leave, GameStart, Seated, ticketVars
<1>3. ASSUME NEW p \in Player, Issue(p) PROVE TicketInv'
  BY <1>3, IssueTickets
<1>4. ASSUME NEW p \in Player, NEW c \in Connection, MatchStart(p, c)
      PROVE  UNCHANGED ticketVars
  BY <1>4 DEF MatchStart, ticketVars
<1>5. ASSUME NEW c \in Connection,
             \/ JoinMatch(c) \/ LoadComplete(c) \/ TellOn(c) \/ MatchLeave(c) \/ MatchDrop(c)
             \/ BeginRound(c) \/ TimeOut(c) \/ TellRound(c) \/ TellOver(c) \/ Death(c)
      PROVE  UNCHANGED ticketVars
  BY <1>5 DEF JoinMatch, LoadComplete, TellOn, MatchLeave, MatchDrop, BeginRound, TimeOut,
              TellRound, TellOver, Death, ticketVars
<1>6. UNCHANGED vars => UNCHANGED ticketVars
  BY DEF vars
<1> QED
  BY <1>1, <1>2, <1>3, <1>4, <1>5, <1>6 DEF Next

(***************************************************************************)
(* TicketsLeadBack: matchTickets.issue keys its entries by ticket and seat *)
(* id, and both are given again, the ids in every room and the tickets     *)
(* when their uint16 has gone round; a client's ticket still leads to its  *)
(* own room until as many others have been issued as the counter counts.   *)
(***************************************************************************)
THEOREM TicketsAlwaysLeadBack == Spec => []TicketsLeadBack
<1>1. Init => TicketInv
  BY DEF Init, TicketInv, TicketsLeadBack
<1>2. MatchTyped /\ LeaderInv /\ TicketInv /\ [Next]_vars => TicketInv'
  BY TicketNext
<1>3. TicketInv => TicketsLeadBack
  BY DEF TicketInv
<1> QED
  BY <1>1, <1>2, <1>3, TypedAndLoaded, PTL DEF Spec

-----------------------------------------------------------------------------
(***************************************************************************)
(* Scores.  A room's part of ScoresCredited, and what leaves it and        *)
(* Settled as they are: nobody who sits in the room goes anywhere, and a   *)
(* client's snapshot of it is the old one, none, or a new one.             *)
(***************************************************************************)
KillsOf(F, r, p)  == {f \in {g \in F : g.room = r} : f.killer = p /\ f.victim # p}
DeathsOf(F, r, p) == {f \in {g \in F : g.room = r} : f.victim = p}

Credited(r) ==
    \A i \in DOMAIN users[r] :
        /\ users[r][i].kills = Cardinality(KillsOf(feats, r, users[r][i].who))
        /\ users[r][i].deaths = Cardinality(DeathsOf(feats, r, users[r][i].who))

LEMMA CreditedEach == ScoresCredited <=> \A r \in Room \ changed : Credited(r)
BY DEF ScoresCredited, Credited, KillsOf, DeathsOf

SameRoom(r) ==
    /\ users'[r] = users[r]
    /\ {f \in feats' : f.room = r} = {f \in feats : f.room = r}
    /\ \A p \in Player : lobby[p].room = r => lobby'[p].room = r
    /\ \A c \in Connection : conn'[c].room = r =>
          \/ conn[c].room = r /\ client'[c].roster = client[c].roster
          \/ client'[c].roster = <<>>
          \/ client'[c].roster = Roster(r)

LEMMA SameRoomSettled ==
    ASSUME LeaderInv, NEW r \in Room, SameRoom(r), Settled(r), Credited(r)
    PROVE  Settled(r)' /\ Credited(r)'
<1>1. PICK u \in Seq(SeatRow) : u = users[r] /\ u = users'[r]
  BY DEF LeaderInv, SameRoom
<1>2. People(u) \subseteq Player
  BY PeoplePlay
<1>3. \A p \in People(u) : lobby'[p].room = r
  BY <1>1, <1>2 DEF Settled, SameRoom
<1>4. \A f \in feats' : f.room = r => {f.killer, f.victim} \subseteq People(u)
  BY <1>1 DEF Settled, SameRoom
<1>5. ASSUME NEW c \in Connection, conn'[c].room = r, NEW i \in DOMAIN client'[c].roster
      PROVE  i \in DOMAIN u /\ u[i].who = client'[c].roster[i]
  <2>1. CASE conn[c].room = r /\ client'[c].roster = client[c].roster
    BY <1>1, <1>5, <2>1 DEF Settled
  <2>2. CASE client'[c].roster = <<>>
    BY <1>5, <2>2
  <2>3. CASE client'[c].roster = Roster(r)
    <3>1. Roster(r) = [j \in DOMAIN u |-> u[j].who]
      BY <1>1 DEF Roster
    <3> QED
      BY <1>5, <2>3, <3>1
  <2> QED
    BY <1>5, <2>1, <2>2, <2>3 DEF SameRoom
<1>6. Settled(r)'
  BY <1>1, <1>3, <1>4, <1>5 DEF Settled
<1>7. \A p : KillsOf(feats', r, p) = KillsOf(feats, r, p) /\ DeathsOf(feats', r, p) = DeathsOf(feats, r, p)
  BY DEF SameRoom, KillsOf, DeathsOf
<1> QED
  BY <1>1, <1>6, <1>7 DEF Credited

(***************************************************************************)
(* What no step but a death, or one that somebody takes or gives up a seat *)
(* by, can disturb.                                                        *)
(***************************************************************************)
JoinersOut ==
    \A p \in Player : todo[p] # <<>> /\ Head(todo[p]).do = "join" => lobby[p].room = NoRoom

LEMMA ScoreStep ==
    ASSUME ScoreInv, LeaderInv, UNCHANGED feats, changed \subseteq changed',
           \A r \in Room : creator'[r] = Nobody => users'[r] = <<>>,
           JoinersOut',
           \A r \in Room \ changed' : SameRoom(r) \/ (Settled(r)' /\ Credited(r)')
    PROVE  ScoreInv'
<1>1. ASSUME NEW r \in Room \ changed' PROVE Settled(r)' /\ Credited(r)'
  <2>1. Settled(r) /\ Credited(r)
    BY CreditedEach DEF ScoreInv
  <2> QED
    BY <1>1, <2>1, SameRoomSettled
<1>2. ScoresCredited'
  BY <1>1 DEF ScoresCredited, Credited, KillsOf, DeathsOf
<1> QED
  BY <1>1, <1>2 DEF ScoreInv, JoinersOut

LEMMA QuietScores ==
    ASSUME ScoreInv, LeaderInv, UNCHANGED <<users, lobby, creator, changed, feats>>, JoinersOut',
           \A r \in Room, c \in Connection : conn'[c].room = r =>
              \/ conn[c].room = r /\ client'[c].roster = client[c].roster
              \/ client'[c].roster = <<>>
              \/ client'[c].roster = Roster(r)
    PROVE  ScoreInv'
<1>1. \A r \in Room : SameRoom(r)
  BY DEF SameRoom
<1>2. \A r \in Room : creator'[r] = Nobody => users'[r] = <<>>
  BY DEF ScoreInv
<1> QED
  BY <1>1, <1>2, ScoreStep

LEMMA LobbyQuietScores ==
    ASSUME ScoreInv, LeaderInv, NEW p \in Player,
           (\E r \in Room : JoinFind(p, r)) \/ GameStart(p) \/ Issue(p)
    PROVE  ScoreInv'
<1>1. UNCHANGED <<users, lobby, creator, changed, feats, conn, client>>
  BY DEF JoinFind, GameStart, Issue, roomVars, matchVars, history
<1>2. PICK items :
        /\ todo' = [todo EXCEPT ![p] = items]
        /\ items # <<>> /\ Head(items).do = "join" => lobby[p].room = NoRoom
  <2>1. CASE \E r \in Room : JoinFind(p, r)
    BY <2>1 DEF JoinFind
  <2>2. CASE GameStart(p)
    <3>1. PICK w : w = [do |-> "issue", room |-> lobby[p].room, left |-> InRoom(lobby[p].room)]
      OBVIOUS
    <3>2. todo' = [todo EXCEPT ![p] = <<w>>] /\ Head(<<w>>).do = "issue"
      BY <2>2, <3>1 DEF GameStart
    <3> QED
      BY <3>2
  <2>3. CASE Issue(p)
    <3>1. PICK w, q : /\ w = Head(todo[p]) /\ w.do = "issue"
                      /\ todo' = [todo EXCEPT ![p] =
                            IF w.left = {q} THEN <<>> ELSE <<[w EXCEPT !.left = @ \ {q}]>>]
      BY <2>3 DEF Issue
    <3>2. w \in Task
      <4>1. todo[p] \in Seq(Task) /\ todo[p] # <<>>
        BY <2>3 DEF Issue, Idle, LeaderInv
      <4> QED
        BY <3>1, <4>1
    <3>3. PICK rest : rest = [w EXCEPT !.left = @ \ {q}]
      OBVIOUS
    <3>4. rest.do = "issue" /\ Head(<<rest>>) = rest
      BY <3>1, <3>2, <3>3 DEF Task
    <3> QED
      BY <3>1, <3>3, <3>4
  <2> QED
    BY <2>1, <2>2, <2>3
<1>3. JoinersOut'
  <2>1. todo'[p] = items /\ \A q \in Player : q # p => todo'[q] = todo[q]
    BY <1>2 DEF LeaderInv
  <2> QED
    BY <1>1, <1>2, <2>1 DEF JoinersOut, ScoreInv
<1> QED
  BY <1>1, <1>3, QuietScores

LEMMA MatchStartScores ==
    ASSUME ScoreInv, LeaderInv, MatchTyped, NEW p \in Player, NEW c \in Connection, MatchStart(p, c)
    PROVE  ScoreInv'
<1>1. client[c].roster = <<>>
  <2>1. Unused.room \notin Room
    BY MatchAssumption DEF Unused
  <2>2. client[c] = Untold
    BY <2>1 DEF MatchStart, MatchTyped
  <2> QED
    BY <2>2 DEF Untold
<1>2. /\ UNCHANGED <<users, lobby, creator, changed, feats, client>>
      /\ \E b : conn' = [conn EXCEPT ![c] = b]
      /\ todo' = [todo EXCEPT ![c] = <<"join">>]
  BY DEF MatchStart, roomVars, history
<1>3. \A d \in Connection : d # c => conn'[d] = conn[d]
  BY <1>2 DEF MatchTyped
<1>4. JoinersOut'
  BY <1>2, MatchAssumption DEF JoinersOut, ScoreInv, LeaderInv
<1> QED
  BY <1>1, <1>2, <1>3, <1>4, QuietScores

LEMMA MatchQuietScores ==
    ASSUME ScoreInv, LeaderInv, MatchTyped, NEW c \in Connection,
           \/ JoinMatch(c) \/ LoadComplete(c) \/ TellOn(c) \/ MatchLeave(c)
           \/ BeginRound(c) \/ TimeOut(c) \/ TellRound(c) \/ TellOver(c)
    PROVE  ScoreInv'
<1>1. UNCHANGED <<users, lobby, creator, changed, feats, conn>>
  BY DEF JoinMatch, LoadComplete, TellOn, MatchLeave, BeginRound, TimeOut, TellRound, TellOver,
         roomVars, matchVars, history
<1>2. UNCHANGED todo \/ \E items : todo' = [todo EXCEPT ![c] = items]
  <2>1. CASE JoinMatch(c) \/ LoadComplete(c) \/ TellOn(c) \/ MatchLeave(c)
    BY <2>1 DEF JoinMatch, LoadComplete, TellOn, MatchLeave
  <2>2. CASE BeginRound(c) \/ TimeOut(c) \/ TellRound(c) \/ TellOver(c)
    BY <2>2 DEF BeginRound, TimeOut, TellRound, TellOver
  <2> QED
    BY <2>1, <2>2
<1>3. JoinersOut'
  <2>1. \A q \in Player : todo'[q] = todo[q]
    BY <1>2, MatchAssumption DEF LeaderInv
  <2> QED
    BY <1>1, <2>1 DEF JoinersOut, ScoreInv
<1>4. \A d \in Connection :
        client'[d].roster = client[d].roster \/ client'[d].roster = Roster(conn[d].room)
  <2>1. CASE JoinMatch(c)
    <3>1. client' = [client EXCEPT ![c].roster = Roster(conn[c].room)]
      BY <2>1 DEF JoinMatch
    <3> QED
      BY <3>1 DEF MatchTyped, Knowledge
  <2>2. CASE TellOn(c) \/ TellRound(c) \/ TellOver(c)
    BY <2>2, TellingIsHeard DEF Heard
  <2>3. CASE LoadComplete(c) \/ MatchLeave(c) \/ BeginRound(c) \/ TimeOut(c)
    BY <2>3 DEF LoadComplete, MatchLeave, BeginRound, TimeOut, matchVars
  <2> QED
    BY <2>1, <2>2, <2>3
<1> QED
  BY <1>1, <1>3, <1>4, QuietScores

(***************************************************************************)
(* Taking a seat.  In a room that nobody has left the ids are the places,  *)
(* so that the next id is the next place.                                  *)
(***************************************************************************)
LEMMA NextPlace ==
    ASSUME NEW u \in Seq(SeatRow), \A i \in DOMAIN u : u[i].id = i
    PROVE  NextID(u) = Len(u) + 1
<1>1. IDs(u) = 1 .. Len(u) /\ Len(u) \in Nat
  BY DEF IDs
<1>2. PICK T : T = {0} \cup IDs(u)
  OBVIOUS
<1>3. T = 0 .. Len(u)
  BY <1>1, <1>2
<1>4. Max(T) \in T /\ \A y \in T : y <= Max(T)
  <2>1. T \in SUBSET Nat /\ T # {} /\ \A y \in T : y <= Len(u)
    BY <1>1, <1>3
  <2> QED
    BY <1>1, <2>1, LargestNat
<1>5. Max(T) = Len(u)
  BY <1>1, <1>3, <1>4
<1> QED
  BY <1>2, <1>5 DEF NextID, Highest

LEMMA NewcomerSettled ==
    ASSUME ScoreInv, LeaderInv, NEW p \in Player, NEW r \in Room \ changed,
           lobby[p].room = NoRoom, users'[r] = AddUser(users[r], p), lobby'[p].room = r,
           \A q \in Player : q # p => lobby'[q] = lobby[q],
           UNCHANGED <<feats, conn, client>>
    PROVE  Settled(r)' /\ Credited(r)'
<1>1. PICK u \in Seq(SeatRow) : u = users[r]
  BY DEF LeaderInv
<1>2. PICK v : v = users'[r]
  OBVIOUS
<1>3. Settled(r) /\ Credited(r)
  BY CreditedEach DEF ScoreInv
<1>4. PICK e : e = [id |-> NextID(u), who |-> p, kills |-> 0, deaths |-> 0]
  OBVIOUS
<1>5. NextID(u) = Len(u) + 1 /\ Len(u) + 1 \in Nat \ {0}
  <2>1. \A i \in DOMAIN u : u[i].id = i
    BY <1>1, <1>3 DEF Settled
  <2> QED
    BY <2>1, NextPlace
<1>6. /\ e \in SeatRow
      /\ e.id = Len(u) + 1 /\ e.who = p /\ e.kills = 0 /\ e.deaths = 0
  BY <1>4, <1>5 DEF SeatRow
<1>7. v = Append(u, e)
  BY <1>1, <1>2, <1>4 DEF AddUser
<1>8. /\ DOMAIN v = 1 .. Len(u) + 1 /\ DOMAIN u = 1 .. Len(u) /\ Len(u) \in Nat
      /\ \A i \in DOMAIN u : v[i] = u[i]
      /\ v[Len(u) + 1] = e
  BY <1>6, <1>7, AppendProperties
<1>9. \A i \in DOMAIN v : i \in DOMAIN u \/ i = Len(u) + 1
  BY <1>8
<1>10. People(u) \subseteq Player
  BY PeoplePlay
<1>11. p \notin People(u)
  BY <1>1, <1>3, MatchAssumption DEF Settled
<1>12. People(v) = People(u) \cup {p}
  BY <1>6, <1>8, <1>9 DEF People
<1>13. \A i \in DOMAIN v : v[i].id = i
  BY <1>1, <1>3, <1>6, <1>8, <1>9 DEF Settled
<1>14. \A i, j \in DOMAIN v : v[i].who = v[j].who => i = j
  <2>1. \A i \in DOMAIN u : u[i].who # p
    BY <1>11 DEF People
  <2>2. \A i, j \in DOMAIN u : u[i].who = u[j].who => i = j
    BY <1>1, <1>3 DEF Settled
  <2> QED
    BY <1>6, <1>8, <1>9, <2>1, <2>2
<1>15. \A q \in People(v) : lobby'[q].room = r
  BY <1>1, <1>3, <1>10, <1>12 DEF Settled
<1>16. \A f \in feats : f.room = r => {f.killer, f.victim} \subseteq People(u)
  BY <1>1, <1>3 DEF Settled
<1>17. \A c \in Connection : conn[c].room = r =>
         \A i \in DOMAIN client[c].roster :
            i \in DOMAIN v /\ v[i].who = client[c].roster[i]
  <2>1. \A i \in DOMAIN u : i \in DOMAIN v
    BY <1>8
  <2> QED
    BY <1>1, <1>3, <1>8, <2>1 DEF Settled
<1>18. Settled(r)'
  BY <1>2, <1>12, <1>13, <1>14, <1>15, <1>16, <1>17 DEF Settled
<1>19. KillsOf(feats, r, p) = {} /\ DeathsOf(feats, r, p) = {}
  BY <1>11, <1>16 DEF KillsOf, DeathsOf
<1>20. Cardinality(KillsOf(feats, r, p)) = 0 /\ Cardinality(DeathsOf(feats, r, p)) = 0
  BY <1>19, FS_EmptySet
<1>21. \A i \in DOMAIN v :
         /\ v[i].kills = Cardinality(KillsOf(feats, r, v[i].who))
         /\ v[i].deaths = Cardinality(DeathsOf(feats, r, v[i].who))
  BY <1>1, <1>3, <1>6, <1>8, <1>9, <1>20 DEF Credited
<1> QED
  BY <1>2, <1>18, <1>21 DEF Credited

LEMMA SeatingScores ==
    ASSUME ScoreInv, LeaderInv, NEW p \in Player,
           (\E r \in Room : Create(p, r)) \/ JoinAddUser(p)
    PROVE  ScoreInv'
<1>1. PICK r \in Room :
        /\ lobby[p].room = NoRoom
        /\ users' = [users EXCEPT ![r] = AddUser(users[r], p)]
        /\ \E seat : lobby' = [lobby EXCEPT ![p] = [room |-> r, seat |-> seat]]
        /\ creator'[r] # Nobody /\ \A x \in Room : x # r => creator'[x] = creator[x]
        /\ UNCHANGED <<changed, feats, conn, client>>
  <2>1. ASSUME NEW r \in Room, Create(p, r)
        PROVE  /\ lobby[p].room = NoRoom
               /\ users' = [users EXCEPT ![r] = AddUser(users[r], p)]
               /\ \E seat : lobby' = [lobby EXCEPT ![p] = [room |-> r, seat |-> seat]]
               /\ creator'[r] # Nobody /\ \A x \in Room : x # r => creator'[x] = creator[x]
               /\ UNCHANGED <<changed, feats, conn, client>>
    <3>1. users[r] = <<>>
      BY <2>1 DEF Create, ScoreInv
    <3>2. creator'[r] = p /\ \A x \in Room : x # r => creator'[x] = creator[x]
      BY <2>1 DEF Create, LeaderInv
    <3> QED
      BY <2>1, <3>1, <3>2, MatchAssumption DEF Create, Seated, matchVars
  <2>2. CASE JoinAddUser(p)
    <3>1. PICK r : r = Head(todo[p]).room
      OBVIOUS
    <3>2. todo[p] # <<>> /\ Head(todo[p]).do = "join" /\ Head(todo[p]) \in Task
      <4>1. todo[p] \in Seq(Task) /\ todo[p] # <<>>
        BY <2>2 DEF JoinAddUser, Idle, LeaderInv
      <4> QED
        BY <2>2, <4>1 DEF JoinAddUser
    <3>3. r \in Room /\ creator[r] # Nobody /\ lobby[p].room = NoRoom
      BY <3>1, <3>2 DEF Task, LeaderInv, ScoreInv
    <3> QED
      BY <2>2, <3>1, <3>3 DEF JoinAddUser, Seated, matchVars
  <2> QED
    BY <2>1, <2>2
<1>2. /\ users'[r] = AddUser(users[r], p)
      /\ \A x \in Room : x # r => users'[x] = users[x]
      /\ lobby'[p].room = r
      /\ \A q \in Player : q # p => lobby'[q] = lobby[q]
  BY <1>1 DEF LeaderInv
<1>3. \A x \in Room : creator'[x] = Nobody => users'[x] = <<>>
  BY <1>1, <1>2 DEF ScoreInv
<1>4. JoinersOut'
  <2>1. todo'[p] = <<>> /\ \A q \in Player : q # p => todo'[q] = todo[q]
    <3>1. CASE \E x \in Room : Create(p, x)
      BY <3>1 DEF Create, Idle
    <3>2. CASE JoinAddUser(p)
      BY <3>2 DEF JoinAddUser, LeaderInv
    <3> QED
      BY <3>1, <3>2
  <2> QED
    BY <1>2, <2>1 DEF JoinersOut, ScoreInv
<1>5. ASSUME NEW x \in Room \ changed' PROVE SameRoom(x) \/ (Settled(x)' /\ Credited(x)')
  <2>1. CASE x = r
    BY <1>1, <1>2, <1>5, <2>1, NewcomerSettled
  <2>2. CASE x # r
    <3>1. lobby[p].room # x
      BY <1>1, <1>5, MatchAssumption
    <3> QED
      BY <1>1, <1>2, <1>5, <2>2, <3>1 DEF SameRoom
  <2> QED
    BY <2>1, <2>2
<1> QED
  BY <1>1, <1>3, <1>4, <1>5, ScoreStep

(***************************************************************************)
(* Giving a seat up makes the room one that somebody has left.             *)
(***************************************************************************)
LEMMA GivingUpScores ==
    ASSUME ScoreInv, LeaderInv, NEW r, NEW seat, GiveUp(r, seat),
           UNCHANGED <<creator, feats, todo, client>>,
           \A c \in Connection : conn'[c].room = conn[c].room,
           \A p \in Player : lobby'[p].room = lobby[p].room \/ (lobby[p].room = r /\ todo[p] = <<>>)
    PROVE  ScoreInv'
<1>1. PICK left : left = Without(users[r], seat)
  OBVIOUS
<1>2. users' = [users EXCEPT ![r] = left] /\ changed' = changed \cup {r}
  BY <1>1 DEF GiveUp
<1>3. users[r] = <<>> => left = <<>>
  BY <1>1 DEF Without, IDs
<1>4. \A x \in Room : x # r => users'[x] = users[x]
  BY <1>2 DEF LeaderInv
<1>5. \A x \in Room : creator'[x] = Nobody => users'[x] = <<>>
  BY <1>2, <1>3 DEF ScoreInv, LeaderInv
<1>6. JoinersOut'
  BY DEF JoinersOut, ScoreInv
<1>7. \A x \in Room \ changed' : SameRoom(x)
  BY <1>2, <1>4 DEF SameRoom
<1> QED
  BY <1>2, <1>5, <1>6, <1>7, ScoreStep

LEMMA LeavingScores ==
    ASSUME ScoreInv, LeaderInv, MatchTyped,
           (\E p \in Player : Leave(p)) \/ (\E c \in Connection : MatchDrop(c))
    PROVE  ScoreInv'
<1>1. ASSUME NEW p \in Player, Leave(p) PROVE ScoreInv'
  <2>1. PICK r, seat : r = lobby[p].room /\ seat = lobby[p].seat
    OBVIOUS
  <2>2. /\ GiveUp(r, seat)
        /\ todo[p] = <<>>
        /\ lobby' = [lobby EXCEPT ![p].room = NoRoom]
        /\ UNCHANGED <<creator, feats, todo, client, conn>>
    BY <1>1, <2>1 DEF Leave, Idle, matchVars
  <2>3. \A q \in Player : q # p => lobby'[q] = lobby[q]
    BY <2>2 DEF LeaderInv
  <2> QED
    BY <2>1, <2>2, <2>3, GivingUpScores
<1>2. ASSUME NEW c \in Connection, MatchDrop(c) PROVE ScoreInv'
  <2>1. PICK r, seat : r = conn[c].room /\ seat = conn[c].seat
    OBVIOUS
  <2>2. /\ GiveUp(r, seat)
        /\ conn' = [conn EXCEPT ![c].alive = FALSE]
        /\ UNCHANGED <<creator, feats, todo, client, lobby>>
    BY <1>2, <2>1 DEF MatchDrop
  <2>3. \A d \in Connection : conn'[d].room = conn[d].room
    BY <2>2 DEF MatchTyped, Bond
  <2> QED
    BY <2>2, <2>3, GivingUpScores
<1> QED
  BY <1>1, <1>2

(***************************************************************************)
(* A death.  The places in the snapshot are the ids of the seats, and the  *)
(* names there are the names there still.                                  *)
(***************************************************************************)
LEMMA RecordedScores ==
    ASSUME NEW u \in Seq(SeatRow), NEW killer, NEW victim,
           NEW v, v = RecordDeath(u, killer, victim), NEW i \in DOMAIN u
    PROVE  /\ v[i].id = u[i].id /\ v[i].who = u[i].who
           /\ v[i].kills = IF u[i].id = killer /\ killer # victim THEN u[i].kills + 1
                                                                  ELSE u[i].kills
           /\ v[i].deaths = IF u[i].id = victim THEN u[i].deaths + 1 ELSE u[i].deaths
<1>1. PICK e \in SeatRow : e = u[i]
  OBVIOUS
<1>2. v[i] = CASE e.id = victim -> [e EXCEPT !.deaths = @ + 1]
               [] e.id = killer /\ killer # victim -> [e EXCEPT !.kills = @ + 1]
               [] OTHER -> e
  BY <1>1 DEF RecordDeath
<1>3. CASE e.id = victim
  <2>1. v[i] = [e EXCEPT !.deaths = @ + 1]
    BY <1>2, <1>3
  <2> QED
    BY <1>1, <1>3, <2>1 DEF SeatRow
<1>4. CASE e.id # victim /\ e.id = killer
  <2>1. v[i] = [e EXCEPT !.kills = @ + 1]
    BY <1>2, <1>4
  <2> QED
    BY <1>1, <1>4, <2>1 DEF SeatRow
<1>5. CASE e.id # victim /\ e.id # killer
  <2>1. v[i] = e
    BY <1>2, <1>5
  <2> QED
    BY <1>1, <1>5, <2>1
<1> QED
  BY <1>3, <1>4, <1>5

LEMMA DeathSettled ==
    ASSUME ScoreInv, LeaderInv, MatchTyped, NEW c \in Connection, NEW r \in Room \ changed,
           r = conn[c].room, NEW g, NEW killer, NEW victim,
           killer \in DOMAIN client[c].roster, victim \in DOMAIN client[c].roster,
           g.room = r, g.killer = client[c].roster[killer], g.victim = client[c].roster[victim],
           g \notin feats, feats' = feats \cup {g},
           users'[r] = RecordDeath(users[r], killer, victim),
           UNCHANGED <<lobby, conn, client>>
    PROVE  Settled(r)' /\ Credited(r)'
<1>1. PICK u \in Seq(SeatRow) : u = users[r]
  BY DEF LeaderInv
<1>2. PICK v : v = users'[r]
  OBVIOUS
<1>3. Settled(r) /\ Credited(r)
  BY CreditedEach DEF ScoreInv
<1>4. /\ DOMAIN v = DOMAIN u
      /\ \A i \in DOMAIN u :
            /\ v[i].id = u[i].id /\ v[i].who = u[i].who
            /\ v[i].kills = IF u[i].id = killer /\ killer # victim THEN u[i].kills + 1
                                                                   ELSE u[i].kills
            /\ v[i].deaths = IF u[i].id = victim THEN u[i].deaths + 1 ELSE u[i].deaths
  <2>1. v = RecordDeath(u, killer, victim)
    BY <1>1, <1>2
  <2>2. DOMAIN v = DOMAIN u
    BY <2>1 DEF RecordDeath
  <2>3. ASSUME NEW i \in DOMAIN u
        PROVE  /\ v[i].id = u[i].id /\ v[i].who = u[i].who
               /\ v[i].kills = IF u[i].id = killer /\ killer # victim THEN u[i].kills + 1
                                                                      ELSE u[i].kills
               /\ v[i].deaths = IF u[i].id = victim THEN u[i].deaths + 1 ELSE u[i].deaths
    BY <2>1, RecordedScores
  <2> QED
    BY <2>2, <2>3
<1>5. /\ \A i \in DOMAIN u : u[i].id = i
      /\ \A i, j \in DOMAIN u : u[i].who = u[j].who => i = j
      /\ \A p \in People(u) : lobby[p].room = r
  BY <1>1, <1>3 DEF Settled
<1>6. /\ killer \in DOMAIN u /\ u[killer].who = g.killer
      /\ victim \in DOMAIN u /\ u[victim].who = g.victim
  BY <1>1, <1>3 DEF Settled
<1>7. People(v) = People(u) /\ {g.killer, g.victim} \subseteq People(u)
  BY <1>4, <1>6 DEF People
<1>8. \A f \in feats' : f.room = r => {f.killer, f.victim} \subseteq People(u)
  <2>1. \A f \in feats : f.room = r => {f.killer, f.victim} \subseteq People(u)
    BY <1>1, <1>3 DEF Settled
  <2> QED
    BY <1>7, <2>1
<1>9. \A d \in Connection : conn[d].room = r =>
        \A i \in DOMAIN client[d].roster : i \in DOMAIN u /\ u[i].who = client[d].roster[i]
  BY <1>1, <1>3 DEF Settled
<1>10. Settled(r)'
  BY <1>2, <1>4, <1>5, <1>7, <1>8, <1>9 DEF Settled
<1>11. ASSUME NEW i \in DOMAIN u
       PROVE  /\ v[i].kills = Cardinality(KillsOf(feats', r, u[i].who))
              /\ v[i].deaths = Cardinality(DeathsOf(feats', r, u[i].who))
  <2>1. PICK p : p = u[i].who
    OBVIOUS
  <2>2. (i = killer <=> g.killer = p) /\ (i = victim <=> g.victim = p)
    BY <1>5, <1>6, <2>1
  <2>3. u[i].id = i
    BY <1>5
  <2>4. u[i].kills = Cardinality(KillsOf(feats, r, p)) /\ u[i].deaths = Cardinality(DeathsOf(feats, r, p))
    BY <1>1, <1>3, <2>1 DEF Credited
  <2>5. PICK K, D : K = KillsOf(feats, r, p) /\ D = DeathsOf(feats, r, p)
    OBVIOUS
  <2>6. /\ KillsOf(feats', r, p) = IF g.killer = p /\ g.victim # p THEN K \cup {g} ELSE K
        /\ DeathsOf(feats', r, p) = IF g.victim = p THEN D \cup {g} ELSE D
        /\ Cardinality(K \cup {g}) = Cardinality(K) + 1
        /\ Cardinality(D \cup {g}) = Cardinality(D) + 1
    <3>1. K \subseteq feats /\ D \subseteq feats
      BY <2>5 DEF KillsOf, DeathsOf
    <3>2. IsFiniteSet(K) /\ IsFiniteSet(D) /\ g \notin K /\ g \notin D
      BY <3>1, FS_Subset DEF ScoreInv
    <3>3. /\ Cardinality(K \cup {g}) = Cardinality(K) + 1
          /\ Cardinality(D \cup {g}) = Cardinality(D) + 1
      BY <3>2, FS_AddElement
    <3>4. KillsOf(feats', r, p) = IF g.killer = p /\ g.victim # p THEN K \cup {g} ELSE K
      BY <2>5 DEF KillsOf
    <3>5. DeathsOf(feats', r, p) = IF g.victim = p THEN D \cup {g} ELSE D
      BY <2>5 DEF DeathsOf
    <3> QED
      BY <3>3, <3>4, <3>5
  <2>7. (u[i].id = killer /\ killer # victim) <=> (g.killer = p /\ g.victim # p)
    BY <2>2, <2>3
  <2> QED
    BY <1>4, <2>1, <2>2, <2>3, <2>4, <2>5, <2>6, <2>7
<1> QED
  BY <1>2, <1>4, <1>10, <1>11 DEF Credited

LEMMA DeathScores ==
    ASSUME ScoreInv, LeaderInv, MatchTyped, NEW c \in Connection, Death(c) PROVE ScoreInv'
<1>1. PICK r, roster : r = conn[c].room /\ roster = client[c].roster
  OBVIOUS
<1>2. r \in Room
  BY <1>1, PlayingTyped DEF Death
<1>3. PICK killer, victim, g :
        /\ killer \in DOMAIN roster /\ victim \in DOMAIN roster
        /\ users' = [users EXCEPT ![r] = RecordDeath(users[r], killer, victim)]
        /\ g = [room |-> r, killer |-> roster[killer], victim |-> roster[victim],
                n |-> Cardinality(feats)]
        /\ feats' = feats \cup {g}
  <2>1. PICK killer \in DOMAIN roster, victim \in DOMAIN roster :
          /\ users' = [users EXCEPT ![r] = RecordDeath(users[r], killer, victim)]
          /\ feats' = feats \cup {[room |-> r, killer |-> roster[killer],
                                   victim |-> roster[victim], n |-> Cardinality(feats)]}
    BY <1>1 DEF Death
  <2> QED
    BY <2>1
<1>4. UNCHANGED <<lobby, conn, client, todo, creator, changed>>
  BY DEF Death, matchVars
<1>5. IsFiniteSet(feats) /\ Cardinality(feats) \in Nat
  BY FS_CardinalityType DEF ScoreInv
<1>6. g \in Feat /\ g.n = Cardinality(feats)
  <2>1. roster \in Seq(Player)
    BY <1>1 DEF MatchTyped, Knowledge
  <2>2. roster[killer] \in Player /\ roster[victim] \in Player
    BY <1>3, <2>1
  <2> QED
    BY <1>2, <1>3, <1>5, <2>2 DEF Feat
<1>7. g \notin feats
  BY <1>5, <1>6 DEF ScoreInv
<1>8. IsFiniteSet(feats') /\ Cardinality(feats') = Cardinality(feats) + 1
  BY <1>3, <1>5, <1>7, FS_AddElement
<1>9. \A f \in feats' : f.n < Cardinality(feats')
  <2>1. ASSUME NEW f \in feats PROVE f.n < Cardinality(feats) /\ f.n \in Nat
    BY DEF ScoreInv, Feat
  <2> QED
    BY <1>3, <1>5, <1>6, <1>8, <2>1
<1>10. users'[r] = RecordDeath(users[r], killer, victim) /\ \A x \in Room : x # r => users'[x] = users[x]
  BY <1>2, <1>3 DEF LeaderInv
<1>11. ASSUME NEW x \in Room, creator'[x] = Nobody PROVE users'[x] = <<>>
  <2>1. users[x] = <<>>
    BY <1>4, <1>11 DEF ScoreInv
  <2>2. RecordDeath(<<>>, killer, victim) = <<>>
    BY DEF RecordDeath
  <2> QED
    BY <1>10, <2>1, <2>2
<1>12. ASSUME NEW x \in Room \ changed' PROVE Settled(x)' /\ Credited(x)'
  <2>1. Settled(x) /\ Credited(x)
    BY <1>4, <1>12, CreditedEach DEF ScoreInv
  <2>2. CASE x = r
    <3>1. g.room = r /\ g.killer = roster[killer] /\ g.victim = roster[victim]
      BY <1>3
    <3> QED
      BY <1>1, <1>3, <1>4, <1>7, <1>10, <1>12, <2>2, <3>1, DeathSettled
  <2>3. CASE x # r
    <3>1. g.room = r
      BY <1>3
    <3>2. {f \in feats' : f.room = x} = {f \in feats : f.room = x}
      BY <1>3, <2>3, <3>1
    <3>3. SameRoom(x)
      BY <1>4, <1>10, <1>12, <2>3, <3>2 DEF SameRoom
    <3> QED
      BY <1>12, <2>1, <3>3, SameRoomSettled
  <2> QED
    BY <2>2, <2>3
<1>13. ScoresCredited'
  BY <1>12 DEF ScoresCredited, Credited, KillsOf, DeathsOf
<1>14. feats' \in SUBSET Feat
  BY <1>3, <1>6 DEF ScoreInv
<1>15. JoinersOut'
  BY <1>4 DEF JoinersOut, ScoreInv
<1> QED
  BY <1>8, <1>9, <1>11, <1>12, <1>13, <1>14, <1>15 DEF ScoreInv, JoinersOut

LEMMA ScoreNext == ASSUME ScoreInv, LeaderInv, MatchTyped, [Next]_vars PROVE ScoreInv'
<1>1. CASE UNCHANGED vars
  <2>1. UNCHANGED <<users, lobby, creator, changed, feats, conn, client, todo>>
    BY <1>1 DEF vars, roomVars, matchVars, history
  <2>2. JoinersOut'
    BY <2>1 DEF JoinersOut, ScoreInv
  <2> QED
    BY <2>1, <2>2, QuietScores
<1>2. ASSUME NEW p \in Player, (\E r \in Room : JoinFind(p, r)) \/ GameStart(p) \/ Issue(p)
      PROVE  ScoreInv'
  BY <1>2, LobbyQuietScores
<1>3. ASSUME NEW p \in Player, (\E r \in Room : Create(p, r)) \/ JoinAddUser(p)
      PROVE  ScoreInv'
  BY <1>3, SeatingScores
<1>4. ASSUME NEW p \in Player, NEW c \in Connection, MatchStart(p, c) PROVE ScoreInv'
  BY <1>4, MatchStartScores
<1>5. CASE (\E p \in Player : Leave(p)) \/ (\E c \in Connection : MatchDrop(c))
  BY <1>5, LeavingScores
<1>6. ASSUME NEW c \in Connection,
             \/ JoinMatch(c) \/ LoadComplete(c) \/ TellOn(c) \/ MatchLeave(c)
             \/ BeginRound(c) \/ TimeOut(c) \/ TellRound(c) \/ TellOver(c)
      PROVE  ScoreInv'
  BY <1>6, MatchQuietScores
<1>7. ASSUME NEW c \in Connection, Death(c) PROVE ScoreInv'
  BY <1>7, DeathScores
<1> QED
  BY <1>1, <1>2, <1>3, <1>4, <1>5, <1>6, <1>7 DEF Next

LEMMA ScoreInit == Init => ScoreInv
<1> SUFFICES ASSUME Init PROVE ScoreInv
  OBVIOUS
<1>1. /\ users = [r \in Room |-> <<>>]
      /\ feats = {}
      /\ \A p \in Player : todo[p] = <<>>
      /\ \A c \in Connection : conn[c].room = NoRoom
  BY DEF Init, Unused
<1>2. DOMAIN <<>> = {} /\ People(<<>>) = {}
  BY DEF People
<1>3. ASSUME NEW r \in Room PROVE Settled(r) /\ Credited(r)
  <2>1. users[r] = <<>> /\ \A c \in Connection : conn[c].room # r
    BY <1>1, MatchAssumption
  <2> QED
    BY <1>1, <1>2, <2>1 DEF Settled, Credited
<1>4. ScoresCredited
  BY <1>3, CreditedEach
<1>5. IsFiniteSet({})
  BY FS_EmptySet
<1> QED
  BY <1>1, <1>3, <1>4, <1>5 DEF ScoreInv

(***************************************************************************)
(* ScoresCredited: clients report who killed whom by the places in their   *)
(* snapshots, RecordDeath looks for the ids of seats; as long as nobody    *)
(* has left the room the two are the same, and every seat's kills and      *)
(* deaths are those that were reported of its player.                      *)
(***************************************************************************)
THEOREM ScoresAlwaysCredited == Spec => []ScoresCredited
<1>1. Init => ScoreInv
  BY ScoreInit
<1>2. MatchTyped /\ LeaderInv /\ ScoreInv /\ [Next]_vars => ScoreInv'
  BY ScoreNext
<1>3. ScoreInv => ScoresCredited
  BY DEF ScoreInv
<1> QED
  BY <1>1, <1>2, <1>3, TypedAndLoaded, PTL DEF Spec
=============================================================================
