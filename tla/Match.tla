-------------------------------- MODULE Match --------------------------------
(***************************************************************************)
(* From the waiting room into the match and through it: gameStart and the  *)
(* leader's ready toggle (proudnet/game_start.go, solo_start_hack.go), the *)
(* tickets and the second connection that each client opens with its own   *)
(* (game_session.go), loading, rounds and deaths (game_round.go).          *)
(*                                                                         *)
(* A join finds its room and takes its seat in two steps; creating a room  *)
(* and leaving one are single steps here, their races are the subject of   *)
(* Rooms.  A room stands for its number, too: no number is given twice.    *)
(* todo[a] is what the handler of a lobby session or of a match connection *)
(* has left to do.                                                         *)
(***************************************************************************)
EXTENDS Rows

CONSTANTS
    Player,      \* the players; each has one lobby session
    Connection,  \* the match connections that clients may open
    Room,        \* the rooms that may be created
    NoRoom,      \* the nil *Room
    Nobody,      \* nobody: an unused connection, a room not created
    RoundLimit,  \* Room.RoundLimit, not zero: rounds without end are left out
    MaxTicket,   \* the largest ticket (65535, a uint16, in the code)
    MaxIssued,   \* bound: how many tickets are issued
    MaxSeatID,   \* bound: nobody joins who would be given a larger id
    MaxKills,    \* bound: how many deaths are reported
    MaxLeaves    \* bound: how often rooms and matches are left

ASSUME MatchAssumption ==
    /\ NoRoom \notin Room
    /\ Nobody \notin Player
    /\ Player \cap Connection = {}
    /\ RoundLimit \in Nat \ {0}
    /\ MaxTicket \in Nat /\ MaxIssued \in Nat /\ MaxSeatID \in Nat \ {0} /\ MaxKills \in Nat
    /\ MaxLeaves \in Nat

VARIABLES
    open,      \* the rooms in the registry
    users,     \* Room.Users
    round,     \* Room.Round
    lobby,     \* the room and the seat id of each lobby session
    tickets,   \* matchTickets.bySeat
    issued,    \* how many tickets have been issued; the counter modulo its width
    advert,    \* the ticket that each client was last sent
    conn,      \* the match connections: whose, and bound to which room and seat
    joined,    \* matchSessions.byRoom
    loaded,    \* matchSessions.loaded
    client,    \* what the client at the end of each connection has been told
    todo,      \* what each handler has left to do
    creator,   \* history: who created each room
    changed,   \* history: the rooms that somebody has left
    deserted,  \* history: the rooms whose match somebody has left
    feats,     \* history: the deaths that have been reported
    leaves     \* history: how often rooms and matches have been left

roomVars   == <<open, users, round>>
ticketVars == <<tickets, issued, advert>>
matchVars  == <<conn, joined, loaded, client>>
history    == <<creator, changed, deserted, feats, leaves>>
vars       == <<roomVars, lobby, ticketVars, matchVars, todo, history>>

SeatID   == 1 .. MaxSeatID
LeaderID == 1

NoAdvert == [ticket |-> 0, seat |-> 0, room |-> NoRoom, at |-> 0]
Unused   == [who |-> Nobody, room |-> NoRoom, seat |-> 0, alive |-> FALSE]
Untold   == [roster |-> <<>>, on |-> FALSE, round |-> 0, over |-> FALSE]

Init ==
    /\ open = {}
    /\ users = [r \in Room |-> <<>>]
    /\ round = [r \in Room |-> 0]
    /\ lobby = [p \in Player |-> [room |-> NoRoom, seat |-> 0]]
    /\ tickets = [key \in (0 .. MaxTicket) \X (0 .. MaxSeatID) |-> NoRoom]
    /\ issued = 0
    /\ advert = [p \in Player |-> NoAdvert]
    /\ conn = [c \in Connection |-> Unused]
    /\ joined = [r \in Room |-> {}]
    /\ loaded = {}
    /\ client = [c \in Connection |-> Untold]
    /\ todo = [a \in Player \cup Connection |-> <<>>]
    /\ creator = [r \in Room |-> Nobody]
    /\ changed = {}
    /\ deserted = {}
    /\ feats = {}
    /\ leaves = 0

-----------------------------------------------------------------------------
(***************************************************************************)
(* The seats of a room.                                                    *)
(***************************************************************************)
Idle(p) == todo[p] = <<>>

AddUser(seats, p) ==
    Append(seats, [id |-> NextID(seats), who |-> p, kills |-> 0, deaths |-> 0])

Leaving == leaves < MaxLeaves /\ leaves' = leaves + 1

Seated(p, r, seats) ==
    /\ users' = [users EXCEPT ![r] = seats]
    /\ lobby' = [lobby EXCEPT ![p] = [room |-> r, seat |-> seats[Len(seats)].id]]
    /\ UNCHANGED <<round, ticketVars, matchVars, changed, deserted, feats, leaves>>

\* createRoom; the leader's id is set here and nowhere else.
Create(p, r) ==
    /\ Idle(p) /\ lobby[p].room = NoRoom
    /\ creator[r] = Nobody
    /\ open' = open \cup {r}
    /\ creator' = [creator EXCEPT ![r] = p]
    /\ Seated(p, r, AddUser(<<>>, p))
    /\ UNCHANGED todo

\* joinRoom, up to Find, and from AddUser on.
JoinFind(p, r) ==
    /\ Idle(p) /\ lobby[p].room = NoRoom
    /\ r \in open
    /\ todo' = [todo EXCEPT ![p] = <<[do |-> "join", room |-> r]>>]
    /\ UNCHANGED <<roomVars, lobby, ticketVars, matchVars, history>>

JoinAddUser(p) ==
    /\ ~ Idle(p) /\ Head(todo[p]).do = "join"
    /\ LET r == Head(todo[p]).room
       IN  /\ NextID(users[r]) <= MaxSeatID
           /\ Seated(p, r, AddUser(users[r], p))
    /\ todo' = [todo EXCEPT ![p] = <<>>]
    /\ UNCHANGED <<open, creator>>

\* Faulty variant: the room stays open when nobody is left.
GiveUpOpen(r, seat) ==
    /\ users' = [users EXCEPT ![r] = Without(@, seat)]
    /\ changed' = changed \cup {r}
    /\ UNCHANGED open

\* RemoveUser, and Close when nobody is left; it closes an empty room again.
GiveUp(r, seat) ==
    LET left == Without(users[r], seat)
    IN  /\ users' = [users EXCEPT ![r] = left]
        /\ open' = IF left = <<>> THEN open \ {r} ELSE open
        /\ changed' = changed \cup {r}

\* leaveRoom, and releaseSession of a lobby session: it forgets the room but
\* not the seat.
Leave(p) ==
    /\ Leaving
    /\ Idle(p) /\ lobby[p].room # NoRoom
    /\ GiveUp(lobby[p].room, lobby[p].seat)
    /\ lobby' = [lobby EXCEPT ![p].room = NoRoom]
    /\ UNCHANGED <<round, ticketVars, matchVars, todo, creator, deserted, feats>>

-----------------------------------------------------------------------------
(***************************************************************************)
(* Starting.  beginMatch lists the sessions of the room, and then reads    *)
(* each one's seat as it comes to it, in the order of a map.               *)
(***************************************************************************)
InRoom(r) == {p \in Player : lobby[p].room = r}

\* Whoever sits in the leader's seat may ask for it: by gameStart, or by getting
\* ready, which soloStartOnReady takes for it.  Readiness is otherwise only shown.
GameStart(p) ==
    /\ Idle(p) /\ lobby[p].room # NoRoom
    /\ lobby[p].seat = LeaderID
    /\ todo' = [todo EXCEPT ![p] =
        <<[do |-> "issue", room |-> lobby[p].room, left |-> InRoom(lobby[p].room)]>>]
    /\ UNCHANGED <<roomVars, lobby, ticketVars, matchVars, history>>

\* Faulty variant: the counter stands still.
TicketSame == 1 % (MaxTicket + 1)

\* matchTickets.issue counts first, and round the end of its uint16.
Ticket == (issued + 1) % (MaxTicket + 1)

Issue(p) ==
    /\ ~ Idle(p) /\ Head(todo[p]).do = "issue"
    /\ issued < MaxIssued
    /\ LET w == Head(todo[p])
       IN  \E q \in w.left :
             LET seat == lobby[q].seat
             IN  /\ tickets' = [tickets EXCEPT ![<<Ticket, seat>>] = w.room]
                 /\ issued' = issued + 1
                 /\ advert' = [advert EXCEPT ![q] =
                        [ticket |-> Ticket, seat |-> seat, room |-> w.room, at |-> issued + 1]]
                 /\ todo' = [todo EXCEPT ![p] =
                        IF w.left = {q} THEN <<>> ELSE <<[w EXCEPT !.left = @ \ {q}]>>]
    /\ UNCHANGED <<roomVars, lobby, matchVars, history>>

-----------------------------------------------------------------------------
(***************************************************************************)
(* The second connection.  matchStart binds it to the seat of the ticket,  *)
(* and enters it among the sessions of the match a step later.             *)
(***************************************************************************)
Roster(r) == [i \in DOMAIN users[r] |-> users[r][i].who]

MatchStart(p, c) ==
    LET a == advert[p]
        r == tickets[<<a.ticket, a.seat>>]
    IN  /\ a # NoAdvert
        /\ conn[c] = Unused
        /\ \A d \in Connection : ~ (conn[d].who = p /\ conn[d].alive)
        /\ r # NoRoom
        /\ a.seat \in IDs(users[r])
        /\ conn' = [conn EXCEPT ![c] = [who |-> p, room |-> r, seat |-> a.seat, alive |-> TRUE]]
        /\ todo' = [todo EXCEPT ![c] = <<"join">>]
        /\ UNCHANGED <<roomVars, lobby, ticketVars, joined, loaded, client, history>>

\* matchSessions.join, and the snapshot: a client knows the others by their
\* places in it.
JoinMatch(c) ==
    LET r == conn[c].room
    IN  /\ todo[c] = <<"join">>
        /\ joined' = [joined EXCEPT ![r] = @ \cup {c}]
        /\ client' = [client EXCEPT ![c].roster = Roster(r)]
        /\ todo' = [todo EXCEPT ![c] = <<>>]
        /\ UNCHANGED <<roomVars, lobby, ticketVars, conn, loaded, history>>

\* A connection whose client has had the answer to its start.
Playing(c) == conn[c].alive /\ todo[c] = <<>> /\ client[c].roster # <<>>

\* Faulty variant: the arrival itself is not counted.
CompleteBefore(r, c) == joined[r] \subseteq loaded

Complete(r, c) == joined[r] \subseteq loaded \cup {c}

\* loadComplete, up to markLoaded; the client reports once.
LoadComplete(c) ==
    /\ Playing(c)
    /\ c \in joined[conn[c].room] \ loaded
    /\ loaded' = loaded \cup {c}
    /\ todo' = [todo EXCEPT ![c] = IF Complete(conn[c].room, c) THEN <<"tellOn">> ELSE <<>>]
    /\ UNCHANGED <<roomVars, lobby, ticketVars, conn, joined, client, history>>

\* tellMatch: what all the connections in a match hear.
Hear(r, change(_)) ==
    client' = [c \in Connection |-> IF c \in joined[r] THEN change(client[c]) ELSE client[c]]

TellOn(c) ==
    /\ todo[c] = <<"tellOn">>
    /\ Hear(conn[c].room, LAMBDA k : [k EXCEPT !.on = TRUE])
    /\ todo' = [todo EXCEPT ![c] = <<>>]
    /\ UNCHANGED <<roomVars, lobby, ticketVars, conn, joined, loaded, history>>

\* matchLeave takes the connection out of the match; it stays bound.
MatchLeave(c) ==
    LET r == conn[c].room
    IN  /\ Leaving
        /\ Playing(c)
        /\ joined' = [joined EXCEPT ![r] = @ \ {c}]
        /\ loaded' = loaded \ {c}
        /\ deserted' = deserted \cup {r}
        /\ UNCHANGED <<roomVars, lobby, ticketVars, conn, client, todo, creator, changed, feats>>

\* releaseSession of a match connection gives up the seat that the lobby
\* session sits on, and leaves the match as it is.
MatchDrop(c) ==
    /\ Leaving
    /\ conn[c].alive /\ todo[c] = <<>>
    /\ GiveUp(conn[c].room, conn[c].seat)
    /\ conn' = [conn EXCEPT ![c].alive = FALSE]
    /\ deserted' = deserted \cup {conn[c].room}
    /\ UNCHANGED <<round, lobby, ticketVars, joined, loaded, client, todo, creator, feats>>

-----------------------------------------------------------------------------
(***************************************************************************)
(* Rounds and deaths.                                                      *)
(***************************************************************************)
Begun(r) == IF round[r] = 0 THEN 1 ELSE round[r]

BeginRound(c) ==
    LET r == conn[c].room
    IN  /\ Playing(c) /\ client[c].on /\ client[c].round = 0
        /\ round' = [round EXCEPT ![r] = Begun(r)]
        /\ todo' = [todo EXCEPT ![c] = <<"tellRound", Begun(r)>>]
        /\ UNCHANGED <<open, users, lobby, ticketVars, matchVars, history>>

\* Faulty variant: one round too many.
IsLastLate(r) == Begun(r) > RoundLimit

IsLast(r) == Begun(r) >= RoundLimit

\* timeOut, up to FinishRound: a report moves the room on, or ends the game.
TimeOut(c) ==
    LET r == conn[c].room
    IN  /\ Playing(c) /\ client[c].round # 0 /\ ~ client[c].over
        /\ round' = [round EXCEPT ![r] = IF IsLast(r) THEN Begun(r) ELSE Begun(r) + 1]
        /\ todo' = [todo EXCEPT ![c] =
                       IF IsLast(r) THEN <<"tellOver">> ELSE <<"tellRound", Begun(r) + 1>>]
        /\ UNCHANGED <<open, users, lobby, ticketVars, matchVars, history>>

TellRound(c) ==
    /\ todo[c] # <<>> /\ todo[c][1] = "tellRound"
    /\ Hear(conn[c].room, LAMBDA k : [k EXCEPT !.round = todo[c][2]])
    /\ todo' = [todo EXCEPT ![c] = <<>>]
    /\ UNCHANGED <<roomVars, lobby, ticketVars, conn, joined, loaded, history>>

TellOver(c) ==
    /\ todo[c] = <<"tellOver">>
    /\ Hear(conn[c].room, LAMBDA k : [k EXCEPT !.over = TRUE])
    /\ todo' = [todo EXCEPT ![c] = <<>>]
    /\ UNCHANGED <<roomVars, lobby, ticketVars, conn, joined, loaded, history>>

\* Faulty variant: who is killed by their own hand is credited with it.
RecordDeathSelf(seats, killer, victim) ==
    [i \in DOMAIN seats |->
        CASE seats[i].id = killer -> [seats[i] EXCEPT !.kills = @ + 1]
          [] seats[i].id = victim -> [seats[i] EXCEPT !.deaths = @ + 1]
          [] OTHER -> seats[i]]

\* RecordDeath looks for the ids of seats; assists are counted like kills.
RecordDeath(seats, killer, victim) ==
    [i \in DOMAIN seats |->
        CASE seats[i].id = victim -> [seats[i] EXCEPT !.deaths = @ + 1]
          [] seats[i].id = killer /\ killer # victim -> [seats[i] EXCEPT !.kills = @ + 1]
          [] OTHER -> seats[i]]

\* A client reports who killed its player, by their places in its snapshot.
Death(c) ==
    LET r      == conn[c].room
        roster == client[c].roster
    IN  /\ Playing(c) /\ client[c].round # 0 /\ ~ client[c].over
        /\ Cardinality(feats) < MaxKills
        /\ \E killer, victim \in DOMAIN roster :
             /\ roster[victim] = conn[c].who
             /\ users' = [users EXCEPT ![r] = RecordDeath(@, killer, victim)]
             /\ feats' = feats \cup {[room |-> r, killer |-> roster[killer],
                                      victim |-> roster[victim], n |-> Cardinality(feats)]}
        /\ UNCHANGED <<open, round, lobby, ticketVars, matchVars, todo,
                       creator, changed, deserted, leaves>>

Next ==
    \/ \E p \in Player :
          \/ \E r \in Room : Create(p, r) \/ JoinFind(p, r)
          \/ JoinAddUser(p)
          \/ \E c \in Connection : MatchStart(p, c)
          \/ Leave(p) \/ GameStart(p) \/ Issue(p)
    \/ \E c \in Connection :
          \/ JoinMatch(c) \/ LoadComplete(c) \/ TellOn(c) \/ MatchLeave(c) \/ MatchDrop(c)
          \/ BeginRound(c) \/ TimeOut(c) \/ TellRound(c) \/ TellOver(c) \/ Death(c)

Spec == Init /\ [][Next]_vars

-----------------------------------------------------------------------------
\* A ticket leads its client back to the room whose match it was issued for,
\* until as many others have been issued as the counter can tell apart, though
\* seats of different rooms have the same ids.
TicketsLeadBack ==
    \A p \in Player :
        LET a == advert[p]
        IN  a # NoAdvert /\ issued - a.at <= MaxTicket => tickets[<<a.ticket, a.seat>>] = a.room

\* What makes TicketsLeadBack inductive: the ticket a client was sent is its
\* number modulo the width of the counter.
TicketInv ==
    /\ \A p \in Player :
          advert[p] # NoAdvert =>
             advert[p].at \in 1 .. issued /\ advert[p].ticket = advert[p].at % (MaxTicket + 1)
    /\ TicketsLeadBack

\* Nobody but its creator ever passes for the leader of a listed room, though
\* seat ids are given out again: gameStart and soloStartOnReady look at the id
\* alone.  (A join that found a room before it closed may become its leader.)
LeaderIsCreator ==
    \A p \in Player :
        lobby[p].room \in open /\ lobby[p].seat = LeaderID => creator[lobby[p].room] = p

\* What makes LeaderIsCreator inductive: a listed room has somebody in it, so
\* that a newcomer gets a larger id than the leader's, and whoever sits in a room
\* or is about to, does so after it was created.
SeatRow == [id : Nat \ {0}, who : Player, kills : Nat, deaths : Nat]
Task    == [do : {"join"}, room : Room]
           \cup [do : {"issue"}, room : Room, left : SUBSET Player]

LeaderInv ==
    /\ users \in [Room -> Seq(SeatRow)]
    /\ open \subseteq Room
    /\ creator \in [Room -> Player \cup {Nobody}]
    /\ lobby \in [Player -> [room : Room \cup {NoRoom}, seat : Nat]]
    /\ todo = [a \in Player \cup Connection |-> todo[a]]
    /\ \A p \in Player : todo[p] \in Seq(Task)
    /\ \A r \in open : users[r] # <<>> /\ creator[r] # Nobody
    /\ \A p \in Player :
         /\ lobby[p].room # NoRoom => creator[lobby[p].room] # Nobody
         /\ todo[p] # <<>> /\ Head(todo[p]).do = "join" => creator[Head(todo[p]).room] # Nobody
    /\ LeaderIsCreator

\* The types of what a match adds to the rooms.  A connection that is not in use
\* has nothing to do and its client has been told nothing.
Advert    == [ticket : 0 .. MaxTicket, seat : 0 .. MaxSeatID, room : Room \cup {NoRoom}, at : Nat]
Bond      == [who : Player \cup {Nobody}, room : Room \cup {NoRoom}, seat : 0 .. MaxSeatID,
              alive : BOOLEAN]
Knowledge == [roster : Seq(Player), on : BOOLEAN, round : Nat, over : BOOLEAN]
Duty      == {<<>>, <<"join">>, <<"tellOn">>, <<"tellOver">>} \cup ({"tellRound"} \X Nat)

MatchTyped ==
    /\ \A p \in Player : lobby[p].seat \in 0 .. MaxSeatID
    /\ round \in [Room -> Nat]
    /\ tickets \in [(0 .. MaxTicket) \X (0 .. MaxSeatID) -> Room \cup {NoRoom}]
    /\ issued \in Nat
    /\ advert \in [Player -> Advert]
    /\ conn \in [Connection -> Bond]
    /\ joined \in [Room -> SUBSET Connection]
    /\ loaded \in SUBSET Connection
    /\ client \in [Connection -> Knowledge]
    /\ \A c \in Connection :
         /\ todo[c] \in Duty
         /\ \/ conn[c] = Unused /\ todo[c] = <<>> /\ client[c] = Untold
            \/ conn[c].room \in Room /\ conn[c].who \in Player

\* When all who have joined a match have loaded and the handlers are through,
\* all have been told that it is on, in whatever order they joined and loaded.
\* (Once somebody has left or dropped, those that wait may wait for ever.)
AllLoadedHear ==
    \A r \in Room \ deserted :
        /\ joined[r] # {} /\ joined[r] \subseteq loaded
        /\ \A c \in Connection : conn[c].room = r => todo[c] = <<>>
        => \A c \in joined[r] : client[c].on

\* What makes AllLoadedHear inductive: whoever is in a match is bound to its
\* room, enters it before loading, and the last to load is still to tell the rest.
Entered ==
    /\ \A r \in Room : \A c \in joined[r] : conn[c].room = r
    /\ \A c \in loaded : \E r \in Room : c \in joined[r]
    /\ \A c \in Connection : todo[c] = <<"join">> => \A r \in Room : c \notin joined[r]

WillHear(r) ==
    joined[r] # {} /\ joined[r] \subseteq loaded =>
        \/ \A c \in joined[r] : client[c].on
        \/ \E c \in Connection : conn[c].room = r /\ todo[c] = <<"tellOn">>

LoadInv == Entered /\ \A r \in Room \ deserted : WillHear(r)

\* A seat's score is what its player has done, so long as nobody has left the
\* room: clients name seats by their places, RecordDeath by their ids.
ScoresCredited ==
    \A r \in Room \ changed : \A i \in DOMAIN users[r] :
        LET u == users[r][i]
            in == {f \in feats : f.room = r}
        IN  /\ u.kills = Cardinality({f \in in : f.killer = u.who /\ f.victim # u.who})
            /\ u.deaths = Cardinality({f \in in : f.victim = u.who})

\* What makes ScoresCredited inductive: in such a room the ids are the places,
\* everybody sits once, and a client's snapshot is the beginning of the room.
Feat == [room : Room, killer : Player, victim : Player, n : Nat]

Settled(r) ==
    /\ \A i \in DOMAIN users[r] : users[r][i].id = i
    /\ \A i, j \in DOMAIN users[r] : users[r][i].who = users[r][j].who => i = j
    /\ \A p \in People(users[r]) : lobby[p].room = r
    /\ \A f \in feats : f.room = r => {f.killer, f.victim} \subseteq People(users[r])
    /\ \A c \in Connection : conn[c].room = r =>
          \A i \in DOMAIN client[c].roster :
             i \in DOMAIN users[r] /\ users[r][i].who = client[c].roster[i]

ScoreInv ==
    /\ feats \in SUBSET Feat
    /\ IsFiniteSet(feats)
    /\ \A f \in feats : f.n < Cardinality(feats)
    /\ \A r \in Room : creator[r] = Nobody => users[r] = <<>>
    /\ \A p \in Player :
          todo[p] # <<>> /\ Head(todo[p]).do = "join" => lobby[p].room = NoRoom
    /\ \A r \in Room \ changed : Settled(r)
    /\ ScoresCredited

\* However many clients report that a round is over, none hears of a round past
\* the limit, and the game is over in the last one only.
RoundsKept ==
    \A c \in Connection :
        /\ client[c].round <= RoundLimit
        /\ client[c].over => round[conn[c].room] = RoundLimit

\* What makes RoundsKept inductive: no room is past the limit, and neither is a
\* round that a handler is about to announce.
RoundInv ==
    /\ \A r \in Room : round[r] <= RoundLimit
    /\ \A c \in Connection :
          /\ todo[c] # <<>> /\ todo[c][1] = "tellRound" => todo[c][2] <= RoundLimit
          /\ todo[c] = <<"tellOver">> => round[conn[c].room] = RoundLimit
    /\ RoundsKept

\* What src/PROGRESS.md says of loading: the "match starts only after all
\* players enter".  A connection that hears that all is loaded finds everybody
\* in the match who sits in the room and has been sent a ticket for it.
StartsTogether ==
    [][\A c \in Connection : client'[c].on /\ ~ client[c].on =>
         LET r == conn[c].room
         IN  \A u \in Range(users[r]) :
               advert[u.who].room = r => \E d \in joined[r] : conn[d].seat = u.id]_vars
=============================================================================
