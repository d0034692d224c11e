------------------------------- MODULE Friends -------------------------------
(***************************************************************************)
(* Friends: services/friend_service.go, models/friend.go, SaveSocial of    *)
(* the player repository, the handlers of proudnet/friend.go and what they *)
(* announce to the sessions of the accounts concerned.                     *)
(*                                                                         *)
(* An operation works on copies of one or two accounts, loaded one after   *)
(* the other, and saves both lists of a copy in one call per account.      *)
(* todo[p] is what the handler of player p has left to do; as in Clans a   *)
(* save puts back everything that the copy was loaded with.                *)
(*                                                                         *)
(* panel[p] is what the social screen of p has been told: rows are in it   *)
(* from the message that brings them to the message that withdraws them.   *)
(***************************************************************************)
EXTENDS Rows

CONSTANTS
    Player,       \* the accounts
    Offline,      \* no session
    Followed,     \* the accounts whose social screens are followed
    MaxSocialID,  \* the largest id of a request or a friend (65535, a uint16)
    MaxRows,      \* bound: nobody asks or accepts with more rows on an account
    MaxOverlap,   \* bound: how many players have a request under way at once
    Disruption    \* which of "logout", "fail" and "crash" happen

ASSUME FriendsAssumption ==
    /\ Followed \subseteq Player
    /\ MaxSocialID \in Nat \ {0}
    /\ MaxRows \in Nat
    /\ MaxOverlap \in Nat \ {0}
    /\ Disruption \subseteq {"logout", "fail", "crash"}

VARIABLES
    social,  \* Player.Friends and Player.FriendRequests of the database
    panel,   \* what the client of each player has been told, Offline without one
    todo,    \* what the handler of each player has left to do
    calm     \* history: no requests have overlapped, none has failed, and no
             \* id that has wrapped to zero has been saved

vars == <<social, panel, todo, calm>>

Row    == [id : 0 .. MaxSocialID, who : Player]
Lists  == [friends : Seq(Row), requests : Seq(Row)]
Panel  == [friends : SUBSET Row, requests : SUBSET Row]

ASSUME OfflineAssumption == Offline \notin Panel

NoLists == [friends |-> <<>>, requests |-> <<>>]

-----------------------------------------------------------------------------
\* The methods of a loaded copy.

\* Faulty variant: numbers the requests and the friends apart.
NextSocialIDOfRequests(lists) == (1 + Highest(lists.requests)) % (MaxSocialID + 1)

NextSocialID(lists) ==
    (1 + Max({Highest(lists.friends), Highest(lists.requests)})) % (MaxSocialID + 1)

IsFriendOf(lists, p) == p \in People(lists.friends)

HasRequestFrom(lists, p) == p \in People(lists.requests)

RemoveFriendRequest(lists, id) == [lists EXCEPT !.requests = Without(@, id)]

RemoveFriend(lists, id) == [lists EXCEPT !.friends = Without(@, id)]

RemoveFriendOf(lists, p) == [lists EXCEPT !.friends = RemoveAt(@, PlaceOf(@, p))]

Befriend(lists, row) == [lists EXCEPT !.friends = Append(@, row)]

-----------------------------------------------------------------------------
\* The calls and messages that a handler has left.
SaveSocial(p, lists)     == [do |-> "saveSocial", who |-> p, lists |-> lists]
FindSender(row, copy)    == [do |-> "findSender", row |-> row, copy |-> copy]
FindOther(row)           == [do |-> "findOther", row |-> row]
FindInvited(row)         == [do |-> "findInvited", row |-> row]

\* A message, if it goes to one of the screens that are followed.
Message(p, w)            == IF p \in Followed THEN <<w>> ELSE <<>>
Tell(p, what, list, row) ==
    Message(p, [do |-> "tell", who |-> p, what |-> what, list |-> list, row |-> row])
Show(p, list, rows) == Message(p, [do |-> "show", who |-> p, list |-> list, rows |-> rows])

Call ==
    [do : {"saveSocial"}, who : Player, lists : Lists]
    \cup [do : {"findSender"}, row : Row, copy : Lists]
    \cup [do : {"findOther", "findInvited"}, row : Row]
    \cup [do : {"tell"}, who : Player, what : {"add", "withdraw", "invite"},
          list : {"friends", "requests"}, row : Row]
    \cup [do : {"show"}, who : Player, list : {"friends", "requests"}, rows : SUBSET Row]

TypeOK ==
    /\ social \in [Player -> Lists]
    /\ panel \in [Player -> Panel \cup {Offline}]
    /\ todo \in [Player -> Seq(Call)]
    /\ calm \in BOOLEAN

Init ==
    /\ social = [p \in Player |-> NoLists]
    /\ panel = [p \in Player |-> Offline]
    /\ todo = [p \in Player |-> <<>>]
    /\ calm = TRUE

Quiet == \A p \in Player : todo[p] = <<>>

-----------------------------------------------------------------------------
\* A handler begins.  Frames of one connection are handled one at a time.
Begin(p, calls) ==
    /\ todo[p] = <<>>
    /\ Cardinality({q \in Player : todo[q] # <<>>}) < MaxOverlap
    /\ todo' = [todo EXCEPT ![p] = calls]

Online(p) == panel[p] # Offline

\* What is left once an account has been loaded and the copy worked on.
Leaves(p, calls) ==
    /\ Online(p)
    /\ Begin(p, calls)
    /\ calm' = (calm /\ Quiet)
    /\ UNCHANGED <<social, panel>>

\* bindPlayer, then the social screen's own login, which loads both lists.
Login(p) ==
    /\ panel[p] = Offline
    /\ Begin(p, Show(p, "friends", Range(social[p].friends))
                \o Show(p, "requests", Range(social[p].requests)))
    /\ panel' = [panel EXCEPT ![p] = [friends |-> {}, requests |-> {}]]
    /\ calm' = (calm /\ Quiet)
    /\ UNCHANGED social

Logout(p) ==
    /\ "logout" \in Disruption
    /\ todo[p] = <<>>
    /\ Online(p)
    /\ panel' = [panel EXCEPT ![p] = Offline]
    /\ UNCHANGED <<social, todo, calm>>

-----------------------------------------------------------------------------
Size(lists) == Len(lists.friends) + Len(lists.requests)

\* Faulty variant: a second request from the same player is taken.
RequestRepeated(p, q) ==
    /\ p # q
    /\ Size(social[q]) < MaxRows
    /\ ~ IsFriendOf(social[q], p)
    /\ LET row == [id |-> NextSocialID(social[q]), who |-> p]
       IN  Leaves(p, <<SaveSocial(q, [social[q] EXCEPT !.requests = Append(@, row)])>>
                     \o Tell(q, "add", "requests", row))

\* Faulty variant: does not see that the two are friends.
RequestOfFriend(p, q) ==
    /\ p # q
    /\ Size(social[q]) < MaxRows
    /\ ~ HasRequestFrom(social[q], p)
    /\ LET row == [id |-> NextSocialID(social[q]), who |-> p]
       IN  Leaves(p, <<SaveSocial(q, [social[q] EXCEPT !.requests = Append(@, row)])>>
                     \o Tell(q, "add", "requests", row))

Request(p, q) ==
    /\ p # q
    /\ Size(social[q]) < MaxRows
    /\ ~ IsFriendOf(social[q], p)
    /\ ~ HasRequestFrom(social[q], p)
    /\ LET row == [id |-> NextSocialID(social[q]), who |-> p]
       IN  Leaves(p, <<SaveSocial(q, [social[q] EXCEPT !.requests = Append(@, row)])>>
                     \o Tell(q, "add", "requests", row))

\* Accept works on the actor's copy, then loads the sender of the request.
Accept(p, id) ==
    /\ id \in IDs(social[p].requests)
    /\ LET request == RowWith(social[p].requests, id)
       IN  /\ Size(social[request.who]) < MaxRows
           /\ Leaves(p, <<FindSender(request, RemoveFriendRequest(social[p], id))>>)

Reject(p, id) ==
    /\ id \in IDs(social[p].requests)
    /\ Leaves(p, <<SaveSocial(p, RemoveFriendRequest(social[p], id))>>
                 \o Tell(p, "withdraw", "requests", RowWith(social[p].requests, id)))

\* Delete saves the actor's list before it loads the other account.
Delete(p, id) ==
    /\ id \in IDs(social[p].friends)
    /\ Leaves(p, <<SaveSocial(p, RemoveFriend(social[p], id)),
                   FindOther(RowWith(social[p].friends, id))>>)

\* Whether p is in a room, which an invitation needs, is left open.
Invite(p, id) ==
    /\ id \in IDs(social[p].friends)
    /\ Leaves(p, <<FindInvited(RowWith(social[p].friends, id))>>)

-----------------------------------------------------------------------------
(***************************************************************************)
(* The calls that are left, one step each.                                 *)
(***************************************************************************)
NextCall(p, what) == todo[p] # <<>> /\ Head(todo[p]).do = what

Saving(p) ==
    LET w == Head(todo[p])
    IN  /\ NextCall(p, "saveSocial")
        /\ social' = [social EXCEPT ![w.who] = w.lists]
        /\ todo' = [todo EXCEPT ![p] = Tail(@)]
        /\ calm' = (calm /\ 0 \notin IDs(w.lists.friends) \cup IDs(w.lists.requests))
        /\ UNCHANGED panel

\* Faulty variant: the sender is not entered.
FindingSenderHalf(p) ==
    LET w      == Head(todo[p])
        sender == w.row.who
    IN  /\ NextCall(p, "findSender")
        /\ todo' = [todo EXCEPT ![p] =
             <<SaveSocial(p, Befriend(w.copy, w.row))>>
             \o Tell(p, "withdraw", "requests", w.row) \o Tell(p, "add", "friends", w.row)]
        /\ UNCHANGED <<social, panel, calm>>

FindingSender(p) ==
    LET w      == Head(todo[p])
        sender == w.row.who
        theirs == [id |-> NextSocialID(social[sender]), who |-> p]
    IN  /\ NextCall(p, "findSender")
        /\ todo' = [todo EXCEPT ![p] =
             <<SaveSocial(p, Befriend(w.copy, w.row)),
               SaveSocial(sender, Befriend(social[sender], theirs))>>
             \o (Tell(p, "withdraw", "requests", w.row) \o Tell(p, "add", "friends", w.row)
                 \o Tell(sender, "add", "friends", theirs))]
        /\ UNCHANGED <<social, panel, calm>>

\* Faulty variant: the other client is told the actor's id of the friendship.
FindingOtherOwnID(p) ==
    LET w        == Head(todo[p])
        other    == w.row.who
        mirrored == RowOf(social[other].friends, p)
        own      == Tell(p, "withdraw", "friends", w.row)
    IN  /\ NextCall(p, "findOther")
        /\ todo' = [todo EXCEPT ![p] =
             IF ~ IsFriendOf(social[other], p) THEN own
             ELSE <<SaveSocial(other, RemoveFriendOf(social[other], p))>>
                  \o (own \o IF mirrored.id = 0 THEN <<>>
                             ELSE Tell(other, "withdraw", "friends", w.row))]
        /\ UNCHANGED <<social, panel, calm>>

\* A mirrored row with id zero counts as none and is not announced.
FindingOther(p) ==
    LET w        == Head(todo[p])
        other    == w.row.who
        mirrored == RowOf(social[other].friends, p)
        own      == Tell(p, "withdraw", "friends", w.row)
    IN  /\ NextCall(p, "findOther")
        /\ todo' = [todo EXCEPT ![p] =
             IF ~ IsFriendOf(social[other], p) THEN own
             ELSE <<SaveSocial(other, RemoveFriendOf(social[other], p))>>
                  \o (own \o IF mirrored.id = 0 THEN <<>>
                             ELSE Tell(other, "withdraw", "friends", mirrored))]
        /\ UNCHANGED <<social, panel, calm>>

\* The invited client is told the id by which it knows the inviter.
FindingInvited(p) ==
    LET q == Head(todo[p]).row.who
    IN  /\ NextCall(p, "findInvited")
        /\ todo' = [todo EXCEPT ![p] =
             IF IsFriendOf(social[q], p) /\ Online(q)
             THEN Tell(q, "invite", "friends", RowOf(social[q].friends, p)) ELSE <<>>]
        /\ UNCHANGED <<social, panel, calm>>

\* A message to the sessions of an account; a withdrawal names an id only.
Telling(p) ==
    LET w == Head(todo[p])
    IN  /\ NextCall(p, "tell")
        /\ panel' =
             IF ~ Online(w.who) \/ w.what = "invite" THEN panel
             ELSE [panel EXCEPT ![w.who][w.list] =
                     IF w.what = "add" THEN @ \cup {w.row} ELSE {r \in @ : r.id # w.row.id}]
        /\ todo' = [todo EXCEPT ![p] = Tail(@)]
        /\ UNCHANGED <<social, calm>>

Showing(p) ==
    LET w == Head(todo[p])
    IN  /\ NextCall(p, "show")
        /\ panel' = [panel EXCEPT ![w.who][w.list] = w.rows]
        /\ todo' = [todo EXCEPT ![p] = Tail(@)]
        /\ UNCHANGED <<social, calm>>

\* A call that fails ends its handler: nothing is undone, nothing follows.
Fail(p) ==
    /\ "fail" \in Disruption
    /\ todo[p] # <<>>
    /\ todo' = [todo EXCEPT ![p] = <<>>]
    /\ calm' = FALSE
    /\ UNCHANGED <<social, panel>>

\* The process stops: handlers and sessions are gone, the database stays.
Crash ==
    /\ "crash" \in Disruption
    /\ todo' = [p \in Player |-> <<>>]
    /\ panel' = [p \in Player |-> Offline]
    /\ calm' = (calm /\ Quiet)
    /\ UNCHANGED social

-----------------------------------------------------------------------------
Asks(p) ==
    \/ \E q \in Player : Request(p, q)
    \/ \E id \in 0 .. MaxSocialID :
          Accept(p, id) \/ Reject(p, id) \/ Delete(p, id) \/ Invite(p, id)

Proceeds(p) ==
    \/ Saving(p) \/ FindingSender(p) \/ FindingOther(p) \/ FindingInvited(p)
    \/ Telling(p) \/ Showing(p)

Next ==
    \/ \E p \in Player : Login(p) \/ Logout(p) \/ Asks(p) \/ Proceeds(p) \/ Fail(p)
    \/ Crash

Spec == Init /\ [][Next]_vars

-----------------------------------------------------------------------------
(***************************************************************************)
(* SocialIDsUnique: whatever overlaps and whatever fails, no two rows of   *)
(* an account's friends and requests, saved or waiting to be saved, share  *)
(* an id, so that an answer or a removal means one row.  The exception is  *)
(* the zero to which NextSocialID wraps.                                   *)
(***************************************************************************)
Distinct(lists) ==
    LET rows == lists.friends \o lists.requests
    IN  \A i, j \in DOMAIN rows : rows[i].id = rows[j].id => i = j \/ rows[i].id = 0

SoundIDs == {lists \in Lists : Distinct(lists)}

SocialIDsUnique ==
    /\ \A p \in Player : social[p] \in SoundIDs
    /\ \A p \in Player : \A i \in DOMAIN todo[p] :
          /\ todo[p][i].do = "saveSocial" => todo[p][i].lists \in SoundIDs
          /\ todo[p][i].do = "findSender" =>
                Befriend(todo[p][i].copy, todo[p][i].row) \in SoundIDs

(***************************************************************************)
(* AskedOnce: an account never holds two requests from one player, nor     *)
(* one from itself, though the check and the save are two calls.           *)
(***************************************************************************)
AskedOnce ==
    \A p \in Player :
        LET requests == social[p].requests
        IN  \A i, j \in DOMAIN requests :
               requests[i].who # p /\ (requests[i].who = requests[j].who => i = j)

(***************************************************************************)
(* What makes these two inductive: whatever is waiting to be saved keeps   *)
(* to them, and a request that is being accepted with the copy it was      *)
(* taken from.  Only a handler whose player is there has anything to do.   *)
(***************************************************************************)
Kept(p) ==
    {lists \in SoundIDs :
        LET requests == lists.requests
        IN  \A i, j \in DOMAIN requests :
               requests[i].who # p /\ (requests[i].who = requests[j].who => i = j)}

SoundCall(p) ==
    {w \in Call :
        /\ w.do = "saveSocial" => w.lists \in Kept(w.who)
        /\ w.do = "findSender" => Befriend(w.copy, w.row) \in Kept(p)
        /\ w.do = "show" => w.who = p}

FriendsInv ==
    /\ TypeOK
    /\ \A p \in Player :
         /\ social[p] \in Kept(p)
         /\ todo[p] \in Seq(SoundCall(p))
         /\ todo[p] # <<>> => Online(p)

(***************************************************************************)
(* MutualFriends: as long as requests come one at a time, each finished    *)
(* (calm), p is in the list of q as often as q is in that of p.            *)
(***************************************************************************)
Times(rows, q) == Cardinality({i \in DOMAIN rows : rows[i].who = q})

MutualFriends ==
    calm /\ Quiet =>
        \A p, q \in Player : Times(social[p].friends, q) = Times(social[q].friends, p)

(***************************************************************************)
(* TwiceAtMost: two players who have asked each other may both accept, and *)
(* are then entered twice; never more, counting the open requests.         *)
(***************************************************************************)
TwiceAtMost ==
    calm /\ Quiet =>
        \A p, q \in Player :
            Times(social[p].friends, q) + Times(social[p].requests, q)
              + Times(social[q].requests, p) <= 2

(***************************************************************************)
(* PanelAgrees: the answers and announcements, which carry an id or a row, *)
(* leave every social screen with the lists that are saved; and an invited *)
(* client knows the inviter by the id that the invitation carries.         *)
(***************************************************************************)
PanelAgrees ==
    calm =>
        /\ Quiet => \A p \in Followed : Online(p) =>
             /\ panel[p].friends = Range(social[p].friends)
             /\ panel[p].requests = Range(social[p].requests)
        /\ \A p \in Player : NextCall(p, "tell") =>
             LET w == Head(todo[p])
             IN  w.what = "invite" /\ Online(w.who) => w.row \in panel[w.who].friends

(***************************************************************************)
(* What makes these three inductive: while requests come one at a time the *)
(* calls that a handler has left settle what they have unsettled, both in  *)
(* the database and on the screens that are followed.                      *)
(***************************************************************************)

\* What the accounts hold when the handler of p has made a call.
Outcome(p, db, w) ==
    LET other == w.row.who
    IN  IF w.do = "saveSocial" THEN [db EXCEPT ![w.who] = w.lists]
        ELSE IF w.do = "findSender"
        THEN [db EXCEPT ![p] = Befriend(w.copy, w.row),
                        ![other] = Befriend(db[other],
                                            [id |-> NextSocialID(db[other]), who |-> p])]
        ELSE IF w.do = "findOther" /\ IsFriendOf(db[other], p)
        THEN [db EXCEPT ![other] = RemoveFriendOf(db[other], p)]
        ELSE db

\* What they hold when it has made these: nothing after the second saves.
After(p, db, calls) ==
    LET first == IF calls = <<>> THEN db ELSE Outcome(p, db, calls[1])
    IN  IF Len(calls) < 2 THEN first ELSE Outcome(p, first, calls[2])

Settled(db) ==
    \A p, q \in Player :
        /\ p \notin People(db[p].friends)
        /\ Times(db[p].friends, q) = Times(db[q].friends, p)
        /\ Times(db[p].friends, q) + Times(db[p].requests, q) + Times(db[q].requests, p) <= 2

LooksUp(w) == w.do \in {"findSender", "findOther"}

\* What is saved is saved first, and what is looked up for it just before.
InOrder(p, calls) ==
    \A i \in DOMAIN calls :
        /\ calls[i].do = "saveSocial" => i <= 2
        /\ LooksUp(calls[i]) =>
             /\ i = Len(calls) /\ calls[i].row.who # p
             /\ i # 1 => i = 2 /\ calls[1].do = "saveSocial" /\ calls[1].who = p
        /\ calls[i].do \in {"findSender", "findInvited"} => Len(calls) = 1

\* The calls of p that change what q is shown, themselves or by what they lead
\* to, and what they make of the rows that are shown.
Concerns(p, w, q, list) ==
    \/ w.do = "show" /\ w.who = q /\ w.list = list
    \/ w.do = "tell" /\ w.what # "invite" /\ w.who = q /\ w.list = list
    \/ w.do = "findSender" /\ q = p
    \/ w.do = "findOther" /\ q = p /\ list = "friends"

Redrawn(w, list, rows) ==
    IF w.do = "show" THEN w.rows
    ELSE IF (w.do = "tell" /\ w.what = "add") \/ (w.do = "findSender" /\ list = "friends")
    THEN rows \cup {w.row}
    ELSE {r \in rows : r.id # w.row.id}

ScreenDue(p, calls, db, q, list, rows) ==
    LET due  == Range(After(p, db, calls)[q][list])
        news == {w \in Range(calls) : Concerns(p, w, q, list)}
    IN  IF q # p /\ \E w \in Range(calls) : LooksUp(w) THEN rows = Range(db[q][list])
        ELSE IF news = {} THEN rows = due
        ELSE \E w \in news : news = {w} /\ Redrawn(w, list, rows) = due

\* An invitation comes from someone the invited client knows by that id.
InvitesKnown(calls, screens) ==
    \A w \in Range(calls) :
        w.do = "tell" /\ w.what = "invite" =>
            Len(calls) = 1 /\ (screens[w.who] # Offline => w.row \in screens[w.who].friends)

Due(p, calls, db, screens) ==
    /\ InOrder(p, calls)
    /\ Settled(After(p, db, calls))
    /\ \A q \in Followed, list \in {"friends", "requests"} :
          screens[q] # Offline => ScreenDue(p, calls, db, q, list, screens[q][list])
    /\ InvitesKnown(calls, screens)

NoZero(db) == \A p \in Player : 0 \notin IDs(db[p].friends) \cup IDs(db[p].requests)

Alone(p) == \A q \in Player : todo[q] # <<>> => q = p

CalmInv ==
    calm =>
        /\ NoZero(social)
        /\ \A p \in Player : todo[p] # <<>> => Alone(p)
        /\ \A p \in Player : Alone(p) => Due(p, todo[p], social, panel)
=============================================================================
