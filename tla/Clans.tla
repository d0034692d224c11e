-------------------------------- MODULE Clans --------------------------------
(***************************************************************************)
(* The clans: services/clan_service.go, clan_membership.go, the clan       *)
(* repository, the handlers of proudnet/clan*.go and what they leave in    *)
(* the sessions.                                                           *)
(*                                                                         *)
(* No lock and no transaction spans an operation.  A handler reads the     *)
(* clan's name from its session, loads the document, checks and changes    *)
(* its own copy, and saves whole slices of the copy back; then it writes   *)
(* the accounts and the sessions one by one.  todo[p] is what the handler  *)
(* of player p still has to write, computed from the document as it was    *)
(* loaded: a write replaces whatever others have saved since.  Reading the *)
(* name and loading the document are one step here.                        *)
(***************************************************************************)
EXTENDS Clan

CONSTANTS
    Name,        \* the names of clans
    NoName,      \* the empty name
    NoClan,      \* no document under a name
    Offline,     \* no session
    AskedRanks,  \* the position bytes that clients send
    MaxOverlap,  \* bound: how many players have a request under way at once
    MaxGivenID,  \* bound: nobody applies once an id of the clan is as large
    Disruption   \* which of "logout", "fail" and "crash" happen

ASSUME ClansAssumption ==
    /\ NoName \notin Name
    /\ NoClan \notin Document
    /\ Offline \notin Name \cup {NoName}
    /\ MaxOverlap \in Nat \ {0}
    /\ MaxGivenID \in Nat
    /\ Disruption \subseteq {"logout", "fail", "crash"}

VARIABLES
    clans,    \* the clans collection: name -> document, NoClan where none
    account,  \* Player.ClanName of the players collection
    session,  \* Player.ClanName of the copy in the player's session
    todo      \* what the handler of each player has left to do

vars == <<clans, account, session, todo>>

-----------------------------------------------------------------------------
\* The calls of a handler that read or write shared state.
Save(c, fields)    == [do |-> "save", clan |-> c, fields |-> fields]
Delete(c)          == [do |-> "delete", clan |-> c]
FindByMark(c, m)   == [do |-> "findByMark", clan |-> c, mark |-> m]
FindPlayer(p)      == [do |-> "findPlayer", who |-> p]
SetClanName(p, c)  == [do |-> "setClanName", who |-> p, clan |-> c]
SetSession(p, c)   == [do |-> "setSession", who |-> p, clan |-> c]
BindPlayer(p, c)   == [do |-> "bindPlayer", who |-> p, clan |-> c]

Fields ==
    [applicants : Applicants] \cup [members : Members] \cup [mark : Mark]
    \cup [members : Members, applicants : Applicants]
    \cup [members : Members, master : Player]

Call ==
    [do : {"save"}, clan : Name, fields : Fields]
    \cup [do : {"delete"}, clan : Name]
    \cup [do : {"findByMark"}, clan : Name, mark : Mark]
    \cup [do : {"findPlayer"}, who : Player]
    \cup [do : {"setClanName", "setSession", "bindPlayer"}, who : Player, clan : Name \cup {NoName}]

TypeOK ==
    /\ clans \in [Name -> Document \cup {NoClan}]
    /\ account \in [Player -> Name \cup {NoName}]
    /\ session \in [Player -> Name \cup {NoName, Offline}]
    /\ todo \in [Player -> Seq(Call)]

Init ==
    /\ clans = [c \in Name |-> NoClan]
    /\ account = [p \in Player |-> NoName]
    /\ session = [p \in Player |-> Offline]
    /\ todo = [p \in Player |-> <<>>]

-----------------------------------------------------------------------------
\* A handler begins.  Frames of one connection are handled one at a time.
Begin(p, calls) ==
    /\ todo[p] = <<>>
    /\ Cardinality({q \in Player : todo[q] # <<>>}) < MaxOverlap
    /\ todo' = [todo EXCEPT ![p] = calls]

\* What is left once the document has been loaded and the copy worked on.
Leaves(p, calls) == Begin(p, calls) /\ UNCHANGED <<clans, account, session>>

(***************************************************************************)
(* LoginBySteam loads the account and bindPlayer stores that copy in the   *)
(* session later.  The store and loadout handlers refresh the copy of a    *)
(* session that is open in the same two steps, and so does ChangeMark when *)
(* it has spent the item.                                                  *)
(***************************************************************************)
Login(p) == Leaves(p, <<FindPlayer(p)>>)

Logout(p) ==
    /\ "logout" \in Disruption
    /\ todo[p] = <<>>
    /\ session[p] # Offline
    /\ session' = [session EXCEPT ![p] = Offline]
    /\ UNCHANGED <<clans, account, todo>>

\* resolvePlayer: p has a session, whose copy of the player names clan c.
Asks(p, c) == session[p] = c

Online(p) == session[p] # Offline

-----------------------------------------------------------------------------
(***************************************************************************)
(* Joining: Create inserts the document in one call, without looking at    *)
(* the creator's clan; RequestJoin trusts the session's copy to say that   *)
(* the player has none; CancelApplication works on whichever clan          *)
(* FindByApplicant returns.                                                *)
(***************************************************************************)
Create(p, c, mark) ==
    /\ Online(p)
    /\ clans[c] = NoClan
    /\ clans' = [clans EXCEPT ![c] = NewClan(p, mark)]
    /\ Begin(p, <<SetClanName(p, c), SetSession(p, c)>>)
    /\ UNCHANGED <<account, session>>

RequestJoin(p, c) ==
    /\ Asks(p, NoName)
    /\ clans[c] # NoClan
    /\ p \notin People(clans[c].members) \cup People(clans[c].applicants)
    /\ Highest(clans[c].members) < MaxGivenID /\ Highest(clans[c].applicants) < MaxGivenID
    /\ Leaves(p, <<Save(c, [applicants |-> Enqueue(clans[c], p)])>>)

CancelApplication(p, c) ==
    /\ Online(p)
    /\ clans[c] # NoClan
    /\ p \in People(clans[c].applicants)
    /\ LET queue == clans[c].applicants
       IN  Leaves(p, <<Save(c, [applicants |-> Without(queue, RowOf(queue, p).id)])>>)

-----------------------------------------------------------------------------
\* actorClan: p is a member, with one of these ranks, of the clan it names.
ActorWith(p, c, ranks) ==
    /\ Asks(p, c)
    /\ clans[c] # NoClan
    /\ p \in People(clans[c].members)
    /\ RowOf(clans[c].members, p).rank \in ranks

AcceptApplication(p, c, id) ==
    LET clan      == clans[c]
        applicant == RowWith(clan.applicants, id)
    IN  /\ ActorWith(p, c, Reviewers)
        /\ id \in IDs(clan.applicants)
        /\ ~ IsFull(clan)
        /\ Leaves(p, <<Save(c, [members |-> Enroll(clan, applicant),
                                applicants |-> Without(clan.applicants, id)]),
                       SetClanName(applicant.who, c), SetSession(applicant.who, c)>>)

RejectApplication(p, c, id) ==
    /\ ActorWith(p, c, Reviewers)
    /\ id \in IDs(clans[c].applicants)
    /\ Leaves(p, <<Save(c, [applicants |-> Without(clans[c].applicants, id)])>>)

\* detach, and announceDeparture after it.
Detach(c, member) ==
    <<Save(c, [members |-> Without(clans[c].members, member.id)]),
      SetClanName(member.who, NoName), SetSession(member.who, NoName)>>

\* Whether an actor may kick the member its request names.
MayKick(actor, target) ==
    /\ target.rank # Master
    /\ target.id # actor.id
    /\ ~ (actor.rank = Manager /\ target.rank = Manager)

KickMember(p, c, id) ==
    LET members == clans[c].members
    IN  /\ ActorWith(p, c, Reviewers)
        /\ id \in IDs(members)
        /\ MayKick(RowOf(members, p), RowWith(members, id))
        /\ Leaves(p, Detach(c, RowWith(members, id)))

\* Faulty variant: a master may leave the others behind.
LeaveUnchecked(p, c) ==
    /\ ActorWith(p, c, Ranks)
    /\ Leaves(p, Detach(c, RowOf(clans[c].members, p)))

Leave(p, c) ==
    LET members == clans[c].members
    IN  /\ ActorWith(p, c, Ranks)
        /\ RowOf(members, p).rank = Master => Len(members) <= 1
        /\ Leaves(p, Detach(c, RowOf(members, p)))

ChangePosition(p, c, id, rank) ==
    LET members == clans[c].members
    IN  /\ ActorWith(p, c, {Master})
        /\ rank \in Assignable
        /\ id \in IDs(members) \ {RowOf(members, p).id}
        /\ Leaves(p, <<Save(c, [members |-> SetRank(members, id, rank)])>>)

\* Faulty variant: the master field is not saved.
ChangeMasterUnnamed(p, c, id) ==
    LET members == clans[c].members
    IN  /\ ActorWith(p, c, {Master})
        /\ id \in IDs(members) \ {RowOf(members, p).id}
        /\ Leaves(p, <<Save(c, [members |-> HandOver(members, id, RowOf(members, p).id)])>>)

ChangeMaster(p, c, id) ==
    LET members == clans[c].members
    IN  /\ ActorWith(p, c, {Master})
        /\ id \in IDs(members) \ {RowOf(members, p).id}
        /\ Leaves(p, <<Save(c, [members |-> HandOver(members, id, RowOf(members, p).id),
                                master |-> RowWith(members, id).who])>>)

\* Faulty variant: only the master's account is cleared.
DisbandMasterOnly(p, c) ==
    /\ ActorWith(p, c, {Master})
    /\ Leaves(p, <<Delete(c), SetClanName(p, NoName), SetSession(p, NoName)>>)

Disband(p, c) ==
    LET members == clans[c].members
    IN  /\ ActorWith(p, c, {Master})
        /\ Leaves(p, <<Delete(c)>>
                       \o [i \in DOMAIN members |-> SetClanName(members[i].who, NoName)]
                       \o [i \in DOMAIN members |-> SetSession(members[i].who, NoName)])

\* Faulty variant: does not ask who wears the emblem.
ChangeMarkUnchecked(p, c, mark) ==
    /\ ActorWith(p, c, {Master})
    /\ Leaves(p, <<Save(c, [mark |-> mark]), FindPlayer(p)>>)

ChangeMark(p, c, mark) ==
    /\ ActorWith(p, c, {Master})
    /\ Leaves(p, <<FindByMark(c, mark), Save(c, [mark |-> mark]), FindPlayer(p)>>)

-----------------------------------------------------------------------------
(***************************************************************************)
(* The calls that are left, one step each.  A save sets the given fields   *)
(* and is lost on a name without a document; setSessionClan and a bind     *)
(* replace the name in the session, the former only where there is one.    *)
(***************************************************************************)
NextCall(p, what) == todo[p] # <<>> /\ Head(todo[p]).do = what

Updated(clan, fields) ==
    [f \in DOMAIN clan |-> IF f \in DOMAIN fields THEN fields[f] ELSE clan[f]]

Saving(p) ==
    LET w == Head(todo[p])
    IN  /\ NextCall(p, "save")
        /\ clans' = IF clans[w.clan] = NoClan THEN clans
                    ELSE [clans EXCEPT ![w.clan] = Updated(@, w.fields)]
        /\ todo' = [todo EXCEPT ![p] = Tail(@)]
        /\ UNCHANGED <<account, session>>

Deleting(p) ==
    /\ NextCall(p, "delete")
    /\ clans' = [clans EXCEPT ![Head(todo[p]).clan] = NoClan]
    /\ todo' = [todo EXCEPT ![p] = Tail(@)]
    /\ UNCHANGED <<account, session>>

Worn(c, mark) == \E d \in Name \ {c} : clans[d] # NoClan /\ clans[d].mark = mark

FindingByMark(p) ==
    LET w == Head(todo[p])
    IN  /\ NextCall(p, "findByMark")
        /\ todo' = [todo EXCEPT ![p] = IF Worn(w.clan, w.mark) THEN <<>> ELSE Tail(@)]
        /\ UNCHANGED <<clans, account, session>>

FindingPlayer(p) ==
    LET w == Head(todo[p])
    IN  /\ NextCall(p, "findPlayer")
        /\ todo' = [todo EXCEPT ![p] = <<BindPlayer(w.who, account[w.who])>> \o Tail(@)]
        /\ UNCHANGED <<clans, account, session>>

SettingClanName(p) ==
    LET w == Head(todo[p])
    IN  /\ NextCall(p, "setClanName")
        /\ account' = [account EXCEPT ![w.who] = w.clan]
        /\ todo' = [todo EXCEPT ![p] = Tail(@)]
        /\ UNCHANGED <<clans, session>>

SettingSession(p) ==
    LET w == Head(todo[p])
    IN  /\ NextCall(p, "setSession")
        /\ session' = IF session[w.who] = Offline THEN session
                      ELSE [session EXCEPT ![w.who] = w.clan]
        /\ todo' = [todo EXCEPT ![p] = Tail(@)]
        /\ UNCHANGED <<clans, account>>

Binding(p) ==
    LET w == Head(todo[p])
    IN  /\ NextCall(p, "bindPlayer")
        /\ session' = [session EXCEPT ![w.who] = w.clan]
        /\ todo' = [todo EXCEPT ![p] = Tail(@)]
        /\ UNCHANGED <<clans, account>>

\* A call that fails ends its handler: nothing is undone, nothing follows.
Fail(p) ==
    /\ "fail" \in Disruption
    /\ todo[p] # <<>>
    /\ todo' = [todo EXCEPT ![p] = <<>>]
    /\ UNCHANGED <<clans, account, session>>

\* The process stops: handlers and sessions are gone, the database stays.
Crash ==
    /\ "crash" \in Disruption
    /\ todo' = [p \in Player |-> <<>>]
    /\ session' = [p \in Player |-> Offline]
    /\ UNCHANGED <<clans, account>>

-----------------------------------------------------------------------------
\* The ids a request may carry to some effect; any other id is refused.
Request(p, c) ==
    \/ \E mark \in Mark : Create(p, c, mark)
    \/ /\ clans[c] # NoClan
       /\ \/ RequestJoin(p, c)
          \/ CancelApplication(p, c)
          \/ Leave(p, c)
          \/ Disband(p, c)
          \/ \E mark \in Mark : ChangeMark(p, c, mark)
          \/ \E id \in IDs(clans[c].applicants) :
                AcceptApplication(p, c, id) \/ RejectApplication(p, c, id)
          \/ \E id \in IDs(clans[c].members) :
                \/ KickMember(p, c, id)
                \/ ChangeMaster(p, c, id)
                \/ \E rank \in AskedRanks : ChangePosition(p, c, id, rank)

\* The calls a handler makes on its own once its request is decided.
HandlerStep(p) ==
    \/ Saving(p)
    \/ Deleting(p)
    \/ FindingByMark(p)
    \/ FindingPlayer(p)
    \/ SettingClanName(p)
    \/ SettingSession(p)
    \/ Binding(p)

Next ==
    \/ \E p \in Player :
          \/ Login(p)
          \/ Logout(p)
          \/ \E c \in Name : Request(p, c)
          \/ HandlerStep(p)
          \/ Fail(p)
    \/ Crash

Spec == Init /\ [][Next]_vars

-----------------------------------------------------------------------------
(***************************************************************************)
(* The state once the requests under way are through: what ClanRules sees. *)
(* A request takes effect there when it is decided, the writes after it    *)
(* are no steps of ClanRules.  No request writes a clan or an account more *)
(* than once.                                                              *)
(***************************************************************************)
Waiting == UNION {Range(todo[p]) : p \in Player}

ClanWith(clan, c, calls) ==
    LET writes == {w \in calls : w.do \in {"save", "delete"} /\ w.clan = c}
        write  == CHOOSE w \in writes : TRUE
    IN  IF clan = NoClan \/ writes = {} THEN clan
        ELSE IF write.do = "delete" THEN NoClan ELSE Updated(clan, write.fields)

NameWith(name, p, calls) ==
    LET names == {w \in calls : w.do = "setClanName" /\ w.who = p}
    IN  IF names = {} THEN name ELSE (CHOOSE w \in names : TRUE).clan

ClanAfter(c)    == ClanWith(clans[c], c, Waiting)
AccountAfter(p) == NameWith(account[p], p, Waiting)

Queue(clan) == IF clan = NoClan THEN {} ELSE People(clan.applicants)

RanksIn(clan) ==
    [p \in Player |-> IF clan # NoClan /\ p \in People(clan.members)
                      THEN RowOf(clan.members, p).rank ELSE 0]

Rules == INSTANCE ClanRules WITH
    founded <- {c \in Name : ClanAfter(c) # NoClan},
    rank    <- [c \in Name |-> RanksIn(ClanAfter(c))],
    queue   <- [c \in Name |-> Queue(ClanAfter(c))],
    belongs <- [p \in Player |-> AccountAfter(p)]

(***************************************************************************)
(* ImplementsRules: served one request at a time, the saved slices, the    *)
(* row ids, the accounts and the copies in the sessions together do what   *)
(* ClanRules says; no actor works with a stale name or on the wrong row.   *)
(***************************************************************************)
ImplementsRules == Rules!Spec

(***************************************************************************)
(* RowIDsDistinct: within a clan no two members, no two applicants and no  *)
(* member and applicant share an id, so that every id a request carries    *)
(* means one person (nextApplicantID looks at both slices, and an accepted *)
(* applicant keeps the id).                                                *)
(***************************************************************************)
RowIDsDistinct ==
    \A c \in Name : clans[c] # NoClan =>
        /\ Unique(clans[c].members)
        /\ Unique(clans[c].applicants)
        /\ IDs(clans[c].members) \cap IDs(clans[c].applicants) = {}

(***************************************************************************)
(* LeaderNamed: the master field of a clan with members names the one      *)
(* member whose row has the master's rank, through every handover, kick    *)
(* and departure.                                                          *)
(***************************************************************************)
Masters(members) == {i \in DOMAIN members : members[i].rank = Master}

LeaderNamed ==
    \A c \in Name : clans[c] # NoClan /\ clans[c].members # <<>> =>
        /\ clans[c].master \in People(clans[c].members)
        /\ Masters(clans[c].members) = {PlaceOf(clans[c].members, clans[c].master)}

(***************************************************************************)
(* MembershipAgrees: once the requests under way are through, an account   *)
(* names a clan that exists and lists it, and the copy in the session      *)
(* names the same clan: nobody is bound to a clan that will not have them. *)
(***************************************************************************)
Quiet == \A p \in Player : todo[p] = <<>>

Listed(p, c) == clans[c] # NoClan /\ p \in People(clans[c].members)

MembershipAgrees ==
    Quiet => \A p \in Player :
        /\ account[p] # NoName => Listed(p, account[p])
        /\ session[p] \in {Offline, account[p]}

(***************************************************************************)
(* RepaintUnique: ChangeMark never repaints a clan with an emblem that     *)
(* another clan wears (ErrMarkTaken, clan_membership.go:21).               *)
(***************************************************************************)
RepaintUnique ==
    [][\A c \in Name :
          clans[c] # NoClan /\ clans'[c] # NoClan /\ clans'[c].mark # clans[c].mark
            => ~ Worn(c, clans'[c].mark)]_vars

(***************************************************************************)
(* AtMostOneMaster: however saves overwrite one another, and however ids   *)
(* come to be shared by that, no clan ever has two masters.                *)
(***************************************************************************)
AtMostOneMaster ==
    \A c \in Name : clans[c] # NoClan =>
        \A i, j \in Masters(clans[c].members) : i = j

(***************************************************************************)
(* ClanNotOverfull: overlapping accepts never save more members than the   *)
(* clan may have, since each saves the roster it has checked.              *)
(***************************************************************************)
ClanNotOverfull == \A c \in Name : clans[c] # NoClan => Len(clans[c].members) <= Capacity

(***************************************************************************)
(* ClansInv: those two are inductive together with the types.  The rosters *)
(* that wait to be saved are as sound as the saved ones, and a master is   *)
(* the first row with the master's id, so that a write to "the row with    *)
(* this id" reaches the master's own.                                      *)
(***************************************************************************)
SoundRoster(members) ==
    /\ Len(members) <= Capacity
    /\ \A i \in Masters(members) : \A j \in DOMAIN members :
          j \in Masters(members) \/ members[j].id = members[i].id => i <= j

SoundDocument == {clan \in Document : SoundRoster(clan.members)}

SoundCall ==
    {w \in Call : w.do = "save" /\ "members" \in DOMAIN w.fields => SoundRoster(w.fields.members)}

ClansInv ==
    /\ clans \in [Name -> SoundDocument \cup {NoClan}]
    /\ account \in [Player -> Name \cup {NoName}]
    /\ session \in [Player -> Name \cup {NoName, Offline}]
    /\ todo \in [Player -> Seq(SoundCall)]

(***************************************************************************)
(* OneClanPerPlayer: CLAN_EVENT_FLOW_RESEARCH.md:180 says of the accept    *)
(* command that it must "Recheck applicant still has no clan": no player   *)
(* is listed by two clans.                                                 *)
(***************************************************************************)
OneClanPerPlayer ==
    \A p \in Player : \A c, d \in Name : Listed(p, c) /\ Listed(p, d) => c = d

(***************************************************************************)
(* MasterLeavesLast: PROGRESS.md:87 says of Leave clan that the "Master is *)
(* blocked while other members remain": no save takes the clan's master    *)
(* off the roster and leaves others on it.                                 *)
(***************************************************************************)
MasterLeavesLast ==
    [][\A c \in Name : clans[c] # NoClan /\ clans'[c] # NoClan =>
          \A p \in Player :
             (Listed(p, c) /\ RowOf(clans[c].members, p).rank = Master /\ ~ Listed(p, c)')
               => clans'[c].members = <<>>]_vars
=============================================================================
