-------------------------------- MODULE Clan --------------------------------
(***************************************************************************)
(* A clan document (models/clan.go) and the changes the clan service makes *)
(* to a copy of it in memory before it saves the copy's slices back.       *)
(*                                                                         *)
(* A member row keeps its id, the player and the rank, an applicant row    *)
(* its id and the player.  An applicant who is accepted keeps the id.      *)
(***************************************************************************)
EXTENDS Rows

CONSTANTS
    Player,    \* the accounts
    Mark,      \* the emblems
    Capacity,  \* DefaultClanMemberCapacity (50)
    MaxRowID   \* the largest member or applicant id (65535, a uint16)

ASSUME ClanAssumption ==
    /\ Capacity \in Nat \ {0}
    /\ MaxRowID \in Nat \ {0}

Master    == 1
Manager   == 2
Member    == 8
Associate == 9
Ranks     == {Master, Manager, Member, Associate}

\* CanReviewClanApplications and IsAssignableClanRank.
Reviewers  == {Master, Manager}
Assignable == {Manager, Member, Associate}

RowID     == 0 .. MaxRowID
Members   == Seq([id : RowID, who : Player, rank : Ranks])
Applicants == Seq([id : RowID, who : Player])
Document  == [master : Player, members : Members, applicants : Applicants, mark : Mark]

NewClan(p, mark) ==
    [master |-> p, members |-> <<[id |-> 1, who |-> p, rank |-> Master]>>,
     applicants |-> <<>>, mark |-> mark]

-----------------------------------------------------------------------------
\* Faulty variant: one member too many.
IsFullOffByOne(clan) == Len(clan.members) > Capacity

IsFull(clan) == Len(clan.members) >= Capacity

\* Faulty variant: counts on from the other applicants only.
NextApplicantIDOfQueue(clan) == (1 + Highest(clan.applicants)) % (MaxRowID + 1)

\* nextApplicantID: above every id of the document, as a uint16.
NextApplicantID(clan) ==
    (1 + Max({Highest(clan.members), Highest(clan.applicants)})) % (MaxRowID + 1)

Enqueue(clan, p) == Append(clan.applicants, [id |-> NextApplicantID(clan), who |-> p])

Enroll(clan, applicant) ==
    Append(clan.members, [id |-> applicant.id, who |-> applicant.who, rank |-> Member])

\* SetRank writes to the first member with this id.
SetRank(members, id, rank) ==
    IF id \in IDs(members) THEN [members EXCEPT ![IndexOf(members, id)].rank = rank]
                           ELSE members

\* Faulty variant: the outgoing master keeps the rank.
HandOverShared(members, successor, outgoing) == SetRank(members, successor, Master)

\* ChangeMaster: the successor first, then the outgoing master.
HandOver(members, successor, outgoing) ==
    SetRank(SetRank(members, successor, Master), outgoing, Manager)
=============================================================================
