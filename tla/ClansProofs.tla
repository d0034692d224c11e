----------------------------- MODULE ClansProofs -----------------------------
(***************************************************************************)
(* Proofs about Clans, for any number of players, clans and overlapping    *)
(* requests, with logouts, failing calls and crashes at any point.         *)
(***************************************************************************)
EXTENDS Clans, RowLemmas

-----------------------------------------------------------------------------
(***************************************************************************)
(* What a service does to its copy of a roster keeps it sound.             *)
(***************************************************************************)
Row == [id : RowID, who : Player, rank : Ranks]

LEMMA RowsNumbered == Numbered(Row) /\ Numbered([id : RowID, who : Player])
BY ClanAssumption DEF Numbered, Row, RowID

(***************************************************************************)
(* Cutting a row out: the order of the others stays, and with it the       *)
(* first place of the master.                                              *)
(***************************************************************************)
LEMMA CutSound ==
    ASSUME NEW u \in Members, SoundRoster(u), NEW id, NEW v, v = Without(u, id)
    PROVE  v \in Members /\ SoundRoster(v)
<1>1. u \in Seq(Row) /\ Members = Seq(Row)
  BY DEF Members, Row
<1>2. CASE id \notin IDs(u)
  BY <1>2 DEF Without
<1>3. CASE id \in IDs(u)
  <2>1. PICK k \in DOMAIN u : k = IndexOf(u, id)
    BY <1>1, <1>3, IndexFound
  <2>2. v = RemoveAt(u, k)
    BY <1>3, <2>1 DEF Without
  <2>3. /\ v \in Seq(Row)
        /\ Len(v) = Len(u) - 1
        /\ \A i \in DOMAIN v : v[i] = IF i < k THEN u[i] ELSE u[i + 1]
    BY <1>1, <2>2, RemoveAtShifts
  <2>4. /\ DOMAIN u = 1 .. Len(u) /\ DOMAIN v = 1 .. Len(v)
        /\ Len(u) \in Nat /\ Len(v) \in Nat /\ k \in Nat
    BY <1>1, <2>3, LenProperties
  <2>5. Len(v) <= Capacity
    BY <2>3, <2>4, ClanAssumption DEF SoundRoster
  <2>6. ASSUME NEW i \in Masters(v), NEW j \in DOMAIN v,
               j \in Masters(v) \/ v[j].id = v[i].id
        PROVE  i <= j
    <3>1. PICK a \in DOMAIN u : a = IF i < k THEN i ELSE i + 1
      BY <2>3, <2>4 DEF Masters
    <3>2. PICK b \in DOMAIN u : b = IF j < k THEN j ELSE j + 1
      BY <2>3, <2>4
    <3>3. v[i] = u[a] /\ v[j] = u[b]
      BY <2>3, <3>1, <3>2 DEF Masters
    <3>4. a \in Masters(u) /\ (b \in Masters(u) \/ u[b].id = u[a].id)
      BY <2>6, <3>1, <3>2, <3>3 DEF Masters
    <3>5. a <= b
      BY <3>4 DEF SoundRoster
    <3>6. i \in Nat /\ j \in Nat
      BY <2>4 DEF Masters
    <3> QED
      BY <2>4, <3>1, <3>2, <3>5, <3>6
  <2> QED
    BY <1>1, <2>3, <2>5, <2>6 DEF SoundRoster
<1> QED
  BY <1>2, <1>3

(***************************************************************************)
(* AcceptApplication appends a plain member where there is room.           *)
(***************************************************************************)
LEMMA EnrollSound ==
    ASSUME NEW clan \in Document, SoundRoster(clan.members), ~ IsFull(clan),
           NEW applicant \in [id : RowID, who : Player],
           NEW v, v = Enroll(clan, applicant)
    PROVE  v \in Members /\ SoundRoster(v)
<1>1. PICK u \in Members : u = clan.members
  BY DEF Document
<1>2. u \in Seq(Row) /\ Members = Seq(Row)
  BY DEF Members, Row
<1>3. PICK e \in Row : e = [id |-> applicant.id, who |-> applicant.who, rank |-> Member]
  BY DEF Row, Ranks
<1>4. e.rank # Master
  BY <1>3 DEF Member, Master
<1>5. v = Append(u, e)
  BY <1>1, <1>3 DEF Enroll
<1>6. /\ v \in Seq(Row)
      /\ Len(v) = Len(u) + 1
      /\ \A i \in 1 .. Len(u) : v[i] = u[i]
      /\ v[Len(u) + 1] = e
  BY <1>2, <1>5, AppendProperties
<1>7. /\ DOMAIN u = 1 .. Len(u) /\ DOMAIN v = 1 .. Len(u) + 1
      /\ Len(u) \in Nat
  BY <1>2, <1>6, LenProperties
<1>8. Len(v) <= Capacity
  BY <1>1, <1>6, <1>7, ClanAssumption DEF IsFull
<1>9. ASSUME NEW i \in Masters(v), NEW j \in DOMAIN v,
             j \in Masters(v) \/ v[j].id = v[i].id
      PROVE  i <= j
  <2>1. i \in 1 .. Len(u) /\ v[i] = u[i] /\ i \in Masters(u)
    BY <1>4, <1>6, <1>7 DEF Masters
  <2>2. CASE j = Len(u) + 1
    BY <2>1, <2>2, <1>7
  <2>3. CASE j \in 1 .. Len(u)
    <3>1. j \in DOMAIN u /\ (j \in Masters(u) \/ u[j].id = u[i].id)
      BY <1>6, <1>7, <1>9, <2>1, <2>3 DEF Masters
    <3> QED
      BY <1>1, <2>1, <3>1 DEF SoundRoster
  <2> QED
    BY <1>7, <2>2, <2>3
<1> QED
  BY <1>2, <1>6, <1>8, <1>9 DEF SoundRoster

(***************************************************************************)
(* SetRank changes the rank of the first row with this id and nothing      *)
(* else.                                                                   *)
(***************************************************************************)
LEMMA SetRankSets ==
    ASSUME NEW u \in Members, NEW id \in IDs(u), NEW rank \in Ranks,
           NEW v, v = SetRank(u, id, rank)
    PROVE  /\ v \in Members
           /\ DOMAIN v = DOMAIN u /\ Len(v) = Len(u)
           /\ IndexOf(u, id) \in DOMAIN u
           /\ u[IndexOf(u, id)].id = id
           /\ \A j \in DOMAIN u : u[j].id = id => IndexOf(u, id) <= j
           /\ \A i \in DOMAIN u :
                 /\ v[i].id = u[i].id
                 /\ v[i].rank = IF i = IndexOf(u, id) THEN rank ELSE u[i].rank
<1>1. u \in Seq(Row) /\ Members = Seq(Row)
  BY DEF Members, Row
<1>2. PICK k \in DOMAIN u : k = IndexOf(u, id)
  BY <1>1, IndexFound
<1>3. u[k].id = id /\ \A j \in DOMAIN u : u[j].id = id => k <= j
  BY <1>1, <1>2, IndexFound
<1>4. DOMAIN u = 1 .. Len(u) /\ Len(u) \in Nat
  BY <1>1, LenProperties
<1>5. \A i \in DOMAIN u : u[i] \in Row
  BY <1>1, <1>4, ElementOfSeq
<1>6. PICK e \in Row : e = [u[k] EXCEPT !.rank = rank]
  BY <1>5 DEF Row
<1>7. e.id = u[k].id /\ e.rank = rank
  BY <1>5, <1>6 DEF Row
<1>8. v = [u EXCEPT ![k] = e]
  BY <1>2, <1>6 DEF SetRank
<1>9. /\ v \in Seq(Row)
      /\ Len(v) = Len(u)
      /\ \A j \in 1 .. Len(u) : v[j] = IF j = k THEN e ELSE u[j]
  BY <1>1, <1>4, <1>8, ExceptSeq
<1>10. DOMAIN v = DOMAIN u
  BY <1>4, <1>9, LenProperties
<1> QED
  BY <1>1, <1>2, <1>3, <1>4, <1>7, <1>9, <1>10

(***************************************************************************)
(* ChangePosition gives a rank below the master's.                         *)
(***************************************************************************)
LEMMA PositionSound ==
    ASSUME NEW u \in Members, SoundRoster(u), NEW id \in IDs(u), NEW rank \in Assignable,
           NEW v, v = SetRank(u, id, rank)
    PROVE  v \in Members /\ SoundRoster(v)
<1>1. rank \in Ranks /\ rank # Master
  BY DEF Assignable, Ranks, Master, Manager, Member, Associate
<1>2. PICK k \in DOMAIN u : k = IndexOf(u, id)
  BY <1>1, SetRankSets
<1>3. /\ v \in Members
      /\ DOMAIN v = DOMAIN u /\ Len(v) = Len(u)
      /\ \A i \in DOMAIN u :
            /\ v[i].id = u[i].id
            /\ v[i].rank = IF i = k THEN rank ELSE u[i].rank
  BY <1>1, <1>2, SetRankSets
<1>4. Masters(v) \subseteq Masters(u)
  BY <1>1, <1>3 DEF Masters
<1>5. Len(v) <= Capacity
  BY <1>3 DEF SoundRoster
<1>6. ASSUME NEW i \in Masters(v), NEW j \in DOMAIN v,
             j \in Masters(v) \/ v[j].id = v[i].id
      PROVE  i <= j
  BY <1>3, <1>4, <1>6 DEF SoundRoster, Masters
<1> QED
  BY <1>3, <1>5, <1>6 DEF SoundRoster

(***************************************************************************)
(* ChangeMaster: the successor's row becomes the only master's, and it was *)
(* the first with its id.                                                  *)
(***************************************************************************)
LEMMA HandOverSound ==
    ASSUME NEW u \in Members, SoundRoster(u), NEW m \in Masters(u),
           NEW id \in IDs(u), id # u[m].id,
           NEW v, v = HandOver(u, id, u[m].id)
    PROVE  v \in Members /\ SoundRoster(v)
<1>1. Master \in Ranks /\ Manager \in Ranks /\ Manager # Master
  BY DEF Ranks, Master, Manager
<1>2. m \in DOMAIN u /\ u[m].rank = Master /\ u[m].id \in IDs(u)
  BY DEF Masters, IDs
<1>3. \A j \in DOMAIN u : u[j].rank = Master \/ u[j].id = u[m].id => m <= j
  BY DEF SoundRoster, Masters
<1>4. DOMAIN u = 1 .. Len(u)
  BY LenProperties DEF Members
<1>5. \A j \in DOMAIN u : u[j].rank = Master => j = m
  <2> SUFFICES ASSUME NEW j \in DOMAIN u, u[j].rank = Master
               PROVE  j = m
    OBVIOUS
  <2>1. m <= j
    BY <1>3
  <2>2. j <= m
    BY <1>2 DEF SoundRoster, Masters
  <2> QED
    BY <1>2, <1>4, <2>1, <2>2
<1>6. PICK k \in DOMAIN u : k = IndexOf(u, id)
  BY <1>1, SetRankSets
<1>7. u[k].id = id /\ \A j \in DOMAIN u : u[j].id = id => k <= j
  BY <1>1, <1>6, SetRankSets
<1>8. PICK w : w = SetRank(u, id, Master)
  OBVIOUS
<1>9. /\ w \in Members
      /\ DOMAIN w = DOMAIN u /\ Len(w) = Len(u)
      /\ \A i \in DOMAIN u :
            /\ w[i].id = u[i].id
            /\ w[i].rank = IF i = k THEN Master ELSE u[i].rank
  BY <1>1, <1>6, <1>8, SetRankSets
<1>10. PICK out \in IDs(w) : out = u[m].id
  BY <1>2, <1>9 DEF IDs
<1>11. v = SetRank(w, out, Manager)
  BY <1>8, <1>10 DEF HandOver
<1>12. PICK l \in DOMAIN w : l = IndexOf(w, out)
  BY <1>1, <1>9, SetRankSets
<1>13. w[l].id = out /\ \A j \in DOMAIN w : w[j].id = out => l <= j
  BY <1>1, <1>9, <1>12, SetRankSets
<1>14. l = m
  BY <1>2, <1>3, <1>4, <1>9, <1>10, <1>13
<1>15. /\ v \in Members
       /\ DOMAIN v = DOMAIN w /\ Len(v) = Len(w)
       /\ \A i \in DOMAIN w :
             /\ v[i].id = w[i].id
             /\ v[i].rank = IF i = l THEN Manager ELSE w[i].rank
  BY <1>1, <1>9, <1>11, <1>12, SetRankSets
<1>16. \A i \in DOMAIN v : i \in Masters(v) => i = k
  BY <1>1, <1>5, <1>9, <1>14, <1>15 DEF Masters
<1>17. Len(v) <= Capacity
  BY <1>9, <1>15 DEF SoundRoster
<1>18. ASSUME NEW i \in Masters(v), NEW j \in DOMAIN v,
              j \in Masters(v) \/ v[j].id = v[i].id
       PROVE  i <= j
  <2>1. i = k
    BY <1>16 DEF Masters
  <2>2. CASE j \in Masters(v)
    BY <1>4, <1>6, <1>16, <2>1, <2>2
  <2>3. CASE v[j].id = v[i].id
    BY <1>7, <1>9, <1>15, <2>1, <2>3
  <2> QED
    BY <1>18, <2>2, <2>3
<1> QED
  BY <1>15, <1>17, <1>18 DEF SoundRoster

-----------------------------------------------------------------------------
(***************************************************************************)
(* The calls a handler may have left to do.                                *)
(***************************************************************************)
LEMMA SaveIsCall ==
    ASSUME NEW c \in Name, NEW f \in Fields,
           "members" \in DOMAIN f => SoundRoster(f.members)
    PROVE  Save(c, f) \in SoundCall
<1>1. Save(c, f) \in [do : {"save"}, clan : Name, fields : Fields]
  BY DEF Save
<1>2. Save(c, f).fields = f
  BY DEF Save
<1> QED
  BY <1>1, <1>2 DEF Call, SoundCall

LEMMA AccountCalls ==
    ASSUME NEW p \in Player, NEW d \in Name \cup {NoName}
    PROVE  /\ FindPlayer(p) \in SoundCall
           /\ SetClanName(p, d) \in SoundCall
           /\ SetSession(p, d) \in SoundCall
           /\ BindPlayer(p, d) \in SoundCall
<1>1. FindPlayer(p) \in Call /\ FindPlayer(p).do # "save"
  BY DEF Call, FindPlayer
<1>2. SetClanName(p, d) \in Call /\ SetClanName(p, d).do # "save"
  BY DEF Call, SetClanName
<1>3. SetSession(p, d) \in Call /\ SetSession(p, d).do # "save"
  BY DEF Call, SetSession
<1>4. BindPlayer(p, d) \in Call /\ BindPlayer(p, d).do # "save"
  BY DEF Call, BindPlayer
<1> QED
  BY <1>1, <1>2, <1>3, <1>4 DEF SoundCall

LEMMA DeleteIsCall == \A c \in Name : Delete(c) \in SoundCall
BY DEF SoundCall, Call, Delete

LEMMA FindByMarkIsCall == \A c \in Name, m \in Mark : FindByMark(c, m) \in SoundCall
BY DEF SoundCall, Call, FindByMark

(***************************************************************************)
(* The slices that a save may carry.                                       *)
(***************************************************************************)
LEMMA RosterFields ==
    ASSUME NEW c \in Name, NEW members \in Members, SoundRoster(members),
           NEW applicants \in Applicants, NEW p \in Player
    PROVE  /\ Save(c, [members |-> members]) \in SoundCall
           /\ Save(c, [members |-> members, applicants |-> applicants]) \in SoundCall
           /\ Save(c, [members |-> members, master |-> p]) \in SoundCall
<1>1. [members |-> members] \in Fields
  BY DEF Fields
<1>2. [members |-> members, applicants |-> applicants] \in Fields
  BY DEF Fields
<1>3. [members |-> members, master |-> p] \in Fields
  BY DEF Fields
<1> QED
  BY <1>1, <1>2, <1>3, SaveIsCall

LEMMA QueueField ==
    ASSUME NEW c \in Name, NEW applicants \in Applicants
    PROVE  Save(c, [applicants |-> applicants]) \in SoundCall
<1>1. [applicants |-> applicants] \in Fields /\ "members" \notin DOMAIN [applicants |-> applicants]
  BY DEF Fields
<1> QED
  BY <1>1, SaveIsCall

LEMMA MarkField ==
    ASSUME NEW c \in Name, NEW m \in Mark
    PROVE  Save(c, [mark |-> m]) \in SoundCall
<1>1. [mark |-> m] \in Fields /\ "members" \notin DOMAIN [mark |-> m]
  BY DEF Fields
<1> QED
  BY <1>1, SaveIsCall

(***************************************************************************)
(* A saved document is as sound as the slices it is made from.             *)
(***************************************************************************)
LEMMA UpdatedSound ==
    ASSUME NEW clan \in SoundDocument, NEW w \in SoundCall, w.do = "save"
    PROVE  w.clan \in Name /\ Updated(clan, w.fields) \in SoundDocument
<1>1. w \in [do : {"save"}, clan : Name, fields : Fields]
  BY DEF SoundCall, Call
<1>2. PICK f \in Fields : f = w.fields
  BY <1>1
<1>3. "members" \in DOMAIN f => SoundRoster(f.members)
  BY <1>2 DEF SoundCall
<1>4. clan \in Document /\ SoundRoster(clan.members)
  BY DEF SoundDocument
<1>5. PICK d : d = Updated(clan, f)
  OBVIOUS
<1>6. DOMAIN clan = {"master", "members", "applicants", "mark"}
  BY <1>4 DEF Document
<1>7. d = [master     |-> IF "master" \in DOMAIN f THEN f.master ELSE clan.master,
           members    |-> IF "members" \in DOMAIN f THEN f.members ELSE clan.members,
           applicants |-> IF "applicants" \in DOMAIN f THEN f.applicants ELSE clan.applicants,
           mark       |-> IF "mark" \in DOMAIN f THEN f.mark ELSE clan.mark]
  BY <1>5, <1>6 DEF Updated
<1>8. /\ "master" \in DOMAIN f => f.master \in Player
      /\ "members" \in DOMAIN f => f.members \in Members
      /\ "applicants" \in DOMAIN f => f.applicants \in Applicants
      /\ "mark" \in DOMAIN f => f.mark \in Mark
  BY DEF Fields
<1>9. d \in Document
  BY <1>4, <1>7, <1>8 DEF Document
<1>10. SoundRoster(d.members)
  BY <1>3, <1>4, <1>7
<1> QED
  BY <1>1, <1>2, <1>5, <1>9, <1>10 DEF SoundDocument

(***************************************************************************)
(* Rows of the document that a request speaks of.                          *)
(***************************************************************************)
LEMMA MemberRows ==
    ASSUME NEW u \in Members
    PROVE  /\ \A i \in DOMAIN u : u[i] \in Row
           /\ \A p \in People(u) : RowOf(u, p) \in Row /\ RowOf(u, p).who = p
           /\ \A id \in IDs(u) : RowWith(u, id) \in Row /\ RowWith(u, id).id = id
<1>1. u \in Seq(Row)
  BY DEF Members, Row
<1>2. \A i \in DOMAIN u : u[i] \in Row
  BY <1>1, LenProperties, ElementOfSeq
<1>3. ASSUME NEW p \in People(u)
      PROVE  RowOf(u, p) \in Row /\ RowOf(u, p).who = p
  BY <1>1, <1>2, PlaceFound DEF RowOf
<1>4. ASSUME NEW id \in IDs(u)
      PROVE  RowWith(u, id) \in Row /\ RowWith(u, id).id = id
  BY <1>1, <1>2, IndexFound DEF RowWith
<1> QED
  BY <1>2, <1>3, <1>4

LEMMA QueueRows ==
    ASSUME NEW u \in Applicants
    PROVE  /\ \A id \in IDs(u) : RowWith(u, id) \in [id : RowID, who : Player]
           /\ \A p \in People(u) : RowOf(u, p) \in [id : RowID, who : Player]
           /\ \A id : Without(u, id) \in Applicants
<1>1. PICK R : R = [id : RowID, who : Player]
  OBVIOUS
<1>2. u \in Seq(R) /\ Applicants = Seq(R)
  BY <1>1 DEF Applicants
<1>3. \A i \in DOMAIN u : u[i] \in R
  BY <1>2, LenProperties, ElementOfSeq
<1>4. \A id \in IDs(u) : RowWith(u, id) \in R
  BY <1>2, <1>3, IndexFound DEF RowWith
<1>5. \A p \in People(u) : RowOf(u, p) \in R
  BY <1>2, <1>3, PlaceFound DEF RowOf
<1>6. ASSUME NEW id
      PROVE  Without(u, id) \in Seq(R)
  <2>1. CASE id \notin IDs(u)
    BY <1>2, <2>1 DEF Without
  <2>2. CASE id \in IDs(u)
    <3>1. PICK k \in DOMAIN u : k = IndexOf(u, id)
      BY <1>2, <2>2, IndexFound
    <3>2. RemoveAt(u, k) \in Seq(R)
      BY <1>2, RemoveAtShifts
    <3> QED
      BY <2>2, <3>1, <3>2 DEF Without
  <2> QED
    BY <2>1, <2>2
<1> QED
  BY <1>1, <1>2, <1>4, <1>5, <1>6

(***************************************************************************)
(* nextApplicantID stays within its width.                                 *)
(***************************************************************************)
LEMMA NextApplicantIDFits ==
    ASSUME NEW clan \in Document
    PROVE  NextApplicantID(clan) \in RowID
<1>1. clan.members \in Seq(Row) /\ clan.applicants \in Seq([id : RowID, who : Player])
  BY DEF Document, Members, Applicants, Row
<1>2. PICK a \in Nat : a = Highest(clan.members)
  BY <1>1, RowsNumbered, HighestIsBound
<1>3. PICK b \in Nat : b = Highest(clan.applicants)
  BY <1>1, RowsNumbered, HighestIsBound
<1>4. Max({a, b}) \in Nat
  <2>1. \A m \in Nat : a <= m /\ b <= m => Max({a, b}) \in {a, b}
    BY LargestNat
  <2>2. a <= a + b /\ b <= a + b /\ a + b \in Nat
    OBVIOUS
  <2> QED
    BY <2>1, <2>2
<1>5. PICK n \in Nat : n = 1 + Max({a, b})
  BY <1>4
<1>6. MaxRowID + 1 \in Nat \ {0}
  BY ClanAssumption
<1>7. n % (MaxRowID + 1) \in 0 .. MaxRowID
  BY <1>6, ClanAssumption
<1> QED
  BY <1>2, <1>3, <1>5, <1>7 DEF NextApplicantID, RowID

LEMMA EnqueueTyped ==
    ASSUME NEW clan \in Document, NEW p \in Player
    PROVE  Enqueue(clan, p) \in Applicants
<1>1. [id |-> NextApplicantID(clan), who |-> p] \in [id : RowID, who : Player]
  BY NextApplicantIDFits
<1>2. clan.applicants \in Seq([id : RowID, who : Player])
  BY DEF Document, Applicants
<1> QED
  BY <1>1, <1>2, AppendProperties DEF Enqueue, Applicants

LEMMA NewClanSound ==
    ASSUME NEW p \in Player, NEW m \in Mark
    PROVE  NewClan(p, m) \in SoundDocument
<1>1. PICK e \in Row : e = [id |-> 1, who |-> p, rank |-> Master]
  <2>1. 1 \in RowID /\ Master \in Ranks
    BY ClanAssumption DEF RowID, Ranks
  <2>2. [id |-> 1, who |-> p, rank |-> Master] \in Row
    BY <2>1 DEF Row
  <2> QED
    BY <2>2
<1>2. PICK u \in Seq(Row) : u = <<e>>
  <2>1. <<e>> \in Seq(Row)
    OBVIOUS
  <2> QED
    BY <2>1
<1>3. Len(u) = 1 /\ DOMAIN u = {1}
  BY <1>2
<1>4. SoundRoster(u)
  BY <1>3, ClanAssumption DEF SoundRoster, Masters
<1>5. <<>> \in Applicants
  BY DEF Applicants
<1>6. NewClan(p, m) = [master |-> p, members |-> u, applicants |-> <<>>, mark |-> m]
  BY <1>1, <1>2 DEF NewClan
<1> QED
  BY <1>4, <1>5, <1>6 DEF SoundDocument, Document, Members, Row

-----------------------------------------------------------------------------
(***************************************************************************)
(* Requests: a handler begins with calls that keep clans sound.            *)
(***************************************************************************)
LEMMA InitInv == Init => ClansInv
<1> SUFFICES ASSUME Init
             PROVE  ClansInv
  OBVIOUS
<1>1. clans \in [Name -> SoundDocument \cup {NoClan}]
  BY DEF Init
<1>2. account \in [Player -> Name \cup {NoName}]
  BY DEF Init
<1>3. session \in [Player -> Name \cup {NoName, Offline}]
  BY DEF Init
<1>4. todo \in [Player -> Seq(SoundCall)]
  BY DEF Init
<1> QED
  BY <1>1, <1>2, <1>3, <1>4 DEF ClansInv

LEMMA BeginInv ==
    ASSUME ClansInv, NEW p \in Player, NEW calls \in Seq(SoundCall), Begin(p, calls)
    PROVE  todo' \in [Player -> Seq(SoundCall)]
BY DEF ClansInv, Begin

LEMMA LeavesInv ==
    ASSUME ClansInv, NEW p \in Player, NEW calls \in Seq(SoundCall), Leaves(p, calls)
    PROVE  ClansInv'
<1>1. todo' \in [Player -> Seq(SoundCall)]
  BY BeginInv DEF Leaves
<1> QED
  BY <1>1 DEF ClansInv, Leaves

LEMMA LoginInv ==
    ASSUME ClansInv, NEW p \in Player, Login(p)
    PROVE  ClansInv'
<1>1. FindPlayer(p) \in SoundCall
  BY AccountCalls
<1>2. <<FindPlayer(p)>> \in Seq(SoundCall)
  BY <1>1
<1> QED
  BY <1>2, LeavesInv DEF Login

LEMMA LogoutInv ==
    ASSUME ClansInv, NEW p \in Player, Logout(p)
    PROVE  ClansInv'
BY DEF ClansInv, Logout

LEMMA CreateInv ==
    ASSUME ClansInv, NEW p \in Player, NEW c \in Name, NEW m \in Mark, Create(p, c, m)
    PROVE  ClansInv'
<1>1. SetClanName(p, c) \in SoundCall /\ SetSession(p, c) \in SoundCall
  BY AccountCalls
<1>2. <<SetClanName(p, c), SetSession(p, c)>> \in Seq(SoundCall)
  BY <1>1
<1>3. todo' \in [Player -> Seq(SoundCall)]
  BY <1>2, BeginInv DEF Create
<1>4. NewClan(p, m) \in SoundDocument
  BY NewClanSound
<1>5. clans' \in [Name -> SoundDocument \cup {NoClan}]
  BY <1>4 DEF ClansInv, Create
<1> QED
  BY <1>3, <1>5 DEF ClansInv, Create

(***************************************************************************)
(* The document that a request has found.                                  *)
(***************************************************************************)
LEMMA FoundSound ==
    ASSUME ClansInv, NEW c \in Name, clans[c] # NoClan
    PROVE  /\ clans[c] \in SoundDocument
           /\ clans[c] \in Document
           /\ clans[c].members \in Members /\ SoundRoster(clans[c].members)
           /\ clans[c].applicants \in Applicants
<1>1. clans[c] \in SoundDocument
  BY DEF ClansInv
<1>2. clans[c] \in Document /\ SoundRoster(clans[c].members)
  BY <1>1 DEF SoundDocument
<1> QED
  BY <1>1, <1>2 DEF Document

LEMMA RequestJoinInv ==
    ASSUME ClansInv, NEW p \in Player, NEW c \in Name, RequestJoin(p, c)
    PROVE  ClansInv'
<1>1. Enqueue(clans[c], p) \in Applicants
  BY FoundSound, EnqueueTyped DEF RequestJoin
<1>2. PICK calls : calls = <<Save(c, [applicants |-> Enqueue(clans[c], p)])>>
  OBVIOUS
<1>3. Save(c, [applicants |-> Enqueue(clans[c], p)]) \in SoundCall
  BY <1>1, QueueField
<1>4. calls \in Seq(SoundCall)
  BY <1>2, <1>3
<1> QED
  BY <1>2, <1>4, LeavesInv DEF RequestJoin

\* CancelApplication and RejectApplication save a shorter queue.
LEMMA QueueSaved ==
    ASSUME NEW c \in Name, NEW queue \in Applicants, NEW id
    PROVE  <<Save(c, [applicants |-> Without(queue, id)])>> \in Seq(SoundCall)
<1>1. PICK rest \in Applicants : rest = Without(queue, id)
  BY QueueRows
<1>2. Save(c, [applicants |-> rest]) \in SoundCall
  BY QueueField
<1> QED
  BY <1>1, <1>2

LEMMA CancelApplicationInv ==
    ASSUME ClansInv, NEW p \in Player, NEW c \in Name, CancelApplication(p, c)
    PROVE  ClansInv'
<1>1. PICK queue \in Applicants : queue = clans[c].applicants
  BY FoundSound DEF CancelApplication
<1>2. PICK id : id = RowOf(queue, p).id
  OBVIOUS
<1>3. PICK calls \in Seq(SoundCall) : calls = <<Save(c, [applicants |-> Without(queue, id)])>>
  BY QueueSaved
<1> QED
  BY <1>1, <1>2, <1>3, LeavesInv DEF CancelApplication

-----------------------------------------------------------------------------
(***************************************************************************)
(* Requests of members.                                                    *)
(***************************************************************************)
LEMMA AcceptApplicationInv ==
    ASSUME ClansInv, NEW p \in Player, NEW c \in Name, NEW id,
           clans[c] # NoClan, AcceptApplication(p, c, id)
    PROVE  ClansInv'
<1>1. PICK clan \in Document : clan = clans[c]
  BY FoundSound
<1>2. SoundRoster(clan.members) /\ clan.applicants \in Applicants /\ ~ IsFull(clan)
  BY <1>1, FoundSound DEF AcceptApplication
<1>3. PICK applicant \in [id : RowID, who : Player] : applicant = RowWith(clan.applicants, id)
  BY <1>1, <1>2, QueueRows DEF AcceptApplication
<1>4. PICK who \in Player : who = applicant.who
  OBVIOUS
<1>5. PICK members \in Members : members = Enroll(clan, applicant) /\ SoundRoster(members)
  BY <1>2, EnrollSound
<1>6. PICK queue \in Applicants : queue = Without(clan.applicants, id)
  BY <1>2, QueueRows
<1>7. Save(c, [members |-> members, applicants |-> queue]) \in SoundCall
  BY <1>5, RosterFields
<1>8. SetClanName(who, c) \in SoundCall /\ SetSession(who, c) \in SoundCall
  BY AccountCalls
<1>9. PICK calls \in Seq(SoundCall) :
         calls = <<Save(c, [members |-> members, applicants |-> queue]),
                   SetClanName(who, c), SetSession(who, c)>>
  <2>1. <<Save(c, [members |-> members, applicants |-> queue]),
          SetClanName(who, c), SetSession(who, c)>> \in Seq(SoundCall)
    BY <1>7, <1>8
  <2> QED
    BY <2>1
<1>10. Leaves(p, calls)
  BY <1>1, <1>3, <1>4, <1>5, <1>6, <1>9 DEF AcceptApplication
<1> QED
  BY <1>10, LeavesInv

LEMMA RejectApplicationInv ==
    ASSUME ClansInv, NEW p \in Player, NEW c \in Name, NEW id,
           clans[c] # NoClan, RejectApplication(p, c, id)
    PROVE  ClansInv'
<1>1. PICK queue \in Applicants : queue = clans[c].applicants
  BY FoundSound
<1>2. PICK calls \in Seq(SoundCall) : calls = <<Save(c, [applicants |-> Without(queue, id)])>>
  BY QueueSaved
<1> QED
  BY <1>1, <1>2, LeavesInv DEF RejectApplication

(***************************************************************************)
(* detach saves the roster without one row.                                *)
(***************************************************************************)
LEMMA DetachSound ==
    ASSUME ClansInv, NEW c \in Name, clans[c] # NoClan, NEW member \in Row
    PROVE  Detach(c, member) \in Seq(SoundCall)
<1>1. PICK members \in Members : members = Without(clans[c].members, member.id) /\ SoundRoster(members)
  BY FoundSound, CutSound
<1>2. Save(c, [members |-> members]) \in SoundCall
  <2>1. PICK applicants \in Applicants : applicants = clans[c].applicants
    BY FoundSound
  <2>2. member.who \in Player
    BY DEF Row
  <2> QED
    BY <1>1, <2>1, <2>2, RosterFields
<1>3. PICK who \in Player : who = member.who
  BY DEF Row
<1>4. SetClanName(who, NoName) \in SoundCall /\ SetSession(who, NoName) \in SoundCall
  BY AccountCalls
<1>5. <<Save(c, [members |-> members]), SetClanName(who, NoName), SetSession(who, NoName)>>
        \in Seq(SoundCall)
  BY <1>2, <1>4
<1> QED
  BY <1>1, <1>3, <1>5 DEF Detach

LEMMA KickMemberInv ==
    ASSUME ClansInv, NEW p \in Player, NEW c \in Name, NEW id,
           clans[c] # NoClan, KickMember(p, c, id)
    PROVE  ClansInv'
<1>1. PICK member \in Row : member = RowWith(clans[c].members, id)
  BY FoundSound, MemberRows DEF KickMember
<1>2. PICK calls \in Seq(SoundCall) : calls = Detach(c, member)
  BY DetachSound
<1> QED
  BY <1>1, <1>2, LeavesInv DEF KickMember

LEMMA LeaveInv ==
    ASSUME ClansInv, NEW p \in Player, NEW c \in Name, clans[c] # NoClan, Leave(p, c)
    PROVE  ClansInv'
<1>1. PICK member \in Row : member = RowOf(clans[c].members, p)
  BY FoundSound, MemberRows DEF Leave, ActorWith
<1>2. PICK calls \in Seq(SoundCall) : calls = Detach(c, member)
  BY DetachSound
<1> QED
  BY <1>1, <1>2, LeavesInv DEF Leave

LEMMA ChangePositionInv ==
    ASSUME ClansInv, NEW p \in Player, NEW c \in Name, NEW id, NEW rank,
           clans[c] # NoClan, ChangePosition(p, c, id, rank)
    PROVE  ClansInv'
<1>1. PICK members \in Members : members = clans[c].members /\ SoundRoster(members)
  BY FoundSound
<1>2. rank \in Assignable /\ id \in IDs(members)
  BY <1>1 DEF ChangePosition
<1>3. PICK changed \in Members : changed = SetRank(members, id, rank) /\ SoundRoster(changed)
  BY <1>1, <1>2, PositionSound
<1>4. PICK queue \in Applicants : queue = clans[c].applicants
  BY FoundSound
<1>5. Save(c, [members |-> changed]) \in SoundCall
  BY <1>3, <1>4, RosterFields
<1>6. PICK calls \in Seq(SoundCall) : calls = <<Save(c, [members |-> changed])>>
  <2>1. <<Save(c, [members |-> changed])>> \in Seq(SoundCall)
    BY <1>5
  <2> QED
    BY <2>1
<1>7. Leaves(p, calls)
  BY <1>1, <1>3, <1>6 DEF ChangePosition
<1> QED
  BY <1>7, LeavesInv

LEMMA ChangeMasterInv ==
    ASSUME ClansInv, NEW p \in Player, NEW c \in Name, NEW id,
           clans[c] # NoClan, ChangeMaster(p, c, id)
    PROVE  ClansInv'
<1>1. PICK members \in Members : members = clans[c].members /\ SoundRoster(members)
  BY FoundSound
<1>2. /\ p \in People(members) /\ RowOf(members, p).rank = Master
      /\ id \in IDs(members) /\ id # RowOf(members, p).id
  BY <1>1 DEF ChangeMaster, ActorWith
<1>3. PICK m \in DOMAIN members : m = PlaceOf(members, p)
  BY <1>2, PlaceFound DEF Members
<1>4. RowOf(members, p) = members[m] /\ m \in Masters(members)
  BY <1>2, <1>3 DEF RowOf, Masters
<1>5. PICK changed \in Members :
         changed = HandOver(members, id, members[m].id) /\ SoundRoster(changed)
  BY <1>1, <1>2, <1>4, HandOverSound
<1>6. PICK who \in Player : who = RowWith(members, id).who
  BY <1>2, MemberRows DEF Row
<1>7. PICK queue \in Applicants : queue = clans[c].applicants
  BY FoundSound
<1>8. Save(c, [members |-> changed, master |-> who]) \in SoundCall
  BY <1>5, <1>7, RosterFields
<1>9. PICK calls \in Seq(SoundCall) : calls = <<Save(c, [members |-> changed, master |-> who])>>
  <2>1. <<Save(c, [members |-> changed, master |-> who])>> \in Seq(SoundCall)
    BY <1>8
  <2> QED
    BY <2>1
<1>10. Leaves(p, calls)
  BY <1>1, <1>4, <1>5, <1>6, <1>9 DEF ChangeMaster
<1> QED
  BY <1>10, LeavesInv

LEMMA DisbandInv ==
    ASSUME ClansInv, NEW p \in Player, NEW c \in Name, clans[c] # NoClan, Disband(p, c)
    PROVE  ClansInv'
<1>1. PICK members \in Members : members = clans[c].members
  BY FoundSound
<1>2. Len(members) \in Nat /\ DOMAIN members = 1 .. Len(members)
  BY LenProperties DEF Members
<1>3. \A i \in DOMAIN members : members[i].who \in Player
  BY MemberRows DEF Row
<1>4. PICK accounts \in Seq(SoundCall) :
         accounts = [i \in DOMAIN members |-> SetClanName(members[i].who, NoName)]
  <2> DEFINE accounts == [i \in DOMAIN members |-> SetClanName(members[i].who, NoName)]
  <2>1. \A i \in DOMAIN members : SetClanName(members[i].who, NoName) \in SoundCall
    BY <1>3, AccountCalls
  <2>2. accounts \in [1 .. Len(members) -> SoundCall]
    BY <1>2, <2>1
  <2>3. accounts \in Seq(SoundCall)
    BY <1>2, <2>2
  <2> QED
    BY <2>3
<1>5. PICK sessions \in Seq(SoundCall) :
         sessions = [i \in DOMAIN members |-> SetSession(members[i].who, NoName)]
  <2> DEFINE sessions == [i \in DOMAIN members |-> SetSession(members[i].who, NoName)]
  <2>1. \A i \in DOMAIN members : SetSession(members[i].who, NoName) \in SoundCall
    BY <1>3, AccountCalls
  <2>2. sessions \in [1 .. Len(members) -> SoundCall]
    BY <1>2, <2>1
  <2>3. sessions \in Seq(SoundCall)
    BY <1>2, <2>2
  <2> QED
    BY <2>3
<1>6. <<Delete(c)>> \in Seq(SoundCall)
  BY DeleteIsCall
<1>7. PICK calls \in Seq(SoundCall) : calls = <<Delete(c)>> \o accounts \o sessions
  BY <1>6, ConcatProperties
<1>8. Leaves(p, calls)
  BY <1>1, <1>4, <1>5, <1>7 DEF Disband
<1> QED
  BY <1>8, LeavesInv

LEMMA ChangeMarkInv ==
    ASSUME ClansInv, NEW p \in Player, NEW c \in Name, NEW m \in Mark, ChangeMark(p, c, m)
    PROVE  ClansInv'
<1>1. FindByMark(c, m) \in SoundCall
  BY FindByMarkIsCall
<1>2. Save(c, [mark |-> m]) \in SoundCall
  BY MarkField
<1>3. FindPlayer(p) \in SoundCall
  BY AccountCalls
<1>4. PICK calls \in Seq(SoundCall) :
         calls = <<FindByMark(c, m), Save(c, [mark |-> m]), FindPlayer(p)>>
  <2>1. <<FindByMark(c, m), Save(c, [mark |-> m]), FindPlayer(p)>> \in Seq(SoundCall)
    BY <1>1, <1>2, <1>3
  <2> QED
    BY <2>1
<1>5. Leaves(p, calls)
  BY <1>4 DEF ChangeMark
<1> QED
  BY <1>5, LeavesInv

-----------------------------------------------------------------------------
(***************************************************************************)
(* The calls a handler has left.                                           *)
(***************************************************************************)
LEMMA NextCallTyped ==
    ASSUME ClansInv, NEW p \in Player, todo[p] # <<>>
    PROVE  Head(todo[p]) \in SoundCall /\ Tail(todo[p]) \in Seq(SoundCall)
<1>1. todo[p] \in Seq(SoundCall)
  BY DEF ClansInv
<1> QED
  BY <1>1, HeadTailProperties

LEMMA RestInv ==
    ASSUME ClansInv, NEW p \in Player, todo[p] # <<>>,
           NEW calls \in Seq(SoundCall), todo' = [todo EXCEPT ![p] = calls]
    PROVE  todo' \in [Player -> Seq(SoundCall)]
BY DEF ClansInv

LEMMA SavingInv ==
    ASSUME ClansInv, NEW p \in Player, Saving(p)
    PROVE  ClansInv'
<1>1. PICK w \in SoundCall : w = Head(todo[p])
  BY NextCallTyped DEF Saving, NextCall
<1>2. PICK rest \in Seq(SoundCall) : rest = Tail(todo[p])
  BY NextCallTyped DEF Saving, NextCall
<1>3. todo' \in [Player -> Seq(SoundCall)]
  BY <1>2, RestInv DEF Saving, NextCall
<1>4. w.do = "save"
  BY <1>1 DEF Saving, NextCall
<1>5. CASE clans[w.clan] = NoClan
  BY <1>1, <1>3, <1>5 DEF ClansInv, Saving
<1>6. CASE clans[w.clan] # NoClan
  <2>1. PICK c \in Name : c = w.clan
    <3>1. w \in [do : {"save"}, clan : Name, fields : Fields]
      BY <1>4 DEF SoundCall, Call
    <3> QED
      BY <3>1
  <2>2. clans[c] \in SoundDocument
    BY <1>6, <2>1, FoundSound
  <2>3. PICK d \in SoundDocument : d = Updated(clans[c], w.fields)
    BY <1>4, <2>2, UpdatedSound
  <2>4. clans' = [clans EXCEPT ![c] = d]
    BY <1>1, <1>6, <2>1, <2>3 DEF Saving
  <2>5. clans' \in [Name -> SoundDocument \cup {NoClan}]
    BY <2>4 DEF ClansInv
  <2> QED
    BY <1>3, <2>5 DEF ClansInv, Saving
<1> QED
  BY <1>5, <1>6

LEMMA DeletingInv ==
    ASSUME ClansInv, NEW p \in Player, Deleting(p)
    PROVE  ClansInv'
<1>1. todo' \in [Player -> Seq(SoundCall)]
  <2>1. PICK rest \in Seq(SoundCall) : rest = Tail(todo[p])
    BY NextCallTyped DEF Deleting, NextCall
  <2> QED
    BY <2>1, RestInv DEF Deleting, NextCall
<1>2. PICK c : c = Head(todo[p]).clan
  OBVIOUS
<1>3. clans' \in [Name -> SoundDocument \cup {NoClan}]
  BY <1>2 DEF ClansInv, Deleting
<1> QED
  BY <1>1, <1>3 DEF ClansInv, Deleting

LEMMA FindingByMarkInv ==
    ASSUME ClansInv, NEW p \in Player, FindingByMark(p)
    PROVE  ClansInv'
<1>1. PICK w : w = Head(todo[p])
  OBVIOUS
<1>2. PICK rest \in Seq(SoundCall) :
         rest = IF Worn(w.clan, w.mark) THEN <<>> ELSE Tail(todo[p])
  <2>1. <<>> \in Seq(SoundCall) /\ Tail(todo[p]) \in Seq(SoundCall)
    BY NextCallTyped DEF FindingByMark, NextCall
  <2> QED
    BY <2>1
<1>3. todo' \in [Player -> Seq(SoundCall)]
  BY <1>1, <1>2, RestInv DEF FindingByMark, NextCall
<1> QED
  BY <1>3 DEF ClansInv, FindingByMark

LEMMA FindingPlayerInv ==
    ASSUME ClansInv, NEW p \in Player, FindingPlayer(p)
    PROVE  ClansInv'
<1>1. PICK w \in SoundCall : w = Head(todo[p])
  BY NextCallTyped DEF FindingPlayer, NextCall
<1>2. PICK who \in Player : who = w.who
  <2>1. w.do = "findPlayer"
    BY <1>1 DEF FindingPlayer, NextCall
  <2>2. w \in [do : {"findPlayer"}, who : Player]
    BY <2>1 DEF SoundCall, Call
  <2> QED
    BY <2>2
<1>3. PICK d \in Name \cup {NoName} : d = account[who]
  BY DEF ClansInv
<1>4. BindPlayer(who, d) \in SoundCall
  BY AccountCalls
<1>5. Tail(todo[p]) \in Seq(SoundCall)
  BY NextCallTyped DEF FindingPlayer, NextCall
<1>6. <<BindPlayer(who, d)>> \in Seq(SoundCall)
  BY <1>4
<1>7. PICK calls \in Seq(SoundCall) : calls = <<BindPlayer(who, d)>> \o Tail(todo[p])
  BY <1>5, <1>6, ConcatProperties
<1>8. todo' \in [Player -> Seq(SoundCall)]
  BY <1>1, <1>2, <1>3, <1>7, RestInv DEF FindingPlayer, NextCall
<1> QED
  BY <1>8 DEF ClansInv, FindingPlayer

\* A call that sets the clan of an account or of a session.
LEMMA NextCallNames ==
    ASSUME NEW w \in SoundCall, w.do \in {"setClanName", "setSession", "bindPlayer"}
    PROVE  w.who \in Player /\ w.clan \in Name \cup {NoName}
<1>1. w \in [do : {"setClanName", "setSession", "bindPlayer"}, who : Player,
             clan : Name \cup {NoName}]
  BY DEF SoundCall, Call
<1> QED
  BY <1>1

LEMMA SettingInv ==
    ASSUME ClansInv, NEW p \in Player,
           SettingClanName(p) \/ SettingSession(p) \/ Binding(p)
    PROVE  ClansInv'
<1>1. todo[p] # <<>> /\ Head(todo[p]).do \in {"setClanName", "setSession", "bindPlayer"}
  BY DEF SettingClanName, SettingSession, Binding, NextCall
<1>2. PICK w \in SoundCall : w = Head(todo[p])
  BY <1>1, NextCallTyped
<1>3. w.who \in Player /\ w.clan \in Name \cup {NoName}
  BY <1>1, <1>2, NextCallNames
<1>4. PICK rest \in Seq(SoundCall) : rest = Tail(todo[p])
  BY <1>1, NextCallTyped
<1>5. todo' = [todo EXCEPT ![p] = rest]
  BY <1>4 DEF SettingClanName, SettingSession, Binding
<1>6. todo' \in [Player -> Seq(SoundCall)]
  BY <1>1, <1>5, RestInv
<1>7. CASE SettingClanName(p)
  BY <1>2, <1>3, <1>6, <1>7 DEF ClansInv, SettingClanName
<1>8. CASE SettingSession(p)
  BY <1>2, <1>3, <1>6, <1>8 DEF ClansInv, SettingSession
<1>9. CASE Binding(p)
  BY <1>2, <1>3, <1>6, <1>9 DEF ClansInv, Binding
<1> QED
  BY <1>7, <1>8, <1>9

LEMMA FailInv ==
    ASSUME ClansInv, NEW p \in Player, Fail(p)
    PROVE  ClansInv'
<1>1. PICK calls \in Seq(SoundCall) : calls = <<>>
  BY EmptySeq
<1>2. todo' \in [Player -> Seq(SoundCall)]
  BY <1>1, RestInv DEF Fail
<1> QED
  BY <1>2 DEF ClansInv, Fail

LEMMA CrashInv ==
    ASSUME ClansInv, Crash
    PROVE  ClansInv'
BY DEF ClansInv, Crash

-----------------------------------------------------------------------------
LEMMA RequestInv ==
    ASSUME ClansInv, NEW p \in Player, NEW c \in Name, Request(p, c)
    PROVE  ClansInv'
<1>1. CASE \E m \in Mark : Create(p, c, m)
  BY <1>1, CreateInv
<1>2. CASE clans[c] # NoClan /\ RequestJoin(p, c)
  BY <1>2, RequestJoinInv
<1>3. CASE clans[c] # NoClan /\ CancelApplication(p, c)
  BY <1>3, CancelApplicationInv
<1>4. CASE clans[c] # NoClan /\ Leave(p, c)
  BY <1>4, LeaveInv
<1>5. CASE clans[c] # NoClan /\ Disband(p, c)
  BY <1>5, DisbandInv
<1>6. CASE clans[c] # NoClan /\ \E m \in Mark : ChangeMark(p, c, m)
  BY <1>6, ChangeMarkInv
<1>7. CASE clans[c] # NoClan /\ \E id \in IDs(clans[c].applicants) :
                AcceptApplication(p, c, id) \/ RejectApplication(p, c, id)
  BY <1>7, AcceptApplicationInv, RejectApplicationInv
<1>8. CASE clans[c] # NoClan /\ \E id \in IDs(clans[c].members) :
                \/ KickMember(p, c, id)
                \/ ChangeMaster(p, c, id)
                \/ \E rank \in AskedRanks : ChangePosition(p, c, id, rank)
  BY <1>8, KickMemberInv, ChangeMasterInv, ChangePositionInv
<1> QED
  BY <1>1, <1>2, <1>3, <1>4, <1>5, <1>6, <1>7, <1>8 DEF Request

LEMMA NextInv ==
    ASSUME ClansInv, [Next]_vars
    PROVE  ClansInv'
<1>1. CASE \E p \in Player : Login(p) \/ Logout(p) \/ Fail(p)
  BY <1>1, LoginInv, LogoutInv, FailInv
<1>2. CASE \E p \in Player : \E c \in Name : Request(p, c)
  BY <1>2, RequestInv
<1>3. CASE \E p \in Player : HandlerStep(p)
  BY <1>3, SavingInv, DeletingInv, FindingByMarkInv, FindingPlayerInv, SettingInv
     DEF HandlerStep
<1>4. CASE Crash
  BY <1>4, CrashInv
<1>5. CASE UNCHANGED vars
  BY <1>5 DEF ClansInv, vars
<1> QED
  BY <1>1, <1>2, <1>3, <1>4, <1>5 DEF Next

(***************************************************************************)
(* ClansInv holds always: every roster that is saved, or waits to be       *)
(* saved over whatever others have saved, is within the limit, and a       *)
(* master in it is the first row with that id and the only master.  For    *)
(* any number of players, clans and overlapping requests, and with calls   *)
(* that fail, logouts and crashes wherever they fall.                      *)
(***************************************************************************)
THEOREM ClansInvariant == Spec => []ClansInv
<1>1. Init => ClansInv
  BY InitInv
<1>2. ClansInv /\ [Next]_vars => ClansInv'
  BY NextInv
<1> QED
  BY <1>1, <1>2, PTL DEF Spec

(***************************************************************************)
(* AtMostOneMaster: no clan ever has two masters, although saves overwrite *)
(* one another and ids come to be shared.                                  *)
(***************************************************************************)
THEOREM OneMaster == Spec => []AtMostOneMaster
<1>1. ClansInv => AtMostOneMaster
  <2> SUFFICES ASSUME ClansInv, NEW c \in Name, clans[c] # NoClan,
                      NEW i \in Masters(clans[c].members), NEW j \in Masters(clans[c].members)
               PROVE  i = j
    BY DEF AtMostOneMaster
  <2>1. PICK u \in Members : u = clans[c].members /\ SoundRoster(u)
    BY FoundSound
  <2>2. i \in DOMAIN u /\ j \in DOMAIN u /\ DOMAIN u = 1 .. Len(u)
    BY <2>1, LenProperties DEF Members, Masters
  <2>3. i <= j /\ j <= i
    BY <2>1, <2>2 DEF SoundRoster
  <2> QED
    BY <2>2, <2>3
<1> QED
  BY <1>1, ClansInvariant, PTL

(***************************************************************************)
(* ClanNotOverfull: overlapping accepts never exceed the member limit.     *)
(***************************************************************************)
THEOREM LimitKept == Spec => []ClanNotOverfull
<1>1. ClansInv => ClanNotOverfull
  BY FoundSound DEF ClanNotOverfull, SoundRoster
<1> QED
  BY <1>1, ClansInvariant, PTL

(***************************************************************************)
(* The variables of Clans keep their types.                                *)
(***************************************************************************)
THEOREM TypeCorrect == Spec => []TypeOK
<1>1. ClansInv => TypeOK
  <2> SUFFICES ASSUME ClansInv
               PROVE  TypeOK
    OBVIOUS
  <2>1. SoundDocument \subseteq Document /\ SoundCall \subseteq Call
    BY DEF SoundDocument, SoundCall
  <2>2. ASSUME NEW p \in Player
        PROVE  todo[p] \in Seq(Call)
    <3>1. PICK calls \in Seq(SoundCall) : calls = todo[p]
      BY DEF ClansInv
    <3>2. calls \in Seq(Call)
      BY <2>1, SeqMonotonic
    <3> QED
      BY <3>1, <3>2
  <2>3. todo \in [Player -> Seq(Call)]
    BY <2>2 DEF ClansInv
  <2>4. clans \in [Name -> Document \cup {NoClan}]
    BY <2>1 DEF ClansInv
  <2> QED
    BY <2>3, <2>4 DEF ClansInv, TypeOK
<1> QED
  BY <1>1, ClansInvariant, PTL
=============================================================================
