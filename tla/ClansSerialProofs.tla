-------------------------- MODULE ClansSerialProofs --------------------------
(***************************************************************************)
(* Proofs about Clans when one request at a time is served: the ids of the *)
(* rows, the leader, the emblems, the accounts and sessions, and ClanRules *)
(* as the specification that Clans implements.  For any number of players, *)
(* clans, members and emblems.                                             *)
(***************************************************************************)
EXTENDS ClansProofs

\* No two rows are about the same player.
OneEach(rows) == \A i, j \in DOMAIN rows : rows[i].who = rows[j].who => i = j

\* The master field names the row with the master's rank, the only one.
Led(master, members) ==
    \E k \in DOMAIN members : members[k].who = master /\ Masters(members) = {k}

GoodSlices(master, members, applicants) ==
    /\ Unique(members) /\ Unique(applicants)
    /\ IDs(members) \cap IDs(applicants) = {}
    /\ OneEach(members) /\ OneEach(applicants)
    /\ People(members) \cap People(applicants) = {}
    /\ members # <<>> => Led(master, members)

GoodClan(clan) == GoodSlices(clan.master, clan.members, clan.applicants)

(***************************************************************************)
(* SerialInv: one handler at most has calls left, no two of them alike and *)
(* one that writes a clan.  The clans are good as they are saved, and will *)
(* be once that call is made; an emblem waits to be saved behind the look  *)
(* for its wearers, or nobody wears it.  Nothing follows the load of a     *)
(* player.                                                                 *)
(***************************************************************************)
Distinct(calls) == \A i, j \in DOMAIN calls : calls[i] = calls[j] => i = j

Alone == \A p, q \in Player : todo[p] # <<>> /\ todo[q] # <<>> => p = q

NoneAlike == \A p \in Player : Distinct(todo[p])

OneWrite ==
    \A v, w \in Waiting : v.do \in {"save", "delete"} /\ w.do \in {"save", "delete"} => v = w

GoodSaved == \A c \in Name : clans[c] # NoClan => GoodClan(clans[c])

GoodWaiting ==
    \A w \in Waiting : w.do = "save" =>
        clans[w.clan] # NoClan /\ GoodClan(Updated(clans[w.clan], w.fields))

Repaints(w) == w.do = "save" /\ "mark" \in DOMAIN w.fields

LooksFirst ==
    \A p \in Player : \A i \in DOMAIN todo[p] : Repaints(todo[p][i]) =>
        IF i = 1 THEN ~ Worn(todo[p][i].clan, todo[p][i].fields.mark)
                 ELSE todo[p][i - 1] = FindByMark(todo[p][i].clan, todo[p][i].fields.mark)

LoadsLast ==
    \A p \in Player : \A i \in DOMAIN todo[p] :
        todo[p][i].do = "findPlayer" => i = Len(todo[p])

SerialInv ==
    /\ ClansInv /\ Alone /\ NoneAlike /\ OneWrite /\ GoodSaved /\ GoodWaiting
    /\ LooksFirst /\ LoadsLast

(***************************************************************************)
(* CalmInv: while no call fails and the server stays up, moreover, the     *)
(* clan that an account will belong to exists and lists the player, and a  *)
(* session names the same clan or is about to.  What a look for an emblem  *)
(* may cut short has no roster and no name in it.                          *)
(***************************************************************************)
ListedAfter(p, c) == ClanAfter(c) # NoClan /\ p \in People(ClanAfter(c).members)

OneName ==
    \A v, w \in Waiting :
        v.do = "setClanName" /\ w.do = "setClanName" /\ v.who = w.who => v = w

BelongsListed ==
    \A p \in Player :
        AccountAfter(p) = NoName \/ \E c \in Name : AccountAfter(p) = c /\ ListedAfter(p, c)

CopiesFollow ==
    /\ \A p \in Player :
          (\A w \in Waiting : w.do = "setSession" => w.who # p)
             => session[p] \in {Offline, AccountAfter(p)}
    /\ \A w \in Waiting : w.do \in {"setSession", "bindPlayer"} => w.clan = AccountAfter(w.who)

LooksOnly ==
    /\ \A v, w \in Waiting : v.do = "findByMark" =>
          \/ w.do \in {"findByMark", "findPlayer"}
          \/ w.do = "save" /\ DOMAIN w.fields = {"mark"}
    /\ \A v, w \in Waiting : v.do = "findPlayer" => w.do # "setClanName"

CalmInv == SerialInv /\ OneName /\ BelongsListed /\ CopiesFollow /\ LooksOnly

-----------------------------------------------------------------------------
(***************************************************************************)
(* Rows without a double: the first row with an id, or about a player, is  *)
(* the only one.                                                           *)
(***************************************************************************)
LEMMA RowFound ==
    ASSUME NEW R, NEW u \in Seq(R), NEW k \in DOMAIN u
    PROVE  /\ Unique(u) => IndexOf(u, u[k].id) = k /\ RowWith(u, u[k].id) = u[k]
           /\ OneEach(u) => PlaceOf(u, u[k].who) = k /\ RowOf(u, u[k].who) = u[k]
<1>1. u[k].id \in IDs(u) /\ u[k].who \in People(u)
  BY DEF IDs, People
<1>2. IndexOf(u, u[k].id) \in DOMAIN u /\ u[IndexOf(u, u[k].id)].id = u[k].id
  BY <1>1, IndexFound
<1>3. PlaceOf(u, u[k].who) \in DOMAIN u /\ u[PlaceOf(u, u[k].who)].who = u[k].who
  BY <1>1, PlaceFound
<1> QED
  BY <1>2, <1>3 DEF Unique, OneEach, RowWith, RowOf

(***************************************************************************)
(* Cutting out the row with an id takes that row and its player away and   *)
(* leaves the others.                                                      *)
(***************************************************************************)
LEMMA CutRow ==
    ASSUME NEW R, NEW u \in Seq(R), Unique(u), OneEach(u), NEW k \in DOMAIN u
    PROVE  LET v == Without(u, u[k].id)
           IN  /\ v \in Seq(R) /\ Unique(v) /\ OneEach(v)
               /\ Len(v) = Len(u) - 1
               /\ Range(v) = Range(u) \ {u[k]}
               /\ IDs(v) = IDs(u) \ {u[k].id}
               /\ People(v) = People(u) \ {u[k].who}
<1> DEFINE v == Without(u, u[k].id)
<1>1. u[k].id \in IDs(u)
  BY DEF IDs
<1>2. v = RemoveAt(u, k)
  BY <1>1, RowFound DEF Without
<1> HIDE DEF v
<1>3. /\ v \in Seq(R)
      /\ Len(v) = Len(u) - 1
      /\ \A i \in DOMAIN v : v[i] = IF i < k THEN u[i] ELSE u[i + 1]
  BY <1>2, RemoveAtShifts
<1>4. /\ DOMAIN u = 1 .. Len(u) /\ DOMAIN v = 1 .. Len(u) - 1
      /\ Len(u) \in Nat /\ k \in 1 .. Len(u)
  BY <1>3, LenProperties
<1>5. ASSUME NEW j \in DOMAIN v
      PROVE  \E i \in DOMAIN u :
                i # k /\ v[j] = u[i] /\ i = IF j < k THEN j ELSE j + 1
  <2>1. PICK i : i = IF j < k THEN j ELSE j + 1
    OBVIOUS
  <2>2. i \in DOMAIN u /\ i # k
    BY <1>4, <2>1
  <2>3. v[j] = u[i]
    BY <1>3, <2>1
  <2> QED
    BY <2>1, <2>2, <2>3
<1>6. ASSUME NEW i \in DOMAIN u, i # k
      PROVE  \E j \in DOMAIN v : v[j] = u[i]
  <2>1. CASE i < k
    <3>1. i \in DOMAIN v
      BY <1>4, <1>6, <2>1
    <3> QED
      BY <1>3, <2>1, <3>1
  <2>2. CASE i > k
    <3>1. i - 1 \in DOMAIN v /\ ~ (i - 1 < k) /\ (i - 1) + 1 = i
      BY <1>4, <1>6, <2>2
    <3> QED
      BY <1>3, <3>1
  <2> QED
    BY <1>4, <1>6, <2>1, <2>2
<1>7. ASSUME NEW i \in DOMAIN v, NEW j \in DOMAIN v, v[i].id = v[j].id \/ v[i].who = v[j].who
      PROVE  i = j
  <2>1. PICK a \in DOMAIN u : v[i] = u[a] /\ a = IF i < k THEN i ELSE i + 1
    BY <1>5
  <2>2. PICK b \in DOMAIN u : v[j] = u[b] /\ b = IF j < k THEN j ELSE j + 1
    BY <1>5
  <2>3. a = b
    BY <1>7, <2>1, <2>2 DEF Unique, OneEach
  <2> QED
    BY <1>4, <2>1, <2>2, <2>3
<1>8. Unique(v) /\ OneEach(v)
  BY <1>7 DEF Unique, OneEach
<1>9. \A i \in DOMAIN u : (u[i].id = u[k].id \/ u[i].who = u[k].who) => i = k
  BY DEF Unique, OneEach
<1>10. IDs(v) = IDs(u) \ {u[k].id}
  BY <1>5, <1>6, <1>9 DEF IDs
<1>11. People(v) = People(u) \ {u[k].who}
  BY <1>5, <1>6, <1>9 DEF People
<1>12. Range(v) = Range(u) \ {u[k]}
  BY <1>5, <1>6, <1>9 DEF Range
<1> QED
  BY <1>3, <1>8, <1>10, <1>11, <1>12 DEF v

(***************************************************************************)
(* Appending a row with an id and a player that no row has.                *)
(***************************************************************************)
LEMMA AddRow ==
    ASSUME NEW R, NEW u \in Seq(R), Unique(u), OneEach(u), NEW e \in R,
           e.id \notin IDs(u), e.who \notin People(u)
    PROVE  LET v == Append(u, e)
           IN  /\ v \in Seq(R) /\ Unique(v) /\ OneEach(v) /\ v # <<>>
               /\ \A i \in DOMAIN u : i \in DOMAIN v /\ v[i] = u[i]
               /\ DOMAIN v = DOMAIN u \cup {Len(u) + 1} /\ v[Len(u) + 1] = e
               /\ IDs(v) = IDs(u) \cup {e.id}
               /\ People(v) = People(u) \cup {e.who}
<1> DEFINE v == Append(u, e)
<1>1. /\ v \in Seq(R) /\ Len(v) = Len(u) + 1 /\ v # <<>>
      /\ \A i \in DOMAIN u : i \in DOMAIN v /\ v[i] = u[i]
      /\ v[Len(u) + 1] = e
  BY AppendKeeps
<1> HIDE DEF v
<1>2. DOMAIN v = 1 .. Len(u) + 1 /\ DOMAIN u = 1 .. Len(u) /\ Len(u) \in Nat
  BY <1>1, LenProperties
<1>3. DOMAIN v = DOMAIN u \cup {Len(u) + 1}
  BY <1>2
<1>4. Unique(v) /\ OneEach(v)
  BY <1>1, <1>3 DEF Unique, OneEach, IDs, People
<1>5. IDs(v) = IDs(u) \cup {e.id}
  BY <1>1, <1>3 DEF IDs
<1>6. People(v) = People(u) \cup {e.who}
  BY <1>1, <1>3 DEF People
<1> QED
  BY <1>1, <1>3, <1>4, <1>5, <1>6 DEF v

(***************************************************************************)
(* Whoever is in two rosters has the same row in both when one was made    *)
(* from the rows of the other.                                             *)
(***************************************************************************)
LEMMA SameRow ==
    ASSUME NEW R, NEW u \in Seq(R), NEW v \in Seq(R), OneEach(u), OneEach(v),
           NEW j \in DOMAIN v, NEW i \in DOMAIN u, v[j] = u[i]
    PROVE  RowOf(v, v[j].who) = RowOf(u, v[j].who)
BY RowFound

-----------------------------------------------------------------------------
(***************************************************************************)
(* What the slices of a save make of a document.                           *)
(***************************************************************************)
LEMMA UpdatedFields ==
    ASSUME NEW clan \in Document, NEW f
    PROVE  Updated(clan, f) =
        [master     |-> IF "master" \in DOMAIN f THEN f.master ELSE clan.master,
         members    |-> IF "members" \in DOMAIN f THEN f.members ELSE clan.members,
         applicants |-> IF "applicants" \in DOMAIN f THEN f.applicants ELSE clan.applicants,
         mark       |-> IF "mark" \in DOMAIN f THEN f.mark ELSE clan.mark]
<1>1. DOMAIN clan = {"master", "members", "applicants", "mark"}
  BY DEF Document
<1> QED
  BY <1>1 DEF Updated

(***************************************************************************)
(* RequestJoin: the new applicant's id is above every id of the document,  *)
(* as long as that fits its width.                                         *)
(***************************************************************************)
LEMMA NextApplicantIDFresh ==
    ASSUME NEW clan \in Document,
           Highest(clan.members) < MaxRowID, Highest(clan.applicants) < MaxRowID
    PROVE  NextApplicantID(clan) \notin IDs(clan.members) \cup IDs(clan.applicants)
<1>1. clan.members \in Seq(Row) /\ clan.applicants \in Seq([id : RowID, who : Player])
  BY DEF Document, Members, Applicants, Row
<1>2. PICK a \in Nat : a = Highest(clan.members) /\ \A i \in DOMAIN clan.members : clan.members[i].id <= a
  BY <1>1, RowsNumbered, HighestIsBound
<1>3. PICK b \in Nat :
         b = Highest(clan.applicants) /\ \A i \in DOMAIN clan.applicants : clan.applicants[i].id <= b
  BY <1>1, RowsNumbered, HighestIsBound
<1>4. Max({a, b}) \in {a, b} /\ a <= Max({a, b}) /\ b <= Max({a, b})
  <2>1. \A m \in Nat : a <= m /\ b <= m =>
           Max({a, b}) \in {a, b} /\ \A y \in {a, b} : y <= Max({a, b})
    BY LargestNat
  <2>2. a <= a + b /\ b <= a + b /\ a + b \in Nat
    OBVIOUS
  <2> QED
    BY <2>1, <2>2
<1>5. PICK n \in Nat : n = Max({a, b}) /\ a <= n /\ b <= n /\ n < MaxRowID
  BY <1>2, <1>3, <1>4
<1>6. (1 + n) % (MaxRowID + 1) = 1 + n
  BY <1>5, ClanAssumption, ModTurn
<1>7. NextApplicantID(clan) = 1 + n
  BY <1>2, <1>3, <1>5, <1>6 DEF NextApplicantID
<1>8. \A i \in DOMAIN clan.members : clan.members[i].id \in Nat
  BY <1>1, RowsNumbered, LenProperties, ElementOfSeq DEF Numbered
<1>9. \A i \in DOMAIN clan.applicants : clan.applicants[i].id \in Nat
  BY <1>1, RowsNumbered, LenProperties, ElementOfSeq DEF Numbered
<1>10. ASSUME NEW i \in DOMAIN clan.members
       PROVE  clan.members[i].id # 1 + n
  <2>1. clan.members[i].id <= a /\ clan.members[i].id \in Nat
    BY <1>2, <1>8
  <2> QED
    BY <1>5, <2>1
<1>11. ASSUME NEW i \in DOMAIN clan.applicants
       PROVE  clan.applicants[i].id # 1 + n
  <2>1. clan.applicants[i].id <= b /\ clan.applicants[i].id \in Nat
    BY <1>3, <1>9
  <2> QED
    BY <1>5, <2>1
<1> QED
  BY <1>7, <1>10, <1>11 DEF IDs

LEMMA JoinGood ==
    ASSUME NEW clan \in Document, GoodClan(clan), NEW p \in Player,
           p \notin People(clan.members) \cup People(clan.applicants),
           Highest(clan.members) < MaxRowID, Highest(clan.applicants) < MaxRowID
    PROVE  /\ GoodSlices(clan.master, clan.members, Enqueue(clan, p))
           /\ People(Enqueue(clan, p)) = People(clan.applicants) \cup {p}
<1>1. PICK e \in [id : RowID, who : Player] : e = [id |-> NextApplicantID(clan), who |-> p]
  BY NextApplicantIDFits
<1>2. e.id \notin IDs(clan.members) \cup IDs(clan.applicants)
  BY <1>1, NextApplicantIDFresh
<1>3. PICK R : R = [id : RowID, who : Player]
  OBVIOUS
<1>4. e \in R
  BY <1>3
<1>5. PICK u \in Seq(R) : u = clan.applicants
  BY <1>3 DEF Document, Applicants
<1>6. Unique(u) /\ OneEach(u)
  BY <1>5 DEF GoodClan, GoodSlices
<1>7. e.id \notin IDs(u) /\ e.who \notin People(u) /\ e.who = p
  BY <1>1, <1>2, <1>5
<1>8. /\ Append(u, e) \in Seq(R)
      /\ Unique(Append(u, e)) /\ OneEach(Append(u, e))
      /\ IDs(Append(u, e)) = IDs(u) \cup {e.id}
      /\ People(Append(u, e)) = People(u) \cup {e.who}
  BY ONLY u \in Seq(R), <1>4, <1>6, <1>7, AddRow
<1>9. PICK v : v = Append(u, e) /\ v = Enqueue(clan, p)
  BY <1>1, <1>5 DEF Enqueue
<1> QED
  BY <1>2, <1>5, <1>7, <1>8, <1>9 DEF GoodClan, GoodSlices

(***************************************************************************)
(* CancelApplication, RejectApplication.                                   *)
(***************************************************************************)
LEMMA DequeueGood ==
    ASSUME NEW clan \in Document, GoodClan(clan), NEW k \in DOMAIN clan.applicants
    PROVE  LET rest == Without(clan.applicants, clan.applicants[k].id)
           IN  /\ GoodSlices(clan.master, clan.members, rest)
               /\ IDs(rest) = IDs(clan.applicants) \ {clan.applicants[k].id}
               /\ People(rest) = People(clan.applicants) \ {clan.applicants[k].who}
<1>1. PICK R : R = [id : RowID, who : Player]
  OBVIOUS
<1>2. PICK u \in Seq(R) : u = clan.applicants
  BY <1>1 DEF Document, Applicants
<1>3. Unique(u) /\ OneEach(u) /\ k \in DOMAIN u
  BY <1>2 DEF GoodClan, GoodSlices
<1>4. /\ Without(u, u[k].id) \in Seq(R)
      /\ Unique(Without(u, u[k].id)) /\ OneEach(Without(u, u[k].id))
      /\ IDs(Without(u, u[k].id)) = IDs(u) \ {u[k].id}
      /\ People(Without(u, u[k].id)) = People(u) \ {u[k].who}
  BY ONLY u \in Seq(R), <1>3, CutRow
<1>5. PICK v : v = Without(u, u[k].id)
  OBVIOUS
<1>6. GoodSlices(clan.master, clan.members, v)
  BY <1>2, <1>4, <1>5 DEF GoodClan, GoodSlices
<1> QED
  BY <1>2, <1>4, <1>5, <1>6

(***************************************************************************)
(* AcceptApplication: the applicant keeps the id, which no member has.     *)
(***************************************************************************)
LEMMA AcceptGood ==
    ASSUME NEW clan \in Document, GoodClan(clan), NEW k \in DOMAIN clan.applicants,
           clan.members # <<>>
    PROVE  LET roster == Enroll(clan, clan.applicants[k])
               rest   == Without(clan.applicants, clan.applicants[k].id)
               who    == clan.applicants[k].who
           IN  /\ GoodSlices(clan.master, roster, rest)
               /\ People(roster) = People(clan.members) \cup {who}
               /\ People(rest) = People(clan.applicants) \ {who}
               /\ \A q \in People(clan.members) : RowOf(roster, q) = RowOf(clan.members, q)
               /\ RowOf(roster, who).rank = Member
<1>1. PICK a \in [id : RowID, who : Player] : a = clan.applicants[k]
  BY LenProperties, ElementOfSeq DEF Document, Applicants
<1>2. PICK u \in Seq(Row) : u = clan.members
  BY DEF Document, Members, Row
<1>3. PICK e \in Row : e = [id |-> a.id, who |-> a.who, rank |-> Member]
  BY DEF Row, Ranks
<1>4. a.id \in IDs(clan.applicants) /\ a.who \in People(clan.applicants)
  BY <1>1 DEF IDs, People
<1>5. /\ e.id \notin IDs(u) /\ e.who \notin People(u)
      /\ Unique(u) /\ OneEach(u)
  BY <1>2, <1>3, <1>4 DEF GoodClan, GoodSlices
<1>6. PICK v : v = Append(u, e) /\ v = Enroll(clan, a)
  BY <1>2, <1>3 DEF Enroll
<1>7. /\ v \in Seq(Row) /\ Unique(v) /\ OneEach(v) /\ v # <<>>
      /\ \A i \in DOMAIN u : i \in DOMAIN v /\ v[i] = u[i]
      /\ DOMAIN v = DOMAIN u \cup {Len(u) + 1} /\ v[Len(u) + 1] = e
      /\ IDs(v) = IDs(u) \cup {e.id}
      /\ People(v) = People(u) \cup {e.who}
  <2>1. v = Append(u, e)
    BY <1>6
  <2> QED
    BY ONLY u \in Seq(Row), e \in Row, <1>5, <2>1, AddRow
<1>8. PICK rest : rest = Without(clan.applicants, a.id)
  OBVIOUS
<1>9. /\ GoodSlices(clan.master, clan.members, rest)
      /\ IDs(rest) = IDs(clan.applicants) \ {a.id}
      /\ People(rest) = People(clan.applicants) \ {a.who}
  BY <1>1, <1>8, DequeueGood
<1>10. Led(clan.master, v)
  <2>1. PICK l \in DOMAIN u : u[l].who = clan.master /\ Masters(u) = {l}
    BY <1>2 DEF GoodClan, GoodSlices, Led
  <2>2. e.rank # Master
    BY <1>3 DEF Member, Master
  <2>3. Masters(v) = Masters(u)
    BY <1>7, <2>2 DEF Masters
  <2> QED
    BY <1>7, <2>1, <2>3 DEF Led
<1>11. GoodSlices(clan.master, v, rest)
  <2>1. Unique(rest) /\ OneEach(rest)
    BY <1>9 DEF GoodSlices
  <2>2. IDs(v) \cap IDs(rest) = {} /\ People(v) \cap People(rest) = {}
    BY <1>2, <1>3, <1>7, <1>9 DEF GoodClan, GoodSlices
  <2> QED
    BY <1>7, <1>10, <2>1, <2>2 DEF GoodSlices
<1>12. ASSUME NEW q \in People(u)
       PROVE  RowOf(v, q) = RowOf(u, q)
  <2>1. PICK i \in DOMAIN u : u[i].who = q
    BY DEF People
  <2>2. i \in DOMAIN v /\ v[i] = u[i]
    BY <1>7, <2>1
  <2> QED
    BY <1>5, <1>7, <2>1, <2>2, SameRow
<1>13. RowOf(v, e.who) = e
  <2>1. Len(u) + 1 \in DOMAIN v
    BY <1>7
  <2> QED
    BY <1>7, <2>1, RowFound
<1>14. v = Enroll(clan, clan.applicants[k]) /\ e.who = clan.applicants[k].who
       /\ rest = Without(clan.applicants, clan.applicants[k].id)
  BY <1>1, <1>3, <1>6, <1>8
<1>15. People(v) = People(clan.members) \cup {e.who} /\ e.who = a.who
  BY <1>2, <1>3, <1>7
<1>16. RowOf(v, e.who).rank = Member
  BY <1>3, <1>13
<1> QED
  BY <1>2, <1>9, <1>11, <1>12, <1>14, <1>15, <1>16

(***************************************************************************)
(* KickMember, Leave: the leader goes last.                                *)
(***************************************************************************)
LEMMA CutGood ==
    ASSUME NEW clan \in Document, GoodClan(clan), NEW k \in DOMAIN clan.members,
           clan.members[k].rank # Master \/ Len(clan.members) <= 1
    PROVE  LET rest == Without(clan.members, clan.members[k].id)
           IN  /\ GoodSlices(clan.master, rest, clan.applicants)
               /\ People(rest) = People(clan.members) \ {clan.members[k].who}
               /\ \A q \in People(rest) : RowOf(rest, q) = RowOf(clan.members, q)
<1>1. PICK u \in Seq(Row) : u = clan.members
  BY DEF Document, Members, Row
<1>2. Unique(u) /\ OneEach(u) /\ k \in DOMAIN u
  BY <1>1 DEF GoodClan, GoodSlices
<1>3. PICK v : v = Without(u, u[k].id)
  OBVIOUS
<1>4. /\ v \in Seq(Row) /\ Unique(v) /\ OneEach(v)
      /\ Len(v) = Len(u) - 1
      /\ Range(v) = Range(u) \ {u[k]}
      /\ IDs(v) = IDs(u) \ {u[k].id}
      /\ People(v) = People(u) \ {u[k].who}
  <2>1. LET w == Without(u, u[k].id)
        IN  /\ w \in Seq(Row) /\ Unique(w) /\ OneEach(w)
            /\ Len(w) = Len(u) - 1
            /\ Range(w) = Range(u) \ {u[k]}
            /\ IDs(w) = IDs(u) \ {u[k].id}
            /\ People(w) = People(u) \ {u[k].who}
    BY ONLY u \in Seq(Row), <1>2, CutRow
  <2> QED
    BY <1>3, <2>1
<1>5. ASSUME NEW j \in DOMAIN v
      PROVE  \E i \in DOMAIN u : v[j] = u[i]
  <2>1. v[j] \in Range(v)
    BY DEF Range
  <2>2. v[j] \in Range(u)
    BY <1>4, <2>1
  <2> QED
    BY <2>2 DEF Range
<1>6. ASSUME NEW i \in DOMAIN u, i # k
      PROVE  \E j \in DOMAIN v : v[j] = u[i]
  <2>1. u[i] \in Range(u) /\ u[i] # u[k]
    BY <1>2, <1>6 DEF Range, Unique
  <2>2. u[i] \in Range(v)
    BY <1>4, <2>1
  <2> QED
    BY <2>2 DEF Range
<1>7. ASSUME NEW q \in People(v)
      PROVE  RowOf(v, q) = RowOf(u, q)
  <2>1. PICK j \in DOMAIN v : v[j].who = q
    BY DEF People
  <2>2. PICK i \in DOMAIN u : v[j] = u[i]
    BY <1>5
  <2> QED
    BY <1>2, <1>4, <2>1, <2>2, SameRow
<1>8. ASSUME v # <<>>
      PROVE  Led(clan.master, v)
  <2>1. Len(v) \in Nat /\ Len(v) # 0 /\ Len(u) \in Nat
    BY <1>4, <1>8, LenProperties, EmptySeq
  <2>2. u[k].rank # Master /\ u # <<>>
    <3>1. Len(u) > 1
      BY <1>4, <2>1
    <3> QED
      BY <1>1, <2>1, <3>1
  <2>3. PICK l \in DOMAIN u : u[l].who = clan.master /\ Masters(u) = {l}
    BY <1>1, <2>2 DEF GoodClan, GoodSlices, Led
  <2>4. l # k /\ u[l].rank = Master /\ \A i \in DOMAIN u : u[i].rank = Master => i = l
    BY <2>2, <2>3 DEF Masters
  <2>5. PICK j \in DOMAIN v : v[j] = u[l]
    BY <1>6, <2>4
  <2>6. ASSUME NEW i \in DOMAIN v, v[i].rank = Master
        PROVE  i = j
    <3>1. PICK h \in DOMAIN u : v[i] = u[h]
      BY <1>5
    <3> QED
      BY <1>4, <2>4, <2>5, <2>6, <3>1 DEF Unique
  <2> QED
    BY <2>3, <2>4, <2>5, <2>6 DEF Led, Masters
<1>9. GoodSlices(clan.master, v, clan.applicants)
  BY <1>1, <1>4, <1>8 DEF GoodClan, GoodSlices
<1> QED
  BY <1>1, <1>3, <1>4, <1>7, <1>9

(***************************************************************************)
(* SetRank on the row with an id changes the rank of that row alone.       *)
(***************************************************************************)
LEMMA SetRankAt ==
    ASSUME NEW u \in Members, Unique(u), NEW k \in DOMAIN u, NEW rank \in Ranks
    PROVE  LET v == SetRank(u, u[k].id, rank)
           IN  /\ v \in Members /\ DOMAIN v = DOMAIN u
               /\ \A i \in DOMAIN u :
                     /\ v[i].id = u[i].id /\ v[i].who = u[i].who
                     /\ v[i].rank = IF i = k THEN rank ELSE u[i].rank
<1>1. PICK id : id = u[k].id
  OBVIOUS
<1>2. id \in IDs(u)
  BY <1>1 DEF IDs
<1>3. IndexOf(u, id) = k
  BY <1>1, RowFound DEF Members
<1>4. PICK v : v = SetRank(u, id, rank)
  OBVIOUS
<1>5. /\ v \in Members /\ DOMAIN v = DOMAIN u
      /\ \A i \in DOMAIN u :
            /\ v[i].id = u[i].id
            /\ v[i].rank = IF i = k THEN rank ELSE u[i].rank
  BY <1>2, <1>3, <1>4, SetRankSets
<1>6. ASSUME NEW i \in DOMAIN u
      PROVE  v[i].who = u[i].who
  <2>1. v = [u EXCEPT ![k].rank = rank]
    BY <1>2, <1>3, <1>4 DEF SetRank
  <2>2. u[i] \in Row
    BY LenProperties, ElementOfSeq DEF Members, Row
  <2> QED
    BY <2>1, <2>2 DEF Row
<1> QED
  BY <1>1, <1>4, <1>5, <1>6

(***************************************************************************)
(* A roster with the same people in the same places keeps ids and players  *)
(* apart.                                                                  *)
(***************************************************************************)
LEMMA SamePeople ==
    ASSUME NEW u \in Members, NEW v \in Members, DOMAIN v = DOMAIN u,
           \A i \in DOMAIN u : v[i].id = u[i].id /\ v[i].who = u[i].who,
           Unique(u), OneEach(u)
    PROVE  /\ Unique(v) /\ OneEach(v)
           /\ IDs(v) = IDs(u) /\ People(v) = People(u)
           /\ u # <<>> => v # <<>>
           /\ \A i \in DOMAIN u : RowOf(v, u[i].who) = v[i]
<1>1. Unique(v) /\ OneEach(v)
  BY DEF Unique, OneEach
<1>2. IDs(v) = IDs(u) /\ People(v) = People(u)
  BY DEF IDs, People
<1>3. \A i \in DOMAIN u : RowOf(v, u[i].who) = v[i]
  BY <1>1, RowFound DEF Members
<1>4. u # <<>> => v # <<>>
  BY DEF Members
<1> QED
  BY <1>1, <1>2, <1>3, <1>4

(***************************************************************************)
(* ChangePosition: anybody but the leader gets a rank below the master's.  *)
(***************************************************************************)
LEMMA PositionGood ==
    ASSUME NEW clan \in Document, GoodClan(clan), NEW k \in DOMAIN clan.members,
           clan.members[k].rank # Master, NEW rank \in Assignable
    PROVE  LET roster == SetRank(clan.members, clan.members[k].id, rank)
           IN  /\ GoodSlices(clan.master, roster, clan.applicants)
               /\ People(roster) = People(clan.members)
               /\ \A i \in DOMAIN clan.members :
                     RowOf(roster, clan.members[i].who).rank =
                        IF i = k THEN rank ELSE clan.members[i].rank
<1>1. PICK u \in Members : u = clan.members
  BY DEF Document
<1>2. Unique(u) /\ OneEach(u) /\ k \in DOMAIN u /\ rank \in Ranks /\ rank # Master
  BY <1>1 DEF GoodClan, GoodSlices, Assignable, Ranks, Master, Manager, Member, Associate
<1>3. PICK v : v = SetRank(u, u[k].id, rank)
  OBVIOUS
<1>4. /\ v \in Members /\ DOMAIN v = DOMAIN u
      /\ \A i \in DOMAIN u :
            /\ v[i].id = u[i].id /\ v[i].who = u[i].who
            /\ v[i].rank = IF i = k THEN rank ELSE u[i].rank
  BY <1>2, <1>3, SetRankAt
<1>5. /\ Unique(v) /\ OneEach(v)
      /\ IDs(v) = IDs(u) /\ People(v) = People(u)
      /\ \A i \in DOMAIN u : RowOf(v, u[i].who) = v[i]
  BY <1>2, <1>4, SamePeople
<1>6. ASSUME v # <<>>
      PROVE  Led(clan.master, v)
  <2>1. u # <<>>
    BY <1>2
  <2>2. PICK l \in DOMAIN u : u[l].who = clan.master /\ Masters(u) = {l}
    BY <1>1, <2>1 DEF GoodClan, GoodSlices, Led
  <2>3. Masters(v) = Masters(u)
    BY <1>1, <1>2, <1>4 DEF Masters
  <2> QED
    BY <1>4, <2>2, <2>3 DEF Led
<1>7. GoodSlices(clan.master, v, clan.applicants)
  BY <1>1, <1>5, <1>6 DEF GoodClan, GoodSlices
<1>8. \A i \in DOMAIN u : RowOf(v, u[i].who).rank = IF i = k THEN rank ELSE u[i].rank
  BY <1>4, <1>5
<1> QED
  BY <1>1, <1>3, <1>5, <1>7, <1>8

(***************************************************************************)
(* ChangeMaster: the ranks change hands and the master field follows.      *)
(***************************************************************************)
LEMMA HandOverGood ==
    ASSUME NEW clan \in Document, GoodClan(clan), NEW m \in DOMAIN clan.members,
           clan.members[m].rank = Master, NEW k \in DOMAIN clan.members, k # m
    PROVE  LET roster == HandOver(clan.members, clan.members[k].id, clan.members[m].id)
           IN  /\ GoodSlices(clan.members[k].who, roster, clan.applicants)
               /\ People(roster) = People(clan.members)
               /\ \A i \in DOMAIN clan.members :
                     RowOf(roster, clan.members[i].who).rank =
                        IF i = k THEN Master
                        ELSE IF i = m THEN Manager ELSE clan.members[i].rank
<1>1. PICK u \in Members : u = clan.members
  BY DEF Document
<1>2. /\ Unique(u) /\ OneEach(u) /\ k \in DOMAIN u /\ m \in DOMAIN u
      /\ Master \in Ranks /\ Manager \in Ranks /\ Manager # Master
  BY <1>1 DEF GoodClan, GoodSlices, Ranks, Master, Manager
<1>3. PICK w : w = SetRank(u, u[k].id, Master)
  OBVIOUS
<1>4. /\ w \in Members /\ DOMAIN w = DOMAIN u
      /\ \A i \in DOMAIN u :
            /\ w[i].id = u[i].id /\ w[i].who = u[i].who
            /\ w[i].rank = IF i = k THEN Master ELSE u[i].rank
  BY <1>2, <1>3, SetRankAt
<1>5. Unique(w) /\ OneEach(w)
  BY <1>2, <1>4, SamePeople
<1>6. PICK v : v = SetRank(w, w[m].id, Manager)
  OBVIOUS
<1>7. /\ v \in Members /\ DOMAIN v = DOMAIN w
      /\ \A i \in DOMAIN w :
            /\ v[i].id = w[i].id /\ v[i].who = w[i].who
            /\ v[i].rank = IF i = m THEN Manager ELSE w[i].rank
  BY <1>2, <1>4, <1>5, <1>6, SetRankAt
<1>8. v = HandOver(u, u[k].id, u[m].id)
  BY <1>2, <1>3, <1>4, <1>6 DEF HandOver
<1>9. /\ DOMAIN v = DOMAIN u
      /\ \A i \in DOMAIN u :
            /\ v[i].id = u[i].id /\ v[i].who = u[i].who
            /\ v[i].rank = IF i = k THEN Master ELSE IF i = m THEN Manager ELSE u[i].rank
  BY <1>1, <1>4, <1>7
<1>10. /\ Unique(v) /\ OneEach(v)
       /\ IDs(v) = IDs(u) /\ People(v) = People(u)
       /\ \A i \in DOMAIN u : RowOf(v, u[i].who) = v[i]
  BY <1>2, <1>7, <1>9, SamePeople
<1>11. Led(u[k].who, v)
  <2>1. u # <<>>
    BY <1>2
  <2>2. PICK l \in DOMAIN u : Masters(u) = {l}
    BY <1>1, <2>1 DEF GoodClan, GoodSlices, Led
  <2>3. \A i \in DOMAIN u : u[i].rank = Master => i = m
    BY <1>1, <1>2, <2>2 DEF Masters
  <2>4. Masters(v) = {k}
    BY <1>2, <1>9, <2>3 DEF Masters
  <2> QED
    BY <1>2, <1>9, <2>4 DEF Led
<1>12. GoodSlices(u[k].who, v, clan.applicants)
  BY <1>1, <1>10, <1>11 DEF GoodClan, GoodSlices
<1>13. \A i \in DOMAIN u : RowOf(v, u[i].who).rank =
          IF i = k THEN Master ELSE IF i = m THEN Manager ELSE u[i].rank
  BY <1>9, <1>10
<1> QED
  BY <1>1, <1>8, <1>10, <1>12, <1>13

-----------------------------------------------------------------------------
(***************************************************************************)
(* What the calls that are left make of a clan and of a name.              *)
(***************************************************************************)
Writing(w) == w.do \in {"save", "delete"}

LEMMA ClanSaved ==
    ASSUME NEW calls, NEW c, NEW clan, clan # NoClan, NEW w \in calls, w.do = "save", w.clan = c,
           \A v \in calls : Writing(v) => v = w
    PROVE  ClanWith(clan, c, calls) = Updated(clan, w.fields)
<1>1. PICK T : T = {v \in calls : v.do \in {"save", "delete"} /\ v.clan = c}
  OBVIOUS
<1>2. T = {w}
  BY <1>1 DEF Writing
<1>3. ClanWith(clan, c, calls) =
         IF clan = NoClan \/ T = {} THEN clan
         ELSE IF (CHOOSE v \in T : TRUE).do = "delete" THEN NoClan
              ELSE Updated(clan, (CHOOSE v \in T : TRUE).fields)
  BY <1>1 DEF ClanWith
<1>4. (CHOOSE v \in T : TRUE) = w
  BY <1>2
<1>5. T # {} /\ ~ (clan = NoClan \/ T = {}) /\ w.do # "delete"
  BY <1>2
<1> QED
  BY <1>3, <1>4, <1>5

LEMMA ClanDeleted ==
    ASSUME NEW calls, NEW c, NEW clan, NEW w \in calls, w.do = "delete", w.clan = c,
           \A v \in calls : Writing(v) => v = w
    PROVE  ClanWith(clan, c, calls) = NoClan
<1>1. PICK T : T = {v \in calls : v.do \in {"save", "delete"} /\ v.clan = c}
  OBVIOUS
<1>2. T = {w}
  BY <1>1 DEF Writing
<1>3. ClanWith(clan, c, calls) =
         IF clan = NoClan \/ T = {} THEN clan
         ELSE IF (CHOOSE v \in T : TRUE).do = "delete" THEN NoClan
              ELSE Updated(clan, (CHOOSE v \in T : TRUE).fields)
  BY <1>1 DEF ClanWith
<1>4. (CHOOSE v \in T : TRUE) = w
  BY <1>2
<1> QED
  BY <1>2, <1>3, <1>4

LEMMA ClanKept ==
    ASSUME NEW calls, NEW c, NEW clan,
           clan = NoClan \/ \A v \in calls : Writing(v) => v.clan # c
    PROVE  ClanWith(clan, c, calls) = clan
<1>1. PICK T : T = {v \in calls : v.do \in {"save", "delete"} /\ v.clan = c}
  OBVIOUS
<1>2. clan = NoClan \/ T = {}
  BY <1>1 DEF Writing
<1>3. ClanWith(clan, c, calls) =
         IF clan = NoClan \/ T = {} THEN clan
         ELSE IF (CHOOSE v \in T : TRUE).do = "delete" THEN NoClan
              ELSE Updated(clan, (CHOOSE v \in T : TRUE).fields)
  BY <1>1 DEF ClanWith
<1> QED
  BY <1>2, <1>3

LEMMA ClanSame ==
    ASSUME NEW calls, NEW rest, NEW c, NEW clan,
           \A v : Writing(v) => (v \in calls <=> v \in rest)
    PROVE  ClanWith(clan, c, calls) = ClanWith(clan, c, rest)
<1>1. PICK T : T = {v \in calls : v.do \in {"save", "delete"} /\ v.clan = c}
  OBVIOUS
<1>2. T = {v \in rest : v.do \in {"save", "delete"} /\ v.clan = c}
  BY <1>1 DEF Writing
<1>3. ClanWith(clan, c, calls) =
         IF clan = NoClan \/ T = {} THEN clan
         ELSE IF (CHOOSE v \in T : TRUE).do = "delete" THEN NoClan
              ELSE Updated(clan, (CHOOSE v \in T : TRUE).fields)
  BY <1>1 DEF ClanWith
<1>4. ClanWith(clan, c, rest) =
         IF clan = NoClan \/ T = {} THEN clan
         ELSE IF (CHOOSE v \in T : TRUE).do = "delete" THEN NoClan
              ELSE Updated(clan, (CHOOSE v \in T : TRUE).fields)
  BY <1>2 DEF ClanWith
<1> QED
  BY <1>3, <1>4

Naming(w, p) == w.do = "setClanName" /\ w.who = p

LEMMA NameTold ==
    ASSUME NEW calls, NEW p, NEW name, NEW w \in calls, Naming(w, p),
           \A v \in calls : Naming(v, p) => v = w
    PROVE  NameWith(name, p, calls) = w.clan
<1>1. PICK T : T = {v \in calls : v.do = "setClanName" /\ v.who = p}
  OBVIOUS
<1>2. T = {w}
  BY <1>1 DEF Naming
<1>3. NameWith(name, p, calls) = IF T = {} THEN name ELSE (CHOOSE v \in T : TRUE).clan
  BY <1>1 DEF NameWith
<1>4. (CHOOSE v \in T : TRUE) = w
  BY <1>2
<1> QED
  BY <1>2, <1>3, <1>4

LEMMA NameKept ==
    ASSUME NEW calls, NEW p, NEW name, \A v \in calls : ~ Naming(v, p)
    PROVE  NameWith(name, p, calls) = name
BY DEF NameWith, Naming

LEMMA NameSame ==
    ASSUME NEW calls, NEW rest, NEW p, NEW name,
           \A v : Naming(v, p) => (v \in calls <=> v \in rest)
    PROVE  NameWith(name, p, calls) = NameWith(name, p, rest)
<1>1. PICK T : T = {v \in calls : v.do = "setClanName" /\ v.who = p}
  OBVIOUS
<1>2. T = {v \in rest : v.do = "setClanName" /\ v.who = p}
  BY <1>1 DEF Naming
<1>3. NameWith(name, p, calls) = IF T = {} THEN name ELSE (CHOOSE v \in T : TRUE).clan
  BY <1>1 DEF NameWith
<1>4. NameWith(name, p, rest) = IF T = {} THEN name ELSE (CHOOSE v \in T : TRUE).clan
  BY <1>2 DEF NameWith
<1> QED
  BY <1>3, <1>4

-----------------------------------------------------------------------------
(***************************************************************************)
(* The calls of the only handler.                                          *)
(***************************************************************************)
LEMMA RestOfCalls ==
    ASSUME NEW S, NEW s \in Seq(S), s # <<>>, Distinct(s)
    PROVE  /\ Range(Tail(s)) = Range(s) \ {Head(s)}
           /\ Head(s) \in Range(s)
           /\ Distinct(Tail(s))
<1>1. /\ Tail(s) \in Seq(S) /\ Len(Tail(s)) = Len(s) - 1 /\ Head(s) = s[1]
      /\ Len(s) \in Nat /\ Len(s) # 0
      /\ DOMAIN s = 1 .. Len(s) /\ DOMAIN Tail(s) = 1 .. Len(s) - 1
      /\ \A i \in DOMAIN Tail(s) : Tail(s)[i] = s[i + 1]
  BY EmptySeq, HeadTailProperties, LenProperties
<1> HIDE DEF Range
<1>2. ASSUME NEW x \in Range(Tail(s))
      PROVE  x \in Range(s) /\ x # Head(s)
  <2>1. PICK i \in DOMAIN Tail(s) : x = Tail(s)[i]
    BY DEF Range
  <2>2. x = s[i + 1] /\ i + 1 \in DOMAIN s /\ 1 \in DOMAIN s /\ i + 1 # 1
    BY <1>1, <2>1
  <2> QED
    BY <1>1, <2>2 DEF Range, Distinct
<1>3. ASSUME NEW x \in Range(s), x # Head(s)
      PROVE  x \in Range(Tail(s))
  <2>1. PICK i \in DOMAIN s : x = s[i]
    BY DEF Range
  <2>2. i - 1 \in DOMAIN Tail(s) /\ (i - 1) + 1 = i
    BY <1>1, <1>3, <2>1
  <2>3. Tail(s)[i - 1] = x
    BY <1>1, <2>1, <2>2
  <2> QED
    BY <2>2, <2>3 DEF Range
<1>4. Head(s) \in Range(s)
  BY <1>1 DEF Range
<1>5. ASSUME NEW i \in DOMAIN Tail(s), NEW j \in DOMAIN Tail(s), Tail(s)[i] = Tail(s)[j]
      PROVE  i = j
  <2>1. i + 1 \in DOMAIN s /\ j + 1 \in DOMAIN s /\ s[i + 1] = s[j + 1]
    BY <1>1, <1>5
  <2> QED
    BY <1>1, <2>1 DEF Distinct
<1> QED
  BY <1>2, <1>3, <1>4, <1>5 DEF Distinct

LEMMA OnlyCalls ==
    ASSUME ClansInv, Alone, NEW p \in Player, todo[p] # <<>>
    PROVE  Waiting = Range(todo[p]) /\ \A q \in Player : q # p => todo[q] = <<>>
<1>1. \A q \in Player : q # p => todo[q] = <<>>
  BY DEF Alone
<1>2. Range(<<>>) = {}
  BY DEF Range
<1> QED
  BY <1>1, <1>2 DEF Waiting

LEMMA WaitingTyped == ASSUME ClansInv, NEW w \in Waiting PROVE w \in SoundCall
<1>1. PICK p \in Player : w \in Range(todo[p])
  BY DEF Waiting
<1>2. PICK i \in DOMAIN todo[p] : w = todo[p][i]
  BY <1>1 DEF Range
<1>3. todo[p] \in Seq(SoundCall)
  BY DEF ClansInv
<1> QED
  BY <1>2, <1>3, LenProperties, ElementOfSeq

(***************************************************************************)
(* Giving the only handler other calls.                                    *)
(***************************************************************************)
LEMMA CallsGiven ==
    ASSUME ClansInv, NEW p \in Player, \A q \in Player : q # p => todo[q] = <<>>,
           NEW calls, todo' = [todo EXCEPT ![p] = calls]
    PROVE  /\ Alone' /\ Waiting' = Range(calls)
           /\ todo'[p] = calls /\ \A q \in Player : q # p => todo'[q] = <<>>
<1>1. todo'[p] = calls /\ \A q \in Player : q # p => todo'[q] = <<>>
  BY DEF ClansInv
<1>2. Range(<<>>) = {}
  BY DEF Range
<1>3. Waiting' = Range(calls)
  BY <1>1, <1>2 DEF Waiting
<1> QED
  BY <1>1, <1>3 DEF Alone

(***************************************************************************)
(* A handler that begins finds no other at work.                           *)
(***************************************************************************)
LEMMA NobodyElse ==
    ASSUME ClansInv, Alone, MaxOverlap = 1, NEW p \in Player, NEW calls, Begin(p, calls)
    PROVE  /\ Waiting = {} /\ \A q \in Player : todo[q] = <<>>
           /\ Alone' /\ Waiting' = Range(calls)
           /\ todo'[p] = calls /\ \A q \in Player : q # p => todo'[q] = <<>>
<1>1. PICK B : B = {q \in Player : todo[q] # <<>>}
  OBVIOUS
<1>2. B = {}
  <2>1. \A q, r \in B : q = r
    BY <1>1 DEF Alone
  <2>2. IsFiniteSet(B)
    <3>1. CASE B = {}
      BY <3>1, FS_EmptySet
    <3>2. CASE B # {}
      <4>1. PICK q \in B : B = {q}
        BY <2>1, <3>2
      <4> QED
        BY <4>1, FS_Singleton
    <3> QED
      BY <3>1, <3>2
  <2>3. Cardinality(B) \in Nat /\ Cardinality(B) < 1
    BY <1>1, <2>2, FS_CardinalityType DEF Begin
  <2> QED
    BY <2>2, <2>3, FS_EmptySet
<1>3. \A q \in Player : todo[q] = <<>>
  BY <1>1, <1>2
<1>4. Waiting = {}
  BY <1>3 DEF Waiting, Range
<1>5. todo' = [todo EXCEPT ![p] = calls]
  BY DEF Begin
<1> QED
  BY <1>3, <1>4, <1>5, CallsGiven

-----------------------------------------------------------------------------
(***************************************************************************)
(* SerialInv: calls that a handler may begin with, as the clans are.       *)
(***************************************************************************)
Fits(calls) ==
    /\ Distinct(calls)
    /\ \A i, j \in DOMAIN calls : Writing(calls[i]) /\ Writing(calls[j]) => i = j
    /\ \A i \in DOMAIN calls : calls[i].do = "save" =>
          /\ clans[calls[i].clan] # NoClan
          /\ GoodClan(Updated(clans[calls[i].clan], calls[i].fields))
    /\ \A i \in DOMAIN calls : Repaints(calls[i]) =>
          i # 1 /\ calls[i - 1] = FindByMark(calls[i].clan, calls[i].fields.mark)
    /\ \A i \in DOMAIN calls : calls[i].do = "findPlayer" => i = Len(calls)

LEMMA LeavesSerial ==
    ASSUME SerialInv, ClansInv', MaxOverlap = 1, NEW p \in Player, NEW calls,
           Leaves(p, calls), Fits(calls)
    PROVE  SerialInv'
<1>1. Begin(p, calls) /\ clans' = clans
  BY DEF Leaves
<1>2. /\ Alone' /\ Waiting' = Range(calls)
      /\ todo'[p] = calls /\ \A q \in Player : q # p => todo'[q] = <<>>
  BY <1>1, NobodyElse DEF SerialInv
<1>3. NoneAlike'
  <2>1. Distinct(calls) /\ Distinct(<<>>)
    BY DEF Fits, Distinct
  <2> QED
    BY <1>2, <2>1 DEF NoneAlike
<1>4. OneWrite'
  <2> SUFFICES ASSUME NEW v \in Range(calls), NEW w \in Range(calls), Writing(v), Writing(w)
               PROVE  v = w
    BY <1>2 DEF OneWrite, Writing
  <2>1. PICK i, j \in DOMAIN calls : v = calls[i] /\ w = calls[j]
    BY DEF Range
  <2> QED
    BY <2>1 DEF Fits
<1>5. GoodSaved'
  BY <1>1 DEF SerialInv, GoodSaved
<1>6. GoodWaiting'
  <2> SUFFICES ASSUME NEW w \in Range(calls), w.do = "save"
               PROVE  clans[w.clan] # NoClan /\ GoodClan(Updated(clans[w.clan], w.fields))
    BY <1>1, <1>2 DEF GoodWaiting
  <2>1. PICK i \in DOMAIN calls : w = calls[i]
    BY DEF Range
  <2> QED
    BY <2>1 DEF Fits
<1>7. LooksFirst'
  <2> SUFFICES ASSUME NEW q \in Player, NEW i \in DOMAIN todo'[q], Repaints(todo'[q][i])
               PROVE  /\ i # 1
                      /\ todo'[q][i - 1] = FindByMark(todo'[q][i].clan, todo'[q][i].fields.mark)
    BY DEF LooksFirst
  <2>1. q = p
    BY <1>2
  <2> QED
    BY <1>2, <2>1 DEF Fits
<1>8. LoadsLast'
  <2> SUFFICES ASSUME NEW q \in Player, NEW i \in DOMAIN todo'[q], todo'[q][i].do = "findPlayer"
               PROVE  i = Len(todo'[q])
    BY DEF LoadsLast
  <2>1. q = p
    BY <1>2
  <2> QED
    BY <1>2, <2>1 DEF Fits
<1> QED
  BY <1>2, <1>3, <1>4, <1>5, <1>6, <1>7, <1>8 DEF SerialInv

(***************************************************************************)
(* The requests that save one clan, and may then name an account and its   *)
(* session.                                                                *)
(***************************************************************************)
LEMMA SaveFits ==
    ASSUME NEW c, NEW f, clans[c] # NoClan, GoodClan(Updated(clans[c], f)),
           "mark" \notin DOMAIN f, NEW q, NEW d
    PROVE  /\ Fits(<<Save(c, f)>>)
           /\ Fits(<<Save(c, f), SetClanName(q, d), SetSession(q, d)>>)
<1>1. /\ Save(c, f).do = "save" /\ Save(c, f).clan = c /\ Save(c, f).fields = f
      /\ SetClanName(q, d).do = "setClanName" /\ SetSession(q, d).do = "setSession"
  BY DEF Save, SetClanName, SetSession
<1>2. Fits(<<Save(c, f)>>)
  BY <1>1 DEF Fits, Distinct, Writing, Repaints
<1>3. PICK s : s = <<Save(c, f), SetClanName(q, d), SetSession(q, d)>>
  OBVIOUS
<1>4. /\ DOMAIN s = 1 .. 3 /\ s[1] = Save(c, f)
      /\ s[2] = SetClanName(q, d) /\ s[3] = SetSession(q, d)
  BY <1>3
<1>5. /\ s[1].do = "save" /\ s[1].clan = c /\ s[1].fields = f
      /\ s[2].do = "setClanName" /\ s[3].do = "setSession"
      /\ \A i \in DOMAIN s : i = 1 \/ i = 2 \/ i = 3
  BY <1>1, <1>4
<1>6. Fits(s)
  BY <1>5 DEF Fits, Distinct, Writing, Repaints
<1> QED
  BY <1>2, <1>3, <1>6

LEMMA NothingWaits ==
    ASSUME Waiting = {}
    PROVE  /\ \A e \in Name : ClanAfter(e) = clans[e]
           /\ \A q \in Player : AccountAfter(q) = account[q]
BY ClanKept, NameKept DEF ClanAfter, AccountAfter

\* The saved document is a document.
LEMMA SaveTyped ==
    ASSUME ClansInv, NEW c \in Name, clans[c] # NoClan, NEW f, Save(c, f) \in SoundCall
    PROVE  Updated(clans[c], f) \in Document /\ Updated(clans[c], f) # NoClan
<1>1. PICK w \in SoundCall : w = Save(c, f)
  OBVIOUS
<1>2. w.do = "save" /\ w.fields = f
  BY <1>1 DEF Save
<1>3. PICK clan \in SoundDocument : clan = clans[c]
  BY FoundSound
<1>4. Updated(clan, w.fields) \in SoundDocument
  BY <1>2, UpdatedSound
<1> QED
  BY <1>2, <1>3, <1>4, ClansAssumption DEF SoundDocument

LEMMA SaveBegun ==
    ASSUME SerialInv, ClansInv', MaxOverlap = 1, NEW p \in Player, NEW c \in Name,
           clans[c] # NoClan, NEW f, GoodClan(Updated(clans[c], f)), "mark" \notin DOMAIN f,
           Leaves(p, <<Save(c, f)>>)
    PROVE  /\ SerialInv' /\ UNCHANGED <<clans, account, session>>
           /\ Waiting = {} /\ Waiting' = {Save(c, f)}
           /\ Updated(clans[c], f) \in Document /\ Updated(clans[c], f) # NoClan
           /\ ClanAfter(c)' = Updated(clans[c], f)
           /\ \A e \in Name \ {c} : ClanAfter(e)' = clans[e]
           /\ \A q \in Player : AccountAfter(q)' = account[q]
<1>1. PICK calls : calls = <<Save(c, f)>>
  OBVIOUS
<1>2. Leaves(p, calls) /\ Begin(p, calls) /\ UNCHANGED <<clans, account, session>>
  BY <1>1 DEF Leaves
<1>3. SerialInv'
  <2>1. Fits(calls)
    BY <1>1, SaveFits
  <2> QED
    BY <1>2, <2>1, LeavesSerial
<1>4. Waiting = {} /\ Waiting' = Range(calls) /\ todo'[p] = calls
  BY <1>2, NobodyElse DEF SerialInv
<1>5. Range(calls) = {Save(c, f)}
  BY <1>1 DEF Range
<1>6. Save(c, f) \in SoundCall
  <2>1. todo'[p] \in Seq(SoundCall)
    BY DEF ClansInv
  <2>2. calls[1] \in SoundCall
    BY <1>1, <1>4, <2>1
  <2> QED
    BY <1>1, <2>2
<1>7. Save(c, f).do = "save" /\ Save(c, f).clan = c /\ Save(c, f).fields = f
  BY DEF Save
<1>8. ClanWith(clans[c], c, {Save(c, f)}) = Updated(clans[c], f)
  BY <1>7, ClanSaved
<1>9. \A e \in Name \ {c} : ClanWith(clans[e], e, {Save(c, f)}) = clans[e]
  BY <1>7, ClanKept
<1>10. \A q \in Player : NameWith(account[q], q, {Save(c, f)}) = account[q]
  BY <1>7, NameKept DEF Naming
<1>11. Updated(clans[c], f) \in Document /\ Updated(clans[c], f) # NoClan
  BY <1>6, SaveTyped DEF SerialInv
<1> QED
  BY <1>2, <1>3, <1>4, <1>5, <1>8, <1>9, <1>10, <1>11 DEF ClanAfter, AccountAfter

LEMMA SaveNameBegun ==
    ASSUME SerialInv, ClansInv', MaxOverlap = 1, NEW p \in Player, NEW c \in Name,
           clans[c] # NoClan, NEW f, GoodClan(Updated(clans[c], f)), "mark" \notin DOMAIN f,
           NEW q \in Player, NEW d, Leaves(p, <<Save(c, f), SetClanName(q, d), SetSession(q, d)>>)
    PROVE  /\ SerialInv' /\ UNCHANGED <<clans, account, session>>
           /\ Waiting = {} /\ Waiting' = {Save(c, f), SetClanName(q, d), SetSession(q, d)}
           /\ Updated(clans[c], f) \in Document /\ Updated(clans[c], f) # NoClan
           /\ ClanAfter(c)' = Updated(clans[c], f)
           /\ \A e \in Name \ {c} : ClanAfter(e)' = clans[e]
           /\ AccountAfter(q)' = d
           /\ \A x \in Player \ {q} : AccountAfter(x)' = account[x]
<1>1. PICK calls : calls = <<Save(c, f), SetClanName(q, d), SetSession(q, d)>>
  OBVIOUS
<1>2. Leaves(p, calls) /\ Begin(p, calls) /\ UNCHANGED <<clans, account, session>>
  BY <1>1 DEF Leaves
<1>3. SerialInv'
  <2>1. Fits(calls)
    BY <1>1, SaveFits
  <2> QED
    BY <1>2, <2>1, LeavesSerial
<1>4. Waiting = {} /\ Waiting' = Range(calls) /\ todo'[p] = calls
  BY <1>2, NobodyElse DEF SerialInv
<1>5. PICK W : W = {Save(c, f), SetClanName(q, d), SetSession(q, d)}
  OBVIOUS
<1>6. Range(calls) = W
  <2>1. DOMAIN calls = {1, 2, 3}
    BY <1>1
  <2>2. calls[1] = Save(c, f) /\ calls[2] = SetClanName(q, d) /\ calls[3] = SetSession(q, d)
    BY <1>1
  <2> QED
    BY <1>5, <2>1, <2>2 DEF Range
<1>7. Save(c, f) \in SoundCall
  <2>1. todo'[p] \in Seq(SoundCall)
    BY DEF ClansInv
  <2>2. calls[1] \in SoundCall
    BY <1>1, <1>4, <2>1
  <2> QED
    BY <1>1, <2>2
<1>8. /\ Save(c, f).do = "save" /\ Save(c, f).clan = c /\ Save(c, f).fields = f
      /\ SetClanName(q, d).do = "setClanName" /\ SetClanName(q, d).who = q
      /\ SetClanName(q, d).clan = d /\ SetSession(q, d).do = "setSession"
  BY DEF Save, SetClanName, SetSession
<1>9. /\ Save(c, f) \in W /\ \A v \in W : Writing(v) => v = Save(c, f)
      /\ SetClanName(q, d) \in W /\ \A v \in W : \A x : Naming(v, x) => v = SetClanName(q, d) /\ x = q
      /\ Naming(SetClanName(q, d), q)
  BY <1>5, <1>8 DEF Writing, Naming
<1>10. ClanWith(clans[c], c, W) = Updated(clans[c], f)
  BY <1>8, <1>9, ClanSaved
<1>11. \A e \in Name \ {c} : ClanWith(clans[e], e, W) = clans[e]
  BY <1>8, <1>9, ClanKept
<1>12. NameWith(account[q], q, W) = d
  BY <1>8, <1>9, NameTold
<1>13. \A x \in Player \ {q} : NameWith(account[x], x, W) = account[x]
  BY <1>9, NameKept
<1>14. Updated(clans[c], f) \in Document /\ Updated(clans[c], f) # NoClan
  BY <1>7, SaveTyped DEF SerialInv
<1> QED
  BY <1>2, <1>3, <1>4, <1>5, <1>6, <1>10, <1>11, <1>12, <1>13, <1>14
     DEF ClanAfter, AccountAfter

-----------------------------------------------------------------------------
(***************************************************************************)
(* CalmInv: where nothing waits, the accounts and the sessions agree with  *)
(* the clans as they are.                                                  *)
(***************************************************************************)
LEMMA CalmQuiet ==
    ASSUME CalmInv, Waiting = {}, NEW p \in Player
    PROVE  /\ account[p] # NoName =>
                 account[p] \in Name /\ clans[account[p]] # NoClan
                 /\ p \in People(clans[account[p]].members)
           /\ session[p] \in {Offline, account[p]}
<1>1. AccountAfter(p) = account[p] /\ \A e \in Name : ClanAfter(e) = clans[e]
  BY NothingWaits
<1>2. session[p] \in {Offline, account[p]}
  BY <1>1 DEF CalmInv, CopiesFollow
<1>3. account[p] # NoName => \E c \in Name : account[p] = c /\ ListedAfter(p, c)
  BY <1>1 DEF CalmInv, BelongsListed
<1> QED
  BY <1>1, <1>2, <1>3 DEF ListedAfter

LEMMA SaveCalm ==
    ASSUME CalmInv, ClansInv', MaxOverlap = 1, NEW p \in Player, NEW c \in Name,
           clans[c] # NoClan, NEW f, GoodClan(Updated(clans[c], f)), "mark" \notin DOMAIN f,
           Leaves(p, <<Save(c, f)>>),
           People(Updated(clans[c], f).members) = People(clans[c].members)
    PROVE  CalmInv'
<1> SerialInv
  BY DEF CalmInv
<1>1. /\ SerialInv' /\ UNCHANGED <<clans, account, session>>
      /\ Waiting = {} /\ Waiting' = {Save(c, f)}
      /\ ClanAfter(c)' = Updated(clans[c], f) /\ Updated(clans[c], f) # NoClan
      /\ \A e \in Name \ {c} : ClanAfter(e)' = clans[e]
      /\ \A q \in Player : AccountAfter(q)' = account[q]
  BY SaveBegun
<1>2. Save(c, f).do = "save"
  BY DEF Save
<1>3. OneName' /\ LooksOnly'
  BY <1>1, <1>2 DEF OneName, LooksOnly
<1>4. CopiesFollow'
  BY <1>1, <1>2, CalmQuiet DEF CopiesFollow
<1>5. BelongsListed'
  <2> SUFFICES ASSUME NEW q \in Player, account[q] # NoName
               PROVE  \E e \in Name : account[q] = e /\ ListedAfter(q, e)'
    BY <1>1 DEF BelongsListed
  <2>1. PICK e \in Name : account[q] = e /\ clans[e] # NoClan /\ q \in People(clans[e].members)
    BY <1>1, CalmQuiet
  <2>2. ListedAfter(q, e)'
    BY <1>1, <2>1 DEF ListedAfter
  <2> QED
    BY <2>1, <2>2
<1> QED
  BY <1>1, <1>3, <1>4, <1>5 DEF CalmInv

\* q is named to the clan that lists it, or to none and the others stay.
LEMMA SaveNameCalm ==
    ASSUME CalmInv, ClansInv', MaxOverlap = 1, NEW p \in Player, NEW c \in Name,
           clans[c] # NoClan, NEW f, GoodClan(Updated(clans[c], f)), "mark" \notin DOMAIN f,
           NEW q \in Player, NEW d, Leaves(p, <<Save(c, f), SetClanName(q, d), SetSession(q, d)>>),
           d = NoName \/ (d = c /\ q \in People(Updated(clans[c], f).members)),
           People(clans[c].members) \ {q} \subseteq People(Updated(clans[c], f).members)
    PROVE  CalmInv'
<1> SerialInv
  BY DEF CalmInv
<1>1. /\ SerialInv' /\ UNCHANGED <<clans, account, session>>
      /\ Waiting = {} /\ Waiting' = {Save(c, f), SetClanName(q, d), SetSession(q, d)}
      /\ ClanAfter(c)' = Updated(clans[c], f) /\ Updated(clans[c], f) # NoClan
      /\ \A e \in Name \ {c} : ClanAfter(e)' = clans[e]
      /\ AccountAfter(q)' = d
      /\ \A x \in Player \ {q} : AccountAfter(x)' = account[x]
  BY SaveNameBegun
<1>2. /\ Save(c, f).do = "save"
      /\ SetClanName(q, d).do = "setClanName" /\ SetClanName(q, d).who = q
      /\ SetSession(q, d).do = "setSession" /\ SetSession(q, d).who = q
      /\ SetSession(q, d).clan = d
  BY DEF Save, SetClanName, SetSession
<1>3. OneName' /\ LooksOnly'
  BY <1>1, <1>2 DEF OneName, LooksOnly
<1>4. CopiesFollow'
  <2>1. ASSUME NEW x \in Player, x # q
        PROVE  session'[x] \in {Offline, AccountAfter(x)'}
    BY <1>1, <2>1, CalmQuiet
  <2>2. \A w \in Waiting' : w.do \in {"setSession", "bindPlayer"} => w = SetSession(q, d)
    BY <1>1, <1>2
  <2>3. SetSession(q, d) \in Waiting'
    BY <1>1
  <2> QED
    BY <1>1, <1>2, <2>1, <2>2, <2>3 DEF CopiesFollow
<1>5. BelongsListed'
  <2>1. ASSUME d # NoName
        PROVE  ListedAfter(q, d)'
    BY <1>1, <2>1 DEF ListedAfter
  <2>2. ASSUME NEW x \in Player \ {q}, account[x] # NoName
        PROVE  \E e \in Name : account[x] = e /\ ListedAfter(x, e)'
    <3>1. PICK e \in Name : account[x] = e /\ clans[e] # NoClan /\ x \in People(clans[e].members)
      BY <1>1, <2>2, CalmQuiet
    <3>2. ListedAfter(x, e)'
      BY <1>1, <3>1 DEF ListedAfter
    <3> QED
      BY <3>1, <3>2
  <2> QED
    BY <1>1, <2>1, <2>2 DEF BelongsListed
<1> QED
  BY <1>1, <1>3, <1>4, <1>5 DEF CalmInv

-----------------------------------------------------------------------------
(***************************************************************************)
(* What each request saves of the clan, and whom it names.                 *)
(***************************************************************************)
SavesOnly(p, c, f) ==
    /\ Leaves(p, <<Save(c, f)>>)
    /\ "mark" \notin DOMAIN f /\ GoodClan(Updated(clans[c], f))

SavesAndNames(p, c, f, q, d) ==
    /\ Leaves(p, <<Save(c, f), SetClanName(q, d), SetSession(q, d)>>)
    /\ "mark" \notin DOMAIN f /\ GoodClan(Updated(clans[c], f))

LEMMA RequestJoinDoes ==
    ASSUME SerialInv, MaxGivenID <= MaxRowID, NEW p \in Player, NEW c \in Name,
           RequestJoin(p, c)
    PROVE  \E f : /\ SavesOnly(p, c, f)
                  /\ Updated(clans[c], f).members = clans[c].members
                  /\ People(Updated(clans[c], f).applicants) = People(clans[c].applicants) \cup {p}
<1>1. clans[c] # NoClan
  BY DEF RequestJoin
<1>2. PICK clan \in Document : clan = clans[c] /\ GoodClan(clan)
  BY <1>1, FoundSound DEF SerialInv, GoodSaved
<1>3. Highest(clan.members) < MaxRowID /\ Highest(clan.applicants) < MaxRowID
  <2>1. clan.members \in Seq(Row) /\ clan.applicants \in Seq([id : RowID, who : Player])
    BY DEF Document, Members, Applicants, Row
  <2>2. Highest(clan.members) \in Nat /\ Highest(clan.applicants) \in Nat
    BY <2>1, RowsNumbered, HighestIsBound
  <2> QED
    BY <1>2, <2>2, ClanAssumption, ClansAssumption DEF RequestJoin
<1>4. PICK q : q = Enqueue(clan, p)
  OBVIOUS
<1>5. /\ GoodSlices(clan.master, clan.members, q)
      /\ People(q) = People(clan.applicants) \cup {p}
  BY <1>2, <1>3, <1>4, JoinGood DEF RequestJoin
<1>6. PICK f : f = [applicants |-> q]
  OBVIOUS
<1>7. Updated(clan, f) = [master |-> clan.master, members |-> clan.members,
                          applicants |-> q, mark |-> clan.mark]
  BY <1>6, UpdatedFields
<1>8. Leaves(p, <<Save(c, f)>>)
  BY <1>2, <1>4, <1>6 DEF RequestJoin
<1>9. "mark" \notin DOMAIN f
  BY <1>6
<1>10. GoodClan(Updated(clan, f))
  BY <1>5, <1>7 DEF GoodClan
<1>11. SavesOnly(p, c, f)
  BY <1>2, <1>8, <1>9, <1>10 DEF SavesOnly
<1>12. Updated(clan, f).members = clan.members /\ Updated(clan, f).applicants = q
  BY <1>7
<1>13. /\ Updated(clans[c], f).members = clans[c].members
       /\ People(Updated(clans[c], f).applicants) = People(clans[c].applicants) \cup {p}
  BY <1>2, <1>5, <1>12
<1> QED
  BY <1>11, <1>13

(***************************************************************************)
(* CancelApplication and RejectApplication take one applicant off.         *)
(***************************************************************************)
LEMMA DequeueDoes ==
    ASSUME SerialInv, NEW p \in Player, NEW c \in Name, clans[c] # NoClan,
           NEW k \in DOMAIN clans[c].applicants,
           Leaves(p, <<Save(c, [applicants |->
                        Without(clans[c].applicants, clans[c].applicants[k].id)])>>)
    PROVE  \E f : /\ SavesOnly(p, c, f)
                  /\ Updated(clans[c], f).members = clans[c].members
                  /\ People(Updated(clans[c], f).applicants)
                        = People(clans[c].applicants) \ {clans[c].applicants[k].who}
<1>1. PICK clan \in Document : clan = clans[c] /\ GoodClan(clan)
  BY FoundSound DEF SerialInv, GoodSaved
<1>2. PICK q : q = Without(clan.applicants, clan.applicants[k].id)
  OBVIOUS
<1>3. k \in DOMAIN clan.applicants
  BY <1>1
<1>4. /\ GoodSlices(clan.master, clan.members, q)
      /\ People(q) = People(clan.applicants) \ {clan.applicants[k].who}
  BY <1>1, <1>2, <1>3, DequeueGood
<1>5. PICK f : f = [applicants |-> q]
  OBVIOUS
<1>6. Updated(clan, f) = [master |-> clan.master, members |-> clan.members,
                          applicants |-> q, mark |-> clan.mark]
  BY <1>5, UpdatedFields
<1>7. Leaves(p, <<Save(c, f)>>) /\ "mark" \notin DOMAIN f
  BY <1>1, <1>2, <1>5
<1>8. GoodClan(Updated(clan, f))
  BY <1>4, <1>6 DEF GoodClan
<1>9. SavesOnly(p, c, f)
  BY <1>1, <1>7, <1>8 DEF SavesOnly
<1>10. /\ Updated(clan, f).members = clan.members
       /\ Updated(clan, f).applicants = q
  BY <1>6
<1>11. /\ Updated(clans[c], f).members = clans[c].members
       /\ People(Updated(clans[c], f).applicants)
             = People(clans[c].applicants) \ {clans[c].applicants[k].who}
  BY <1>1, <1>4, <1>10
<1> QED
  BY <1>9, <1>11

\* The row of the applicants that a request speaks of.
LEMMA ApplicantRow ==
    ASSUME SerialInv, NEW c \in Name, clans[c] # NoClan
    PROVE  /\ \A id \in IDs(clans[c].applicants) : \E k \in DOMAIN clans[c].applicants :
                 clans[c].applicants[k].id = id /\ RowWith(clans[c].applicants, id) = clans[c].applicants[k]
           /\ \A p \in People(clans[c].applicants) : \E k \in DOMAIN clans[c].applicants :
                 clans[c].applicants[k].who = p /\ RowOf(clans[c].applicants, p) = clans[c].applicants[k]
<1>1. PICK R : R = [id : RowID, who : Player]
  OBVIOUS
<1>2. PICK u \in Seq(R) : u = clans[c].applicants
  BY <1>1, FoundSound DEF SerialInv, Applicants
<1>3. Unique(u) /\ OneEach(u)
  BY <1>2 DEF SerialInv, GoodSaved, GoodClan, GoodSlices
<1>4. \A k \in DOMAIN u : RowWith(u, u[k].id) = u[k] /\ RowOf(u, u[k].who) = u[k]
  BY <1>3, RowFound
<1> QED
  BY <1>2, <1>4 DEF IDs, People

LEMMA ApplicantPeople ==
    ASSUME NEW u \in Applicants
    PROVE  People(u) \subseteq Player
<1>1. \A k \in DOMAIN u : u[k] \in [id : RowID, who : Player]
  BY LenProperties, ElementOfSeq DEF Applicants
<1> QED
  BY <1>1 DEF People

LEMMA MemberRow ==
    ASSUME SerialInv, NEW c \in Name, clans[c] # NoClan
    PROVE  /\ \A id \in IDs(clans[c].members) : \E k \in DOMAIN clans[c].members :
                 clans[c].members[k].id = id /\ RowWith(clans[c].members, id) = clans[c].members[k]
           /\ \A p \in People(clans[c].members) : \E k \in DOMAIN clans[c].members :
                 clans[c].members[k].who = p /\ RowOf(clans[c].members, p) = clans[c].members[k]
           /\ \A k \in DOMAIN clans[c].members :
                 /\ clans[c].members[k] \in Row
                 /\ RowOf(clans[c].members, clans[c].members[k].who) = clans[c].members[k]
           /\ Unique(clans[c].members) /\ OneEach(clans[c].members)
<1>1. PICK u \in Seq(Row) : u = clans[c].members
  BY FoundSound DEF SerialInv, Members, Row
<1>2. Unique(u) /\ OneEach(u)
  BY <1>1 DEF SerialInv, GoodSaved, GoodClan, GoodSlices
<1>3. \A k \in DOMAIN u : RowWith(u, u[k].id) = u[k] /\ RowOf(u, u[k].who) = u[k]
  BY <1>2, RowFound
<1>4. \A k \in DOMAIN u : u[k] \in Row
  BY LenProperties, ElementOfSeq
<1> QED
  BY <1>1, <1>2, <1>3, <1>4 DEF IDs, People

LEMMA AcceptDoes ==
    ASSUME SerialInv, NEW p \in Player, NEW c \in Name, clans[c] # NoClan,
           NEW id \in IDs(clans[c].applicants), AcceptApplication(p, c, id)
    PROVE  \E f : \E q \in Player :
              /\ SavesAndNames(p, c, f, q, c)
              /\ q \in People(clans[c].applicants)
              /\ People(Updated(clans[c], f).members) = People(clans[c].members) \cup {q}
              /\ People(Updated(clans[c], f).applicants) = People(clans[c].applicants) \ {q}
              /\ \A x \in People(clans[c].members) :
                    RowOf(Updated(clans[c], f).members, x) = RowOf(clans[c].members, x)
              /\ RowOf(Updated(clans[c], f).members, q).rank = Member
<1>1. PICK clan \in Document : clan = clans[c] /\ GoodClan(clan)
  BY FoundSound DEF SerialInv, GoodSaved
<1>2. PICK k \in DOMAIN clan.applicants :
         clan.applicants[k].id = id /\ RowWith(clan.applicants, id) = clan.applicants[k]
  BY <1>1, ApplicantRow
<1>3. clan.members # <<>>
  BY <1>1 DEF AcceptApplication, ActorWith, People
<1>4. PICK u, v, q : /\ u = Enroll(clan, clan.applicants[k])
                     /\ v = Without(clan.applicants, clan.applicants[k].id)
                     /\ q = clan.applicants[k].who
  OBVIOUS
<1>5. /\ GoodSlices(clan.master, u, v)
      /\ People(u) = People(clan.members) \cup {q}
      /\ People(v) = People(clan.applicants) \ {q}
      /\ \A x \in People(clan.members) : RowOf(u, x) = RowOf(clan.members, x)
      /\ RowOf(u, q).rank = Member
  <2>1. GoodClan(clan)
    BY <1>1
  <2> QED
    BY ONLY clan \in Document, k \in DOMAIN clan.applicants, <1>3, <1>4, <2>1, AcceptGood
<1>6. q \in Player /\ q \in People(clan.applicants)
  <2>1. PICK a \in Seq([id : RowID, who : Player]) : a = clan.applicants
    BY DEF Document, Applicants
  <2>2. a[k] \in [id : RowID, who : Player]
    <3>1. k \in 1 .. Len(a)
      BY <2>1, LenProperties
    <3> QED
      BY ONLY <3>1, a \in Seq([id : RowID, who : Player]), ElementOfSeq
  <2>3. clan.applicants[k] \in [id : RowID, who : Player]
    BY <2>1, <2>2
  <2> QED
    BY <1>4, <2>3 DEF People
<1>7. PICK f : f = [members |-> u, applicants |-> v]
  OBVIOUS
<1>8. Updated(clan, f) = [master |-> clan.master, members |-> u, applicants |-> v, mark |-> clan.mark]
  BY <1>7, UpdatedFields
<1>9. Leaves(p, <<Save(c, f), SetClanName(q, c), SetSession(q, c)>>) /\ "mark" \notin DOMAIN f
  BY <1>1, <1>2, <1>4, <1>7 DEF AcceptApplication
<1>10. GoodClan(Updated(clan, f))
  BY <1>5, <1>8 DEF GoodClan
<1>11. SavesAndNames(p, c, f, q, c)
  BY <1>1, <1>9, <1>10 DEF SavesAndNames
<1> QED
  BY <1>1, <1>5, <1>6, <1>8, <1>11

(***************************************************************************)
(* detach: one member goes.                                                *)
(***************************************************************************)
LEMMA DetachDoes ==
    ASSUME SerialInv, NEW p \in Player, NEW c \in Name, clans[c] # NoClan,
           NEW k \in DOMAIN clans[c].members,
           clans[c].members[k].rank # Master \/ Len(clans[c].members) <= 1,
           Leaves(p, Detach(c, clans[c].members[k]))
    PROVE  \E f : \E q \in Player :
              /\ SavesAndNames(p, c, f, q, NoName)
              /\ q = clans[c].members[k].who
              /\ People(Updated(clans[c], f).members) = People(clans[c].members) \ {q}
              /\ Updated(clans[c], f).applicants = clans[c].applicants
              /\ \A x \in People(Updated(clans[c], f).members) :
                    RowOf(Updated(clans[c], f).members, x) = RowOf(clans[c].members, x)
<1>1. PICK clan \in Document : clan = clans[c] /\ GoodClan(clan)
  BY FoundSound DEF SerialInv, GoodSaved
<1>0. PICK q \in Player : q = clans[c].members[k].who
  BY MemberRow DEF Row
<1>2. PICK u : u = Without(clan.members, clan.members[k].id)
  OBVIOUS
<1>3. /\ GoodSlices(clan.master, u, clan.applicants)
      /\ People(u) = People(clan.members) \ {q}
      /\ \A x \in People(u) : RowOf(u, x) = RowOf(clan.members, x)
  <2>1. /\ k \in DOMAIN clan.members /\ q = clan.members[k].who
        /\ clan.members[k].rank # Master \/ Len(clan.members) <= 1
    BY <1>0, <1>1
  <2> QED
    BY <1>1, <1>2, <2>1, CutGood
<1>4. PICK f : f = [members |-> u]
  OBVIOUS
<1>5. Updated(clan, f) = [master |-> clan.master, members |-> u,
                          applicants |-> clan.applicants, mark |-> clan.mark]
  BY <1>4, UpdatedFields
<1>6. Leaves(p, <<Save(c, f), SetClanName(q, NoName), SetSession(q, NoName)>>)
      /\ "mark" \notin DOMAIN f
  BY <1>0, <1>1, <1>2, <1>4 DEF Detach
<1>7. GoodClan(Updated(clan, f))
  BY <1>3, <1>5 DEF GoodClan
<1>8. SavesAndNames(p, c, f, q, NoName)
  BY <1>1, <1>6, <1>7 DEF SavesAndNames
<1> QED
  BY <1>0, <1>1, <1>3, <1>5, <1>8

(***************************************************************************)
(* KickMember and Leave: whose row goes, and what it may be.               *)
(***************************************************************************)
LEMMA KickDoes ==
    ASSUME SerialInv, NEW p \in Player, NEW c \in Name, clans[c] # NoClan,
           NEW id \in IDs(clans[c].members), KickMember(p, c, id)
    PROVE  \E k \in DOMAIN clans[c].members :
              /\ Leaves(p, Detach(c, clans[c].members[k]))
              /\ clans[c].members[k].rank # Master
              /\ clans[c].members[k].who # p
              /\ RowOf(clans[c].members, p).rank = Manager => clans[c].members[k].rank # Manager
<1>1. PICK k \in DOMAIN clans[c].members :
         clans[c].members[k].id = id /\ RowWith(clans[c].members, id) = clans[c].members[k]
  BY MemberRow
<1>2. PICK a \in DOMAIN clans[c].members :
         clans[c].members[a].who = p /\ RowOf(clans[c].members, p) = clans[c].members[a]
  BY MemberRow DEF KickMember, ActorWith
<1>3. OneEach(clans[c].members)
  BY MemberRow
<1>4. MayKick(clans[c].members[a], clans[c].members[k]) /\ Leaves(p, Detach(c, clans[c].members[k]))
  BY <1>1, <1>2 DEF KickMember
<1>5. clans[c].members[k].who # p
  BY <1>2, <1>3, <1>4 DEF OneEach, MayKick
<1> QED
  BY <1>2, <1>4, <1>5 DEF MayKick

LEMMA LeaveDoes ==
    ASSUME SerialInv, NEW p \in Player, NEW c \in Name, clans[c] # NoClan, Leave(p, c)
    PROVE  \E k \in DOMAIN clans[c].members :
              /\ Leaves(p, Detach(c, clans[c].members[k]))
              /\ clans[c].members[k].rank # Master \/ Len(clans[c].members) <= 1
              /\ clans[c].members[k].who = p
BY MemberRow DEF Leave, ActorWith

(***************************************************************************)
(* ChangePosition and ChangeMaster: the same people, other ranks.          *)
(***************************************************************************)
LEMMA PositionDoes ==
    ASSUME SerialInv, NEW p \in Player, NEW c \in Name, clans[c] # NoClan,
           NEW id \in IDs(clans[c].members), NEW rank, ChangePosition(p, c, id, rank)
    PROVE  \E f : \E k \in DOMAIN clans[c].members :
              /\ SavesOnly(p, c, f)
              /\ clans[c].members[k].who # p
              /\ Updated(clans[c], f).applicants = clans[c].applicants
              /\ People(Updated(clans[c], f).members) = People(clans[c].members)
              /\ \A i \in DOMAIN clans[c].members :
                    RowOf(Updated(clans[c], f).members, clans[c].members[i].who).rank =
                        IF i = k THEN rank ELSE clans[c].members[i].rank
<1>1. PICK clan \in Document : clan = clans[c] /\ GoodClan(clan)
  BY FoundSound DEF SerialInv, GoodSaved
<1>2. PICK k \in DOMAIN clan.members : clan.members[k].id = id
  BY <1>1, MemberRow
<1>3. PICK a \in DOMAIN clan.members :
         clan.members[a].who = p /\ RowOf(clan.members, p) = clan.members[a]
  BY <1>1, MemberRow DEF ChangePosition, ActorWith
<1>4. clan.members[a].rank = Master /\ rank \in Assignable /\ clan.members[a].id # id
  BY <1>1, <1>3 DEF ChangePosition, ActorWith
<1>5. clan.members[k].rank # Master
  <2>1. PICK l \in DOMAIN clan.members : Masters(clan.members) = {l}
    BY <1>1, <1>3 DEF GoodClan, GoodSlices, Led
  <2>2. a \in Masters(clan.members) /\ a # k
    BY <1>2, <1>3, <1>4 DEF Masters
  <2> QED
    BY <1>2, <2>1, <2>2 DEF Masters
<1>6. clan.members[k].who # p
  BY <1>1, <1>2, <1>3, <1>4 DEF GoodClan, GoodSlices, OneEach
<1>7. PICK u : u = SetRank(clan.members, clan.members[k].id, rank)
  OBVIOUS
<1>8. /\ GoodSlices(clan.master, u, clan.applicants)
      /\ People(u) = People(clan.members)
      /\ \A i \in DOMAIN clan.members :
            RowOf(u, clan.members[i].who).rank = IF i = k THEN rank ELSE clan.members[i].rank
  BY <1>1, <1>4, <1>5, <1>7, PositionGood
<1>9. PICK f : f = [members |-> u]
  OBVIOUS
<1>10. Updated(clan, f) = [master |-> clan.master, members |-> u,
                           applicants |-> clan.applicants, mark |-> clan.mark]
  BY <1>9, UpdatedFields
<1>11. Leaves(p, <<Save(c, f)>>) /\ "mark" \notin DOMAIN f
  BY <1>1, <1>2, <1>7, <1>9 DEF ChangePosition
<1>12. SavesOnly(p, c, f)
  BY <1>1, <1>8, <1>10, <1>11 DEF SavesOnly, GoodClan
<1> QED
  BY <1>1, <1>6, <1>8, <1>10, <1>12

LEMMA HandOverDoes ==
    ASSUME SerialInv, NEW p \in Player, NEW c \in Name, clans[c] # NoClan,
           NEW id \in IDs(clans[c].members), ChangeMaster(p, c, id)
    PROVE  \E f : \E k, m \in DOMAIN clans[c].members :
              /\ SavesOnly(p, c, f)
              /\ k # m /\ clans[c].members[m].who = p
              /\ Updated(clans[c], f).applicants = clans[c].applicants
              /\ People(Updated(clans[c], f).members) = People(clans[c].members)
              /\ \A i \in DOMAIN clans[c].members :
                    RowOf(Updated(clans[c], f).members, clans[c].members[i].who).rank =
                        IF i = k THEN Master
                        ELSE IF i = m THEN Manager ELSE clans[c].members[i].rank
<1>1. PICK clan \in Document : clan = clans[c] /\ GoodClan(clan)
  BY FoundSound DEF SerialInv, GoodSaved
<1>2. PICK k \in DOMAIN clan.members :
         clan.members[k].id = id /\ RowWith(clan.members, id) = clan.members[k]
  BY <1>1, MemberRow
<1>3. PICK m \in DOMAIN clan.members :
         clan.members[m].who = p /\ RowOf(clan.members, p) = clan.members[m]
  BY <1>1, MemberRow DEF ChangeMaster, ActorWith
<1>4. clan.members[m].rank = Master /\ clan.members[m].id # id
  BY <1>1, <1>3 DEF ChangeMaster, ActorWith
<1>5. k # m
  BY <1>2, <1>4
<1>6. PICK u : u = HandOver(clan.members, clan.members[k].id, clan.members[m].id)
  OBVIOUS
<1>7. /\ GoodSlices(clan.members[k].who, u, clan.applicants)
      /\ People(u) = People(clan.members)
      /\ \A i \in DOMAIN clan.members :
            RowOf(u, clan.members[i].who).rank =
               IF i = k THEN Master ELSE IF i = m THEN Manager ELSE clan.members[i].rank
  BY <1>1, <1>4, <1>5, <1>6, HandOverGood
<1>8. PICK f : f = [members |-> u, master |-> clan.members[k].who]
  OBVIOUS
<1>9. Updated(clan, f) = [master |-> clan.members[k].who, members |-> u,
                          applicants |-> clan.applicants, mark |-> clan.mark]
  BY <1>8, UpdatedFields
<1>10. Leaves(p, <<Save(c, f)>>) /\ "mark" \notin DOMAIN f
  BY <1>1, <1>2, <1>3, <1>6, <1>8 DEF ChangeMaster
<1>11. SavesOnly(p, c, f)
  BY <1>1, <1>7, <1>9, <1>10 DEF SavesOnly, GoodClan
<1> QED
  BY <1>1, <1>3, <1>5, <1>7, <1>9, <1>11

\* Two sequences with no element in common, end to end.
LEMMA JoinedApart ==
    ASSUME NEW S, NEW s \in Seq(S), NEW t \in Seq(S)
    PROVE  /\ s \o t \in Seq(S)
           /\ Range(s \o t) = Range(s) \cup Range(t)
           /\ Distinct(s) /\ Distinct(t) /\ Range(s) \cap Range(t) = {} => Distinct(s \o t)
<1>1. PICK m \in Nat : m = Len(s) /\ DOMAIN s = 1 .. m
  BY LenProperties
<1>2. PICK n \in Nat : n = Len(t) /\ DOMAIN t = 1 .. n
  BY LenProperties
<1>3. PICK v \in Seq(S) : v = s \o t
  BY ConcatProperties
<1>4. /\ DOMAIN v = 1 .. m + n
      /\ \A i \in 1 .. m + n : v[i] = IF i <= m THEN s[i] ELSE t[i - m]
  BY <1>1, <1>2, <1>3, ConcatProperties, LenProperties
<1> HIDE DEF Range
<1>5. ASSUME NEW i \in DOMAIN v
      PROVE  \/ i \in DOMAIN s /\ v[i] = s[i]
             \/ i - m \in DOMAIN t /\ v[i] = t[i - m] /\ i \in Nat
  <2>1. CASE i <= m
    BY <1>1, <1>4, <2>1
  <2>2. CASE i > m
    <3>1. i - m \in DOMAIN t /\ ~ (i <= m) /\ i \in Nat
      BY <1>2, <1>4, <2>2
    <3> QED
      BY <1>4, <3>1
  <2> QED
    BY <1>4, <2>1, <2>2
<1>6. \A i \in DOMAIN s : i \in DOMAIN v /\ v[i] = s[i]
  BY <1>1, <1>4
<1>7. ASSUME NEW j \in DOMAIN t
      PROVE  \E i \in DOMAIN v : v[i] = t[j]
  <2>1. j + m \in DOMAIN v /\ ~ (j + m <= m) /\ (j + m) - m = j
    BY <1>2, <1>4
  <2> QED
    BY <1>4, <2>1
<1>8. Range(v) = Range(s) \cup Range(t)
  <2>1. ASSUME NEW x \in Range(v)
        PROVE  x \in Range(s) \cup Range(t)
    <3>1. PICK i \in DOMAIN v : x = v[i]
      BY <2>1 DEF Range
    <3>2. CASE i \in DOMAIN s /\ v[i] = s[i]
      BY <3>1, <3>2 DEF Range
    <3>3. CASE i - m \in DOMAIN t /\ v[i] = t[i - m]
      BY <3>1, <3>3 DEF Range
    <3> QED
      BY <1>5, <3>2, <3>3
  <2>2. ASSUME NEW x \in Range(s)
        PROVE  x \in Range(v)
    BY <1>6 DEF Range
  <2>3. ASSUME NEW x \in Range(t)
        PROVE  x \in Range(v)
    <3>1. PICK j \in DOMAIN t : x = t[j]
      BY <2>3 DEF Range
    <3> QED
      BY <1>7, <3>1 DEF Range
  <2> QED
    BY <2>1, <2>2, <2>3
<1>9. ASSUME Distinct(s), Distinct(t), Range(s) \cap Range(t) = {},
             NEW i \in DOMAIN v, NEW j \in DOMAIN v, v[i] = v[j]
      PROVE  i = j
  <2>1. CASE i \in DOMAIN s /\ v[i] = s[i]
    <3>1. v[i] \in Range(s)
      BY <2>1 DEF Range
    <3>2. j \in DOMAIN s /\ v[j] = s[j]
      BY <1>5, <1>9, <3>1 DEF Range
    <3> QED
      BY <1>9, <2>1, <3>2 DEF Distinct
  <2>2. CASE i - m \in DOMAIN t /\ v[i] = t[i - m] /\ i \in Nat
    <3>1. v[i] \in Range(t)
      BY <2>2 DEF Range
    <3>2. j - m \in DOMAIN t /\ v[j] = t[j - m] /\ j \in Nat
      BY <1>5, <1>9, <3>1 DEF Range
    <3>3. i - m = j - m
      BY <1>9, <2>2, <3>2 DEF Distinct
    <3> QED
      BY <2>2, <3>2, <3>3
  <2> QED
    BY <1>5, <2>1, <2>2
<1> QED
  BY <1>3, <1>8, <1>9 DEF Distinct

(***************************************************************************)
(* Disband: the document goes, then every member's name and session.       *)
(***************************************************************************)
LEMMA DisbandCalls ==
    ASSUME NEW c, NEW u \in Members, OneEach(u),
           NEW calls, calls = <<Delete(c)>>
                                 \o [i \in DOMAIN u |-> SetClanName(u[i].who, NoName)]
                                 \o [i \in DOMAIN u |-> SetSession(u[i].who, NoName)]
    PROVE  /\ Range(calls) = {Delete(c)}
                 \cup {SetClanName(q, NoName) : q \in People(u)}
                 \cup {SetSession(q, NoName) : q \in People(u)}
           /\ Distinct(calls)
<1>1. PICK n \in Nat : n = Len(u) /\ DOMAIN u = 1 .. n
  BY LenProperties DEF Members
<1>2. PICK A : A = [i \in 1 .. n |-> SetClanName(u[i].who, NoName)]
  OBVIOUS
<1>3. PICK B : B = [i \in 1 .. n |-> SetSession(u[i].who, NoName)]
  OBVIOUS
<1>4. PICK D : D = <<Delete(c)>>
  OBVIOUS
<1>5. PICK S : S = Range(D) \cup Range(A) \cup Range(B)
  OBVIOUS
<1>6. A \in Seq(S) /\ B \in Seq(S) /\ D \in Seq(S)
  BY <1>2, <1>3, <1>4, <1>5 DEF Range
<1>7. calls = (D \o A) \o B
  BY <1>1, <1>2, <1>3, <1>4
<1>8. /\ Range(D) = {Delete(c)}
      /\ Range(A) = {SetClanName(q, NoName) : q \in People(u)}
      /\ Range(B) = {SetSession(q, NoName) : q \in People(u)}
  BY <1>1, <1>2, <1>3, <1>4 DEF Range, People
<1>9. /\ Delete(c).do = "delete"
      /\ \A q : SetClanName(q, NoName).do = "setClanName" /\ SetClanName(q, NoName).who = q
      /\ \A q : SetSession(q, NoName).do = "setSession" /\ SetSession(q, NoName).who = q
  BY DEF Delete, SetClanName, SetSession
<1>10. Distinct(D) /\ Distinct(A) /\ Distinct(B)
  <2>1. Distinct(D)
    BY <1>4 DEF Distinct
  <2>2. \A k, l \in 1 .. n : u[k].who = u[l].who => k = l
    BY <1>1 DEF OneEach
  <2>3. \A k \in 1 .. n : A[k].who = u[k].who /\ B[k].who = u[k].who
    BY <1>2, <1>3, <1>9
  <2>4. DOMAIN A = 1 .. n /\ DOMAIN B = 1 .. n
    BY <1>2, <1>3
  <2>5. Distinct(A)
    BY ONLY <2>2, <2>3, <2>4 DEF Distinct
  <2>6. Distinct(B)
    BY ONLY <2>2, <2>3, <2>4 DEF Distinct
  <2> QED
    BY <2>1, <2>5, <2>6
<1>11. Range(D) \cap Range(A) = {} /\ (Range(D) \cup Range(A)) \cap Range(B) = {}
  <2>1. \A x \in Range(D) : x.do = "delete"
    BY <1>8, <1>9
  <2>2. \A x \in Range(A) : x.do = "setClanName"
    BY <1>8, <1>9
  <2>3. \A x \in Range(B) : x.do = "setSession"
    BY <1>8, <1>9
  <2> QED
    BY <2>1, <2>2, <2>3
<1>12. D \o A \in Seq(S) /\ Range(D \o A) = Range(D) \cup Range(A) /\ Distinct(D \o A)
  BY <1>6, <1>10, <1>11, JoinedApart
<1>13. Range(calls) = (Range(D) \cup Range(A)) \cup Range(B) /\ Distinct(calls)
  <2>1. PICK E \in Seq(S) : E = D \o A
    BY <1>12
  <2>2. Range(E) \cap Range(B) = {} /\ Distinct(E)
    BY <1>11, <1>12, <2>1
  <2>3. calls = E \o B
    BY <1>7, <2>1
  <2>4. Range(E \o B) = Range(E) \cup Range(B) /\ Distinct(E \o B)
    BY ONLY <1>6, <1>10, E \in Seq(S), <2>2, JoinedApart
  <2> QED
    BY ONLY <1>12, <2>1, <2>3, <2>4
<1> QED
  BY <1>8, <1>13

(***************************************************************************)
(* The other requests that only leave calls behind.                        *)
(***************************************************************************)
LEMMA DisbandFits ==
    ASSUME SerialInv, NEW p \in Player, NEW c \in Name, clans[c] # NoClan, Disband(p, c)
    PROVE  \E calls :
              /\ Leaves(p, calls) /\ Fits(calls)
              /\ Range(calls) = {Delete(c)}
                    \cup {SetClanName(q, NoName) : q \in People(clans[c].members)}
                    \cup {SetSession(q, NoName) : q \in People(clans[c].members)}
<1>1. PICK u \in Members : u = clans[c].members
  BY FoundSound DEF SerialInv
<1>2. OneEach(u)
  BY <1>1 DEF SerialInv, GoodSaved, GoodClan, GoodSlices
<1>3. PICK calls : calls = <<Delete(c)>>
                              \o [i \in DOMAIN u |-> SetClanName(u[i].who, NoName)]
                              \o [i \in DOMAIN u |-> SetSession(u[i].who, NoName)]
  OBVIOUS
<1>4. /\ Range(calls) = {Delete(c)}
            \cup {SetClanName(q, NoName) : q \in People(u)}
            \cup {SetSession(q, NoName) : q \in People(u)}
      /\ Distinct(calls)
  BY <1>2, <1>3, DisbandCalls
<1>5. \A i \in DOMAIN calls :
         \/ calls[i] = Delete(c)
         \/ \E q : calls[i] = SetClanName(q, NoName)
         \/ \E q : calls[i] = SetSession(q, NoName)
  <2> SUFFICES ASSUME NEW i \in DOMAIN calls
               PROVE  \/ calls[i] = Delete(c)
                      \/ \E q : calls[i] = SetClanName(q, NoName)
                      \/ \E q : calls[i] = SetSession(q, NoName)
    OBVIOUS
  <2>1. calls[i] \in Range(calls)
    BY DEF Range
  <2> QED
    BY <1>4, <2>1
<1>6. /\ Delete(c).do = "delete"
      /\ \A q : SetClanName(q, NoName).do = "setClanName" /\ SetSession(q, NoName).do = "setSession"
  BY DEF Delete, SetClanName, SetSession
<1>7. \A i \in DOMAIN calls : /\ calls[i].do \in {"delete", "setClanName", "setSession"}
                              /\ calls[i].do = "delete" => calls[i] = Delete(c)
  BY <1>5, <1>6
<1>8. Fits(calls)
  BY <1>4, <1>7 DEF Fits, Writing, Repaints, Distinct
<1>9. Leaves(p, calls)
  BY <1>1, <1>3 DEF Disband
<1> QED
  BY <1>1, <1>4, <1>8, <1>9

LEMMA MarkFits ==
    ASSUME SerialInv, NEW p \in Player, NEW c \in Name, clans[c] # NoClan, NEW mark
    PROVE  Fits(<<FindByMark(c, mark), Save(c, [mark |-> mark]), FindPlayer(p)>>)
<1>1. PICK clan \in Document : clan = clans[c] /\ GoodClan(clan)
  BY FoundSound DEF SerialInv, GoodSaved
<1>2. PICK f : f = [mark |-> mark]
  OBVIOUS
<1>3. Updated(clan, f) = [master |-> clan.master, members |-> clan.members,
                          applicants |-> clan.applicants, mark |-> mark]
  BY <1>2, UpdatedFields
<1>4. GoodClan(Updated(clan, f))
  BY <1>1, <1>3 DEF GoodClan
<1>5. PICK s : s = <<FindByMark(c, mark), Save(c, f), FindPlayer(p)>>
  OBVIOUS
<1>6. /\ DOMAIN s = 1 .. 3 /\ Len(s) = 3 /\ s[1] = FindByMark(c, mark)
      /\ s[2] = Save(c, f) /\ s[3] = FindPlayer(p)
  BY <1>5
<1>7. /\ s[1].do = "findByMark" /\ s[3].do = "findPlayer"
      /\ s[2].do = "save" /\ s[2].clan = c /\ s[2].fields = f
  BY <1>6 DEF FindByMark, Save, FindPlayer
<1>8. \A i \in DOMAIN s : i = 1 \/ i = 2 \/ i = 3
  BY <1>6
<1>9. Distinct(s)
  BY <1>7, <1>8 DEF Distinct
<1>10. \A i \in DOMAIN s : Writing(s[i]) => i = 2
  BY <1>7, <1>8 DEF Writing
<1>11. \A i \in DOMAIN s : Repaints(s[i]) => i = 2
  BY <1>7, <1>8 DEF Repaints
<1>12. \A i \in DOMAIN s : s[i].do = "save" => i = 2
  BY <1>7, <1>8
<1>13. \A i \in DOMAIN s : s[i].do = "findPlayer" => i = 3
  BY <1>7, <1>8
<1>14. f.mark = mark
  BY <1>2
<1>15. Fits(s)
  <2>1. s[2 - 1] = FindByMark(s[2].clan, s[2].fields.mark)
    BY <1>6, <1>7, <1>14
  <2> QED
    BY <1>1, <1>4, <1>6, <1>7, <1>9, <1>10, <1>11, <1>12, <1>13, <2>1 DEF Fits
<1> QED
  BY <1>2, <1>5, <1>15

LEMMA LoadFits == ASSUME NEW p PROVE Fits(<<FindPlayer(p)>>)
BY DEF Fits, Distinct, Writing, Repaints, FindPlayer

-----------------------------------------------------------------------------
(***************************************************************************)
(* SerialInv: a handler that makes its next call.                          *)
(***************************************************************************)
LEMMA CallDone ==
    ASSUME SerialInv, ClansInv', NEW p \in Player, todo[p] # <<>>,
           todo' = [todo EXCEPT ![p] = Tail(@)],
           NEW w, w = Head(todo[p]),
           w.do = "findByMark" => clans' = clans /\ ~ Worn(w.clan, w.mark)
    PROVE  /\ Waiting = Range(todo[p]) /\ w \in Waiting /\ Waiting' = Waiting \ {w}
           /\ Alone' /\ NoneAlike' /\ OneWrite' /\ LooksFirst' /\ LoadsLast'
<1>1. PICK s \in Seq(SoundCall) : s = todo[p]
  BY DEF SerialInv, ClansInv
<1>2. Waiting = Range(s) /\ \A q \in Player : q # p => todo[q] = <<>>
  BY <1>1, OnlyCalls DEF SerialInv
<1>3. PICK t : t = Tail(s)
  OBVIOUS
<1>4. todo' = [todo EXCEPT ![p] = t]
  BY <1>1, <1>3
<1>5. /\ Alone' /\ Waiting' = Range(t)
      /\ todo'[p] = t /\ \A q \in Player : q # p => todo'[q] = <<>>
  BY <1>2, <1>4, CallsGiven DEF SerialInv
<1>6. s # <<>> /\ Distinct(s) /\ Head(s) = w
  BY <1>1 DEF SerialInv, NoneAlike
<1>7. Range(t) = Range(s) \ {w} /\ w \in Range(s) /\ Distinct(t)
  BY <1>3, <1>6, RestOfCalls
<1>8. NoneAlike'
  <2>1. Distinct(<<>>)
    BY DEF Distinct
  <2> QED
    BY <1>5, <1>7, <2>1 DEF NoneAlike
<1>9. OneWrite'
  BY <1>2, <1>5, <1>7 DEF SerialInv, OneWrite
<1>10. /\ Len(t) = Len(s) - 1 /\ Len(s) \in Nat /\ DOMAIN s = 1 .. Len(s)
       /\ DOMAIN t = 1 .. Len(s) - 1 /\ s[1] = w
       /\ \A i \in DOMAIN t : t[i] = s[i + 1]
  BY <1>3, <1>6, EmptySeq, HeadTailProperties, LenProperties
<1>11. \A i \in DOMAIN t : i + 1 \in DOMAIN s /\ i \in DOMAIN s /\ i + 1 # 1 /\ (i + 1) - 1 = i
  BY <1>10
<1>12. ASSUME NEW i \in DOMAIN t, Repaints(t[i])
       PROVE  IF i = 1 THEN \A d \in Name \ {t[i].clan} :
                               clans'[d] = NoClan \/ clans'[d].mark # t[i].fields.mark
                       ELSE t[i - 1] = FindByMark(t[i].clan, t[i].fields.mark)
  <2>1. s[i] = FindByMark(t[i].clan, t[i].fields.mark)
    <3>1. Repaints(s[i + 1]) /\ i + 1 \in DOMAIN s /\ i + 1 # 1 /\ (i + 1) - 1 = i
      BY <1>10, <1>11, <1>12
    <3>2. s[(i + 1) - 1] = FindByMark(s[i + 1].clan, s[i + 1].fields.mark)
      BY <1>1, <3>1 DEF SerialInv, LooksFirst
    <3> QED
      BY <1>10, <3>1, <3>2
  <2>2. CASE i = 1
    <3>1. /\ w.do = "findByMark" /\ w.clan = t[i].clan /\ w.mark = t[i].fields.mark
      BY <1>10, <2>1, <2>2 DEF FindByMark
    <3>2. clans' = clans /\ ~ Worn(t[i].clan, t[i].fields.mark)
      BY <3>1
    <3> QED
      BY <2>2, <3>2 DEF Worn
  <2>3. CASE i # 1
    <3>1. i - 1 \in DOMAIN t /\ (i - 1) + 1 = i
      BY <1>10, <2>3
    <3>2. t[i - 1] = s[i]
      BY <1>10, <3>1
    <3> QED
      BY <2>1, <2>3, <3>2
  <2> QED
    BY <2>2, <2>3
<1>13. LooksFirst'
  <2>1. ASSUME NEW q \in Player, q # p
        PROVE  DOMAIN todo'[q] = {}
    BY <1>5, <2>1
  <2> QED
    BY <1>5, <1>12, <2>1 DEF LooksFirst, Worn
<1>14. LoadsLast'
  <2> SUFFICES ASSUME NEW q \in Player, NEW i \in DOMAIN todo'[q], todo'[q][i].do = "findPlayer"
               PROVE  i = Len(todo'[q])
    BY DEF LoadsLast
  <2>1. q = p
    BY <1>5
  <2>2. i \in DOMAIN t /\ t[i].do = "findPlayer"
    BY <1>5, <2>1
  <2>3. i + 1 \in DOMAIN s /\ s[i + 1].do = "findPlayer"
    BY <1>10, <1>11, <2>2
  <2>4. i + 1 = Len(s)
    BY <1>1, <2>3 DEF SerialInv, LoadsLast
  <2> QED
    BY <1>5, <1>10, <2>1, <2>2, <2>4
<1> QED
  BY <1>1, <1>2, <1>5, <1>7, <1>8, <1>9, <1>13, <1>14

LEMMA FewerWait ==
    ASSUME SerialInv, clans' = clans, \A w \in Waiting' : w.do = "save" => w \in Waiting
    PROVE  GoodSaved' /\ GoodWaiting'
BY DEF SerialInv, GoodSaved, GoodWaiting

LEMMA NothingLeft ==
    ASSUME SerialInv, ClansInv', clans' = clans, \A q \in Player : todo'[q] = <<>>
    PROVE  SerialInv' /\ Waiting' = {}
<1>1. Waiting' = {}
  BY DEF Waiting, Range
<1>2. GoodSaved' /\ GoodWaiting'
  BY <1>1, FewerWait
<1>3. Alone' /\ OneWrite'
  BY <1>1 DEF Alone, OneWrite
<1>4. DOMAIN <<>> = {}
  OBVIOUS
<1>5. NoneAlike' /\ LooksFirst' /\ LoadsLast'
  BY <1>4 DEF NoneAlike, Distinct, LooksFirst, LoadsLast
<1> QED
  BY <1>1, <1>2, <1>3, <1>5 DEF SerialInv

\* The clan that the call at the head writes is there to be written.
LEMMA SavingDoes ==
    ASSUME SerialInv, ClansInv', NEW p \in Player, Saving(p)
    PROVE  \E w \in Waiting : \E c \in Name :
              /\ w = Head(todo[p]) /\ w.do = "save" /\ w.clan = c /\ clans[c] # NoClan
              /\ clans'[c] = Updated(clans[c], w.fields) /\ clans'[c] # NoClan
              /\ GoodClan(Updated(clans[c], w.fields))
              /\ \A d \in Name \ {c} : clans'[d] = clans[d]
              /\ Waiting' = Waiting \ {w} /\ SerialInv'
              /\ UNCHANGED <<account, session>>
<1>1. PICK w \in SoundCall : w = Head(todo[p]) /\ w.do = "save"
  BY NextCallTyped DEF SerialInv, Saving, NextCall
<1>2. PICK c \in Name : c = w.clan
  <2>1. w \in [do : {"save"}, clan : Name, fields : Fields]
    BY <1>1 DEF SoundCall, Call
  <2> QED
    BY <2>1
<1>3. /\ w \in Waiting /\ Waiting' = Waiting \ {w}
      /\ Alone' /\ NoneAlike' /\ OneWrite' /\ LooksFirst' /\ LoadsLast'
  <2>1. /\ todo[p] # <<>> /\ todo' = [todo EXCEPT ![p] = Tail(@)]
        /\ w.do = "findByMark" => clans' = clans /\ ~ Worn(w.clan, w.mark)
    BY <1>1 DEF Saving, NextCall
  <2> QED
    BY <1>1, <2>1, CallDone
<1>4. clans[c] # NoClan /\ GoodClan(Updated(clans[c], w.fields))
  BY <1>1, <1>2, <1>3 DEF SerialInv, GoodWaiting
<1>5. PICK d \in Document : d = Updated(clans[c], w.fields)
  BY <1>1, <1>4, FoundSound, UpdatedSound DEF SerialInv, SoundDocument
<1>6. clans' = [clans EXCEPT ![c] = d]
  BY <1>1, <1>2, <1>4, <1>5 DEF Saving
<1>7. clans'[c] = d /\ d # NoClan /\ \A e \in Name \ {c} : clans'[e] = clans[e]
  BY <1>6, ClansAssumption DEF SerialInv, ClansInv
<1>8. GoodSaved'
  <2>1. GoodClan(d)
    BY <1>4, <1>5
  <2>2. ASSUME NEW e \in Name, clans'[e] # NoClan
        PROVE  GoodClan(clans'[e])
    BY <1>7, <2>1, <2>2 DEF SerialInv, GoodSaved
  <2> QED
    BY <2>2 DEF GoodSaved, GoodClan
<1>9. GoodWaiting'
  BY <1>1, <1>3 DEF SerialInv, OneWrite, GoodWaiting
<1>10. SerialInv'
  BY <1>3, <1>8, <1>9 DEF SerialInv
<1>11. UNCHANGED <<account, session>>
  BY DEF Saving
<1> QED
  BY <1>1, <1>2, <1>3, <1>4, <1>5, <1>7, <1>10, <1>11

LEMMA DeletingDoes ==
    ASSUME SerialInv, ClansInv', NEW p \in Player, Deleting(p)
    PROVE  \E w \in Waiting : \E c \in Name :
              /\ w = Head(todo[p]) /\ w.do = "delete" /\ w.clan = c
              /\ clans'[c] = NoClan /\ \A d \in Name \ {c} : clans'[d] = clans[d]
              /\ Waiting' = Waiting \ {w} /\ SerialInv'
              /\ UNCHANGED <<account, session>>
<1>1. PICK w \in SoundCall : w = Head(todo[p]) /\ w.do = "delete"
  BY NextCallTyped DEF SerialInv, Deleting, NextCall
<1>2. PICK c \in Name : c = w.clan
  <2>1. w \in [do : {"delete"}, clan : Name]
    BY <1>1 DEF SoundCall, Call
  <2> QED
    BY <2>1
<1>3. /\ w \in Waiting /\ Waiting' = Waiting \ {w}
      /\ Alone' /\ NoneAlike' /\ OneWrite' /\ LooksFirst' /\ LoadsLast'
  <2>1. /\ todo[p] # <<>> /\ todo' = [todo EXCEPT ![p] = Tail(@)]
        /\ w.do = "findByMark" => clans' = clans /\ ~ Worn(w.clan, w.mark)
    BY <1>1 DEF Deleting, NextCall
  <2> QED
    BY <1>1, <2>1, CallDone
<1>4. clans' = [clans EXCEPT ![c] = NoClan]
  BY <1>1, <1>2 DEF Deleting
<1>5. clans'[c] = NoClan /\ \A e \in Name \ {c} : clans'[e] = clans[e]
  BY <1>4 DEF SerialInv, ClansInv
<1>6. GoodSaved'
  <2>1. ASSUME NEW e \in Name, clans'[e] # NoClan
        PROVE  GoodClan(clans'[e])
    BY <1>5, <2>1 DEF SerialInv, GoodSaved
  <2> QED
    BY <2>1 DEF GoodSaved, GoodClan
<1>7. GoodWaiting'
  BY <1>1, <1>3 DEF SerialInv, OneWrite, GoodWaiting
<1>8. SerialInv'
  BY <1>3, <1>6, <1>7 DEF SerialInv
<1>9. UNCHANGED <<account, session>>
  BY DEF Deleting
<1> QED
  BY <1>1, <1>2, <1>3, <1>5, <1>8, <1>9

\* FindingByMark: the look finds nobody, or the handler gives up.
LEMMA FindingByMarkDoes ==
    ASSUME SerialInv, ClansInv', NEW p \in Player, FindingByMark(p)
    PROVE  /\ SerialInv' /\ UNCHANGED <<clans, account, session>>
           /\ \E w \in Waiting : w.do = "findByMark" /\ (Waiting' = Waiting \ {w} \/ Waiting' = {})
<1>1. PICK w \in SoundCall : w = Head(todo[p]) /\ w.do = "findByMark"
  BY NextCallTyped DEF SerialInv, FindingByMark, NextCall
<1>2. todo[p] # <<>> /\ UNCHANGED <<clans, account, session>>
  BY DEF FindingByMark, NextCall
<1>3. todo[p] \in Seq(SoundCall)
  BY DEF SerialInv, ClansInv
<1>4. w \in Waiting
  BY <1>1, <1>2, <1>3, OnlyCalls, RestOfCalls DEF SerialInv, NoneAlike
<1>5. CASE Worn(w.clan, w.mark)
  <2>1. todo' = [todo EXCEPT ![p] = <<>>]
    BY <1>1, <1>5 DEF FindingByMark
  <2>2. \A q \in Player : todo'[q] = <<>>
    BY <1>2, <2>1, OnlyCalls DEF SerialInv, ClansInv
  <2> QED
    BY <1>1, <1>2, <1>4, <2>2, NothingLeft
<1>6. CASE ~ Worn(w.clan, w.mark)
  <2>1. todo' = [todo EXCEPT ![p] = Tail(@)]
    BY <1>1, <1>6 DEF FindingByMark
  <2>2. /\ Waiting' = Waiting \ {w}
        /\ Alone' /\ NoneAlike' /\ OneWrite' /\ LooksFirst' /\ LoadsLast'
    BY <1>1, <1>2, <1>6, <2>1, CallDone
  <2>3. GoodSaved' /\ GoodWaiting'
    BY <1>2, <2>2, FewerWait
  <2> QED
    BY <1>1, <1>2, <1>4, <2>2, <2>3 DEF SerialInv
<1> QED
  BY <1>5, <1>6

LEMMA FindingPlayerDoes ==
    ASSUME SerialInv, ClansInv', NEW p \in Player, FindingPlayer(p)
    PROVE  /\ SerialInv' /\ UNCHANGED <<clans, account, session>>
           /\ \E w \in Waiting : /\ w.do = "findPlayer" /\ Waiting = {w}
                                 /\ Waiting' = {BindPlayer(w.who, account[w.who])}
<1>1. PICK w \in SoundCall : w = Head(todo[p]) /\ w.do = "findPlayer"
  BY NextCallTyped DEF SerialInv, FindingPlayer, NextCall
<1>2. PICK s \in Seq(SoundCall) : s = todo[p] /\ s # <<>>
  BY DEF SerialInv, ClansInv, FindingPlayer, NextCall
<1>3. /\ s[1] = w /\ 1 \in DOMAIN s /\ Len(s) \in Nat
      /\ DOMAIN s = 1 .. Len(s) /\ Tail(s) \in Seq(SoundCall) /\ Len(Tail(s)) = Len(s) - 1
  BY <1>1, <1>2, EmptySeq, HeadTailProperties, LenProperties
<1>4. Len(s) = 1
  BY <1>1, <1>2, <1>3 DEF SerialInv, LoadsLast
<1>5. Tail(s) = <<>>
  <2>1. PICK t \in Seq(SoundCall) : t = Tail(s)
    BY <1>3
  <2>2. Len(t) = 0
    BY <1>3, <1>4, <2>1
  <2>3. t = <<>>
    BY <2>2, EmptySeq
  <2> QED
    BY <2>1, <2>3
<1>6. PICK v : v = BindPlayer(w.who, account[w.who]) /\ v.do = "bindPlayer"
  <2>1. PICK v : v = BindPlayer(w.who, account[w.who])
    OBVIOUS
  <2> QED
    BY <2>1 DEF BindPlayer
<1>7. todo' = [todo EXCEPT ![p] = <<v>>]
  <2>1. <<v>> \o <<>> = <<v>>
    OBVIOUS
  <2> QED
    BY <1>1, <1>2, <1>5, <1>6, <2>1 DEF FindingPlayer
<1>8. Waiting = Range(s) /\ \A q \in Player : q # p => todo[q] = <<>>
  BY <1>2, OnlyCalls DEF SerialInv
<1>9. Range(s) = {w} /\ Range(<<v>>) = {v}
  BY <1>3, <1>4 DEF Range
<1>10. /\ Alone' /\ Waiting' = {v}
       /\ todo'[p] = <<v>> /\ \A q \in Player : q # p => todo'[q] = <<>>
  BY <1>7, <1>8, <1>9, CallsGiven DEF SerialInv
<1>11. UNCHANGED <<clans, account, session>>
  BY DEF FindingPlayer
<1>12. GoodSaved' /\ GoodWaiting'
  BY <1>6, <1>10, <1>11, FewerWait
<1>13. OneWrite'
  BY <1>6, <1>10 DEF OneWrite
<1>14. DOMAIN <<>> = {} /\ DOMAIN <<v>> = {1} /\ <<v>>[1] = v
  OBVIOUS
<1>15. Distinct(<<>>) /\ Distinct(<<v>>)
  BY <1>14 DEF Distinct
<1>16. NoneAlike'
  BY <1>10, <1>15 DEF NoneAlike
<1>17. \A q \in Player : \A i \in DOMAIN todo'[q] : todo'[q][i].do = "bindPlayer"
  BY <1>6, <1>10, <1>14
<1>18. LooksFirst' /\ LoadsLast'
  BY <1>17 DEF LooksFirst, LoadsLast, Repaints
<1>19. SerialInv'
  BY <1>10, <1>12, <1>13, <1>16, <1>18 DEF SerialInv
<1>20. w \in Waiting /\ Waiting = {w} /\ Waiting' = {BindPlayer(w.who, account[w.who])}
  BY <1>6, <1>8, <1>9, <1>10
<1> QED
  BY <1>1, <1>11, <1>19, <1>20

\* The calls that set a name, one after the other.
LEMMA NamingDoes ==
    ASSUME SerialInv, ClansInv', NEW p \in Player,
           SettingClanName(p) \/ SettingSession(p) \/ Binding(p)
    PROVE  \E w \in Waiting :
              /\ w = Head(todo[p]) /\ w.who \in Player
              /\ clans' = clans /\ Waiting' = Waiting \ {w} /\ SerialInv'
              /\ \/ /\ w.do = "setClanName" /\ account' = [account EXCEPT ![w.who] = w.clan]
                    /\ session' = session
                 \/ /\ w.do = "setSession" /\ account' = account
                    /\ session' = IF session[w.who] = Offline THEN session
                                  ELSE [session EXCEPT ![w.who] = w.clan]
                 \/ /\ w.do = "bindPlayer" /\ account' = account
                    /\ session' = [session EXCEPT ![w.who] = w.clan]
<1>1. todo[p] # <<>> /\ Head(todo[p]).do \in {"setClanName", "setSession", "bindPlayer"}
  BY DEF SettingClanName, SettingSession, Binding, NextCall
<1>2. PICK w \in SoundCall : w = Head(todo[p])
  BY <1>1, NextCallTyped DEF SerialInv
<1>3. w.who \in Player
  BY <1>1, <1>2, NextCallNames
<1>4. clans' = clans /\ todo' = [todo EXCEPT ![p] = Tail(@)]
  BY DEF SettingClanName, SettingSession, Binding
<1>5. /\ w \in Waiting /\ Waiting' = Waiting \ {w}
      /\ Alone' /\ NoneAlike' /\ OneWrite' /\ LooksFirst' /\ LoadsLast'
  <2>1. w.do # "findByMark"
    BY <1>1, <1>2
  <2> QED
    BY <1>1, <1>2, <1>4, <2>1, CallDone
<1>6. GoodSaved' /\ GoodWaiting'
  BY <1>4, <1>5, FewerWait
<1>7. SerialInv'
  BY <1>5, <1>6 DEF SerialInv
<1>8. \/ /\ w.do = "setClanName" /\ account' = [account EXCEPT ![w.who] = w.clan]
         /\ session' = session
      \/ /\ w.do = "setSession" /\ account' = account
         /\ session' = IF session[w.who] = Offline THEN session
                       ELSE [session EXCEPT ![w.who] = w.clan]
      \/ /\ w.do = "bindPlayer" /\ account' = account
         /\ session' = [session EXCEPT ![w.who] = w.clan]
  BY <1>2 DEF SettingClanName, SettingSession, Binding, NextCall
<1> QED
  BY <1>2, <1>3, <1>4, <1>5, <1>7, <1>8

(***************************************************************************)
(* Create: a clan with one member, who leads it.                           *)
(***************************************************************************)
LEMMA NewClanGood ==
    ASSUME NEW p \in Player, NEW mark \in Mark
    PROVE  /\ GoodClan(NewClan(p, mark)) /\ NewClan(p, mark) # NoClan
           /\ People(NewClan(p, mark).members) = {p}
           /\ People(NewClan(p, mark).applicants) = {}
           /\ RowOf(NewClan(p, mark).members, p).rank = Master
<1>1. PICK e : e = [id |-> 1, who |-> p, rank |-> Master]
  OBVIOUS
<1>2. e.who = p /\ e.rank = Master
  BY <1>1
<1>3. PICK u : u = <<e>>
  OBVIOUS
<1>4. DOMAIN u = {1} /\ u[1] = e /\ DOMAIN <<>> = {} /\ u \in Seq({e})
  BY <1>3
<1>5. /\ NewClan(p, mark).master = p /\ NewClan(p, mark).members = u
      /\ NewClan(p, mark).applicants = <<>>
  BY <1>1, <1>3 DEF NewClan
<1>6. Unique(u) /\ OneEach(u) /\ People(u) = {p}
  BY <1>2, <1>4 DEF Unique, OneEach, People
<1>7. Unique(<<>>) /\ OneEach(<<>>) /\ People(<<>>) = {} /\ IDs(<<>>) = {}
  BY <1>4 DEF Unique, OneEach, People, IDs
<1>8. Led(p, u)
  BY <1>2, <1>4 DEF Led, Masters
<1>9. GoodClan(NewClan(p, mark))
  BY <1>5, <1>6, <1>7, <1>8 DEF GoodClan, GoodSlices
<1>10. RowOf(u, p).rank = Master
  BY <1>2, <1>4, <1>6, RowFound
<1>11. NewClan(p, mark) # NoClan
  BY NewClanSound, ClansAssumption DEF SoundDocument
<1> QED
  BY <1>5, <1>6, <1>7, <1>9, <1>10, <1>11

LEMMA CreateDoes ==
    ASSUME SerialInv, ClansInv', MaxOverlap = 1, NEW p \in Player, NEW c \in Name,
           NEW mark \in Mark, Create(p, c, mark)
    PROVE  /\ SerialInv' /\ Waiting = {} /\ Waiting' = {SetClanName(p, c), SetSession(p, c)}
           /\ clans[c] = NoClan /\ clans'[c] = NewClan(p, mark)
           /\ \A d \in Name \ {c} : clans'[d] = clans[d]
           /\ UNCHANGED <<account, session>>
<1>1. PICK s : s = <<SetClanName(p, c), SetSession(p, c)>>
  OBVIOUS
<1>2. DOMAIN s = {1, 2} /\ s[1] = SetClanName(p, c) /\ s[2] = SetSession(p, c)
  BY <1>1
<1>3. Range(s) = {SetClanName(p, c), SetSession(p, c)}
  BY <1>2 DEF Range
<1>4. SetClanName(p, c).do = "setClanName" /\ SetSession(p, c).do = "setSession"
  BY DEF SetClanName, SetSession
<1>5. /\ Waiting = {} /\ Alone' /\ Waiting' = Range(s)
      /\ todo'[p] = s /\ \A q \in Player : q # p => todo'[q] = <<>>
  <2>1. Begin(p, s)
    BY <1>1 DEF Create
  <2> QED
    BY <2>1, NobodyElse DEF SerialInv
<1>6. /\ clans[c] = NoClan /\ clans'[c] = NewClan(p, mark)
      /\ \A d \in Name \ {c} : clans'[d] = clans[d]
      /\ UNCHANGED <<account, session>>
  BY DEF SerialInv, ClansInv, Create
<1>7. GoodSaved'
  <2>1. ASSUME NEW e \in Name, clans'[e] # NoClan
        PROVE  GoodClan(clans'[e])
    BY <1>6, <2>1, NewClanGood DEF SerialInv, GoodSaved
  <2> QED
    BY <2>1 DEF GoodSaved, GoodClan
<1>8. GoodWaiting' /\ OneWrite'
  BY <1>3, <1>4, <1>5 DEF GoodWaiting, OneWrite
<1>9. DOMAIN <<>> = {}
  OBVIOUS
<1>10. Distinct(s) /\ Distinct(<<>>)
  BY <1>2, <1>4, <1>9 DEF Distinct
<1>11. NoneAlike'
  BY <1>5, <1>10 DEF NoneAlike
<1>12. \A q \in Player : \A i \in DOMAIN todo'[q] : todo'[q][i].do \in {"setClanName", "setSession"}
  BY <1>2, <1>4, <1>5, <1>9
<1>13. LooksFirst' /\ LoadsLast'
  BY <1>12 DEF LooksFirst, LoadsLast, Repaints
<1>14. SerialInv'
  BY <1>5, <1>7, <1>8, <1>11, <1>13 DEF SerialInv
<1> QED
  BY <1>3, <1>5, <1>6, <1>14

-----------------------------------------------------------------------------
(***************************************************************************)
(* SerialInv: the requests, and then every step.                           *)
(***************************************************************************)
LEMMA SavesOnlySerial ==
    ASSUME SerialInv, ClansInv', MaxOverlap = 1, NEW p \in Player, NEW c \in Name,
           clans[c] # NoClan, NEW f, SavesOnly(p, c, f)
    PROVE  SerialInv' /\ clans' = clans
BY SaveBegun DEF SavesOnly

LEMMA SavesAndNamesSerial ==
    ASSUME SerialInv, ClansInv', MaxOverlap = 1, NEW p \in Player, NEW c \in Name,
           clans[c] # NoClan, NEW f, NEW q \in Player, NEW d, SavesAndNames(p, c, f, q, d)
    PROVE  SerialInv' /\ clans' = clans
BY SaveNameBegun DEF SavesAndNames

\* RowOf and RowWith name the row to cut.
LEMMA WithdrawDoes ==
    ASSUME SerialInv, NEW p \in Player, NEW c \in Name, clans[c] # NoClan,
           CancelApplication(p, c)
           \/ \E id \in IDs(clans[c].applicants) : RejectApplication(p, c, id)
    PROVE  \E f : \E q \in People(clans[c].applicants) :
              /\ SavesOnly(p, c, f)
              /\ Updated(clans[c], f).members = clans[c].members
              /\ People(Updated(clans[c], f).applicants) = People(clans[c].applicants) \ {q}
              /\ CancelApplication(p, c) => q = p
<1>1. CASE CancelApplication(p, c)
  <2>1. PICK k \in DOMAIN clans[c].applicants :
           /\ clans[c].applicants[k].who = p
           /\ RowOf(clans[c].applicants, p) = clans[c].applicants[k]
    BY <1>1, ApplicantRow DEF CancelApplication
  <2>2. Leaves(p, <<Save(c, [applicants |->
                        Without(clans[c].applicants, clans[c].applicants[k].id)])>>)
    BY <1>1, <2>1 DEF CancelApplication
  <2>3. clans[c].applicants[k].who \in People(clans[c].applicants)
    BY DEF People
  <2> QED
    BY <2>1, <2>2, <2>3, DequeueDoes
<1>2. CASE ~ CancelApplication(p, c)
  <2>1. PICK id \in IDs(clans[c].applicants) : RejectApplication(p, c, id)
    BY <1>2
  <2>2. PICK k \in DOMAIN clans[c].applicants : clans[c].applicants[k].id = id
    BY ApplicantRow
  <2>3. Leaves(p, <<Save(c, [applicants |->
                        Without(clans[c].applicants, clans[c].applicants[k].id)])>>)
    BY <2>1, <2>2 DEF RejectApplication
  <2>4. clans[c].applicants[k].who \in People(clans[c].applicants)
    BY DEF People
  <2> QED
    BY <1>2, <2>3, <2>4, DequeueDoes
<1> QED
  BY <1>1, <1>2

LEMMA DepartureDoes ==
    ASSUME SerialInv, NEW p \in Player, NEW c \in Name, clans[c] # NoClan,
           Leave(p, c) \/ \E id \in IDs(clans[c].members) : KickMember(p, c, id)
    PROVE  \E f : \E q \in Player :
              /\ SavesAndNames(p, c, f, q, NoName)
              /\ People(Updated(clans[c], f).members) = People(clans[c].members) \ {q}
              /\ Updated(clans[c], f).applicants = clans[c].applicants
              /\ \A x \in People(Updated(clans[c], f).members) :
                    RowOf(Updated(clans[c], f).members, x) = RowOf(clans[c].members, x)
<1>1. PICK k \in DOMAIN clans[c].members :
         /\ Leaves(p, Detach(c, clans[c].members[k]))
         /\ clans[c].members[k].rank # Master \/ Len(clans[c].members) <= 1
  BY KickDoes, LeaveDoes
<1>2. \E f : \E q \in Player :
              /\ SavesAndNames(p, c, f, q, NoName)
              /\ q = clans[c].members[k].who
              /\ People(Updated(clans[c], f).members) = People(clans[c].members) \ {q}
              /\ Updated(clans[c], f).applicants = clans[c].applicants
              /\ \A x \in People(Updated(clans[c], f).members) :
                    RowOf(Updated(clans[c], f).members, x) = RowOf(clans[c].members, x)
  BY ONLY SerialInv, p \in Player, c \in Name, clans[c] # NoClan, k \in DOMAIN clans[c].members,
          <1>1, DetachDoes
<1> QED
  BY ONLY <1>2

LEMMA ChangeMarkDoes ==
    ASSUME SerialInv, ClansInv', MaxOverlap = 1, NEW p \in Player, NEW c \in Name,
           clans[c] # NoClan, NEW mark, ChangeMark(p, c, mark)
    PROVE  /\ SerialInv' /\ UNCHANGED <<clans, account, session>> /\ Waiting = {}
           /\ Waiting' = {FindByMark(c, mark), Save(c, [mark |-> mark]), FindPlayer(p)}
<1>1. PICK s : s = <<FindByMark(c, mark), Save(c, [mark |-> mark]), FindPlayer(p)>>
  OBVIOUS
<1>2. Leaves(p, s) /\ Begin(p, s) /\ UNCHANGED <<clans, account, session>>
  BY <1>1 DEF ChangeMark, Leaves
<1>3. Fits(s)
  BY <1>1, MarkFits
<1>4. Waiting = {} /\ Waiting' = Range(s)
  BY <1>2, NobodyElse DEF SerialInv
<1>5. Range(s) = {FindByMark(c, mark), Save(c, [mark |-> mark]), FindPlayer(p)}
  <2>1. /\ DOMAIN s = {1, 2, 3} /\ s[1] = FindByMark(c, mark)
        /\ s[2] = Save(c, [mark |-> mark]) /\ s[3] = FindPlayer(p)
    BY <1>1
  <2> QED
    BY <2>1 DEF Range
<1> QED
  BY <1>2, <1>3, <1>4, <1>5, LeavesSerial

LEMMA LoginDoes ==
    ASSUME SerialInv, ClansInv', MaxOverlap = 1, NEW p \in Player, Login(p)
    PROVE  /\ SerialInv' /\ UNCHANGED <<clans, account, session>>
           /\ Waiting = {} /\ Waiting' = {FindPlayer(p)}
<1>1. PICK s : s = <<FindPlayer(p)>>
  OBVIOUS
<1>2. Leaves(p, s) /\ Begin(p, s) /\ UNCHANGED <<clans, account, session>>
  BY <1>1 DEF Login, Leaves
<1>3. Fits(s)
  BY <1>1, LoadFits
<1>4. Waiting = {} /\ Waiting' = Range(s)
  BY <1>2, NobodyElse DEF SerialInv
<1>5. Range(s) = {FindPlayer(p)}
  BY <1>1 DEF Range
<1> QED
  BY <1>2, <1>3, <1>4, <1>5, LeavesSerial

LEMMA RequestSerial ==
    ASSUME SerialInv, ClansInv', MaxOverlap = 1, MaxGivenID <= MaxRowID,
           NEW p \in Player, NEW c \in Name, Request(p, c)
    PROVE  SerialInv'
<1>1. CASE \E mark \in Mark : Create(p, c, mark)
  BY <1>1, CreateDoes
<1>2. CASE clans[c] # NoClan /\ RequestJoin(p, c)
  BY <1>2, RequestJoinDoes, SavesOnlySerial
<1>3. CASE clans[c] # NoClan /\ (CancelApplication(p, c)
              \/ \E id \in IDs(clans[c].applicants) : RejectApplication(p, c, id))
  BY <1>3, WithdrawDoes, SavesOnlySerial
<1>4. CASE clans[c] # NoClan /\ (Leave(p, c)
              \/ \E id \in IDs(clans[c].members) : KickMember(p, c, id))
  BY <1>4, DepartureDoes, SavesAndNamesSerial
<1>5. CASE clans[c] # NoClan /\ Disband(p, c)
  BY <1>5, DisbandFits, LeavesSerial
<1>6. CASE clans[c] # NoClan /\ \E mark \in Mark : ChangeMark(p, c, mark)
  BY <1>6, ChangeMarkDoes
<1>7. CASE clans[c] # NoClan /\ \E id \in IDs(clans[c].applicants) : AcceptApplication(p, c, id)
  BY <1>7, AcceptDoes, SavesAndNamesSerial
<1>8. CASE clans[c] # NoClan /\ \E id \in IDs(clans[c].members) : ChangeMaster(p, c, id)
  BY <1>8, HandOverDoes, SavesOnlySerial
<1>9. CASE clans[c] # NoClan /\ \E id \in IDs(clans[c].members) :
              \E rank \in AskedRanks : ChangePosition(p, c, id, rank)
  BY <1>9, PositionDoes, SavesOnlySerial
<1> QED
  BY <1>1, <1>2, <1>3, <1>4, <1>5, <1>6, <1>7, <1>8, <1>9 DEF Request

LEMMA NextSerial ==
    ASSUME SerialInv, MaxOverlap = 1, MaxGivenID <= MaxRowID, [Next]_vars
    PROVE  SerialInv'
<1>0. ClansInv'
  BY NextInv DEF SerialInv
<1>1. CASE \E p \in Player : Login(p)
  BY <1>0, <1>1, LoginDoes
<1>2. CASE \E p \in Player : Logout(p)
  <2>1. clans' = clans /\ todo' = todo
    BY <1>2 DEF Logout
  <2> QED
    BY <1>0, <2>1 DEF SerialInv, Alone, NoneAlike, OneWrite, GoodSaved, GoodWaiting,
                      LooksFirst, LoadsLast, Waiting, Worn
<1>3. CASE \E p \in Player : \E c \in Name : Request(p, c)
  BY <1>0, <1>3, RequestSerial
<1>4. CASE \E p \in Player : HandlerStep(p)
  BY <1>0, <1>4, SavingDoes, DeletingDoes, FindingByMarkDoes, FindingPlayerDoes, NamingDoes
     DEF HandlerStep
<1>5. CASE \E p \in Player : Fail(p)
  <2>1. PICK p \in Player : Fail(p)
    BY <1>5
  <2>2. clans' = clans /\ \A q \in Player : todo'[q] = <<>>
    BY <2>1, OnlyCalls DEF SerialInv, ClansInv, Fail
  <2> QED
    BY <1>0, <2>2, NothingLeft
<1>6. CASE Crash
  <2>1. clans' = clans /\ \A q \in Player : todo'[q] = <<>>
    BY <1>6 DEF Crash
  <2> QED
    BY <1>0, <2>1, NothingLeft
<1>7. CASE UNCHANGED vars
  <2>1. clans' = clans /\ todo' = todo
    BY <1>7 DEF vars
  <2> QED
    BY <1>0, <2>1 DEF SerialInv, Alone, NoneAlike, OneWrite, GoodSaved, GoodWaiting,
                      LooksFirst, LoadsLast, Waiting, Worn
<1> QED
  BY <1>1, <1>2, <1>3, <1>4, <1>5, <1>6, <1>7 DEF Next

LEMMA InitSerial == ASSUME Init PROVE SerialInv
<1>1. ClansInv
  BY InitInv
<1>2. \A q \in Player : todo[q] = <<>>
  BY DEF Init
<1>3. Waiting = {}
  BY <1>2 DEF Waiting, Range
<1>4. DOMAIN <<>> = {}
  OBVIOUS
<1>5. NoneAlike /\ LooksFirst /\ LoadsLast
  BY <1>2, <1>4 DEF NoneAlike, Distinct, LooksFirst, LoadsLast
<1>6. GoodSaved
  BY DEF Init, GoodSaved
<1> QED
  BY <1>1, <1>2, <1>3, <1>5, <1>6 DEF SerialInv, Alone, OneWrite, GoodWaiting

-----------------------------------------------------------------------------
(***************************************************************************)
(* SerialInv holds always when one request at a time is served, whatever   *)
(* call fails and whenever the process stops: the slices that wait to be   *)
(* saved fit the document that they will be written to.  The bound on the  *)
(* ids leaves out the clans where the uint16 of an applicant's id wraps.   *)
(***************************************************************************)
THEOREM SerialInvariant ==
    ASSUME MaxOverlap = 1, MaxGivenID <= MaxRowID
    PROVE  Spec => []SerialInv
<1>1. Init => SerialInv
  BY InitSerial
<1>2. SerialInv /\ [Next]_vars => SerialInv'
  BY NextSerial
<1> QED
  BY <1>1, <1>2, PTL DEF Spec

(***************************************************************************)
(* RowIDsDistinct: nextApplicantID and the id that an accepted applicant   *)
(* keeps leave no two rows of a clan with the same id.                     *)
(***************************************************************************)
THEOREM RowIDsAlwaysDistinct ==
    ASSUME MaxOverlap = 1, MaxGivenID <= MaxRowID
    PROVE  Spec => []RowIDsDistinct
<1>1. SerialInv => RowIDsDistinct
  BY DEF SerialInv, GoodSaved, GoodClan, GoodSlices, RowIDsDistinct
<1> QED
  BY <1>1, SerialInvariant, PTL

(***************************************************************************)
(* LeaderNamed: the master field of a clan with members names its one      *)
(* master, through every kick, departure, promotion and handover.          *)
(***************************************************************************)
THEOREM LeaderAlwaysNamed ==
    ASSUME MaxOverlap = 1, MaxGivenID <= MaxRowID
    PROVE  Spec => []LeaderNamed
<1>1. SerialInv => LeaderNamed
  <2> SUFFICES ASSUME SerialInv, NEW c \in Name, clans[c] # NoClan, clans[c].members # <<>>
               PROVE  /\ clans[c].master \in People(clans[c].members)
                      /\ Masters(clans[c].members) = {PlaceOf(clans[c].members, clans[c].master)}
    BY DEF LeaderNamed
  <2>1. PICK u \in Seq(Row) : u = clans[c].members
    BY FoundSound DEF SerialInv, Members, Row
  <2>2. OneEach(u) /\ Led(clans[c].master, u)
    BY <2>1 DEF SerialInv, GoodSaved, GoodClan, GoodSlices
  <2>3. PICK k \in DOMAIN u : u[k].who = clans[c].master /\ Masters(u) = {k}
    BY <2>2 DEF Led
  <2>4. PlaceOf(u, u[k].who) = k
    BY <2>2, RowFound
  <2> QED
    BY <2>1, <2>3, <2>4 DEF People
<1> QED
  BY <1>1, SerialInvariant, PTL

(***************************************************************************)
(* RepaintUnique: with one request served at a time, the look of           *)
(* ChangeMark for other wearers still holds when the emblem is saved.      *)
(***************************************************************************)
LEMMA StepRepaints ==
    ASSUME SerialInv, ClansInv', MaxOverlap = 1, [Next]_vars,
           NEW c \in Name, clans[c] # NoClan, clans'[c] # NoClan, clans'[c].mark # clans[c].mark
    PROVE  ~ Worn(c, clans'[c].mark)
<1>1. PICK p \in Player : HandlerStep(p) \/ \E d \in Name : Request(p, d)
  BY DEF Next, Login, Leaves, Logout, Fail, Crash, vars
<1>2. Saving(p)
  <2>1. CASE \E d \in Name : Request(p, d)
    <3>1. PICK d \in Name, mark \in Mark : Create(p, d, mark)
      BY <2>1 DEF Request, Leaves, RequestJoin, CancelApplication, Leave, Disband, ChangeMark,
                  AcceptApplication, RejectApplication, KickMember, ChangeMaster, ChangePosition
    <3>2. clans[d] = NoClan /\ \A e \in Name \ {d} : clans'[e] = clans[e]
      BY <3>1, CreateDoes
    <3> QED
      BY <3>2
  <2>2. CASE HandlerStep(p) /\ ~ Saving(p)
    <3>1. clans' # clans
      OBVIOUS
    <3>2. Deleting(p)
      BY <2>2, <3>1 DEF HandlerStep, FindingByMark, FindingPlayer, SettingClanName,
                        SettingSession, Binding
    <3> QED
      BY <3>2, DeletingDoes
  <2> QED
    BY <1>1, <2>1, <2>2
<1>3. PICK w \in Waiting :
         /\ w = Head(todo[p]) /\ w.do = "save" /\ w.clan = c
         /\ clans'[c] = Updated(clans[c], w.fields)
  BY <1>2, SavingDoes
<1>4. PICK clan \in Document : clan = clans[c]
  BY FoundSound DEF SerialInv
<1>5. "mark" \in DOMAIN w.fields /\ clans'[c].mark = w.fields.mark
  <2>1. clans'[c].mark = IF "mark" \in DOMAIN w.fields THEN w.fields.mark ELSE clan.mark
    BY <1>3, <1>4, UpdatedFields
  <2> QED
    BY <1>4, <2>1
<1>6. todo[p] \in Seq(SoundCall) /\ todo[p] # <<>>
  BY <1>2 DEF SerialInv, ClansInv, Saving, NextCall
<1>7. 1 \in DOMAIN todo[p] /\ todo[p][1] = w
  BY <1>3, <1>6, EmptySeq, HeadTailProperties, LenProperties
<1>8. ~ Worn(todo[p][1].clan, todo[p][1].fields.mark)
  BY <1>3, <1>5, <1>7 DEF SerialInv, LooksFirst, Repaints
<1> QED
  BY <1>3, <1>5, <1>7, <1>8

THEOREM RepaintAlwaysUnique ==
    ASSUME MaxOverlap = 1, MaxGivenID <= MaxRowID
    PROVE  Spec => RepaintUnique
<1>1. SerialInv /\ SerialInv' /\ [Next]_vars =>
        [\A c \in Name :
            clans[c] # NoClan /\ clans'[c] # NoClan /\ clans'[c].mark # clans[c].mark
              => ~ Worn(c, clans'[c].mark)]_vars
  BY StepRepaints DEF SerialInv
<1> QED
  BY <1>1, SerialInvariant, PTL DEF Spec, RepaintUnique

-----------------------------------------------------------------------------
(***************************************************************************)
(* CalmInv: the requests.                                                  *)
(***************************************************************************)
LEMMA CalmBegun ==
    ASSUME CalmInv, SerialInv', Waiting = {}, clans' = clans, UNCHANGED <<account, session>>,
           \A w \in Waiting' : w.do \in {"findByMark", "findPlayer"}
                               \/ (w.do = "save" /\ DOMAIN w.fields = {"mark"}),
           NEW c \in Name,
           \A e \in Name \ {c} : ClanAfter(e)' = clans[e],
           clans[c] # NoClan => ClanAfter(c)' # NoClan /\ ClanAfter(c)'.members = clans[c].members
    PROVE  CalmInv'
<1>1. \A q \in Player : AccountAfter(q)' = account[q]
  <2> SUFFICES ASSUME NEW q \in Player
               PROVE  NameWith(account[q], q, Waiting') = account[q]
    BY DEF AccountAfter
  <2>1. \A v \in Waiting' : ~ Naming(v, q)
    BY DEF Naming
  <2> QED
    BY <2>1, NameKept
<1>2. OneName' /\ LooksOnly'
  BY DEF OneName, LooksOnly
<1>3. CopiesFollow'
  BY <1>1, CalmQuiet DEF CopiesFollow
<1>4. ASSUME NEW q \in Player, account[q] # NoName
      PROVE  \E e \in Name : account[q] = e /\ ListedAfter(q, e)'
  <2>1. PICK e \in Name : account[q] = e /\ clans[e] # NoClan /\ q \in People(clans[e].members)
    BY <1>4, CalmQuiet
  <2>2. ListedAfter(q, e)'
    BY <2>1 DEF ListedAfter
  <2> QED
    BY <2>1, <2>2
<1>5. BelongsListed'
  BY <1>1, <1>4 DEF BelongsListed
<1> QED
  BY <1>2, <1>3, <1>5 DEF CalmInv

LEMMA LoginCalm ==
    ASSUME CalmInv, ClansInv', MaxOverlap = 1, NEW p \in Player, Login(p)
    PROVE  CalmInv'
<1>1. /\ SerialInv' /\ UNCHANGED <<clans, account, session>>
      /\ Waiting = {} /\ Waiting' = {FindPlayer(p)}
  BY LoginDoes DEF CalmInv
<1>2. FindPlayer(p).do = "findPlayer"
  BY DEF FindPlayer
<1>3. \A e \in Name : ClanWith(clans[e], e, {FindPlayer(p)}) = clans[e]
  BY <1>2, ClanKept DEF Writing
<1>4. \A e \in Name : ClanAfter(e)' = clans[e]
  BY <1>1, <1>3 DEF ClanAfter
<1>5. CASE Name = {}
  <2>1. BelongsListed' /\ CopiesFollow' /\ OneName' /\ LooksOnly'
    <3>1. \A q \in Player : AccountAfter(q)' = account[q]
      BY <1>1, <1>2, NameKept DEF Naming, AccountAfter
    <3>2. \A q \in Player : account[q] = NoName
      BY <1>5 DEF CalmInv, SerialInv, ClansInv
    <3> QED
      BY <1>1, <1>2, <3>1, <3>2, CalmQuiet DEF BelongsListed, CopiesFollow, OneName, LooksOnly
  <2> QED
    BY <1>1, <2>1 DEF CalmInv
<1>6. CASE Name # {}
  <2>1. PICK c \in Name : TRUE
    BY <1>6
  <2> QED
    BY <1>1, <1>2, <1>4, <2>1, CalmBegun
<1> QED
  BY <1>5, <1>6

LEMMA ChangeMarkCalm ==
    ASSUME CalmInv, ClansInv', MaxOverlap = 1, NEW p \in Player, NEW c \in Name,
           clans[c] # NoClan, NEW mark, ChangeMark(p, c, mark)
    PROVE  CalmInv'
<1>1. PICK f : f = [mark |-> mark] /\ DOMAIN f = {"mark"}
  <2>1. DOMAIN [mark |-> mark] = {"mark"}
    OBVIOUS
  <2> QED
    BY <2>1
<1>2. PICK W : W = {FindByMark(c, mark), Save(c, f), FindPlayer(p)}
  OBVIOUS
<1>3. /\ SerialInv' /\ UNCHANGED <<clans, account, session>>
      /\ Waiting = {} /\ Waiting' = W
  BY <1>1, <1>2, ChangeMarkDoes DEF CalmInv
<1>4. /\ FindPlayer(p).do = "findPlayer" /\ FindByMark(c, mark).do = "findByMark"
      /\ Save(c, f).do = "save" /\ Save(c, f).clan = c /\ Save(c, f).fields = f
  BY DEF FindPlayer, FindByMark, Save
<1>5. PICK clan \in Document : clan = clans[c]
  BY FoundSound DEF CalmInv, SerialInv
<1>6. Updated(clan, f) = [master |-> clan.master, members |-> clan.members,
                          applicants |-> clan.applicants, mark |-> mark]
  BY <1>1, UpdatedFields
<1>7. Updated(clan, f) # NoClan /\ Updated(clan, f).members = clan.members
  <2>1. Save(c, f) \in Waiting' /\ GoodWaiting'
    BY <1>2, <1>3 DEF SerialInv
  <2>2. PICK q \in Player : Save(c, f) \in Range(todo'[q])
    BY <2>1 DEF Waiting
  <2>3. PICK i \in DOMAIN todo'[q] : Save(c, f) = todo'[q][i]
    BY <2>2 DEF Range
  <2>4. todo'[q] \in Seq(SoundCall)
    BY DEF ClansInv
  <2>5. Save(c, f) \in SoundCall
    BY <2>3, <2>4, LenProperties, ElementOfSeq
  <2>6. Updated(clan, f) # NoClan
    BY <1>5, <2>5, SaveTyped DEF CalmInv, SerialInv
  <2> QED
    BY <1>6, <2>6
<1>8. \A v \in W : Writing(v) => v = Save(c, f)
  BY <1>2, <1>4 DEF Writing
<1>9. Save(c, f) \in W
  BY <1>2
<1>10. ClanWith(clans[c], c, W) = Updated(clan, f)
  BY <1>4, <1>5, <1>8, <1>9, ClanSaved
<1>11. \A e \in Name \ {c} : ClanWith(clans[e], e, W) = clans[e]
  BY <1>4, <1>8, ClanKept
<1>12. /\ ClanAfter(c)' = Updated(clan, f)
       /\ \A e \in Name \ {c} : ClanAfter(e)' = clans[e]
  BY <1>3, <1>10, <1>11 DEF ClanAfter
<1>13. \A w \in W : w.do \in {"findByMark", "findPlayer"}
                    \/ (w.do = "save" /\ DOMAIN w.fields = {"mark"})
  BY <1>1, <1>2, <1>4
<1> QED
  BY <1>3, <1>5, <1>7, <1>12, <1>13, CalmBegun

LEMMA CreateCalm ==
    ASSUME CalmInv, ClansInv', MaxOverlap = 1, NEW p \in Player, NEW c \in Name,
           NEW mark \in Mark, Create(p, c, mark)
    PROVE  CalmInv'
<1>1. PICK W : W = {SetClanName(p, c), SetSession(p, c)}
  OBVIOUS
<1>2. /\ SerialInv' /\ Waiting = {} /\ Waiting' = W
      /\ clans[c] = NoClan /\ clans'[c] = NewClan(p, mark)
      /\ \A d \in Name \ {c} : clans'[d] = clans[d]
      /\ UNCHANGED <<account, session>>
  BY <1>1, CreateDoes DEF CalmInv
<1>3. /\ SetClanName(p, c).do = "setClanName" /\ SetClanName(p, c).who = p
      /\ SetClanName(p, c).clan = c
      /\ SetSession(p, c).do = "setSession" /\ SetSession(p, c).who = p
      /\ SetSession(p, c).clan = c
  BY DEF SetClanName, SetSession
<1>4. \A e \in Name : ClanWith(clans'[e], e, W) = clans'[e]
  BY <1>1, <1>3, ClanKept DEF Writing
<1>5. \A e \in Name : ClanAfter(e)' = clans'[e]
  BY <1>2, <1>4 DEF ClanAfter
<1>6. /\ SetClanName(p, c) \in W /\ \A v \in W : \A x : Naming(v, x) => v = SetClanName(p, c) /\ x = p
      /\ Naming(SetClanName(p, c), p)
  BY <1>1, <1>3 DEF Naming
<1>7. NameWith(account[p], p, W) = c
  BY <1>3, <1>6, NameTold
<1>8. \A x \in Player \ {p} : NameWith(account[x], x, W) = account[x]
  BY <1>6, NameKept
<1>9. AccountAfter(p)' = c /\ \A x \in Player \ {p} : AccountAfter(x)' = account[x]
  BY <1>2, <1>7, <1>8 DEF AccountAfter
<1>10. OneName' /\ LooksOnly'
  BY <1>1, <1>2, <1>3 DEF OneName, LooksOnly
<1>11. CopiesFollow'
  <2>1. ASSUME NEW x \in Player, x # p
        PROVE  session'[x] \in {Offline, AccountAfter(x)'}
    BY <1>2, <1>9, <2>1, CalmQuiet
  <2>2. \A w \in Waiting' : w.do \in {"setSession", "bindPlayer"} => w = SetSession(p, c)
    BY <1>1, <1>2, <1>3
  <2>3. SetSession(p, c) \in Waiting'
    BY <1>1, <1>2
  <2> QED
    BY <1>3, <1>9, <2>1, <2>2, <2>3 DEF CopiesFollow
<1>12. BelongsListed'
  <2>1. ListedAfter(p, c)'
    BY <1>2, <1>5, NewClanGood DEF ListedAfter
  <2>2. ASSUME NEW x \in Player \ {p}, account[x] # NoName
        PROVE  \E e \in Name : account[x] = e /\ ListedAfter(x, e)'
    <3>1. PICK e \in Name : account[x] = e /\ clans[e] # NoClan /\ x \in People(clans[e].members)
      BY <1>2, <2>2, CalmQuiet
    <3>2. ListedAfter(x, e)'
      BY <1>2, <1>5, <3>1 DEF ListedAfter
    <3> QED
      BY <3>1, <3>2
  <2> QED
    BY <1>9, <2>1, <2>2 DEF BelongsListed
<1> QED
  BY <1>2, <1>10, <1>11, <1>12 DEF CalmInv

\* What a disbanded clan leaves once its handler is through.
Dissolving(c, M) ==
    {Delete(c)} \cup {SetClanName(q, NoName) : q \in M} \cup {SetSession(q, NoName) : q \in M}

LEMMA DisbandAfter ==
    ASSUME NEW c, NEW M, NEW W, W = Dissolving(c, M)
    PROVE  /\ \A clan : ClanWith(clan, c, W) = NoClan
           /\ \A e : \A clan : e # c => ClanWith(clan, e, W) = clan
           /\ \A q \in M : \A name : NameWith(name, q, W) = NoName
           /\ \A q : \A name : q \notin M => NameWith(name, q, W) = name
           /\ \A q \in M : SetSession(q, NoName) \in W
           /\ \A w \in W : w.do = "setSession" => w.who \in M /\ w.clan = NoName
           /\ \A w \in W : w.do \in {"delete", "setClanName", "setSession"}
           /\ \A v, w \in W : v.do = "setClanName" /\ w.do = "setClanName" /\ v.who = w.who => v = w
<1>1. /\ Delete(c).do = "delete" /\ Delete(c).clan = c
      /\ \A q : /\ SetClanName(q, NoName).do = "setClanName" /\ SetClanName(q, NoName).who = q
                /\ SetClanName(q, NoName).clan = NoName
      /\ \A q : /\ SetSession(q, NoName).do = "setSession" /\ SetSession(q, NoName).who = q
                /\ SetSession(q, NoName).clan = NoName
  BY DEF Delete, SetClanName, SetSession
<1>2. \A w \in W : \/ w = Delete(c)
                   \/ \E q \in M : w = SetClanName(q, NoName)
                   \/ \E q \in M : w = SetSession(q, NoName)
  BY DEF Dissolving
<1>3. \A w \in W : w.do \in {"delete", "setClanName", "setSession"}
  BY <1>1, <1>2
<1>4. \A w \in W : w.do = "delete" => w = Delete(c)
  BY <1>1, <1>2
<1>5. \A w \in W : w.do = "setClanName" => w.who \in M /\ w = SetClanName(w.who, NoName)
  BY <1>1, <1>2
<1>6. \A w \in W : w.do = "setSession" => w.who \in M /\ w.clan = NoName
  BY <1>1, <1>2
<1>7. \A q \in M : SetClanName(q, NoName) \in W /\ SetSession(q, NoName) \in W
  BY DEF Dissolving
<1>8. Delete(c) \in W /\ \A v \in W : Writing(v) => v = Delete(c)
  BY <1>3, <1>4 DEF Writing, Dissolving
<1>9. \A clan : ClanWith(clan, c, W) = NoClan
  BY <1>1, <1>8, ClanDeleted
<1>10. \A e : \A clan : e # c => ClanWith(clan, e, W) = clan
  <2> SUFFICES ASSUME NEW e, NEW clan, e # c
               PROVE  ClanWith(clan, e, W) = clan
    OBVIOUS
  <2>1. \A v \in W : Writing(v) => v.clan # e
    BY <1>1, <1>8
  <2> QED
    BY <2>1, ClanKept
<1>11. \A q \in M : \A name : NameWith(name, q, W) = NoName
  <2> SUFFICES ASSUME NEW q \in M, NEW name
               PROVE  NameWith(name, q, W) = NoName
    OBVIOUS
  <2>1. PICK w \in W : w = SetClanName(q, NoName)
    BY <1>7
  <2>2. Naming(w, q) /\ w.clan = NoName
    BY <1>1, <2>1 DEF Naming
  <2>3. \A v \in W : Naming(v, q) => v = w
    BY <1>5, <2>1 DEF Naming
  <2> QED
    BY <2>2, <2>3, NameTold
<1>12. \A q : \A name : q \notin M => NameWith(name, q, W) = name
  <2> SUFFICES ASSUME NEW q, NEW name, q \notin M
               PROVE  NameWith(name, q, W) = name
    OBVIOUS
  <2>1. \A v \in W : ~ Naming(v, q)
    BY <1>5 DEF Naming
  <2> QED
    BY <2>1, NameKept
<1> QED
  BY <1>3, <1>5, <1>6, <1>7, <1>9, <1>10, <1>11, <1>12

LEMMA DisbandDoes ==
    ASSUME SerialInv, ClansInv', MaxOverlap = 1, NEW p \in Player, NEW c \in Name,
           clans[c] # NoClan, Disband(p, c)
    PROVE  /\ SerialInv' /\ UNCHANGED <<clans, account, session>> /\ Waiting = {}
           /\ Waiting' = Dissolving(c, People(clans[c].members))
<1>1. PICK calls :
         /\ Leaves(p, calls) /\ Fits(calls)
         /\ Range(calls) = {Delete(c)}
                    \cup {SetClanName(q, NoName) : q \in People(clans[c].members)}
                    \cup {SetSession(q, NoName) : q \in People(clans[c].members)}
  BY DisbandFits
<1>2. Begin(p, calls) /\ UNCHANGED <<clans, account, session>>
  BY <1>1 DEF Leaves
<1>3. SerialInv'
  BY <1>1, LeavesSerial
<1>4. Waiting = {} /\ Waiting' = Range(calls)
  BY <1>2, NobodyElse DEF SerialInv
<1> QED
  BY <1>1, <1>2, <1>3, <1>4 DEF Dissolving

LEMMA DisbandCalm ==
    ASSUME CalmInv, ClansInv', MaxOverlap = 1, NEW p \in Player, NEW c \in Name,
           clans[c] # NoClan, Disband(p, c)
    PROVE  CalmInv'
<1>1. PICK M : M = People(clans[c].members)
  OBVIOUS
<1>2. PICK W : W = Dissolving(c, M)
  OBVIOUS
<1>3. /\ SerialInv' /\ UNCHANGED <<clans, account, session>>
      /\ Waiting = {} /\ Waiting' = W
  BY <1>1, <1>2, DisbandDoes DEF CalmInv
<1>4. /\ \A clan : ClanWith(clan, c, W) = NoClan
      /\ \A e : \A clan : e # c => ClanWith(clan, e, W) = clan
      /\ \A q \in M : \A name : NameWith(name, q, W) = NoName
      /\ \A q : \A name : q \notin M => NameWith(name, q, W) = name
      /\ \A w \in W : w.do = "setSession" => w.who \in M /\ w.clan = NoName
      /\ \A w \in W : w.do \in {"delete", "setClanName", "setSession"}
      /\ \A v, w \in W : v.do = "setClanName" /\ w.do = "setClanName" /\ v.who = w.who => v = w
  BY <1>2, DisbandAfter
<1>5. \A q \in M : \E w \in W : w.do = "setSession" /\ w.who = q
  <2>1. \A q : SetSession(q, NoName).do = "setSession" /\ SetSession(q, NoName).who = q
    BY DEF SetSession
  <2> QED
    BY <1>2, <2>1 DEF Dissolving
<1>6. /\ \A e \in Name \ {c} : ClanAfter(e)' = clans[e]
      /\ \A q \in Player : q \in M => AccountAfter(q)' = NoName
      /\ \A q \in Player : q \notin M => AccountAfter(q)' = account[q]
  BY <1>3, <1>4 DEF ClanAfter, AccountAfter
<1>7. OneName' /\ LooksOnly'
  BY <1>3, <1>4 DEF OneName, LooksOnly
<1>8. M \subseteq Player
  BY <1>1, MemberRow DEF CalmInv, People, Row
<1>9. CopiesFollow'
  <2>1. ASSUME NEW x \in Player, x \notin M
        PROVE  session'[x] \in {Offline, AccountAfter(x)'}
    BY <1>3, <1>6, <2>1, CalmQuiet
  <2>2. ASSUME NEW x \in Player, \A w \in Waiting' : w.do = "setSession" => w.who # x
        PROVE  x \notin M
    BY <1>3, <1>5, <2>2
  <2>3. ASSUME NEW w \in Waiting', w.do \in {"setSession", "bindPlayer"}
        PROVE  w.clan = AccountAfter(w.who)'
    <3>1. w.who \in M /\ w.clan = NoName
      BY <1>3, <1>4, <2>3
    <3>2. PICK q \in Player : q = w.who
      BY <1>8, <3>1
    <3>3. NameWith(account[q], q, W) = NoName
      BY <1>4, <3>1, <3>2
    <3> QED
      BY <1>3, <3>1, <3>2, <3>3 DEF AccountAfter
  <2> QED
    BY <2>1, <2>2, <2>3 DEF CopiesFollow
<1>10. BelongsListed'
  <2>1. ASSUME NEW x \in Player, x \notin M, account[x] # NoName
        PROVE  \E e \in Name : account[x] = e /\ ListedAfter(x, e)'
    <3>1. PICK e \in Name : account[x] = e /\ clans[e] # NoClan /\ x \in People(clans[e].members)
      BY <1>3, <2>1, CalmQuiet
    <3>2. ListedAfter(x, e)'
      BY <1>1, <1>6, <2>1, <3>1 DEF ListedAfter
    <3> QED
      BY <3>1, <3>2
  <2> QED
    BY <1>6, <2>1 DEF BelongsListed
<1> QED
  BY <1>3, <1>7, <1>9, <1>10 DEF CalmInv

-----------------------------------------------------------------------------
(***************************************************************************)
(* The calls of a handler change nothing of what will be once they are     *)
(* made.                                                                   *)
(***************************************************************************)
LEMMA SavingAfter ==
    ASSUME SerialInv, ClansInv', NEW p \in Player, Saving(p)
    PROVE  /\ \A e \in Name : ClanAfter(e)' = ClanAfter(e)
           /\ \A q \in Player : AccountAfter(q)' = AccountAfter(q)
<1>1. PICK w \in Waiting, c \in Name :
         /\ w = Head(todo[p]) /\ w.do = "save" /\ w.clan = c /\ clans[c] # NoClan
         /\ clans'[c] = Updated(clans[c], w.fields)
         /\ \A d \in Name \ {c} : clans'[d] = clans[d]
         /\ Waiting' = Waiting \ {w}
         /\ UNCHANGED <<account, session>>
  BY SavingDoes
<1>2. PICK W, V : W = Waiting /\ V = Waiting \ {w}
  OBVIOUS
<1>3. w \in W /\ \A v \in W : Writing(v) => v = w
  BY <1>1, <1>2 DEF SerialInv, OneWrite, Writing
<1>4. \A v \in V : ~ Writing(v)
  BY <1>2, <1>3
<1>5. ClanWith(clans[c], c, W) = Updated(clans[c], w.fields)
  BY <1>1, <1>3, ClanSaved
<1>6. \A e \in Name \ {c} : ClanWith(clans[e], e, W) = clans[e]
  BY <1>1, <1>3, ClanKept
<1>7. \A e \in Name : ClanWith(clans'[e], e, V) = clans'[e]
  BY <1>4, ClanKept
<1>8. \A e \in Name : ClanAfter(e)' = ClanAfter(e)
  <2>1. \A e \in Name : ClanAfter(e) = ClanWith(clans[e], e, W)
    BY <1>2 DEF ClanAfter
  <2>2. \A e \in Name : ClanAfter(e)' = ClanWith(clans'[e], e, V)
    BY <1>1, <1>2 DEF ClanAfter
  <2>3. \A e \in Name : ClanAfter(e)' = clans'[e]
    BY <1>7, <2>2
  <2>4. ClanAfter(c)' = ClanAfter(c)
    BY <1>1, <1>5, <2>1, <2>3
  <2>5. \A e \in Name \ {c} : ClanAfter(e)' = ClanAfter(e)
    BY <1>1, <1>6, <2>1, <2>3
  <2> QED
    BY <2>4, <2>5
<1>9. ASSUME NEW q \in Player
      PROVE  NameWith(account[q], q, V) = NameWith(account[q], q, W)
  <2>1. \A v : Naming(v, q) => (v \in V <=> v \in W)
    BY <1>1, <1>2 DEF Naming
  <2> QED
    BY <2>1, NameSame
<1>10. \A q \in Player : AccountAfter(q)' = AccountAfter(q)
  BY <1>1, <1>2, <1>9 DEF AccountAfter
<1> QED
  BY <1>8, <1>10

LEMMA DeletingAfter ==
    ASSUME SerialInv, ClansInv', NEW p \in Player, Deleting(p)
    PROVE  /\ \A e \in Name : ClanAfter(e)' = ClanAfter(e)
           /\ \A q \in Player : AccountAfter(q)' = AccountAfter(q)
<1>1. PICK w \in Waiting, c \in Name :
         /\ w = Head(todo[p]) /\ w.do = "delete" /\ w.clan = c
         /\ clans'[c] = NoClan /\ \A d \in Name \ {c} : clans'[d] = clans[d]
         /\ Waiting' = Waiting \ {w}
         /\ UNCHANGED <<account, session>>
  BY DeletingDoes
<1>2. PICK W, V : W = Waiting /\ V = Waiting \ {w}
  OBVIOUS
<1>3. w \in W /\ \A v \in W : Writing(v) => v = w
  BY <1>1, <1>2 DEF SerialInv, OneWrite, Writing
<1>4. \A v \in V : ~ Writing(v)
  BY <1>2, <1>3
<1>5. ClanWith(clans[c], c, W) = NoClan
  BY <1>1, <1>3, ClanDeleted
<1>6. \A e \in Name \ {c} : ClanWith(clans[e], e, W) = clans[e]
  BY <1>1, <1>3, ClanKept
<1>7. \A e \in Name : ClanWith(clans'[e], e, V) = clans'[e]
  BY <1>4, ClanKept
<1>8. \A e \in Name : ClanAfter(e)' = ClanAfter(e)
  <2>1. \A e \in Name : ClanAfter(e) = ClanWith(clans[e], e, W)
    BY <1>2 DEF ClanAfter
  <2>2. \A e \in Name : ClanAfter(e)' = ClanWith(clans'[e], e, V)
    BY <1>1, <1>2 DEF ClanAfter
  <2>3. \A e \in Name : ClanAfter(e)' = clans'[e]
    BY <1>7, <2>2
  <2>4. ClanAfter(c)' = ClanAfter(c)
    BY <1>1, <1>5, <2>1, <2>3
  <2>5. \A e \in Name \ {c} : ClanAfter(e)' = ClanAfter(e)
    BY <1>1, <1>6, <2>1, <2>3
  <2> QED
    BY <2>4, <2>5
<1>9. ASSUME NEW q \in Player
      PROVE  NameWith(account[q], q, V) = NameWith(account[q], q, W)
  <2>1. \A v : Naming(v, q) => (v \in V <=> v \in W)
    BY <1>1, <1>2 DEF Naming
  <2> QED
    BY <2>1, NameSame
<1>10. \A q \in Player : AccountAfter(q)' = AccountAfter(q)
  BY <1>1, <1>2, <1>9 DEF AccountAfter
<1> QED
  BY <1>8, <1>10

LEMMA NamingAfter ==
    ASSUME SerialInv, OneName, ClansInv', NEW p \in Player,
           SettingClanName(p) \/ SettingSession(p) \/ Binding(p)
    PROVE  /\ \A e \in Name : ClanAfter(e)' = ClanAfter(e)
           /\ \A q \in Player : AccountAfter(q)' = AccountAfter(q)
<1>1. PICK w \in Waiting :
         /\ w.who \in Player
         /\ clans' = clans /\ Waiting' = Waiting \ {w}
         /\ w.do \in {"setClanName", "setSession", "bindPlayer"}
         /\ account' = IF w.do = "setClanName" THEN [account EXCEPT ![w.who] = w.clan] ELSE account
  BY NamingDoes
<1>2. PICK W, V : W = Waiting /\ V = Waiting \ {w}
  OBVIOUS
<1>3. ASSUME NEW e \in Name
      PROVE  ClanWith(clans[e], e, V) = ClanWith(clans[e], e, W)
  <2>1. \A v : Writing(v) => (v \in V <=> v \in W)
    BY <1>1, <1>2 DEF Writing
  <2> QED
    BY <2>1, ClanSame
<1>4. \A e \in Name : ClanAfter(e)' = ClanAfter(e)
  BY <1>1, <1>2, <1>3 DEF ClanAfter
<1>5. ASSUME NEW q \in Player
      PROVE  NameWith(account'[q], q, V) = NameWith(account[q], q, W)
  <2>1. CASE Naming(w, q)
    <3>1. \A v \in W : Naming(v, q) => v = w
      BY <1>1, <1>2, <2>1 DEF OneName, Naming
    <3>2. NameWith(account[q], q, W) = w.clan
      BY <1>1, <1>2, <2>1, <3>1, NameTold
    <3>3. \A v \in V : ~ Naming(v, q)
      BY <1>2, <3>1
    <3>4. NameWith(account'[q], q, V) = account'[q]
      BY <3>3, NameKept
    <3>5. account'[q] = w.clan
      BY <1>1, <2>1 DEF Naming, SerialInv, ClansInv
    <3> QED
      BY <3>2, <3>4, <3>5
  <2>2. CASE ~ Naming(w, q)
    <3>1. \A v : Naming(v, q) => (v \in V <=> v \in W)
      BY <1>2, <2>2 DEF Naming
    <3>2. account'[q] = account[q]
      BY <1>1, <2>2 DEF Naming, SerialInv, ClansInv
    <3> QED
      BY <3>1, <3>2, NameSame
  <2> QED
    BY <2>1, <2>2
<1>6. \A q \in Player : AccountAfter(q)' = AccountAfter(q)
  BY <1>1, <1>2, <1>5 DEF AccountAfter
<1> QED
  BY <1>4, <1>6

(***************************************************************************)
(* FindingByMark gives up on a handler that would have changed no roster.  *)
(***************************************************************************)
SameRoster(a, b) ==
    /\ a = NoClan <=> b = NoClan
    /\ a # NoClan => a.members = b.members /\ a.applicants = b.applicants

LEMMA FindingByMarkAfter ==
    ASSUME CalmInv, ClansInv', NEW p \in Player, FindingByMark(p)
    PROVE  /\ \A e \in Name : SameRoster(ClanAfter(e), ClanAfter(e)')
           /\ \A q \in Player : AccountAfter(q)' = AccountAfter(q)
<1>1. PICK w \in Waiting :
         /\ UNCHANGED <<clans, account, session>> /\ w.do = "findByMark"
         /\ Waiting' = Waiting \ {w} \/ Waiting' = {}
  BY FindingByMarkDoes DEF CalmInv
<1>2. CASE Waiting' = Waiting \ {w}
  <2>1. PICK W, V : W = Waiting /\ V = Waiting \ {w}
    OBVIOUS
  <2>2. \A v : Writing(v) => (v \in V <=> v \in W)
    BY <1>1, <2>1 DEF Writing
  <2>3. \A e \in Name : ClanWith(clans[e], e, V) = ClanWith(clans[e], e, W)
    BY <2>2, ClanSame
  <2>4. ASSUME NEW q \in Player
        PROVE  NameWith(account[q], q, V) = NameWith(account[q], q, W)
    <3>1. \A v : Naming(v, q) => (v \in V <=> v \in W)
      BY <1>1, <2>1 DEF Naming
    <3> QED
      BY <3>1, NameSame
  <2> QED
    BY <1>1, <1>2, <2>1, <2>3, <2>4 DEF ClanAfter, AccountAfter, SameRoster
<1>3. CASE Waiting' = {}
  <2>1. \A v \in Waiting : \/ v.do \in {"findByMark", "findPlayer"}
                           \/ v.do = "save" /\ DOMAIN v.fields = {"mark"}
    BY <1>1 DEF CalmInv, LooksOnly
  <2>2. ASSUME NEW e \in Name
        PROVE  SameRoster(ClanWith(clans[e], e, Waiting), clans[e])
    <3>1. CASE clans[e] = NoClan \/ \A v \in Waiting : Writing(v) => v.clan # e
      BY <3>1, ClanKept DEF SameRoster
    <3>2. CASE clans[e] # NoClan /\ \E v \in Waiting : Writing(v) /\ v.clan = e
      <4>1. PICK v \in Waiting : Writing(v) /\ v.clan = e
        BY <3>2
      <4>2. v.do = "save" /\ DOMAIN v.fields = {"mark"}
        BY <2>1, <4>1 DEF Writing
      <4>3. \A x \in Waiting : Writing(x) => x = v
        BY <4>1 DEF CalmInv, SerialInv, OneWrite, Writing
      <4>4. ClanWith(clans[e], e, Waiting) = Updated(clans[e], v.fields)
        BY <3>2, <4>1, <4>2, <4>3, ClanSaved
      <4>5. PICK clan \in Document : clan = clans[e]
        BY <3>2, FoundSound DEF CalmInv, SerialInv
      <4>6. Updated(clan, v.fields).members = clan.members
            /\ Updated(clan, v.fields).applicants = clan.applicants
        BY <4>2, UpdatedFields
      <4>7. Updated(clan, v.fields) # NoClan
        <5>1. v \in SoundCall
          BY WaitingTyped DEF CalmInv, SerialInv
        <5>2. clan \in SoundDocument
          BY <3>2, <4>5, FoundSound DEF CalmInv, SerialInv
        <5>3. Updated(clan, v.fields) \in SoundDocument
          BY <4>2, <5>1, <5>2, UpdatedSound
        <5> QED
          BY <5>3, ClansAssumption DEF SoundDocument
      <4> QED
        BY <3>2, <4>4, <4>5, <4>6, <4>7 DEF SameRoster
    <3> QED
      BY <3>1, <3>2
  <2>3. \A e \in Name : ClanWith(clans[e], e, {}) = clans[e]
    BY ClanKept
  <2>4. \A q \in Player : NameWith(account[q], q, {}) = account[q]
    BY NameKept
  <2>5. ASSUME NEW q \in Player
        PROVE  NameWith(account[q], q, Waiting) = account[q]
    <3>1. \A v \in Waiting : ~ Naming(v, q)
      BY <2>1 DEF Naming
    <3> QED
      BY <3>1, NameKept
  <2> QED
    BY <1>1, <1>3, <2>2, <2>3, <2>4, <2>5 DEF ClanAfter, AccountAfter
<1> QED
  BY <1>1, <1>2, <1>3

LEMMA FindingPlayerAfter ==
    ASSUME SerialInv, ClansInv', NEW p \in Player, FindingPlayer(p)
    PROVE  /\ \A e \in Name : ClanAfter(e)' = clans[e] /\ ClanAfter(e) = clans[e]
           /\ \A q \in Player : AccountAfter(q)' = account[q] /\ AccountAfter(q) = account[q]
<1>1. PICK w \in Waiting :
         /\ UNCHANGED <<clans, account, session>>
         /\ w.do = "findPlayer" /\ Waiting = {w}
         /\ Waiting' = {BindPlayer(w.who, account[w.who])}
  BY FindingPlayerDoes
<1>2. PICK v : v = BindPlayer(w.who, account[w.who])
  OBVIOUS
<1>3. v.do = "bindPlayer"
  BY <1>2 DEF BindPlayer
<1>4. PICK W, V : W = {w} /\ V = {v}
  OBVIOUS
<1>5. \A x \in W \cup V : ~ Writing(x) /\ \A q : ~ Naming(x, q)
  BY <1>1, <1>3, <1>4 DEF Writing, Naming
<1>6. \A e \in Name : ClanWith(clans[e], e, W) = clans[e] /\ ClanWith(clans[e], e, V) = clans[e]
  BY <1>5, ClanKept
<1>7. \A q \in Player : NameWith(account[q], q, W) = account[q]
                        /\ NameWith(account[q], q, V) = account[q]
  BY <1>5, NameKept
<1> QED
  BY <1>1, <1>2, <1>4, <1>6, <1>7 DEF ClanAfter, AccountAfter

-----------------------------------------------------------------------------
(***************************************************************************)
(* CalmInv: every step.                                                    *)
(***************************************************************************)
LEMMA BelongsKept ==
    ASSUME BelongsListed,
           \A e \in Name : SameRoster(ClanAfter(e), ClanAfter(e)'),
           \A q \in Player : AccountAfter(q)' = AccountAfter(q)
    PROVE  BelongsListed'
<1> SUFFICES ASSUME NEW q \in Player, AccountAfter(q) # NoName
             PROVE  \E c \in Name : AccountAfter(q) = c /\ ListedAfter(q, c)'
  BY DEF BelongsListed
<1>1. PICK c \in Name : AccountAfter(q) = c /\ ListedAfter(q, c)
  BY DEF BelongsListed
<1>2. ListedAfter(q, c)'
  BY <1>1 DEF ListedAfter, SameRoster
<1> QED
  BY <1>1, <1>2

LEMMA HandlerCalm ==
    ASSUME CalmInv, ClansInv', NEW p \in Player, HandlerStep(p)
    PROVE  /\ CalmInv'
           /\ \A e \in Name : SameRoster(ClanAfter(e), ClanAfter(e)')
           /\ \A q \in Player : AccountAfter(q)' = AccountAfter(q)
<1> SerialInv /\ OneName
  BY DEF CalmInv
<1>1. CASE Saving(p) \/ Deleting(p)
  <2>1. PICK w \in Waiting : /\ Waiting' = Waiting \ {w} /\ SerialInv'
                             /\ UNCHANGED <<account, session>>
                             /\ w.do \in {"save", "delete"}
    BY <1>1, SavingDoes, DeletingDoes
  <2>2. /\ \A e \in Name : ClanAfter(e)' = ClanAfter(e)
        /\ \A q \in Player : AccountAfter(q)' = AccountAfter(q)
    BY <1>1, SavingAfter, DeletingAfter
  <2>3. \A e \in Name : SameRoster(ClanAfter(e), ClanAfter(e)')
    BY <2>2 DEF SameRoster
  <2>4. BelongsListed'
    BY <2>2, <2>3, BelongsKept DEF CalmInv
  <2>5. OneName' /\ LooksOnly'
    BY <2>1 DEF CalmInv, OneName, LooksOnly
  <2>6. \A v \in Waiting' : v.do \in {"setSession", "bindPlayer"} => v.who \in Player
    BY <2>1, WaitingTyped, NextCallNames DEF SerialInv
  <2>7. CopiesFollow'
    <3>1. ASSUME NEW q \in Player, \A v \in Waiting' : v.do = "setSession" => v.who # q
          PROVE  session'[q] \in {Offline, AccountAfter(q)'}
      <4>1. \A v \in Waiting : v.do = "setSession" => v.who # q
        BY <2>1, <3>1
      <4> QED
        BY <2>1, <2>2, <4>1 DEF CalmInv, CopiesFollow
    <3>2. ASSUME NEW v \in Waiting', v.do \in {"setSession", "bindPlayer"}
          PROVE  v.clan = AccountAfter(v.who)'
      <4>1. PICK q \in Player : q = v.who
        BY <2>6, <3>2
      <4>2. v.clan = AccountAfter(q)
        BY <2>1, <3>2, <4>1 DEF CalmInv, CopiesFollow
      <4>3. v.clan = AccountAfter(q)'
        BY <2>2, <4>2
      <4> QED
        BY <4>1, <4>3 DEF AccountAfter
    <3> QED
      BY <3>1, <3>2 DEF CopiesFollow
  <2> QED
    BY <2>1, <2>2, <2>3, <2>4, <2>5, <2>7 DEF CalmInv
<1>2. CASE FindingByMark(p)
  <2>1. PICK w \in Waiting :
           /\ UNCHANGED <<clans, account, session>> /\ w.do = "findByMark" /\ SerialInv'
           /\ Waiting' = Waiting \ {w} \/ Waiting' = {}
    BY <1>2, FindingByMarkDoes
  <2>2. /\ \A e \in Name : SameRoster(ClanAfter(e), ClanAfter(e)')
        /\ \A q \in Player : AccountAfter(q)' = AccountAfter(q)
    BY <1>2, FindingByMarkAfter
  <2>3. BelongsListed'
    BY <2>2, BelongsKept DEF CalmInv
  <2>4. \A v \in Waiting : v.do \in {"findByMark", "findPlayer", "save"}
    BY <2>1 DEF CalmInv, LooksOnly
  <2>5. \A v \in Waiting' : v \in Waiting
    BY <2>1
  <2>6. OneName' /\ LooksOnly'
    BY <2>5 DEF CalmInv, OneName, LooksOnly
  <2>7. CopiesFollow'
    <3>1. \A q \in Player : session[q] \in {Offline, AccountAfter(q)}
      BY <2>4 DEF CalmInv, CopiesFollow
    <3>2. \A q \in Player : session'[q] \in {Offline, AccountAfter(q)'}
      BY <2>1, <2>2, <3>1
    <3>3. \A v \in Waiting' : v.do \notin {"setSession", "bindPlayer"}
      BY <2>4, <2>5
    <3> QED
      BY <3>2, <3>3 DEF CopiesFollow
  <2> QED
    BY <2>1, <2>2, <2>3, <2>6, <2>7 DEF CalmInv
<1>3. CASE FindingPlayer(p)
  <2>1. PICK w \in Waiting :
           /\ UNCHANGED <<clans, account, session>>
           /\ w.do = "findPlayer" /\ Waiting = {w} /\ SerialInv'
           /\ Waiting' = {BindPlayer(w.who, account[w.who])}
    BY <1>3, FindingPlayerDoes
  <2>2. /\ \A e \in Name : ClanAfter(e)' = clans[e] /\ ClanAfter(e) = clans[e]
        /\ \A q \in Player : AccountAfter(q)' = account[q] /\ AccountAfter(q) = account[q]
    BY <1>3, FindingPlayerAfter
  <2>3. \A e \in Name : SameRoster(ClanAfter(e), ClanAfter(e)')
    BY <2>2 DEF SameRoster
  <2>4. BelongsListed'
    BY <2>2, <2>3, BelongsKept DEF CalmInv
  <2>5. PICK who \in Player : who = w.who
    <3>1. w \in SoundCall
      BY WaitingTyped DEF SerialInv
    <3>2. w \in [do : {"findPlayer"}, who : Player]
      BY <2>1, <3>1 DEF SoundCall, Call
    <3> QED
      BY <3>2
  <2>6. PICK v : v = BindPlayer(who, account[who])
    OBVIOUS
  <2>7. v.do = "bindPlayer" /\ v.who = who /\ v.clan = account[who] /\ Waiting' = {v}
    BY <2>1, <2>5, <2>6 DEF BindPlayer
  <2>8. OneName' /\ LooksOnly'
    BY <2>7 DEF OneName, LooksOnly
  <2>9. CopiesFollow'
    <3>1. \A q \in Player : session[q] \in {Offline, AccountAfter(q)}
      BY <2>1 DEF CalmInv, CopiesFollow
    <3>2. \A q \in Player : session'[q] \in {Offline, AccountAfter(q)'}
      BY <2>1, <2>2, <3>1
    <3>3. v.clan = AccountAfter(who)'
      BY <2>2, <2>7
    <3>4. v.clan = AccountAfter(v.who)'
      BY <2>7, <3>3 DEF AccountAfter
    <3> QED
      BY <2>7, <3>2, <3>4 DEF CopiesFollow
  <2> QED
    BY <2>1, <2>2, <2>3, <2>4, <2>8, <2>9 DEF CalmInv
<1>4. CASE SettingClanName(p) \/ SettingSession(p) \/ Binding(p)
  <2>1. PICK w \in Waiting :
           /\ w.who \in Player /\ clans' = clans /\ Waiting' = Waiting \ {w} /\ SerialInv'
           /\ \/ w.do = "setClanName" /\ session' = session
              \/ /\ w.do = "setSession"
                 /\ session' = IF session[w.who] = Offline THEN session
                               ELSE [session EXCEPT ![w.who] = w.clan]
              \/ w.do = "bindPlayer" /\ session' = [session EXCEPT ![w.who] = w.clan]
    BY <1>4, NamingDoes
  <2>2. /\ \A e \in Name : ClanAfter(e)' = ClanAfter(e)
        /\ \A q \in Player : AccountAfter(q)' = AccountAfter(q)
    BY <1>4, NamingAfter
  <2>3. \A e \in Name : SameRoster(ClanAfter(e), ClanAfter(e)')
    BY <2>2 DEF SameRoster
  <2>4. BelongsListed'
    BY <2>2, <2>3, BelongsKept DEF CalmInv
  <2>5. OneName' /\ LooksOnly'
    BY <2>1 DEF CalmInv, OneName, LooksOnly
  <2>6. CopiesFollow'
    <3>1. ASSUME NEW q \in Player, \A v \in Waiting' : v.do = "setSession" => v.who # q
          PROVE  session'[q] \in {Offline, AccountAfter(q)}
      <4>1. CASE w.do \in {"setSession", "bindPlayer"} /\ w.who = q
        <5>1. w.clan = AccountAfter(q)
          BY <4>1 DEF CalmInv, CopiesFollow
        <5>2. session'[q] = w.clan \/ session'[q] = Offline
          BY <2>1, <4>1 DEF SerialInv, ClansInv
        <5> QED
          BY <5>1, <5>2
      <4>2. CASE ~ (w.do \in {"setSession", "bindPlayer"} /\ w.who = q)
        <5>1. \A v \in Waiting : v.do = "setSession" => v.who # q
          BY <2>1, <3>1, <4>2
        <5>2. session[q] \in {Offline, AccountAfter(q)}
          BY <5>1 DEF CalmInv, CopiesFollow
        <5>3. session'[q] = session[q]
          BY <2>1, <4>2 DEF SerialInv, ClansInv
        <5> QED
          BY <5>2, <5>3
      <4> QED
        BY <4>1, <4>2
    <3>2. ASSUME NEW v \in Waiting', v.do \in {"setSession", "bindPlayer"}
          PROVE  v.clan = AccountAfter(v.who)'
      <4>1. PICK q \in Player : q = v.who
        BY <2>1, <3>2, WaitingTyped, NextCallNames DEF SerialInv
      <4>2. v.clan = AccountAfter(q)
        BY <2>1, <3>2, <4>1 DEF CalmInv, CopiesFollow
      <4>3. v.clan = AccountAfter(q)'
        BY <2>2, <4>2
      <4> QED
        BY <4>1, <4>3 DEF AccountAfter
    <3>3. \A q \in Player : (\A v \in Waiting' : v.do = "setSession" => v.who # q)
             => session'[q] \in {Offline, AccountAfter(q)'}
      BY <2>2, <3>1
    <3> QED
      BY <3>2, <3>3 DEF CopiesFollow
  <2> QED
    BY <2>1, <2>2, <2>3, <2>4, <2>5, <2>6 DEF CalmInv
<1> QED
  BY <1>1, <1>2, <1>3, <1>4 DEF HandlerStep

LEMMA SavesOnlyCalm ==
    ASSUME CalmInv, ClansInv', MaxOverlap = 1, NEW p \in Player, NEW c \in Name,
           clans[c] # NoClan, NEW f, SavesOnly(p, c, f),
           People(Updated(clans[c], f).members) = People(clans[c].members)
    PROVE  CalmInv'
BY SaveCalm DEF SavesOnly

LEMMA SavesAndNamesCalm ==
    ASSUME CalmInv, ClansInv', MaxOverlap = 1, NEW p \in Player, NEW c \in Name,
           clans[c] # NoClan, NEW f, NEW q \in Player, NEW d, SavesAndNames(p, c, f, q, d),
           d = NoName \/ (d = c /\ q \in People(Updated(clans[c], f).members)),
           People(clans[c].members) \ {q} \subseteq People(Updated(clans[c], f).members)
    PROVE  CalmInv'
BY SaveNameCalm DEF SavesAndNames

LEMMA RequestCalm ==
    ASSUME CalmInv, ClansInv', MaxOverlap = 1, MaxGivenID <= MaxRowID,
           NEW p \in Player, NEW c \in Name, Request(p, c)
    PROVE  CalmInv'
<1> SerialInv
  BY DEF CalmInv
<1>1. CASE \E mark \in Mark : Create(p, c, mark)
  BY <1>1, CreateCalm
<1>2. CASE clans[c] # NoClan /\ RequestJoin(p, c)
  BY <1>2, RequestJoinDoes, SavesOnlyCalm
<1>3. CASE clans[c] # NoClan /\ (CancelApplication(p, c)
              \/ \E id \in IDs(clans[c].applicants) : RejectApplication(p, c, id))
  BY <1>3, WithdrawDoes, SavesOnlyCalm
<1>4. CASE clans[c] # NoClan /\ (Leave(p, c)
              \/ \E id \in IDs(clans[c].members) : KickMember(p, c, id))
  BY <1>4, DepartureDoes, SavesAndNamesCalm
<1>5. CASE clans[c] # NoClan /\ Disband(p, c)
  BY <1>5, DisbandCalm
<1>6. CASE clans[c] # NoClan /\ \E mark \in Mark : ChangeMark(p, c, mark)
  BY <1>6, ChangeMarkCalm
<1>7. CASE clans[c] # NoClan /\ \E id \in IDs(clans[c].applicants) : AcceptApplication(p, c, id)
  <2>1. PICK f : \E q \in Player :
              /\ SavesAndNames(p, c, f, q, c)
              /\ People(Updated(clans[c], f).members) = People(clans[c].members) \cup {q}
    BY <1>7, AcceptDoes
  <2>2. PICK q \in Player :
              /\ SavesAndNames(p, c, f, q, c)
              /\ People(Updated(clans[c], f).members) = People(clans[c].members) \cup {q}
    BY <2>1
  <2>3. /\ q \in People(Updated(clans[c], f).members)
        /\ People(clans[c].members) \ {q} \subseteq People(Updated(clans[c], f).members)
    BY <2>2
  <2> QED
    BY <1>7, <2>2, <2>3, SavesAndNamesCalm
<1>8. CASE clans[c] # NoClan /\ \E id \in IDs(clans[c].members) : ChangeMaster(p, c, id)
  BY <1>8, HandOverDoes, SavesOnlyCalm
<1>9. CASE clans[c] # NoClan /\ \E id \in IDs(clans[c].members) :
              \E rank \in AskedRanks : ChangePosition(p, c, id, rank)
  BY <1>9, PositionDoes, SavesOnlyCalm
<1> QED
  BY <1>1, <1>2, <1>3, <1>4, <1>5, <1>6, <1>7, <1>8, <1>9 DEF Request

\* A session that ends, and a step that leaves everything alone.
LEMMA StillCalm ==
    ASSUME CalmInv, SerialInv', UNCHANGED <<clans, account, todo>>,
           \A q \in Player : session'[q] \in {Offline, session[q]}
    PROVE  CalmInv'
<1>1. Waiting' = Waiting
  BY DEF Waiting
<1>2. /\ \A e \in Name : ClanAfter(e)' = ClanAfter(e)
      /\ \A q \in Player : AccountAfter(q)' = AccountAfter(q)
  BY <1>1 DEF ClanAfter, AccountAfter
<1>3. BelongsListed'
  BY <1>2, BelongsKept DEF CalmInv, SameRoster
<1>4. OneName' /\ LooksOnly'
  BY <1>1 DEF CalmInv, OneName, LooksOnly
<1>5. ASSUME NEW q \in Player, \A w \in Waiting : w.do = "setSession" => w.who # q
      PROVE  session'[q] \in {Offline, AccountAfter(q)'}
  BY <1>2, <1>5 DEF CalmInv, CopiesFollow
<1>6. ASSUME NEW v \in Waiting, v.do \in {"setSession", "bindPlayer"}
      PROVE  v.clan = AccountAfter(v.who)'
  <2>1. PICK q \in Player : q = v.who
    BY <1>6, WaitingTyped, NextCallNames DEF CalmInv, SerialInv
  <2>2. v.clan = AccountAfter(q)
    BY <1>6, <2>1 DEF CalmInv, CopiesFollow
  <2>3. v.clan = AccountAfter(q)'
    BY <1>2, <2>2
  <2> QED
    BY <2>1, <2>3 DEF AccountAfter
<1>7. CopiesFollow'
  BY <1>1, <1>5, <1>6 DEF CopiesFollow
<1> QED
  BY <1>3, <1>4, <1>7 DEF CalmInv

LEMMA NextCalm ==
    ASSUME CalmInv, MaxOverlap = 1, MaxGivenID <= MaxRowID,
           Disruption \subseteq {"logout"}, [Next]_vars
    PROVE  CalmInv'
<1>0. ClansInv' /\ SerialInv'
  BY NextInv, NextSerial DEF CalmInv, SerialInv
<1>1. CASE \E p \in Player : Login(p)
  BY <1>0, <1>1, LoginCalm
<1>2. CASE \E p \in Player : Logout(p)
  <2>1. UNCHANGED <<clans, account, todo>> /\ \A q \in Player : session'[q] \in {Offline, session[q]}
    BY <1>2 DEF Logout, CalmInv, SerialInv, ClansInv
  <2> QED
    BY <1>0, <2>1, StillCalm
<1>3. CASE \E p \in Player : \E c \in Name : Request(p, c)
  BY <1>0, <1>3, RequestCalm
<1>4. CASE \E p \in Player : HandlerStep(p)
  BY <1>0, <1>4, HandlerCalm
<1>5. CASE (\E p \in Player : Fail(p)) \/ Crash
  BY <1>5 DEF Fail, Crash
<1>6. CASE UNCHANGED vars
  <2>1. UNCHANGED <<clans, account, todo>> /\ \A q \in Player : session'[q] \in {Offline, session[q]}
    BY <1>6 DEF vars
  <2> QED
    BY <1>0, <2>1, StillCalm
<1> QED
  BY <1>1, <1>2, <1>3, <1>4, <1>5, <1>6 DEF Next

LEMMA InitCalm == ASSUME Init PROVE CalmInv
<1>1. SerialInv
  BY InitSerial
<1>2. Waiting = {}
  BY DEF Init, Waiting, Range
<1>3. \A q \in Player : AccountAfter(q) = NoName
  BY <1>2, NothingWaits DEF Init
<1>4. OneName /\ LooksOnly /\ BelongsListed /\ CopiesFollow
  BY <1>2, <1>3 DEF Init, OneName, LooksOnly, BelongsListed, CopiesFollow
<1> QED
  BY <1>1, <1>4 DEF CalmInv

(***************************************************************************)
(* CalmInv holds always while one request at a time is served, no call     *)
(* fails and the server stays up, wherever the logouts fall: what an       *)
(* account will name lists the player, and a session follows the account.  *)
(***************************************************************************)
THEOREM CalmInvariant ==
    ASSUME MaxOverlap = 1, MaxGivenID <= MaxRowID, Disruption \subseteq {"logout"}
    PROVE  Spec => []CalmInv
<1>1. Init => CalmInv
  BY InitCalm
<1>2. CalmInv /\ [Next]_vars => CalmInv'
  BY NextCalm
<1> QED
  BY <1>1, <1>2, PTL DEF Spec

(***************************************************************************)
(* MembershipAgrees: between requests an account names a clan that lists   *)
(* the player, or none, and the copy in the session names the same.        *)
(***************************************************************************)
THEOREM MembershipAlwaysAgrees ==
    ASSUME MaxOverlap = 1, MaxGivenID <= MaxRowID, Disruption \subseteq {"logout"}
    PROVE  Spec => []MembershipAgrees
<1>1. CalmInv => MembershipAgrees
  <2> SUFFICES ASSUME CalmInv, Quiet, NEW p \in Player
               PROVE  /\ account[p] # NoName => Listed(p, account[p])
                      /\ session[p] \in {Offline, account[p]}
    BY DEF MembershipAgrees
  <2>1. Waiting = {}
    BY DEF Quiet, Waiting, Range
  <2> QED
    BY <2>1, CalmQuiet DEF Listed
<1> QED
  BY <1>1, CalmInvariant, PTL

-----------------------------------------------------------------------------
(***************************************************************************)
(* ImplementsRules: the four variables of ClanRules, as functions of the   *)
(* state, and what a step of Clans makes of them.                          *)
(***************************************************************************)
Founded   == {c \in Name : ClanAfter(c) # NoClan}
Ranked    == [c \in Name |-> RanksIn(ClanAfter(c))]
Queued    == [c \in Name |-> Queue(ClanAfter(c))]
Belonging == [p \in Player |-> AccountAfter(p)]

LEMMA OneClanMoves ==
    ASSUME NEW c \in Name, NEW d, ClanAfter(c)' = d,
           \A e \in Name \ {c} : ClanAfter(e)' = ClanAfter(e)
    PROVE  /\ d # NoClan => Founded' = Founded \cup {c}
           /\ d = NoClan => Founded' = Founded \ {c}
           /\ Ranked' = [Ranked EXCEPT ![c] = RanksIn(d)]
           /\ Queued' = [Queued EXCEPT ![c] = Queue(d)]
<1>1. \A e \in Name : ClanAfter(e)' = IF e = c THEN d ELSE ClanAfter(e)
  OBVIOUS
<1>2. d # NoClan => Founded' = Founded \cup {c}
  BY <1>1 DEF Founded
<1>3. d = NoClan => Founded' = Founded \ {c}
  BY <1>1 DEF Founded
<1>4. Ranked' = [e \in Name |-> RanksIn(ClanAfter(e)')]
  BY DEF Ranked
<1>5. Ranked' = [Ranked EXCEPT ![c] = RanksIn(d)]
  BY <1>1, <1>4 DEF Ranked
<1>6. Queued' = [e \in Name |-> Queue(ClanAfter(e)')]
  BY DEF Queued
<1>7. Queued' = [Queued EXCEPT ![c] = Queue(d)]
  BY <1>1, <1>6 DEF Queued
<1> QED
  BY <1>2, <1>3, <1>5, <1>7

LEMMA OneNameMoves ==
    ASSUME NEW p \in Player, NEW d, AccountAfter(p)' = d,
           \A q \in Player \ {p} : AccountAfter(q)' = AccountAfter(q)
    PROVE  Belonging' = [Belonging EXCEPT ![p] = d]
BY DEF Belonging

LEMMA NoNameMoves ==
    ASSUME \A q \in Player : AccountAfter(q)' = AccountAfter(q)
    PROVE  Belonging' = Belonging
BY DEF Belonging

LEMMA QuietMapped ==
    ASSUME Waiting = {}
    PROVE  /\ \A e \in Name : /\ e \in Founded <=> clans[e] # NoClan
                              /\ Ranked[e] = RanksIn(clans[e])
                              /\ Queued[e] = Queue(clans[e])
                              /\ ClanAfter(e) = clans[e]
           /\ \A q \in Player : Belonging[q] = account[q] /\ AccountAfter(q) = account[q]
BY NothingWaits DEF Founded, Ranked, Queued, Belonging

LEMMA RanksKnown ==
    ASSUME NEW clan, clan # NoClan
    PROVE  RanksIn(clan) = [p \in Player |-> IF p \in People(clan.members)
                                             THEN RowOf(clan.members, p).rank ELSE 0]
BY DEF RanksIn

\* A roster that stays keeps the ranks and the queue.
LEMMA RosterStays ==
    ASSUME \A e \in Name : SameRoster(ClanAfter(e), ClanAfter(e)'),
           \A q \in Player : AccountAfter(q)' = AccountAfter(q)
    PROVE  UNCHANGED Rules!rules
<1>1. \A a, b : SameRoster(a, b) => RanksIn(a) = RanksIn(b) /\ Queue(a) = Queue(b)
  <2> SUFFICES ASSUME NEW a, NEW b, SameRoster(a, b)
               PROVE  RanksIn(a) = RanksIn(b) /\ Queue(a) = Queue(b)
    OBVIOUS
  <2> QED
    BY DEF SameRoster, RanksIn, Queue
<1>2. Founded' = Founded
  BY DEF Founded, SameRoster
<1>3. \A e \in Name : /\ RanksIn(ClanAfter(e)') = RanksIn(ClanAfter(e))
                      /\ Queue(ClanAfter(e)') = Queue(ClanAfter(e))
  BY <1>1
<1>4. Ranked' = [e \in Name |-> RanksIn(ClanAfter(e)')]
  BY DEF Ranked
<1>5. Queued' = [e \in Name |-> Queue(ClanAfter(e)')]
  BY DEF Queued
<1>6. Ranked' = Ranked /\ Queued' = Queued /\ Belonging' = Belonging
  BY <1>3, <1>4, <1>5 DEF Ranked, Queued, Belonging
<1> QED
  BY <1>2, <1>6 DEF Rules!rules, Founded, Ranked, Queued, Belonging

(***************************************************************************)
(* actorClan: who acts holds the rank in the clan the account belongs to.  *)
(***************************************************************************)
LEMMA ActorHolds ==
    ASSUME CalmInv, Waiting = {}, NEW p \in Player, NEW c \in Name, NEW ranks,
           ActorWith(p, c, ranks)
    PROVE  /\ Rules!Holds(p, c, ranks) /\ Belonging[p] = c
           /\ clans[c] # NoClan /\ p \in People(clans[c].members)
           /\ RowOf(clans[c].members, p).rank \in ranks
<1>1. account[p] = c
  BY CalmQuiet, ClansAssumption DEF ActorWith, Asks
<1>2. clans[c] # NoClan /\ p \in People(clans[c].members) /\ RowOf(clans[c].members, p).rank \in ranks
  BY DEF ActorWith
<1>3. Ranked[c][p] = RowOf(clans[c].members, p).rank /\ Belonging[p] = c
  BY <1>1, <1>2, QuietMapped, RanksKnown
<1> QED
  BY <1>2, <1>3 DEF Rules!Holds, Ranked, Belonging

LEMMA CreateRules ==
    ASSUME CalmInv, ClansInv', MaxOverlap = 1, NEW p \in Player, NEW c \in Name,
           NEW mark \in Mark, Create(p, c, mark)
    PROVE  Rules!Create(p, c)
<1>1. PICK W : W = {SetClanName(p, c), SetSession(p, c)}
  OBVIOUS
<1>2. /\ Waiting = {} /\ Waiting' = W
      /\ clans[c] = NoClan /\ clans'[c] = NewClan(p, mark)
      /\ \A d \in Name \ {c} : clans'[d] = clans[d]
      /\ UNCHANGED <<account, session>>
  BY <1>1, CreateDoes DEF CalmInv
<1>3. /\ SetClanName(p, c).do = "setClanName" /\ SetClanName(p, c).who = p
      /\ SetClanName(p, c).clan = c /\ SetSession(p, c).do = "setSession"
  BY DEF SetClanName, SetSession
<1>4. \A e \in Name : ClanWith(clans'[e], e, W) = clans'[e]
  BY <1>1, <1>3, ClanKept DEF Writing
<1>5. \A e \in Name : ClanAfter(e)' = clans'[e]
  BY <1>2, <1>4 DEF ClanAfter
<1>6. /\ SetClanName(p, c) \in W /\ \A v \in W : \A x : Naming(v, x) => v = SetClanName(p, c) /\ x = p
      /\ Naming(SetClanName(p, c), p)
  BY <1>1, <1>3 DEF Naming
<1>7. NameWith(account[p], p, W) = c
  BY <1>3, <1>6, NameTold
<1>8. \A x \in Player \ {p} : NameWith(account[x], x, W) = account[x]
  BY <1>6, NameKept
<1>9. AccountAfter(p)' = c /\ \A x \in Player \ {p} : AccountAfter(x)' = account[x]
  BY <1>2, <1>7, <1>8 DEF AccountAfter
<1>10. PICK d : /\ d = NewClan(p, mark) /\ d # NoClan
                /\ People(d.members) = {p} /\ People(d.applicants) = {}
                /\ RowOf(d.members, p).rank = Master
  BY NewClanGood
<1>11. RanksIn(d) = [[q \in Player |-> 0] EXCEPT ![p] = Master]
  BY <1>10, RanksKnown
<1>12. Queue(d) = {}
  BY <1>10 DEF Queue
<1>13. /\ Founded' = Founded \cup {c} /\ c \notin Founded
       /\ Ranked' = [Ranked EXCEPT ![c] = [[q \in Player |-> 0] EXCEPT ![p] = Master]]
       /\ Queued' = [Queued EXCEPT ![c] = {}]
  BY <1>2, <1>5, <1>10, <1>11, <1>12, QuietMapped, OneClanMoves
<1>14. Belonging' = [Belonging EXCEPT ![p] = c]
  BY <1>2, <1>9, QuietMapped, OneNameMoves
<1> QED
  BY <1>13, <1>14 DEF Rules!Create, Rules!Nobody, Rules!None, Founded, Ranked, Queued, Belonging

\* What the two kinds of requests that save a clan make of the mapping.
LEMMA SavesOnlyMoves ==
    ASSUME SerialInv, ClansInv', MaxOverlap = 1, NEW p \in Player, NEW c \in Name,
           clans[c] # NoClan, NEW f, SavesOnly(p, c, f)
    PROVE  /\ Waiting = {} /\ Updated(clans[c], f) # NoClan
           /\ Founded' = Founded /\ c \in Founded /\ Belonging' = Belonging
           /\ Ranked' = [Ranked EXCEPT ![c] = RanksIn(Updated(clans[c], f))]
           /\ Queued' = [Queued EXCEPT ![c] = People(Updated(clans[c], f).applicants)]
<1>1. PICK d : d = Updated(clans[c], f)
  OBVIOUS
<1>2. /\ Waiting = {} /\ d # NoClan /\ ClanAfter(c)' = d
      /\ \A e \in Name \ {c} : ClanAfter(e)' = clans[e]
      /\ \A q \in Player : AccountAfter(q)' = account[q]
  BY <1>1, SaveBegun DEF SavesOnly
<1>3. c \in Founded /\ \A e \in Name \ {c} : ClanAfter(e)' = ClanAfter(e)
  BY <1>2, QuietMapped
<1>4. /\ Founded' = Founded \cup {c}
      /\ Ranked' = [Ranked EXCEPT ![c] = RanksIn(d)]
      /\ Queued' = [Queued EXCEPT ![c] = Queue(d)]
  BY <1>2, <1>3, OneClanMoves
<1>5. Belonging' = Belonging
  BY <1>2, QuietMapped, NoNameMoves
<1>6. Queue(d) = People(d.applicants)
  BY <1>2 DEF Queue
<1>7. Founded' = Founded
  BY <1>3, <1>4
<1> QED
  BY <1>1, <1>2, <1>3, <1>4, <1>5, <1>6, <1>7

LEMMA SavesAndNamesMoves ==
    ASSUME SerialInv, ClansInv', MaxOverlap = 1, NEW p \in Player, NEW c \in Name,
           clans[c] # NoClan, NEW f, NEW q \in Player, NEW n, SavesAndNames(p, c, f, q, n)
    PROVE  /\ Waiting = {} /\ Updated(clans[c], f) # NoClan
           /\ Founded' = Founded /\ c \in Founded
           /\ Belonging' = [Belonging EXCEPT ![q] = n]
           /\ Ranked' = [Ranked EXCEPT ![c] = RanksIn(Updated(clans[c], f))]
           /\ Queued' = [Queued EXCEPT ![c] = People(Updated(clans[c], f).applicants)]
<1>1. PICK d : d = Updated(clans[c], f)
  OBVIOUS
<1>2. /\ Waiting = {} /\ d # NoClan /\ ClanAfter(c)' = d
      /\ \A e \in Name \ {c} : ClanAfter(e)' = clans[e]
      /\ AccountAfter(q)' = n
      /\ \A x \in Player \ {q} : AccountAfter(x)' = account[x]
  BY <1>1, SaveNameBegun DEF SavesAndNames
<1>3. c \in Founded /\ \A e \in Name \ {c} : ClanAfter(e)' = ClanAfter(e)
  BY <1>2, QuietMapped
<1>4. /\ Founded' = Founded \cup {c}
      /\ Ranked' = [Ranked EXCEPT ![c] = RanksIn(d)]
      /\ Queued' = [Queued EXCEPT ![c] = Queue(d)]
  BY <1>2, <1>3, OneClanMoves
<1>5. Belonging' = [Belonging EXCEPT ![q] = n]
  BY <1>2, QuietMapped, OneNameMoves
<1>6. Queue(d) = People(d.applicants)
  BY <1>2 DEF Queue
<1>7. Founded' = Founded
  BY <1>3, <1>4
<1> QED
  BY <1>1, <1>2, <1>3, <1>4, <1>5, <1>6, <1>7

\* The ranks and the queue of a clan while nothing waits.
LEMMA ClanMapped ==
    ASSUME SerialInv, Waiting = {}, NEW c \in Name, clans[c] # NoClan
    PROVE  /\ Queued[c] = People(clans[c].applicants)
           /\ Ranked[c] = [x \in Player |-> IF x \in People(clans[c].members)
                                            THEN RowOf(clans[c].members, x).rank ELSE 0]
           /\ People(clans[c].members) \subseteq Player
           /\ \A x \in People(clans[c].members) : RowOf(clans[c].members, x).rank \in Ranks
           /\ {x \in Player : Ranked[c][x] # 0} = People(clans[c].members)
           /\ People(clans[c].members) \cap People(clans[c].applicants) = {}
<1>1. /\ Queued[c] = People(clans[c].applicants)
      /\ Ranked[c] = [x \in Player |-> IF x \in People(clans[c].members)
                                       THEN RowOf(clans[c].members, x).rank ELSE 0]
  BY QuietMapped, RanksKnown DEF Queue
<1>2. /\ People(clans[c].members) \subseteq Player
      /\ \A x \in People(clans[c].members) : RowOf(clans[c].members, x).rank \in Ranks
  BY MemberRow DEF People, Row
<1>3. 0 \notin Ranks
  BY DEF Ranks, Master, Manager, Member, Associate
<1>4. {x \in Player : Ranked[c][x] # 0} = People(clans[c].members)
  BY <1>1, <1>2, <1>3
<1>5. People(clans[c].members) \cap People(clans[c].applicants) = {}
  BY DEF SerialInv, GoodSaved, GoodClan, GoodSlices
<1> QED
  BY <1>1, <1>2, <1>4, <1>5

LEMMA ApplyRules ==
    ASSUME CalmInv, ClansInv', MaxOverlap = 1, MaxGivenID <= MaxRowID,
           NEW p \in Player, NEW c \in Name, RequestJoin(p, c)
    PROVE  Rules!Apply(p, c)
<1> SerialInv
  BY DEF CalmInv
<1>1. clans[c] # NoClan /\ p \notin People(clans[c].members) /\ session[p] = NoName
  BY DEF RequestJoin, Asks
<1>2. PICK f : /\ SavesOnly(p, c, f)
               /\ Updated(clans[c], f).members = clans[c].members
               /\ People(Updated(clans[c], f).applicants) = People(clans[c].applicants) \cup {p}
  BY RequestJoinDoes
<1>3. /\ Waiting = {} /\ Updated(clans[c], f) # NoClan
      /\ Founded' = Founded /\ c \in Founded /\ Belonging' = Belonging
      /\ Ranked' = [Ranked EXCEPT ![c] = RanksIn(Updated(clans[c], f))]
      /\ Queued' = [Queued EXCEPT ![c] = People(Updated(clans[c], f).applicants)]
  BY <1>1, <1>2, SavesOnlyMoves
<1>4. RanksIn(Updated(clans[c], f)) = RanksIn(clans[c])
  BY <1>1, <1>2, <1>3, RanksKnown
<1>5. Ranked' = Ranked
  BY <1>3, <1>4, QuietMapped DEF Ranked
<1>6. Ranked[c][p] = 0 /\ Queued' = [Queued EXCEPT ![c] = @ \cup {p}]
  BY <1>1, <1>2, <1>3, ClanMapped
<1>7. Belonging[p] = NoName
  BY <1>1, <1>3, CalmQuiet, QuietMapped, ClansAssumption
<1> QED
  BY <1>3, <1>5, <1>6, <1>7 DEF Rules!Apply, Rules!None, Founded, Ranked, Queued, Belonging

LEMMA WithdrawRules ==
    ASSUME CalmInv, ClansInv', MaxOverlap = 1, NEW p \in Player, NEW c \in Name, clans[c] # NoClan,
           CancelApplication(p, c)
           \/ \E id \in IDs(clans[c].applicants) : RejectApplication(p, c, id)
    PROVE  Rules!Withdraw(p, c) \/ (Belonging[p] = c /\ \E q \in Player : Rules!Reject(p, q, c))
<1> SerialInv
  BY DEF CalmInv
<1>1. PICK f : \E q \in People(clans[c].applicants) :
              /\ SavesOnly(p, c, f)
              /\ Updated(clans[c], f).members = clans[c].members
              /\ People(Updated(clans[c], f).applicants) = People(clans[c].applicants) \ {q}
              /\ CancelApplication(p, c) => q = p
  BY WithdrawDoes
<1>2. PICK q \in People(clans[c].applicants) :
              /\ SavesOnly(p, c, f)
              /\ Updated(clans[c], f).members = clans[c].members
              /\ People(Updated(clans[c], f).applicants) = People(clans[c].applicants) \ {q}
              /\ CancelApplication(p, c) => q = p
  BY <1>1
<1>3. /\ Waiting = {} /\ Updated(clans[c], f) # NoClan
      /\ Founded' = Founded /\ c \in Founded /\ Belonging' = Belonging
      /\ Ranked' = [Ranked EXCEPT ![c] = RanksIn(Updated(clans[c], f))]
      /\ Queued' = [Queued EXCEPT ![c] = People(Updated(clans[c], f).applicants)]
  BY <1>2, SavesOnlyMoves
<1>4. RanksIn(Updated(clans[c], f)) = RanksIn(clans[c])
  BY <1>2, <1>3, RanksKnown
<1>5. Ranked' = Ranked
  BY <1>3, <1>4, QuietMapped DEF Ranked
<1>6. Queued' = [Queued EXCEPT ![c] = @ \ {q}] /\ q \in Queued[c]
  BY <1>2, <1>3, ClanMapped
<1>7. Rules!Withdraw(q, c)
  BY <1>3, <1>5, <1>6 DEF Rules!Withdraw, Founded, Ranked, Queued, Belonging
<1>8. q \in Player
  BY <1>2, FoundSound, ApplicantPeople DEF SerialInv
<1>9. CASE CancelApplication(p, c)
  BY <1>2, <1>7, <1>9
<1>10. CASE \E id \in IDs(clans[c].applicants) : RejectApplication(p, c, id)
  <2>1. ActorWith(p, c, Reviewers)
    BY <1>10 DEF RejectApplication
  <2>2. Rules!Holds(p, c, Reviewers) /\ Belonging[p] = c
    BY <1>3, <2>1, ActorHolds
  <2>3. Rules!Reject(p, q, c)
    BY <1>7, <2>2 DEF Rules!Reject, Reviewers
  <2> QED
    BY <1>8, <2>2, <2>3
<1> QED
  BY <1>9, <1>10

\* No more people than rows.
LEMMA PeopleFew ==
    ASSUME NEW R, NEW u \in Seq(R)
    PROVE  IsFiniteSet(People(u)) /\ Cardinality(People(u)) \in Nat
           /\ Cardinality(People(u)) <= Len(u)
<1>1. PICK S, T : S = 1 .. Len(u) /\ T = People(u)
  OBVIOUS
<1>2. IsFiniteSet(S) /\ Cardinality(S) = Len(u)
  <2>1. Len(u) \in Nat
    BY LenProperties
  <2>2. PICK n \in Nat : n = Len(u)
    BY <2>1
  <2>3. IsFiniteSet(1 .. n) /\ Cardinality(1 .. n) = IF 1 > n THEN 0 ELSE n - 1 + 1
    BY ONLY n \in Nat, FS_Interval
  <2>4. Cardinality(1 .. n) = n
    BY <2>2, <2>3
  <2> QED
    BY <1>1, <2>2, <2>3, <2>4
<1>3. PICK f : f = [i \in S |-> u[i].who]
  OBVIOUS
<1>4. DOMAIN u = S
  BY <1>1, LenProperties
<1>5. f \in Surjection(S, T)
  BY <1>1, <1>3, <1>4 DEF Surjection, People
<1>6. IsFiniteSet(T) /\ Cardinality(T) <= Cardinality(S)
  BY <1>2, <1>5, FS_Surjection
<1> QED
  BY <1>1, <1>2, <1>6, FS_CardinalityType

\* A save that gives one player another rank.
LEMMA OneRankMoves ==
    ASSUME NEW c \in Name, NEW d, NEW q \in Player, NEW r,
           RanksIn(d)[q] = r, \A x \in Player \ {q} : RanksIn(d)[x] = RanksIn(ClanAfter(c))[x]
    PROVE  RanksIn(d) = [Ranked[c] EXCEPT ![q] = r]
<1>1. Ranked[c] = RanksIn(ClanAfter(c))
  BY DEF Ranked
<1>2. RanksIn(d) = [RanksIn(ClanAfter(c)) EXCEPT ![q] = r]
  BY DEF RanksIn
<1> QED
  BY <1>1, <1>2

LEMMA AcceptRules ==
    ASSUME CalmInv, ClansInv', MaxOverlap = 1, NEW p \in Player, NEW c \in Name, clans[c] # NoClan,
           NEW id \in IDs(clans[c].applicants), AcceptApplication(p, c, id)
    PROVE  Belonging[p] = c /\ \E q \in Player : Rules!Accept(p, q, c)
<1> SerialInv
  BY DEF CalmInv
<1>1. PICK f : \E q \in Player :
              /\ SavesAndNames(p, c, f, q, c)
              /\ q \in People(clans[c].applicants)
              /\ People(Updated(clans[c], f).members) = People(clans[c].members) \cup {q}
              /\ People(Updated(clans[c], f).applicants) = People(clans[c].applicants) \ {q}
              /\ \A x \in People(clans[c].members) :
                    RowOf(Updated(clans[c], f).members, x) = RowOf(clans[c].members, x)
              /\ RowOf(Updated(clans[c], f).members, q).rank = Member
  BY AcceptDoes
<1>2. PICK q \in Player :
              /\ SavesAndNames(p, c, f, q, c)
              /\ q \in People(clans[c].applicants)
              /\ People(Updated(clans[c], f).members) = People(clans[c].members) \cup {q}
              /\ People(Updated(clans[c], f).applicants) = People(clans[c].applicants) \ {q}
              /\ \A x \in People(clans[c].members) :
                    RowOf(Updated(clans[c], f).members, x) = RowOf(clans[c].members, x)
              /\ RowOf(Updated(clans[c], f).members, q).rank = Member
  BY <1>1
<1>3. /\ Waiting = {} /\ Updated(clans[c], f) # NoClan
      /\ Founded' = Founded /\ Belonging' = [Belonging EXCEPT ![q] = c]
      /\ Ranked' = [Ranked EXCEPT ![c] = RanksIn(Updated(clans[c], f))]
      /\ Queued' = [Queued EXCEPT ![c] = People(Updated(clans[c], f).applicants)]
  BY <1>2, SavesAndNamesMoves
<1>4. Rules!Holds(p, c, Reviewers) /\ Belonging[p] = c
  BY <1>3, ActorHolds DEF AcceptApplication
<1>5. PICK d : d = Updated(clans[c], f)
  OBVIOUS
<1>6. Ranked' = [Ranked EXCEPT ![c][q] = Member]
  <2>1. /\ RanksIn(d) = [x \in Player |-> IF x \in People(d.members)
                                           THEN RowOf(d.members, x).rank ELSE 0]
        /\ RanksIn(clans[c]) = [x \in Player |-> IF x \in People(clans[c].members)
                                                  THEN RowOf(clans[c].members, x).rank ELSE 0]
    BY <1>3, <1>5, RanksKnown
  <2>2. ClanAfter(c) = clans[c]
    BY <1>3, QuietMapped
  <2>3. RanksIn(d)[q] = Member /\ \A x \in Player \ {q} : RanksIn(d)[x] = RanksIn(ClanAfter(c))[x]
    BY <2>1, <2>2, <1>2, <1>5
  <2>4. Ranked' = [Ranked EXCEPT ![c] = RanksIn(d)]
    BY <1>3, <1>5
  <2>5. RanksIn(d) = [Ranked[c] EXCEPT ![q] = Member]
    BY <2>3, OneRankMoves
  <2> QED
    BY <2>4, <2>5
<1>7. Queued' = [Queued EXCEPT ![c] = @ \ {q}] /\ q \in Queued[c]
  BY <1>2, <1>3, ClanMapped
<1>8. Rules!Cardinality(Rules!Enrolled(c)) < Capacity
  <2>1. Rules!Enrolled(c) = People(clans[c].members)
    BY <1>3, ClanMapped DEF Rules!Enrolled, Rules!None, Ranked
  <2>2. clans[c].members \in Members
    BY FoundSound DEF SerialInv
  <2>3. Cardinality(People(clans[c].members)) \in Nat
        /\ Cardinality(People(clans[c].members)) <= Len(clans[c].members)
    BY <2>2, PeopleFew DEF Members
  <2>4. Len(clans[c].members) < Capacity
    BY <2>2, LenProperties, ClanAssumption DEF AcceptApplication, IsFull, Members
  <2>5. Len(clans[c].members) \in Nat
    BY <2>2, LenProperties DEF Members
  <2>6. Cardinality(Rules!Enrolled(c)) < Capacity
    BY <2>1, <2>3, <2>4, <2>5, ClanAssumption
  <2> QED
    BY <2>6 DEF Rules!Cardinality, Cardinality
<1>9. Rules!Accept(p, q, c)
  BY <1>3, <1>4, <1>6, <1>7, <1>8
     DEF Rules!Accept, Reviewers, Founded, Ranked, Queued, Belonging
<1> QED
  BY <1>4, <1>9

\* detach: the member's rank is gone, and the account names no clan.
LEMMA DetachRules ==
    ASSUME CalmInv, ClansInv', MaxOverlap = 1, NEW p \in Player, NEW c \in Name, clans[c] # NoClan,
           NEW k \in DOMAIN clans[c].members,
           clans[c].members[k].rank # Master \/ Len(clans[c].members) <= 1,
           Leaves(p, Detach(c, clans[c].members[k]))
    PROVE  Waiting = {} /\ Rules!Strike(clans[c].members[k].who, c)
<1> SerialInv
  BY DEF CalmInv
<1>1. PICK f : \E q \in Player :
              /\ SavesAndNames(p, c, f, q, NoName)
              /\ q = clans[c].members[k].who
              /\ People(Updated(clans[c], f).members) = People(clans[c].members) \ {q}
              /\ Updated(clans[c], f).applicants = clans[c].applicants
              /\ \A x \in People(Updated(clans[c], f).members) :
                    RowOf(Updated(clans[c], f).members, x) = RowOf(clans[c].members, x)
  BY DetachDoes
<1>2. PICK q \in Player :
              /\ SavesAndNames(p, c, f, q, NoName)
              /\ q = clans[c].members[k].who
              /\ People(Updated(clans[c], f).members) = People(clans[c].members) \ {q}
              /\ Updated(clans[c], f).applicants = clans[c].applicants
              /\ \A x \in People(Updated(clans[c], f).members) :
                    RowOf(Updated(clans[c], f).members, x) = RowOf(clans[c].members, x)
  BY <1>1
<1>3. /\ Waiting = {} /\ Updated(clans[c], f) # NoClan
      /\ Founded' = Founded /\ Belonging' = [Belonging EXCEPT ![q] = NoName]
      /\ Ranked' = [Ranked EXCEPT ![c] = RanksIn(Updated(clans[c], f))]
      /\ Queued' = [Queued EXCEPT ![c] = People(Updated(clans[c], f).applicants)]
  <2>1. SavesAndNames(p, c, f, q, NoName)
    BY <1>2
  <2> QED
    BY ONLY SerialInv, ClansInv', MaxOverlap = 1, p \in Player, c \in Name, clans[c] # NoClan,
            q \in Player, <2>1, SavesAndNamesMoves
<1>4. PICK d : d = Updated(clans[c], f)
  OBVIOUS
<1>5. Ranked' = [Ranked EXCEPT ![c][q] = 0]
  <2>1. /\ RanksIn(d) = [x \in Player |-> IF x \in People(d.members)
                                           THEN RowOf(d.members, x).rank ELSE 0]
        /\ RanksIn(clans[c]) = [x \in Player |-> IF x \in People(clans[c].members)
                                                  THEN RowOf(clans[c].members, x).rank ELSE 0]
    BY <1>3, <1>4, RanksKnown
  <2>2. ClanAfter(c) = clans[c]
    BY <1>3, QuietMapped
  <2>3. RanksIn(d)[q] = 0 /\ \A x \in Player \ {q} : RanksIn(d)[x] = RanksIn(ClanAfter(c))[x]
    BY <2>1, <2>2, <1>2, <1>4
  <2>4. Ranked' = [Ranked EXCEPT ![c] = RanksIn(d)]
    BY <1>3, <1>4
  <2>5. RanksIn(d) = [Ranked[c] EXCEPT ![q] = 0]
    BY <2>3, OneRankMoves
  <2> QED
    BY <2>4, <2>5
<1>6. Queued' = Queued
  <2>1. People(Updated(clans[c], f).applicants) = Queued[c]
    BY <1>2, <1>3, ClanMapped
  <2> QED
    BY <1>3, <2>1 DEF Queued
<1>7. Rules!Strike(q, c)
  BY <1>3, <1>5, <1>6 DEF Rules!Strike, Rules!None, Founded, Ranked, Queued, Belonging
<1> QED
  BY <1>2, <1>3, <1>7

LEMMA KickRules ==
    ASSUME CalmInv, ClansInv', MaxOverlap = 1, NEW p \in Player, NEW c \in Name, clans[c] # NoClan,
           NEW id \in IDs(clans[c].members), KickMember(p, c, id)
    PROVE  Belonging[p] = c /\ \E q \in Player : Rules!Kick(p, q, c)
<1> SerialInv
  BY DEF CalmInv
<1>1. PICK k \in DOMAIN clans[c].members :
         /\ Leaves(p, Detach(c, clans[c].members[k]))
         /\ clans[c].members[k].rank # Master
         /\ clans[c].members[k].who # p
         /\ RowOf(clans[c].members, p).rank = Manager => clans[c].members[k].rank # Manager
  BY KickDoes
<1>2. PICK q : q = clans[c].members[k].who
  OBVIOUS
<1>3. Waiting = {} /\ Rules!Strike(q, c)
  BY <1>1, <1>2, DetachRules
<1>4. ActorWith(p, c, Reviewers)
  BY DEF KickMember
<1>5. Rules!Holds(p, c, Reviewers) /\ Belonging[p] = c
  BY <1>3, <1>4, ActorHolds
<1>6. /\ clans[c].members[k] \in Row /\ RowOf(clans[c].members, q) = clans[c].members[k]
      /\ q \in People(clans[c].members)
  BY <1>2, MemberRow DEF People
<1>7. q \in Player /\ clans[c].members[k].rank \in Ranks
  BY <1>2, <1>6 DEF Row
<1>8. Ranked[c][q] = clans[c].members[k].rank
      /\ Ranked[c][p] = RowOf(clans[c].members, p).rank /\ Ranked[c][p] \in Reviewers
  <2>1. p \in People(clans[c].members) /\ RowOf(clans[c].members, p).rank \in Reviewers
    BY <1>4 DEF ActorWith
  <2>2. Ranked[c] = [x \in Player |-> IF x \in People(clans[c].members)
                                      THEN RowOf(clans[c].members, x).rank ELSE 0]
    BY <1>3, ClanMapped
  <2> QED
    BY <1>6, <1>7, <2>1, <2>2
<1>9. /\ Ranked[c][q] \notin {0, Master}
      /\ Ranked[c][p] = Manager => Ranked[c][q] # Manager
  BY <1>1, <1>7, <1>8 DEF Ranks, Master, Manager, Member, Associate
<1>10. Rules!Kick(p, q, c)
  BY <1>1, <1>2, <1>3, <1>5, <1>8, <1>9
     DEF Rules!Kick, Rules!Holds, Rules!None, Reviewers, Ranked, Belonging
<1> QED
  BY <1>5, <1>7, <1>10

LEMMA LeaveRules ==
    ASSUME CalmInv, ClansInv', MaxOverlap = 1, NEW p \in Player, NEW c \in Name, clans[c] # NoClan,
           Leave(p, c)
    PROVE  Rules!Leave(p, c)
<1> SerialInv
  BY DEF CalmInv
<1>1. PICK k \in DOMAIN clans[c].members :
         /\ Leaves(p, Detach(c, clans[c].members[k]))
         /\ clans[c].members[k].rank # Master \/ Len(clans[c].members) <= 1
         /\ clans[c].members[k].who = p
  BY LeaveDoes
<1>2. Waiting = {} /\ Rules!Strike(p, c)
  BY <1>1, DetachRules
<1>3. Rules!Holds(p, c, Ranks)
  BY <1>2, ActorHolds DEF Leave
<1>4. Rules!Enrolled(c) = People(clans[c].members)
  BY <1>2, ClanMapped DEF Rules!Enrolled, Rules!None, Ranked
<1>5. p \in People(clans[c].members) /\ RowOf(clans[c].members, p) = clans[c].members[k]
  BY <1>1, MemberRow DEF People
<1>6. Ranked[c][p] = clans[c].members[k].rank
  <2>1. Ranked[c] = [x \in Player |-> IF x \in People(clans[c].members)
                                      THEN RowOf(clans[c].members, x).rank ELSE 0]
    BY <1>2, ClanMapped
  <2> QED
    BY <1>5, <2>1
<1>7. ASSUME Ranked[c][p] = Master
      PROVE  Rules!Enrolled(c) = {p}
  <2>1. Len(clans[c].members) <= 1
    BY <1>1, <1>6, <1>7
  <2>2. \A i \in DOMAIN clans[c].members : i = k
    <3>1. clans[c].members \in Seq(Row)
      BY FoundSound DEF SerialInv, Members, Row
    <3> QED
      BY <2>1, <3>1, LenProperties
  <2> QED
    BY <1>1, <1>4, <2>2 DEF People
<1> QED
  BY <1>2, <1>3, <1>7 DEF Rules!Leave, Ranked

LEMMA PositionRules ==
    ASSUME CalmInv, ClansInv', MaxOverlap = 1, NEW p \in Player, NEW c \in Name, clans[c] # NoClan,
           NEW id \in IDs(clans[c].members), NEW rank, ChangePosition(p, c, id, rank)
    PROVE  Belonging[p] = c /\ \E q \in Player : \E r \in Ranks : Rules!Position(p, q, c, r)
<1> SerialInv
  BY DEF CalmInv
<1>1. PICK f : \E k \in DOMAIN clans[c].members :
              /\ SavesOnly(p, c, f)
              /\ clans[c].members[k].who # p
              /\ Updated(clans[c], f).applicants = clans[c].applicants
              /\ People(Updated(clans[c], f).members) = People(clans[c].members)
              /\ \A i \in DOMAIN clans[c].members :
                    RowOf(Updated(clans[c], f).members, clans[c].members[i].who).rank =
                        IF i = k THEN rank ELSE clans[c].members[i].rank
  BY PositionDoes
<1>2. PICK k \in DOMAIN clans[c].members :
              /\ SavesOnly(p, c, f)
              /\ clans[c].members[k].who # p
              /\ Updated(clans[c], f).applicants = clans[c].applicants
              /\ People(Updated(clans[c], f).members) = People(clans[c].members)
              /\ \A i \in DOMAIN clans[c].members :
                    RowOf(Updated(clans[c], f).members, clans[c].members[i].who).rank =
                        IF i = k THEN rank ELSE clans[c].members[i].rank
  BY <1>1
<1>3. /\ Waiting = {} /\ Updated(clans[c], f) # NoClan
      /\ Founded' = Founded /\ Belonging' = Belonging
      /\ Ranked' = [Ranked EXCEPT ![c] = RanksIn(Updated(clans[c], f))]
      /\ Queued' = [Queued EXCEPT ![c] = People(Updated(clans[c], f).applicants)]
  BY <1>2, SavesOnlyMoves
<1>4. Rules!Holds(p, c, {Master}) /\ Belonging[p] = c
  BY <1>3, ActorHolds DEF ChangePosition
<1>5. PICK d, q : d = Updated(clans[c], f) /\ q = clans[c].members[k].who
  OBVIOUS
<1>6. /\ q \in People(clans[c].members) /\ q \in Player
      /\ \A x \in People(clans[c].members) : \E i \in DOMAIN clans[c].members :
            clans[c].members[i].who = x /\ RowOf(clans[c].members, x) = clans[c].members[i]
  BY <1>5, MemberRow DEF People, Row
<1>7. Ranked' = [Ranked EXCEPT ![c][q] = rank]
  <2>1. /\ RanksIn(d) = [x \in Player |-> IF x \in People(d.members)
                                           THEN RowOf(d.members, x).rank ELSE 0]
        /\ RanksIn(clans[c]) = [x \in Player |-> IF x \in People(clans[c].members)
                                                  THEN RowOf(clans[c].members, x).rank ELSE 0]
    BY <1>3, <1>5, RanksKnown
  <2>2. ClanAfter(c) = clans[c]
    BY <1>3, QuietMapped
  <2>3. RanksIn(d)[q] = rank
    BY <1>2, <1>5, <1>6, <2>1
  <2>4. ASSUME NEW x \in Player \ {q}
        PROVE  RanksIn(d)[x] = RanksIn(clans[c])[x]
    <3>1. CASE x \notin People(clans[c].members)
      BY <1>2, <1>5, <2>1, <3>1
    <3>2. CASE x \in People(clans[c].members)
      <4>1. PICK i \in DOMAIN clans[c].members :
               clans[c].members[i].who = x /\ RowOf(clans[c].members, x) = clans[c].members[i]
        BY <1>6, <3>2
      <4>2. i # k
        BY <1>5, <4>1
      <4>3. RowOf(d.members, x).rank = clans[c].members[i].rank
        BY <1>2, <1>5, <4>1, <4>2
      <4> QED
        BY <1>2, <1>5, <2>1, <3>2, <4>1, <4>3
    <3> QED
      BY <3>1, <3>2
  <2>5. RanksIn(d) = [Ranked[c] EXCEPT ![q] = rank]
    BY <1>6, <2>2, <2>3, <2>4, OneRankMoves
  <2> QED
    BY <1>3, <1>5, <2>5
<1>8. Queued' = Queued
  <2>1. People(Updated(clans[c], f).applicants) = Queued[c]
    BY <1>2, <1>3, ClanMapped
  <2> QED
    BY <1>3, <2>1 DEF Queued
<1>9. q \in Rules!Enrolled(c) \ {p}
  <2>1. q \in {x \in Player : Ranked[c][x] # 0}
    BY <1>3, <1>6, ClanMapped
  <2> QED
    BY <1>2, <1>5, <2>1 DEF Rules!Enrolled, Rules!None, Ranked
<1>10. rank \in Ranks \ {Master}
  BY DEF ChangePosition, Assignable, Ranks, Master, Manager, Member, Associate
<1>11. Rules!Position(p, q, c, rank)
  BY <1>3, <1>4, <1>7, <1>8, <1>9, <1>10
     DEF Rules!Position, Founded, Ranked, Queued, Belonging
<1> QED
  BY <1>4, <1>6, <1>10, <1>11

LEMMA HandOverRules ==
    ASSUME CalmInv, ClansInv', MaxOverlap = 1, NEW p \in Player, NEW c \in Name, clans[c] # NoClan,
           NEW id \in IDs(clans[c].members), ChangeMaster(p, c, id)
    PROVE  Belonging[p] = c /\ \E q \in Player : Rules!HandOver(p, q, c)
<1> SerialInv
  BY DEF CalmInv
<1>1. PICK f : \E k, m \in DOMAIN clans[c].members :
              /\ SavesOnly(p, c, f)
              /\ k # m /\ clans[c].members[m].who = p
              /\ Updated(clans[c], f).applicants = clans[c].applicants
              /\ People(Updated(clans[c], f).members) = People(clans[c].members)
              /\ \A i \in DOMAIN clans[c].members :
                    RowOf(Updated(clans[c], f).members, clans[c].members[i].who).rank =
                        IF i = k THEN Master
                        ELSE IF i = m THEN Manager ELSE clans[c].members[i].rank
  BY HandOverDoes
<1>2. PICK k, m \in DOMAIN clans[c].members :
              /\ SavesOnly(p, c, f)
              /\ k # m /\ clans[c].members[m].who = p
              /\ Updated(clans[c], f).applicants = clans[c].applicants
              /\ People(Updated(clans[c], f).members) = People(clans[c].members)
              /\ \A i \in DOMAIN clans[c].members :
                    RowOf(Updated(clans[c], f).members, clans[c].members[i].who).rank =
                        IF i = k THEN Master
                        ELSE IF i = m THEN Manager ELSE clans[c].members[i].rank
  BY <1>1
<1>3. /\ Waiting = {} /\ Updated(clans[c], f) # NoClan
      /\ Founded' = Founded /\ Belonging' = Belonging
      /\ Ranked' = [Ranked EXCEPT ![c] = RanksIn(Updated(clans[c], f))]
      /\ Queued' = [Queued EXCEPT ![c] = People(Updated(clans[c], f).applicants)]
  BY <1>2, SavesOnlyMoves
<1>4. Rules!Holds(p, c, {Master}) /\ Belonging[p] = c
  BY <1>3, ActorHolds DEF ChangeMaster
<1>5. PICK d, q : d = Updated(clans[c], f) /\ q = clans[c].members[k].who
  OBVIOUS
<1>6. /\ q \in People(clans[c].members) /\ q \in Player
      /\ p \in People(clans[c].members)
      /\ OneEach(clans[c].members)
      /\ \A x \in People(clans[c].members) : \E i \in DOMAIN clans[c].members :
            clans[c].members[i].who = x /\ RowOf(clans[c].members, x) = clans[c].members[i]
  BY <1>2, <1>5, MemberRow DEF People, Row
<1>7. q # p
  BY <1>2, <1>5, <1>6 DEF OneEach
<1>8. /\ RanksIn(d) = [x \in Player |-> IF x \in People(d.members)
                                         THEN RowOf(d.members, x).rank ELSE 0]
      /\ Ranked[c] = [x \in Player |-> IF x \in People(clans[c].members)
                                        THEN RowOf(clans[c].members, x).rank ELSE 0]
      /\ People(d.members) = People(clans[c].members)
  <2>1. RanksIn(d) = [x \in Player |-> IF x \in People(d.members)
                                       THEN RowOf(d.members, x).rank ELSE 0]
    BY <1>3, <1>5, RanksKnown
  <2>2. Ranked[c] = [x \in Player |-> IF x \in People(clans[c].members)
                                      THEN RowOf(clans[c].members, x).rank ELSE 0]
    BY <1>3, ClanMapped
  <2> QED
    BY <1>2, <1>5, <2>1, <2>2
<1>9. RanksIn(d)[q] = Master /\ RanksIn(d)[p] = Manager
  BY <1>2, <1>5, <1>6, <1>8
<1>10. ASSUME NEW x \in Player \ {p, q}
       PROVE  RanksIn(d)[x] = Ranked[c][x]
  <2>1. CASE x \notin People(clans[c].members)
    BY <1>8, <2>1
  <2>2. CASE x \in People(clans[c].members)
    <3>1. PICK i \in DOMAIN clans[c].members :
             clans[c].members[i].who = x /\ RowOf(clans[c].members, x) = clans[c].members[i]
      BY <1>6, <2>2
    <3>2. i # k /\ i # m
      BY <1>2, <1>5, <3>1
    <3>3. RowOf(d.members, x).rank = clans[c].members[i].rank
      BY <1>2, <1>5, <3>1, <3>2
    <3> QED
      BY <1>8, <2>2, <3>1, <3>3
  <2> QED
    BY <2>1, <2>2
<1>11. RanksIn(d) = [[Ranked[c] EXCEPT ![q] = Master] EXCEPT ![p] = Manager]
  BY <1>6, <1>7, <1>8, <1>9, <1>10
<1>12. Ranked' = [Ranked EXCEPT ![c][q] = Master, ![c][p] = Manager]
  <2>1. Ranked' = [Ranked EXCEPT ![c] = RanksIn(d)]
    BY <1>3, <1>5
  <2>2. c \in DOMAIN Ranked
    BY DEF Ranked
  <2> QED
    BY <1>11, <2>1, <2>2
<1>13. Queued' = Queued
  <2>1. People(Updated(clans[c], f).applicants) = Queued[c]
    BY <1>2, <1>3, ClanMapped
  <2> QED
    BY <1>3, <2>1 DEF Queued
<1>14. q \in Rules!Enrolled(c) \ {p}
  <2>1. q \in {x \in Player : Ranked[c][x] # 0}
    BY <1>3, <1>6, ClanMapped
  <2> QED
    BY <1>7, <2>1 DEF Rules!Enrolled, Rules!None, Ranked
<1>15. Rules!HandOver(p, q, c)
  BY <1>3, <1>4, <1>12, <1>13, <1>14
     DEF Rules!HandOver, Founded, Ranked, Queued, Belonging
<1> QED
  BY <1>4, <1>6, <1>15

LEMMA DisbandRules ==
    ASSUME CalmInv, ClansInv', MaxOverlap = 1, NEW p \in Player, NEW c \in Name, clans[c] # NoClan,
           Disband(p, c)
    PROVE  Rules!Disband(p, c)
<1> SerialInv
  BY DEF CalmInv
<1>1. PICK M, W : M = People(clans[c].members) /\ W = Dissolving(c, M)
  OBVIOUS
<1>2. UNCHANGED <<clans, account, session>> /\ Waiting = {} /\ Waiting' = W
  BY <1>1, DisbandDoes
<1>3. Rules!Holds(p, c, {Master})
  BY <1>2, ActorHolds DEF Disband
<1>4. /\ \A clan : ClanWith(clan, c, W) = NoClan
      /\ \A e : \A clan : e # c => ClanWith(clan, e, W) = clan
      /\ \A q \in M : \A name : NameWith(name, q, W) = NoName
      /\ \A q : \A name : q \notin M => NameWith(name, q, W) = name
  BY <1>1, DisbandAfter
<1>5. ClanAfter(c)' = NoClan /\ \A e \in Name \ {c} : ClanAfter(e)' = clans[e]
  BY <1>2, <1>4 DEF ClanAfter
<1>6. \A q \in Player : AccountAfter(q)' = IF q \in M THEN NoName ELSE account[q]
  BY <1>2, <1>4 DEF AccountAfter
<1>7. \A e \in Name \ {c} : ClanAfter(e)' = ClanAfter(e)
  BY <1>2, <1>5, QuietMapped
<1>8. /\ Founded' = Founded \ {c}
      /\ Ranked' = [Ranked EXCEPT ![c] = RanksIn(NoClan)]
      /\ Queued' = [Queued EXCEPT ![c] = Queue(NoClan)]
  BY <1>5, <1>7, OneClanMoves
<1>9. RanksIn(NoClan) = [q \in Player |-> 0] /\ Queue(NoClan) = {}
  BY DEF RanksIn, Queue
<1>10. Rules!Enrolled(c) = M
  BY <1>1, <1>2, ClanMapped DEF Rules!Enrolled, Rules!None, Ranked
<1>11. Belonging' = [q \in Player |-> IF q \in Rules!Enrolled(c) THEN NoName ELSE Belonging[q]]
  <2>1. \A q \in Player : AccountAfter(q)' = IF q \in M THEN NoName ELSE Belonging[q]
    BY <1>2, <1>6, QuietMapped
  <2>2. Belonging' = [q \in Player |-> AccountAfter(q)']
    BY DEF Belonging
  <2>3. Belonging' = [q \in Player |-> IF q \in M THEN NoName ELSE Belonging[q]]
    BY <2>1, <2>2
  <2> QED
    BY <1>10, <2>3
<1> QED
  BY <1>3, <1>8, <1>9, <1>11
     DEF Rules!Disband, Rules!Nobody, Rules!None, Founded, Ranked, Queued, Belonging

\* ChangeMark: an emblem to be saved is none of ClanRules' business.
LEMMA ChangeMarkRules ==
    ASSUME CalmInv, ClansInv', MaxOverlap = 1, NEW p \in Player, NEW c \in Name,
           clans[c] # NoClan, NEW mark, ChangeMark(p, c, mark)
    PROVE  UNCHANGED Rules!rules
<1>1. PICK f : f = [mark |-> mark] /\ DOMAIN f = {"mark"}
  <2>1. DOMAIN [mark |-> mark] = {"mark"}
    OBVIOUS
  <2> QED
    BY <2>1
<1>2. PICK W : W = {FindByMark(c, mark), Save(c, f), FindPlayer(p)}
  OBVIOUS
<1>3. /\ UNCHANGED <<clans, account, session>>
      /\ Waiting = {} /\ Waiting' = W /\ CalmInv'
  BY <1>1, <1>2, ChangeMarkDoes, ChangeMarkCalm DEF CalmInv
<1>4. /\ FindPlayer(p).do = "findPlayer" /\ FindByMark(c, mark).do = "findByMark"
      /\ Save(c, f).do = "save" /\ Save(c, f).clan = c /\ Save(c, f).fields = f
  BY DEF FindPlayer, FindByMark, Save
<1>5. PICK clan \in Document : clan = clans[c]
  BY FoundSound DEF CalmInv, SerialInv
<1>6. Updated(clan, f) = [master |-> clan.master, members |-> clan.members,
                          applicants |-> clan.applicants, mark |-> mark]
  BY <1>1, UpdatedFields
<1>7. Updated(clan, f) # NoClan
  <2>1. Save(c, f) \in Waiting' /\ ClansInv'
    BY <1>2, <1>3
  <2>2. Save(c, f) \in SoundCall
    <3>1. PICK q \in Player : Save(c, f) \in Range(todo'[q])
      BY <2>1 DEF Waiting
    <3>2. PICK i \in DOMAIN todo'[q] : Save(c, f) = todo'[q][i]
      BY <3>1 DEF Range
    <3> QED
      BY <2>1, <3>2, LenProperties, ElementOfSeq DEF ClansInv
  <2> QED
    BY <1>5, <2>2, SaveTyped DEF CalmInv, SerialInv
<1>8. \A v \in W : Writing(v) => v = Save(c, f)
  BY <1>2, <1>4 DEF Writing
<1>9. Save(c, f) \in W
  BY <1>2
<1>10. ClanWith(clans[c], c, W) = Updated(clan, f)
  BY <1>4, <1>5, <1>8, <1>9, ClanSaved
<1>11. \A e \in Name \ {c} : ClanWith(clans[e], e, W) = clans[e]
  BY <1>4, <1>8, ClanKept
<1>12. /\ ClanAfter(c)' = Updated(clan, f)
       /\ \A e \in Name \ {c} : ClanAfter(e)' = clans[e]
  BY <1>3, <1>10, <1>11 DEF ClanAfter
<1>13. \A e \in Name : ClanAfter(e) = clans[e]
  BY <1>3, QuietMapped
<1>14. \A e \in Name : SameRoster(ClanAfter(e), ClanAfter(e)')
  <2>1. SameRoster(clans[c], Updated(clan, f))
    BY <1>5, <1>6, <1>7 DEF SameRoster
  <2>2. \A e \in Name \ {c} : ClanAfter(e) = ClanAfter(e)'
    BY <1>12, <1>13
  <2> QED
    BY <1>12, <1>13, <2>1, <2>2 DEF SameRoster
<1>15. \A q \in Player : NameWith(account[q], q, W) = account[q]
  <2>1. \A v \in W : \A q : ~ Naming(v, q)
    BY <1>2, <1>4 DEF Naming
  <2> QED
    BY <2>1, NameKept
<1>16. \A q \in Player : AccountAfter(q)' = AccountAfter(q)
  BY <1>3, <1>15, QuietMapped DEF AccountAfter
<1> QED
  BY <1>14, <1>16, RosterStays

LEMMA LoginRules ==
    ASSUME CalmInv, ClansInv', MaxOverlap = 1, NEW p \in Player, Login(p)
    PROVE  UNCHANGED Rules!rules
<1>1. /\ UNCHANGED <<clans, account, session>>
      /\ Waiting = {} /\ Waiting' = {FindPlayer(p)}
  BY LoginDoes DEF CalmInv
<1>2. FindPlayer(p).do = "findPlayer"
  BY DEF FindPlayer
<1>3. \A e \in Name : ClanWith(clans[e], e, {FindPlayer(p)}) = clans[e]
  BY <1>2, ClanKept DEF Writing
<1>4. \A q \in Player : NameWith(account[q], q, {FindPlayer(p)}) = account[q]
  BY <1>2, NameKept DEF Naming
<1>5. /\ \A e \in Name : ClanAfter(e)' = ClanAfter(e)
      /\ \A q \in Player : AccountAfter(q)' = AccountAfter(q)
  BY <1>1, <1>3, <1>4, QuietMapped DEF ClanAfter, AccountAfter
<1>6. \A e \in Name : SameRoster(ClanAfter(e), ClanAfter(e)')
  BY <1>5 DEF SameRoster
<1> QED
  BY <1>5, <1>6, RosterStays

\* Whatever leaves the clans, the accounts and the calls alone.
LEMMA StillRules ==
    ASSUME UNCHANGED <<clans, account, todo>>
    PROVE  UNCHANGED Rules!rules
<1>1. Waiting' = Waiting
  BY DEF Waiting
<1>2. /\ \A e \in Name : ClanAfter(e)' = ClanAfter(e)
      /\ \A q \in Player : AccountAfter(q)' = AccountAfter(q)
  BY <1>1 DEF ClanAfter, AccountAfter
<1>3. \A e \in Name : SameRoster(ClanAfter(e), ClanAfter(e)')
  BY <1>2 DEF SameRoster
<1> QED
  BY <1>2, <1>3, RosterStays

(***************************************************************************)
(* A request is a step of ClanRules when it is decided.                    *)
(***************************************************************************)
LEMMA RequestRules ==
    ASSUME CalmInv, ClansInv', MaxOverlap = 1, MaxGivenID <= MaxRowID,
           NEW p \in Player, NEW c \in Name, Request(p, c)
    PROVE  Rules!Next \/ UNCHANGED Rules!rules
<1>1. CASE \E mark \in Mark : Create(p, c, mark)
  <2>1. Rules!Create(p, c)
    BY <1>1, CreateRules
  <2> QED
    BY <2>1 DEF Rules!Next
<1>2. CASE clans[c] # NoClan /\ RequestJoin(p, c)
  <2>1. Rules!Apply(p, c)
    BY <1>2, ApplyRules
  <2> QED
    BY <2>1 DEF Rules!Next
<1>3. CASE clans[c] # NoClan /\ (CancelApplication(p, c)
              \/ \E id \in IDs(clans[c].applicants) : RejectApplication(p, c, id))
  <2>1. Rules!Withdraw(p, c) \/ (Belonging[p] = c /\ \E q \in Player : Rules!Reject(p, q, c))
    BY <1>3, WithdrawRules
  <2> QED
    BY <2>1 DEF Rules!Next, Rules!Acts, Belonging
<1>4. CASE clans[c] # NoClan /\ Leave(p, c)
  <2>1. Rules!Leave(p, c)
    BY <1>4, LeaveRules
  <2> QED
    BY <2>1 DEF Rules!Next
<1>5. CASE clans[c] # NoClan /\ Disband(p, c)
  <2>1. Rules!Disband(p, c)
    BY <1>5, DisbandRules
  <2> QED
    BY <2>1 DEF Rules!Next
<1>6. CASE clans[c] # NoClan /\ \E mark \in Mark : ChangeMark(p, c, mark)
  BY <1>6, ChangeMarkRules
<1>7. CASE clans[c] # NoClan /\ \E id \in IDs(clans[c].applicants) : AcceptApplication(p, c, id)
  <2>1. Belonging[p] = c /\ \E q \in Player : Rules!Accept(p, q, c)
    BY <1>7, AcceptRules
  <2> QED
    BY <2>1 DEF Rules!Next, Rules!Acts, Belonging
<1>8. CASE clans[c] # NoClan /\ \E id \in IDs(clans[c].members) : KickMember(p, c, id)
  <2>1. Belonging[p] = c /\ \E q \in Player : Rules!Kick(p, q, c)
    BY <1>8, KickRules
  <2> QED
    BY <2>1 DEF Rules!Next, Rules!Acts, Belonging
<1>9. CASE clans[c] # NoClan /\ \E id \in IDs(clans[c].members) : ChangeMaster(p, c, id)
  <2>1. Belonging[p] = c /\ \E q \in Player : Rules!HandOver(p, q, c)
    BY <1>9, HandOverRules
  <2> QED
    BY <2>1 DEF Rules!Next, Rules!Acts, Belonging
<1>10. CASE clans[c] # NoClan /\ \E id \in IDs(clans[c].members) :
              \E rank \in AskedRanks : ChangePosition(p, c, id, rank)
  <2>1. Belonging[p] = c /\ \E q \in Player : \E r \in Ranks : Rules!Position(p, q, c, r)
    BY <1>10, PositionRules
  <2> QED
    BY <2>1 DEF Rules!Next, Rules!Acts, Belonging
<1> QED
  BY <1>1, <1>2, <1>3, <1>4, <1>5, <1>6, <1>7, <1>8, <1>9, <1>10 DEF Request

LEMMA StepRules ==
    ASSUME CalmInv, CalmInv', MaxOverlap = 1, MaxGivenID <= MaxRowID,
           Disruption \subseteq {"logout"}, [Next]_vars
    PROVE  [Rules!Next]_(Rules!rules)
<1>0. ClansInv'
  BY DEF CalmInv, SerialInv
<1>1. CASE \E p \in Player : Login(p)
  BY <1>0, <1>1, LoginRules
<1>2. CASE \E p \in Player : Logout(p)
  BY <1>2, StillRules DEF Logout
<1>3. CASE \E p \in Player : \E c \in Name : Request(p, c)
  BY <1>0, <1>3, RequestRules
<1>4. CASE \E p \in Player : HandlerStep(p)
  <2>1. /\ \A e \in Name : SameRoster(ClanAfter(e), ClanAfter(e)')
        /\ \A q \in Player : AccountAfter(q)' = AccountAfter(q)
    BY <1>0, <1>4, HandlerCalm
  <2> QED
    BY <2>1, RosterStays
<1>5. CASE (\E p \in Player : Fail(p)) \/ Crash
  BY <1>5 DEF Fail, Crash
<1>6. CASE UNCHANGED vars
  BY <1>6, StillRules DEF vars
<1> QED
  BY <1>1, <1>2, <1>3, <1>4, <1>5, <1>6 DEF Next

LEMMA InitRules == ASSUME Init PROVE Rules!Init
<1>1. Waiting = {}
  BY DEF Init, Waiting, Range
<1>2. /\ \A e \in Name : ClanAfter(e) = NoClan
      /\ \A q \in Player : AccountAfter(q) = NoName
  BY <1>1, NothingWaits DEF Init
<1>3. RanksIn(NoClan) = [q \in Player |-> 0] /\ Queue(NoClan) = {}
  BY DEF RanksIn, Queue
<1>4. /\ Founded = {} /\ Ranked = [e \in Name |-> [q \in Player |-> 0]]
      /\ Queued = [e \in Name |-> {}] /\ Belonging = [q \in Player |-> NoName]
  BY <1>2, <1>3 DEF Founded, Ranked, Queued, Belonging
<1> QED
  BY <1>4 DEF Rules!Init, Rules!Nobody, Rules!None, Founded, Ranked, Queued, Belonging

(***************************************************************************)
(* ImplementsRules: while one request at a time is served and nothing      *)
(* fails, the clan service does what ClanRules says: each request is one   *)
(* of its steps when it is decided, and the writes that follow, whatever   *)
(* is loaded into a session meanwhile, are none.                           *)
(***************************************************************************)
THEOREM ClansImplementRules ==
    ASSUME MaxOverlap = 1, MaxGivenID <= MaxRowID, Disruption \subseteq {"logout"}
    PROVE  Spec => ImplementsRules
<1>1. Init => Rules!Init
  BY InitRules
<1>2. CalmInv /\ CalmInv' /\ [Next]_vars => [Rules!Next]_(Rules!rules)
  BY StepRules
<1>3. Spec => []CalmInv
  BY CalmInvariant
<1> QED
  BY <1>1, <1>2, <1>3, PTL DEF Spec, ImplementsRules, Rules!Spec
=============================================================================
