---------------------------- MODULE FriendsProofs ----------------------------
(***************************************************************************)
(* Proofs about Friends, for any number of accounts, any bounds and any    *)
(* disruption: ids tell an account's rows apart, and nobody holds two      *)
(* requests from one player.  The second half is about requests that come  *)
(* one at a time: friendships are mutual, two players are entered with     *)
(* each other twice at most, and the followed screens show what is saved.  *)
(***************************************************************************)
EXTENDS Friends, RowLemmas

-----------------------------------------------------------------------------
(***************************************************************************)
(* The rows of an account's two lists are told apart by their ids, but for *)
(* the id that has wrapped to zero.                                        *)
(***************************************************************************)
ToldApart(rows) ==
    \A i, j \in DOMAIN rows : rows[i].id = rows[j].id => i = j \/ rows[i].id = 0

Apart(friends, requests) ==
    \A i \in DOMAIN friends, j \in DOMAIN requests :
        friends[i].id = requests[j].id => friends[i].id = 0

LEMMA SoundParts ==
    ASSUME NEW f \in Seq(Row), NEW r \in Seq(Row), NEW lists, lists = [friends |-> f, requests |-> r]
    PROVE  lists \in SoundIDs <=> ToldApart(f) /\ ToldApart(r) /\ Apart(f, r)
<1>1. PICK rows : rows = f \o r
  OBVIOUS
<1>2. /\ rows \in Seq(Row)
      /\ Len(rows) = Len(f) + Len(r)
      /\ \A i \in 1 .. Len(f) + Len(r) : rows[i] = IF i <= Len(f) THEN f[i] ELSE r[i - Len(f)]
  BY <1>1, ConcatProperties
<1>3. /\ DOMAIN rows = 1 .. Len(f) + Len(r)
      /\ DOMAIN f = 1 .. Len(f) /\ DOMAIN r = 1 .. Len(r)
      /\ Len(f) \in Nat /\ Len(r) \in Nat
  BY <1>2
<1>4. /\ \A i \in DOMAIN f : i \in DOMAIN rows /\ rows[i] = f[i]
      /\ \A i \in DOMAIN r : Len(f) + i \in DOMAIN rows /\ rows[Len(f) + i] = r[i]
  BY <1>2, <1>3
<1>5. lists \in Lists /\ lists.friends = f /\ lists.requests = r
  BY DEF Lists
<1>6. lists \in SoundIDs <=>
        \A i, j \in DOMAIN rows : rows[i].id = rows[j].id => i = j \/ rows[i].id = 0
  <2>1. lists \in SoundIDs <=> Distinct(lists)
    BY <1>5 DEF SoundIDs
  <2>2. lists.friends \o lists.requests = rows
    BY <1>1, <1>5
  <2>3. Distinct(lists) <=>
          \A i, j \in DOMAIN rows : rows[i].id = rows[j].id => i = j \/ rows[i].id = 0
    BY <2>2, Zenon DEF Distinct
  <2> QED
    BY <2>1, <2>3
<1>7. ASSUME lists \in SoundIDs PROVE ToldApart(f) /\ ToldApart(r) /\ Apart(f, r)
  <2>1. \A i, j \in DOMAIN rows : rows[i].id = rows[j].id => i = j \/ rows[i].id = 0
    BY <1>6, <1>7
  <2>2. ToldApart(f)
    BY <1>4, <2>1 DEF ToldApart
  <2>3. ToldApart(r)
    <3>1. ASSUME NEW i \in DOMAIN r, NEW j \in DOMAIN r, r[i].id = r[j].id
          PROVE  i = j \/ r[i].id = 0
      <4>1. Len(f) + i = Len(f) + j \/ r[i].id = 0
        BY <1>4, <2>1, <3>1
      <4> QED
        BY <1>3, <4>1
    <3> QED
      BY <3>1 DEF ToldApart
  <2>4. Apart(f, r)
    <3>1. ASSUME NEW i \in DOMAIN f, NEW j \in DOMAIN r, f[i].id = r[j].id
          PROVE  f[i].id = 0
      <4>1. i # Len(f) + j
        BY <1>3
      <4> QED
        BY <1>4, <2>1, <3>1, <4>1
    <3> QED
      BY <3>1 DEF Apart
  <2> QED
    BY <2>2, <2>3, <2>4
<1>8. ASSUME ToldApart(f), ToldApart(r), Apart(f, r) PROVE lists \in SoundIDs
  <2>1. ASSUME NEW i \in DOMAIN rows, NEW j \in DOMAIN rows, rows[i].id = rows[j].id
        PROVE  i = j \/ rows[i].id = 0
    <3>1. \A n \in DOMAIN rows : \/ n \in DOMAIN f /\ rows[n] = f[n]
                                 \/ n - Len(f) \in DOMAIN r /\ rows[n] = r[n - Len(f)]
      BY <1>2, <1>3
    <3>2. CASE i \in DOMAIN f /\ rows[i] = f[i]
      BY <1>8, <2>1, <3>1, <3>2 DEF ToldApart, Apart
    <3>3. CASE i - Len(f) \in DOMAIN r /\ rows[i] = r[i - Len(f)]
      <4>1. CASE j \in DOMAIN f /\ rows[j] = f[j]
        BY <1>8, <2>1, <3>3, <4>1 DEF Apart
      <4>2. CASE j - Len(f) \in DOMAIN r /\ rows[j] = r[j - Len(f)]
        <5>1. i - Len(f) = j - Len(f) \/ rows[i].id = 0
          BY <1>8, <2>1, <3>3, <4>2 DEF ToldApart
        <5> QED
          BY <1>3, <5>1
      <4> QED
        BY <3>1, <4>1, <4>2
    <3> QED
      BY <3>1, <3>2, <3>3
  <2> QED
    BY <1>6, <2>1
<1> QED
  BY <1>7, <1>8

LEMMA ThinnedApart ==
    ASSUME NEW f \in Seq(Row), NEW r \in Seq(Row), NEW g \in Seq(Row), NEW s \in Seq(Row),
           Thinned(g, f), Thinned(s, r), ToldApart(f), ToldApart(r), Apart(f, r)
    PROVE  ToldApart(g) /\ ToldApart(s) /\ Apart(g, s)
<1>1. PICK a \in [DOMAIN g -> DOMAIN f] : /\ \A i, j \in DOMAIN g : a[i] = a[j] => i = j
                                          /\ \A i \in DOMAIN g : g[i] = f[a[i]]
  BY DEF Thinned
<1>2. PICK b \in [DOMAIN s -> DOMAIN r] : /\ \A i, j \in DOMAIN s : b[i] = b[j] => i = j
                                          /\ \A i \in DOMAIN s : s[i] = r[b[i]]
  BY DEF Thinned
<1>3. ToldApart(g)
  BY <1>1 DEF ToldApart
<1>4. ToldApart(s)
  BY <1>2 DEF ToldApart
<1>5. Apart(g, s)
  BY <1>1, <1>2 DEF Apart
<1> QED
  BY <1>3, <1>4, <1>5

LEMMA ThinnedSelf == ASSUME NEW u \in Seq(Row) PROVE Thinned(u, u)
<1> DEFINE f == [i \in DOMAIN u |-> i]
<1>1. f \in [DOMAIN u -> DOMAIN u] /\ \A i \in DOMAIN u : f[i] = i
  OBVIOUS
<1> HIDE DEF f
<1> QED
  BY <1>1 DEF Thinned

(***************************************************************************)
(* A row with an id of its own, or with none, may be added to either list. *)
(***************************************************************************)
Own(row, rows) == row.id = 0 \/ \A i \in DOMAIN rows : rows[i].id # row.id

LEMMA AppendApart ==
    ASSUME NEW f \in Seq(Row), NEW r \in Seq(Row), NEW row \in Row, Own(row, f), Own(row, r),
           ToldApart(f), ToldApart(r), Apart(f, r), NEW g, g = Append(f, row)
    PROVE  g \in Seq(Row) /\ ToldApart(g) /\ Apart(g, r) /\ Apart(r, g)
<1>1. /\ g \in Seq(Row)
      /\ Len(g) = Len(f) + 1
      /\ \A i \in 1 .. Len(f) : g[i] = f[i]
      /\ g[Len(f) + 1] = row
  BY AppendProperties
<1>2. DOMAIN f = 1 .. Len(f) /\ DOMAIN g = 1 .. Len(f) + 1 /\ Len(f) \in Nat
  BY <1>1
<1>3. \A i \in DOMAIN g : (i \in DOMAIN f /\ g[i] = f[i]) \/ (i = Len(f) + 1 /\ g[i] = row)
  BY <1>1, <1>2
<1>4. ToldApart(g)
  BY <1>3 DEF ToldApart, Own
<1>5. Apart(g, r) /\ Apart(r, g)
  BY <1>3 DEF Apart, Own
<1> QED
  BY <1>1, <1>4, <1>5

LEMMA ListsSplit ==
    ASSUME NEW lists \in Lists
    PROVE  /\ lists.friends \in Seq(Row) /\ lists.requests \in Seq(Row)
           /\ lists = [friends |-> lists.friends, requests |-> lists.requests]
           /\ lists \in SoundIDs <=>
                 /\ ToldApart(lists.friends) /\ ToldApart(lists.requests)
                 /\ Apart(lists.friends, lists.requests)
<1>1. /\ lists.friends \in Seq(Row) /\ lists.requests \in Seq(Row)
      /\ lists = [friends |-> lists.friends, requests |-> lists.requests]
  BY DEF Lists
<1> QED
  BY <1>1, SoundParts

LEMMA ApartTurned == ASSUME NEW f, NEW r, Apart(f, r) PROVE Apart(r, f)
BY DEF Apart

LEMMA BefriendSound ==
    ASSUME NEW lists \in SoundIDs, NEW row \in Row,
           Own(row, lists.friends), Own(row, lists.requests)
    PROVE  Befriend(lists, row) \in SoundIDs
<1>1. lists \in Lists
  BY DEF SoundIDs
<1>2. PICK f, r \in Seq(Row) : f = lists.friends /\ r = lists.requests
  BY <1>1, ListsSplit
<1>3. ToldApart(f) /\ ToldApart(r) /\ Apart(f, r)
  BY <1>1, <1>2, ListsSplit
<1>4. PICK g : g = Append(f, row)
  OBVIOUS
<1>5. g \in Seq(Row) /\ ToldApart(g) /\ Apart(g, r)
  <2>1. Own(row, f) /\ Own(row, r)
    BY <1>2
  <2> QED
    BY <1>3, <1>4, <2>1, AppendApart
<1>6. Befriend(lists, row) = [friends |-> g, requests |-> r]
  <2>1. [lists EXCEPT !.friends = g] = [friends |-> g, requests |-> r]
    BY <1>1, <1>2 DEF Lists
  <2> QED
    BY <1>2, <1>4, <2>1 DEF Befriend
<1> QED
  BY <1>3, <1>5, <1>6, SoundParts

LEMMA RequestSound ==
    ASSUME NEW lists \in SoundIDs, NEW row \in Row,
           Own(row, lists.friends), Own(row, lists.requests)
    PROVE  [lists EXCEPT !.requests = Append(@, row)] \in SoundIDs
<1>1. lists \in Lists
  BY DEF SoundIDs
<1>2. PICK f, r \in Seq(Row) : f = lists.friends /\ r = lists.requests
  BY <1>1, ListsSplit
<1>3. ToldApart(f) /\ ToldApart(r) /\ Apart(f, r) /\ Apart(r, f)
  BY <1>1, <1>2, ListsSplit, ApartTurned
<1>4. PICK g : g = Append(r, row)
  OBVIOUS
<1>5. g \in Seq(Row) /\ ToldApart(g) /\ Apart(f, g)
  <2>1. Own(row, f) /\ Own(row, r)
    BY <1>2
  <2> QED
    BY <1>3, <1>4, <2>1, AppendApart
<1>6. [lists EXCEPT !.requests = Append(@, row)] = [friends |-> f, requests |-> g]
  <2>1. [lists EXCEPT !.requests = g] = [friends |-> f, requests |-> g]
    BY <1>1, <1>2 DEF Lists
  <2> QED
    BY <1>2, <1>4, <2>1
<1> QED
  BY <1>3, <1>5, <1>6, SoundParts

(***************************************************************************)
(* NextSocialID is no id in use, or zero.                                  *)
(***************************************************************************)
LEMMA NextSocialIDOwn ==
    ASSUME NEW lists \in Lists, NEW p \in Player, NEW row, row = [id |-> NextSocialID(lists), who |-> p]
    PROVE  row \in Row /\ Own(row, lists.friends) /\ Own(row, lists.requests)
<1>1. PICK f, r \in Seq(Row) : f = lists.friends /\ r = lists.requests
  BY ListsSplit
<1>2. PICK a, b : a = Highest(f) /\ b = Highest(r)
  OBVIOUS
<1>3. Numbered(Row)
  BY DEF Numbered, Row
<1>4. /\ a \in 0 .. MaxSocialID /\ \A i \in DOMAIN f : f[i].id <= a /\ f[i].id \in Nat
      /\ b \in 0 .. MaxSocialID /\ \A i \in DOMAIN r : r[i].id <= b /\ r[i].id \in Nat
  <2>1. ASSUME NEW u \in Seq(Row)
        PROVE  /\ Highest(u) \in 0 .. MaxSocialID
               /\ \A i \in DOMAIN u : u[i].id <= Highest(u) /\ u[i].id \in Nat
    <3>1. \A i \in DOMAIN u : u[i] \in Row
      OBVIOUS
    <3>2. \A i \in DOMAIN u : u[i].id \in 0 .. MaxSocialID
      BY <3>1 DEF Row
    <3>3. Highest(u) \in {0} \cup IDs(u) /\ \A i \in DOMAIN u : u[i].id <= Highest(u)
      BY <1>3, HighestIsBound
    <3>4. Highest(u) \in 0 .. MaxSocialID
      BY <3>2, <3>3, FriendsAssumption DEF IDs
    <3> QED
      BY <3>2, <3>3, <3>4
  <2> QED
    BY <1>2, <2>1
<1>5. PICK T, m : T = {a, b} /\ m = Max(T)
  OBVIOUS
<1>6. m \in 0 .. MaxSocialID /\ a <= m /\ b <= m
  <2>1. T \in SUBSET Nat /\ T # {} /\ MaxSocialID \in Nat /\ \A y \in T : y <= MaxSocialID
    BY <1>4, <1>5, FriendsAssumption
  <2>2. Max(T) \in T /\ \A y \in T : y <= Max(T)
    BY <2>1, LargestNat
  <2> QED
    BY <1>4, <1>5, <2>2
<1>7. PICK n : n = NextSocialID(lists)
  OBVIOUS
<1>8. n = (1 + m) % (MaxSocialID + 1)
  BY <1>1, <1>2, <1>5, <1>7 DEF NextSocialID
<1>9. n = IF 1 + m = MaxSocialID + 1 THEN 0 ELSE 1 + m
  <2>1. MaxSocialID + 1 \in Nat \ {0} /\ 1 + m \in 0 .. MaxSocialID + 1
    BY <1>6, FriendsAssumption
  <2> QED
    BY <1>8, <2>1, ModTurn
<1>10. n \in 0 .. MaxSocialID /\ (n = 0 \/ (a < n /\ b < n))
  BY <1>4, <1>6, <1>9, FriendsAssumption
<1>11. row \in Row /\ row.id = n
  BY <1>7, <1>10 DEF Row
<1>12. n # 0 => (\A i \in DOMAIN f : f[i].id # n) /\ (\A i \in DOMAIN r : r[i].id # n)
  BY <1>4, <1>10
<1> QED
  BY <1>1, <1>11, <1>12 DEF Own

(***************************************************************************)
(* Cutting rows out, and moving the request with an id to the friends.     *)
(***************************************************************************)
LEMMA RemoveRequestSound ==
    ASSUME NEW lists \in SoundIDs, NEW id
    PROVE  RemoveFriendRequest(lists, id) \in SoundIDs
<1>1. lists \in Lists
  BY DEF SoundIDs
<1>2. PICK f, r \in Seq(Row) : f = lists.friends /\ r = lists.requests
  BY <1>1, ListsSplit
<1>3. ToldApart(f) /\ ToldApart(r) /\ Apart(f, r)
  BY <1>1, <1>2, ListsSplit
<1>4. PICK s : s = Without(r, id)
  OBVIOUS
<1>5. s \in Seq(Row) /\ ToldApart(s) /\ Apart(f, s)
  BY <1>2, <1>3, <1>4, WithoutThins, ThinnedSelf, ThinnedApart
<1>6. RemoveFriendRequest(lists, id) = [friends |-> f, requests |-> s]
  BY <1>1, <1>2, <1>4 DEF RemoveFriendRequest, Lists
<1> QED
  BY <1>3, <1>5, <1>6, SoundParts

LEMMA RemoveFriendSound ==
    ASSUME NEW lists \in SoundIDs, NEW id
    PROVE  RemoveFriend(lists, id) \in SoundIDs
<1>1. lists \in Lists
  BY DEF SoundIDs
<1>2. PICK f, r \in Seq(Row) : f = lists.friends /\ r = lists.requests
  BY <1>1, ListsSplit
<1>3. ToldApart(f) /\ ToldApart(r) /\ Apart(f, r)
  BY <1>1, <1>2, ListsSplit
<1>4. PICK g : g = Without(f, id)
  OBVIOUS
<1>5. g \in Seq(Row) /\ ToldApart(g) /\ Apart(g, r)
  BY <1>2, <1>3, <1>4, WithoutThins, ThinnedSelf, ThinnedApart
<1>6. RemoveFriend(lists, id) = [friends |-> g, requests |-> r]
  BY <1>1, <1>2, <1>4 DEF RemoveFriend, Lists
<1> QED
  BY <1>3, <1>5, <1>6, SoundParts

LEMMA RemoveFriendOfSound ==
    ASSUME NEW lists \in SoundIDs, NEW p, IsFriendOf(lists, p)
    PROVE  RemoveFriendOf(lists, p) \in SoundIDs
<1>1. lists \in Lists
  BY DEF SoundIDs
<1>2. PICK f, r \in Seq(Row) : f = lists.friends /\ r = lists.requests
  BY <1>1, ListsSplit
<1>3. ToldApart(f) /\ ToldApart(r) /\ Apart(f, r)
  BY <1>1, <1>2, ListsSplit
<1>4. PICK g : g = RemoveAt(f, PlaceOf(f, p))
  OBVIOUS
<1>5. PlaceOf(f, p) \in DOMAIN f
  BY <1>2, PlaceFound DEF IsFriendOf
<1>6. g \in Seq(Row) /\ ToldApart(g) /\ Apart(g, r)
  BY <1>2, <1>3, <1>4, <1>5, RemoveAtThins, ThinnedSelf, ThinnedApart
<1>7. RemoveFriendOf(lists, p) = [friends |-> g, requests |-> r]
  BY <1>1, <1>2, <1>4 DEF RemoveFriendOf, Lists
<1> QED
  BY <1>3, <1>6, <1>7, SoundParts

LEMMA AcceptSound ==
    ASSUME NEW lists \in SoundIDs, NEW id \in IDs(lists.requests),
           NEW row, row = RowWith(lists.requests, id), NEW copy, copy = RemoveFriendRequest(lists, id)
    PROVE  row \in Row /\ copy \in SoundIDs /\ Befriend(copy, row) \in SoundIDs
<1>1. lists \in Lists
  BY DEF SoundIDs
<1>2. PICK f, r \in Seq(Row) : f = lists.friends /\ r = lists.requests
  BY <1>1, ListsSplit
<1>3. ToldApart(r) /\ Apart(f, r)
  BY <1>1, <1>2, ListsSplit
<1>4. PICK k : k = IndexOf(r, id)
  OBVIOUS
<1>5. k \in DOMAIN r /\ r[k] = row /\ row.id = id
  BY <1>2, <1>4, IndexFound DEF RowWith
<1>6. row \in Row
  BY <1>5
<1>7. PICK s : s = RemoveAt(r, k)
  OBVIOUS
<1>8. /\ s \in Seq(Row)
      /\ Len(s) = Len(r) - 1
      /\ \A i \in DOMAIN s : s[i] = IF i < k THEN r[i] ELSE r[i + 1]
  BY <1>5, <1>7, RemoveAtShifts
<1>9. copy.friends = f /\ copy.requests = s
  BY <1>1, <1>2, <1>4, <1>7 DEF RemoveFriendRequest, Without, Lists
<1>10. Own(row, s)
  <2>1. ASSUME NEW i \in DOMAIN s PROVE \E j \in DOMAIN r : j # k /\ s[i] = r[j]
    <3>1. DOMAIN s = 1 .. Len(r) - 1 /\ DOMAIN r = 1 .. Len(r) /\ Len(r) \in Nat
      BY <1>8
    <3>2. CASE i < k
      BY <1>5, <1>8, <3>1, <3>2
    <3>3. CASE ~ (i < k)
      <4>1. i + 1 \in DOMAIN r /\ i + 1 # k /\ s[i] = r[i + 1]
        BY <1>5, <1>8, <3>1, <3>3
      <4> QED
        BY <4>1
    <3> QED
      BY <3>2, <3>3
  <2> QED
    BY <1>3, <1>5, <2>1 DEF ToldApart, Own
<1>11. Own(row, f)
  BY <1>3, <1>5 DEF Apart, Own
<1>12. copy \in SoundIDs
  BY RemoveRequestSound
<1> QED
  BY <1>6, <1>9, <1>10, <1>11, <1>12, BefriendSound

-----------------------------------------------------------------------------
(***************************************************************************)
(* Nobody asks twice.                                                      *)
(***************************************************************************)
AskedApart(p, requests) ==
    \A i, j \in DOMAIN requests :
        requests[i].who # p /\ (requests[i].who = requests[j].who => i = j)

LEMMA KeptParts ==
    ASSUME NEW p, NEW lists
    PROVE  lists \in Kept(p) <=> lists \in SoundIDs /\ AskedApart(p, lists.requests)
BY DEF Kept, AskedApart

LEMMA ThinnedAsked ==
    ASSUME NEW p, NEW u, NEW v, Thinned(v, u), AskedApart(p, u) PROVE AskedApart(p, v)
<1>1. PICK f \in [DOMAIN v -> DOMAIN u] : /\ \A i, j \in DOMAIN v : f[i] = f[j] => i = j
                                          /\ \A i \in DOMAIN v : v[i] = u[f[i]]
  BY DEF Thinned
<1> QED
  BY <1>1 DEF AskedApart

LEMMA KeptRemoveRequest ==
    ASSUME NEW p, NEW lists \in Kept(p), NEW id
    PROVE  RemoveFriendRequest(lists, id) \in Kept(p)
<1>1. lists \in SoundIDs /\ lists \in Lists /\ AskedApart(p, lists.requests)
  BY KeptParts DEF SoundIDs
<1>2. PICK r \in Seq(Row) : r = lists.requests
  BY <1>1 DEF Lists
<1>3. RemoveFriendRequest(lists, id).requests = Without(r, id)
  BY <1>1, <1>2 DEF RemoveFriendRequest, Lists
<1>4. AskedApart(p, Without(r, id))
  BY <1>1, <1>2, WithoutThins, ThinnedAsked
<1> QED
  BY <1>1, <1>3, <1>4, RemoveRequestSound, KeptParts

LEMMA KeptSame ==
    ASSUME NEW p, NEW lists \in Kept(p), NEW other \in SoundIDs, other.requests = lists.requests
    PROVE  other \in Kept(p)
BY DEF Kept

LEMMA BefriendRequests ==
    ASSUME NEW lists \in Lists, NEW row PROVE Befriend(lists, row).requests = lists.requests
BY DEF Befriend, Lists

LEMMA KeptAccept ==
    ASSUME NEW p, NEW lists \in Kept(p), NEW id \in IDs(lists.requests),
           NEW row, row = RowWith(lists.requests, id), NEW copy, copy = RemoveFriendRequest(lists, id)
    PROVE  row \in Row /\ copy \in Lists /\ Befriend(copy, row) \in Kept(p)
<1>1. lists \in SoundIDs
  BY KeptParts
<1>2. row \in Row /\ copy \in SoundIDs /\ Befriend(copy, row) \in SoundIDs
  BY <1>1, AcceptSound
<1>3. copy \in Lists /\ copy \in Kept(p)
  BY <1>2, KeptRemoveRequest DEF SoundIDs
<1> QED
  BY <1>2, <1>3, BefriendRequests, KeptSame

LEMMA KeptRemoveFriend ==
    ASSUME NEW p, NEW lists \in Kept(p)
    PROVE  /\ \A id : RemoveFriend(lists, id) \in Kept(p)
           /\ \A q : IsFriendOf(lists, q) => RemoveFriendOf(lists, q) \in Kept(p)
<1>1. lists \in SoundIDs /\ lists \in Lists
  BY KeptParts DEF SoundIDs
<1>2. ASSUME NEW id PROVE RemoveFriend(lists, id) \in Kept(p)
  <2>1. RemoveFriend(lists, id).requests = lists.requests
    BY <1>1 DEF RemoveFriend, Lists
  <2> QED
    BY <1>1, <2>1, RemoveFriendSound, KeptSame
<1>3. ASSUME NEW q, IsFriendOf(lists, q) PROVE RemoveFriendOf(lists, q) \in Kept(p)
  <2>1. RemoveFriendOf(lists, q).requests = lists.requests
    BY <1>1 DEF RemoveFriendOf, Lists
  <2> QED
    BY <1>1, <1>3, <2>1, RemoveFriendOfSound, KeptSame
<1> QED
  BY <1>2, <1>3

LEMMA KeptBefriend ==
    ASSUME NEW p, NEW lists \in Kept(p), NEW q \in Player,
           NEW row, row = [id |-> NextSocialID(lists), who |-> q]
    PROVE  row \in Row /\ Befriend(lists, row) \in Kept(p)
<1>1. lists \in SoundIDs /\ lists \in Lists
  BY KeptParts DEF SoundIDs
<1>2. row \in Row /\ Own(row, lists.friends) /\ Own(row, lists.requests)
  BY <1>1, NextSocialIDOwn
<1> QED
  BY <1>1, <1>2, BefriendSound, BefriendRequests, KeptSame

LEMMA KeptAsk ==
    ASSUME NEW p \in Player, NEW q, p # q, NEW lists \in Kept(q), ~ HasRequestFrom(lists, p),
           NEW row, row = [id |-> NextSocialID(lists), who |-> p]
    PROVE  row \in Row /\ [lists EXCEPT !.requests = Append(@, row)] \in Kept(q)
<1>1. lists \in SoundIDs /\ lists \in Lists /\ AskedApart(q, lists.requests)
  BY KeptParts DEF SoundIDs
<1>2. row \in Row /\ Own(row, lists.friends) /\ Own(row, lists.requests) /\ row.who = p
  BY <1>1, NextSocialIDOwn
<1>3. PICK r \in Seq(Row) : r = lists.requests
  BY <1>1 DEF Lists
<1>4. PICK s : s = Append(r, row)
  OBVIOUS
<1>5. /\ \A i \in 1 .. Len(r) : s[i] = r[i]
      /\ s[Len(r) + 1] = row
      /\ DOMAIN s = 1 .. Len(r) + 1 /\ DOMAIN r = 1 .. Len(r) /\ Len(r) \in Nat
  BY <1>2, <1>4, AppendProperties
<1>6. \A i \in DOMAIN s : (i \in DOMAIN r /\ s[i] = r[i]) \/ (i = Len(r) + 1 /\ s[i] = row)
  BY <1>5
<1>7. \A i \in DOMAIN r : r[i].who # p
  BY <1>3 DEF HasRequestFrom, People
<1>8. AskedApart(q, s)
  BY <1>1, <1>2, <1>3, <1>6, <1>7 DEF AskedApart
<1>9. [lists EXCEPT !.requests = Append(@, row)].requests = s
  <2>1. [lists EXCEPT !.requests = s].requests = s
    BY <1>1 DEF Lists
  <2> QED
    BY <1>3, <1>4, <2>1
<1> QED
  BY <1>1, <1>2, <1>8, <1>9, RequestSound, KeptParts

-----------------------------------------------------------------------------
(***************************************************************************)
(* Calls.                                                                  *)
(***************************************************************************)
LEMMA SaveIsSound ==
    ASSUME NEW p \in Player, NEW q \in Player, NEW lists \in Kept(q)
    PROVE  SaveSocial(q, lists) \in SoundCall(p)
<1>1. lists \in Lists
  BY DEF Kept, SoundIDs
<1>2. PICK w : w = [do |-> "saveSocial", who |-> q, lists |-> lists]
  OBVIOUS
<1>3. w \in Call /\ w.do = "saveSocial" /\ w.who = q /\ w.lists = lists
  BY <1>1, <1>2 DEF Call
<1> QED
  BY <1>2, <1>3 DEF SoundCall, SaveSocial

LEMMA TellIsSound ==
    ASSUME NEW p \in Player, NEW q \in Player, NEW what \in {"add", "withdraw", "invite"},
           NEW list \in {"friends", "requests"}, NEW row \in Row
    PROVE  Tell(q, what, list, row) \in Seq(SoundCall(p))
<1>1. PICK w : w = [do |-> "tell", who |-> q, what |-> what, list |-> list, row |-> row]
  OBVIOUS
<1>2. w \in Call /\ w.do = "tell"
  BY <1>1 DEF Call
<1>3. w \in SoundCall(p)
  BY <1>2 DEF SoundCall
<1> QED
  BY <1>1, <1>3 DEF Tell, Message

LEMMA ShowIsSound ==
    ASSUME NEW p \in Player, NEW list \in {"friends", "requests"}, NEW rows \in SUBSET Row
    PROVE  Show(p, list, rows) \in Seq(SoundCall(p))
<1>1. PICK w : w = [do |-> "show", who |-> p, list |-> list, rows |-> rows]
  OBVIOUS
<1>2. w \in Call /\ w.do = "show" /\ w.who = p
  BY <1>1 DEF Call
<1>3. w \in SoundCall(p)
  BY <1>2 DEF SoundCall
<1> QED
  BY <1>1, <1>3 DEF Show, Message

LEMMA FindIsSound ==
    ASSUME NEW p \in Player, NEW row \in Row
    PROVE  /\ FindOther(row) \in SoundCall(p) /\ FindInvited(row) \in SoundCall(p)
           /\ \A copy \in Lists : Befriend(copy, row) \in Kept(p) => FindSender(row, copy) \in SoundCall(p)
<1>1. ASSUME NEW what \in {"findOther", "findInvited"}, NEW w, w = [do |-> what, row |-> row]
      PROVE  w \in SoundCall(p)
  <2>1. w \in Call /\ w.do = what
    BY <1>1 DEF Call
  <2> QED
    BY <2>1 DEF SoundCall
<1>2. ASSUME NEW copy \in Lists, Befriend(copy, row) \in Kept(p),
             NEW w, w = [do |-> "findSender", row |-> row, copy |-> copy]
      PROVE  w \in SoundCall(p)
  <2>1. w \in Call /\ w.do = "findSender" /\ w.row = row /\ w.copy = copy
    BY <1>2 DEF Call
  <2> QED
    BY <1>2, <2>1 DEF SoundCall
<1> QED
  BY <1>1, <1>2 DEF FindOther, FindInvited, FindSender

-----------------------------------------------------------------------------
(***************************************************************************)
(* A handler's step: it saves nothing but what keeps to the rules, and     *)
(* what it has left keeps to them.                                         *)
(***************************************************************************)
LEMMA HandlerStep ==
    ASSUME FriendsInv, NEW p \in Player, NEW calls \in Seq(SoundCall(p)),
           todo' = [todo EXCEPT ![p] = calls],
           calls # <<>> => Online(p)',
           \A q \in Player : social'[q] \in Kept(q), social' \in [Player -> Lists],
           panel' \in [Player -> Panel \cup {Offline}],
           \A q \in Player : q # p /\ Online(q) => Online(q)',
           calm' \in BOOLEAN
    PROVE  FriendsInv'
<1>1. calls \in Seq(Call)
  BY DEF SoundCall
<1>2. TypeOK'
  BY <1>1 DEF FriendsInv, TypeOK
<1>3. todo'[p] = calls /\ \A q \in Player : q # p => todo'[q] = todo[q]
  BY DEF FriendsInv, TypeOK
<1> QED
  BY <1>2, <1>3 DEF FriendsInv

LEMMA AskStep ==
    ASSUME FriendsInv, NEW p \in Player, NEW calls \in Seq(SoundCall(p)), Leaves(p, calls)
    PROVE  FriendsInv'
<1>1. /\ todo' = [todo EXCEPT ![p] = calls]
      /\ UNCHANGED <<social, panel>>
      /\ calm' = (calm /\ Quiet)
      /\ Online(p)
  BY DEF Leaves, Begin
<1>2. calm' \in BOOLEAN
  BY <1>1
<1>3. /\ \A q \in Player : social'[q] \in Kept(q)
      /\ social' \in [Player -> Lists]
      /\ panel' \in [Player -> Panel \cup {Offline}]
      /\ \A q \in Player : Online(q) => Online(q)'
  BY <1>1 DEF FriendsInv, TypeOK, Online
<1> QED
  BY <1>1, <1>2, <1>3, HandlerStep

LEMMA RequestInv ==
    ASSUME FriendsInv, NEW p \in Player, NEW q \in Player, Request(p, q) PROVE FriendsInv'
<1>1. PICK row, lists : /\ row = [id |-> NextSocialID(social[q]), who |-> p]
                        /\ lists = [social[q] EXCEPT !.requests = Append(@, row)]
  OBVIOUS
<1>2. row \in Row /\ lists \in Kept(q)
  BY <1>1, KeptAsk DEF Request, FriendsInv
<1>3. PICK calls : calls = <<SaveSocial(q, lists)>> \o Tell(q, "add", "requests", row)
  OBVIOUS
<1>4. Leaves(p, calls)
  BY <1>1, <1>3 DEF Request
<1>5. calls \in Seq(SoundCall(p))
  <2>1. SaveSocial(q, lists) \in SoundCall(p)
    BY <1>2, SaveIsSound
  <2>2. Tell(q, "add", "requests", row) \in Seq(SoundCall(p))
    BY <1>2, TellIsSound
  <2> QED
    BY <1>3, <2>1, <2>2
<1> QED
  BY <1>4, <1>5, AskStep

LEMMA RowFound ==
    ASSUME NEW u \in Seq(Row), NEW id \in IDs(u) PROVE RowWith(u, id) \in Row
BY IndexFound DEF RowWith

LEMMA AnswerInv ==
    ASSUME FriendsInv, NEW p \in Player, NEW id \in 0 .. MaxSocialID,
           Accept(p, id) \/ Reject(p, id) \/ Delete(p, id) \/ Invite(p, id)
    PROVE  FriendsInv'
<1>1. PICK mine : mine = social[p]
  OBVIOUS
<1>2. mine \in Kept(p) /\ mine.friends \in Seq(Row) /\ mine.requests \in Seq(Row)
  BY <1>1 DEF FriendsInv, Kept, SoundIDs, Lists
<1>3. CASE Accept(p, id)
  <2>1. id \in IDs(mine.requests)
    BY <1>1, <1>3 DEF Accept
  <2>2. PICK row, copy : row = RowWith(mine.requests, id) /\ copy = RemoveFriendRequest(mine, id)
    OBVIOUS
  <2>3. row \in Row /\ copy \in Lists /\ Befriend(copy, row) \in Kept(p)
    BY <1>2, <2>1, <2>2, KeptAccept
  <2>4. Leaves(p, <<FindSender(row, copy)>>)
    BY <1>1, <1>3, <2>2 DEF Accept
  <2>5. FindSender(row, copy) \in SoundCall(p)
    BY <2>3, FindIsSound
  <2>6. <<FindSender(row, copy)>> \in Seq(SoundCall(p))
    BY <2>5
  <2> QED
    BY <2>4, <2>6, AskStep
<1>4. CASE Reject(p, id)
  <2>1. id \in IDs(mine.requests)
    BY <1>1, <1>4 DEF Reject
  <2>2. PICK row, lists, calls :
          /\ row = RowWith(mine.requests, id) /\ lists = RemoveFriendRequest(mine, id)
          /\ calls = <<SaveSocial(p, lists)>> \o Tell(p, "withdraw", "requests", row)
    OBVIOUS
  <2>3. row \in Row /\ lists \in Kept(p)
    BY <1>2, <2>1, <2>2, RowFound, KeptRemoveRequest
  <2>4. Leaves(p, calls)
    BY <1>1, <1>4, <2>2 DEF Reject
  <2>5. SaveSocial(p, lists) \in SoundCall(p)
    BY <2>3, SaveIsSound
  <2>6. Tell(p, "withdraw", "requests", row) \in Seq(SoundCall(p))
    BY <2>3, TellIsSound
  <2>7. calls \in Seq(SoundCall(p))
    BY <2>2, <2>5, <2>6
  <2> QED
    BY <2>4, <2>7, AskStep
<1>5. CASE Delete(p, id)
  <2>1. id \in IDs(mine.friends)
    BY <1>1, <1>5 DEF Delete
  <2>2. PICK row, lists : row = RowWith(mine.friends, id) /\ lists = RemoveFriend(mine, id)
    OBVIOUS
  <2>3. row \in Row /\ lists \in Kept(p)
    BY <1>2, <2>1, <2>2, RowFound, KeptRemoveFriend
  <2>4. Leaves(p, <<SaveSocial(p, lists), FindOther(row)>>)
    BY <1>1, <1>5, <2>2 DEF Delete
  <2>5. SaveSocial(p, lists) \in SoundCall(p) /\ FindOther(row) \in SoundCall(p)
    BY <2>3, SaveIsSound, FindIsSound
  <2>6. <<SaveSocial(p, lists), FindOther(row)>> \in Seq(SoundCall(p))
    BY <2>5
  <2> QED
    BY <2>4, <2>6, AskStep
<1>6. CASE Invite(p, id)
  <2>1. id \in IDs(mine.friends)
    BY <1>1, <1>6 DEF Invite
  <2>2. PICK row : row = RowWith(mine.friends, id)
    OBVIOUS
  <2>3. row \in Row
    BY <1>2, <2>1, <2>2, RowFound
  <2>4. Leaves(p, <<FindInvited(row)>>)
    BY <1>1, <1>6, <2>2 DEF Invite
  <2>5. FindInvited(row) \in SoundCall(p)
    BY <2>3, FindIsSound
  <2>6. <<FindInvited(row)>> \in Seq(SoundCall(p))
    BY <2>5
  <2> QED
    BY <2>4, <2>6, AskStep
<1> QED
  BY <1>3, <1>4, <1>5, <1>6

LEMMA ComingInv == ASSUME FriendsInv, NEW p \in Player, Login(p) PROVE FriendsInv'
<1>1. PICK f, r : f = Range(social[p].friends) /\ r = Range(social[p].requests)
  OBVIOUS
<1>2. f \in SUBSET Row /\ r \in SUBSET Row
  <2>1. social[p].friends \in Seq(Row) /\ social[p].requests \in Seq(Row)
    BY DEF FriendsInv, TypeOK, Lists
  <2> QED
    BY <1>1, <2>1 DEF Range
<1>3. PICK calls : calls = Show(p, "friends", f) \o Show(p, "requests", r)
  OBVIOUS
<1>4. calls \in Seq(SoundCall(p))
  <2>1. Show(p, "friends", f) \in Seq(SoundCall(p)) /\ Show(p, "requests", r) \in Seq(SoundCall(p))
    BY <1>2, ShowIsSound
  <2> QED
    BY <1>3, <2>1
<1>5. PICK screen : screen = [friends |-> {}, requests |-> {}]
  OBVIOUS
<1>6. screen \in Panel /\ screen # Offline
  BY <1>5, OfflineAssumption DEF Panel
<1>7. /\ todo' = [todo EXCEPT ![p] = calls]
      /\ panel' = [panel EXCEPT ![p] = screen]
      /\ calm' = (calm /\ Quiet)
      /\ UNCHANGED social
  BY <1>1, <1>3, <1>5 DEF Login, Begin
<1>8. calm' \in BOOLEAN
  BY <1>7
<1>9. /\ \A q \in Player : social'[q] \in Kept(q)
      /\ social' \in [Player -> Lists]
      /\ panel' \in [Player -> Panel \cup {Offline}]
      /\ \A q \in Player : Online(q) => Online(q)'
      /\ Online(p)'
  BY <1>6, <1>7 DEF FriendsInv, TypeOK, Online
<1> QED
  BY <1>4, <1>7, <1>8, <1>9, HandlerStep

LEMMA GoingInv ==
    ASSUME FriendsInv, (\E p \in Player : Logout(p) \/ Fail(p)) \/ Crash PROVE FriendsInv'
<1>1. ASSUME NEW p \in Player, Logout(p) PROVE FriendsInv'
  <2>1. /\ todo[p] = <<>>
        /\ panel' = [panel EXCEPT ![p] = Offline]
        /\ UNCHANGED <<social, todo, calm>>
    BY <1>1 DEF Logout
  <2> QED
    BY <2>1 DEF FriendsInv, TypeOK, Online
<1>2. ASSUME NEW p \in Player, Fail(p) PROVE FriendsInv'
  <2>1. <<>> \in Seq(SoundCall(p))
    OBVIOUS
  <2>2. /\ todo' = [todo EXCEPT ![p] = <<>>] /\ calm' \in BOOLEAN
        /\ UNCHANGED <<social, panel>>
    BY <1>2 DEF Fail
  <2>3. /\ \A q \in Player : social'[q] \in Kept(q)
        /\ social' \in [Player -> Lists]
        /\ panel' \in [Player -> Panel \cup {Offline}]
        /\ \A q \in Player : Online(q) => Online(q)'
    BY <2>2 DEF FriendsInv, TypeOK, Online
  <2> QED
    BY <2>1, <2>2, <2>3, HandlerStep
<1>3. CASE Crash
  <2>1. /\ todo' = [p \in Player |-> <<>>]
        /\ panel' = [p \in Player |-> Offline]
        /\ calm' = (calm /\ Quiet)
        /\ UNCHANGED social
    BY <1>3 DEF Crash
  <2>2. calm' \in BOOLEAN
    BY <2>1
  <2>3. \A S : <<>> \in Seq(S)
    OBVIOUS
  <2> QED
    BY <2>1, <2>2, <2>3 DEF FriendsInv, TypeOK, Online
<1> QED
  BY <1>1, <1>2, <1>3

-----------------------------------------------------------------------------
(***************************************************************************)
(* The calls that are left, one step each.                                 *)
(***************************************************************************)
LEMMA NextIsSound ==
    ASSUME FriendsInv, NEW p \in Player, todo[p] # <<>>
    PROVE  /\ Head(todo[p]) \in SoundCall(p)
           /\ Tail(todo[p]) \in Seq(SoundCall(p))
           /\ Online(p)
<1>1. todo[p] \in Seq(SoundCall(p)) /\ Online(p)
  BY DEF FriendsInv
<1> QED
  BY <1>1

LEMMA SavingInv == ASSUME FriendsInv, NEW p \in Player, Saving(p) PROVE FriendsInv'
<1>1. PICK w, rest : w = Head(todo[p]) /\ rest = Tail(todo[p])
  OBVIOUS
<1>2. w \in SoundCall(p) /\ rest \in Seq(SoundCall(p)) /\ Online(p)
  BY <1>1, NextIsSound DEF Saving, NextCall
<1>3. /\ w.do = "saveSocial"
      /\ social' = [social EXCEPT ![w.who] = w.lists]
      /\ todo' = [todo EXCEPT ![p] = rest]
      /\ UNCHANGED panel
      /\ calm' \in BOOLEAN
  BY <1>1 DEF Saving, NextCall
<1>4. w.lists \in Kept(w.who) /\ w.lists \in Lists
  BY <1>2, <1>3 DEF SoundCall, Kept, SoundIDs
<1>5. /\ \A q \in Player : social'[q] \in Kept(q)
      /\ social' \in [Player -> Lists]
  BY <1>3, <1>4 DEF FriendsInv, TypeOK
<1>6. /\ panel' \in [Player -> Panel \cup {Offline}]
      /\ \A q \in Player : Online(q) => Online(q)'
  BY <1>3 DEF FriendsInv, TypeOK, Online
<1> QED
  BY <1>2, <1>3, <1>5, <1>6, HandlerStep

(***************************************************************************)
(* A step that only looks an account up.                                   *)
(***************************************************************************)
LEMMA FindingStep ==
    ASSUME FriendsInv, NEW p \in Player, todo[p] # <<>>, NEW calls \in Seq(SoundCall(p)),
           todo' = [todo EXCEPT ![p] = calls], UNCHANGED <<social, panel, calm>>
    PROVE  FriendsInv'
<1>1. Online(p)
  BY NextIsSound
<1>2. /\ \A q \in Player : social'[q] \in Kept(q)
      /\ social' \in [Player -> Lists]
      /\ panel' \in [Player -> Panel \cup {Offline}]
      /\ \A q \in Player : Online(q) => Online(q)'
      /\ calm' \in BOOLEAN
  BY DEF FriendsInv, TypeOK, Online
<1> QED
  BY <1>1, <1>2, HandlerStep

LEMMA FindingSenderInv == ASSUME FriendsInv, NEW p \in Player, FindingSender(p) PROVE FriendsInv'
<1>1. PICK w : w = Head(todo[p])
  OBVIOUS
<1>2. /\ w \in SoundCall(p) /\ w.do = "findSender" /\ todo[p] # <<>>
  BY <1>1, NextIsSound DEF FindingSender, NextCall
<1>3. w.row \in Row /\ w.row.who \in Player /\ Befriend(w.copy, w.row) \in Kept(p)
  BY <1>2 DEF SoundCall, Call, Row
<1>4. PICK sender, theirs, mine, hers :
        /\ sender = w.row.who
        /\ theirs = [id |-> NextSocialID(social[sender]), who |-> p]
        /\ mine = Befriend(w.copy, w.row)
        /\ hers = Befriend(social[sender], theirs)
  OBVIOUS
<1>5. sender \in Player /\ theirs \in Row /\ mine \in Kept(p) /\ hers \in Kept(sender)
  BY <1>3, <1>4, KeptBefriend DEF FriendsInv
<1>6. PICK calls :
        calls = <<SaveSocial(p, mine), SaveSocial(sender, hers)>>
                \o (Tell(p, "withdraw", "requests", w.row) \o Tell(p, "add", "friends", w.row)
                    \o Tell(sender, "add", "friends", theirs))
  OBVIOUS
<1>7. calls \in Seq(SoundCall(p))
  <2>1. SaveSocial(p, mine) \in SoundCall(p) /\ SaveSocial(sender, hers) \in SoundCall(p)
    BY <1>5, SaveIsSound
  <2>2. /\ Tell(p, "withdraw", "requests", w.row) \in Seq(SoundCall(p))
        /\ Tell(p, "add", "friends", w.row) \in Seq(SoundCall(p))
        /\ Tell(sender, "add", "friends", theirs) \in Seq(SoundCall(p))
    BY <1>3, <1>5, TellIsSound
  <2> QED
    BY <1>6, <2>1, <2>2
<1>8. todo' = [todo EXCEPT ![p] = calls] /\ UNCHANGED <<social, panel, calm>>
  BY <1>1, <1>4, <1>6 DEF FindingSender
<1> QED
  BY <1>2, <1>7, <1>8, FindingStep

LEMMA FindingOtherInv == ASSUME FriendsInv, NEW p \in Player, FindingOther(p) PROVE FriendsInv'
<1>1. PICK w : w = Head(todo[p])
  OBVIOUS
<1>2. /\ w \in SoundCall(p) /\ w.do = "findOther" /\ todo[p] # <<>>
  BY <1>1, NextIsSound DEF FindingOther, NextCall
<1>3. w.row \in Row /\ w.row.who \in Player
  BY <1>2 DEF SoundCall, Call, Row
<1>4. PICK other, mirrored, own, theirs :
        /\ other = w.row.who
        /\ mirrored = RowOf(social[other].friends, p)
        /\ own = Tell(p, "withdraw", "friends", w.row)
        /\ theirs = RemoveFriendOf(social[other], p)
  OBVIOUS
<1>5. own \in Seq(SoundCall(p)) /\ other \in Player
  BY <1>3, <1>4, TellIsSound
<1>6. PICK told : told = IF mirrored.id = 0 THEN <<>> ELSE Tell(other, "withdraw", "friends", mirrored)
  OBVIOUS
<1>7. PICK calls : calls = IF ~ IsFriendOf(social[other], p) THEN own
                           ELSE <<SaveSocial(other, theirs)>> \o (own \o told)
  OBVIOUS
<1>8. todo' = [todo EXCEPT ![p] = calls] /\ UNCHANGED <<social, panel, calm>>
  BY <1>1, <1>4, <1>6, <1>7 DEF FindingOther
<1>9. calls \in Seq(SoundCall(p))
  <2>1. CASE ~ IsFriendOf(social[other], p)
    BY <1>5, <1>7, <2>1
  <2>2. CASE IsFriendOf(social[other], p)
    <3>1. social[other] \in Kept(other) /\ social[other].friends \in Seq(Row)
      BY <1>5 DEF FriendsInv, TypeOK, Lists
    <3>2. theirs \in Kept(other)
      BY <1>4, <2>2, <3>1, KeptRemoveFriend
    <3>3. mirrored \in Row
      BY <1>4, <2>2, <3>1, PlaceFound DEF IsFriendOf
    <3>4. told \in Seq(SoundCall(p))
      <4>1. Tell(other, "withdraw", "friends", mirrored) \in Seq(SoundCall(p))
        BY <1>5, <3>3, TellIsSound
      <4> QED
        BY <1>6, <4>1
    <3>5. SaveSocial(other, theirs) \in SoundCall(p)
      BY <1>5, <3>2, SaveIsSound
    <3> QED
      BY <1>5, <1>7, <2>2, <3>4, <3>5
  <2> QED
    BY <2>1, <2>2
<1> QED
  BY <1>2, <1>8, <1>9, FindingStep

LEMMA FindingInvitedInv ==
    ASSUME FriendsInv, NEW p \in Player, FindingInvited(p) PROVE FriendsInv'
<1>1. PICK w, q : w = Head(todo[p]) /\ q = w.row.who
  OBVIOUS
<1>2. /\ w \in SoundCall(p) /\ w.do = "findInvited" /\ todo[p] # <<>>
  BY <1>1, NextIsSound DEF FindingInvited, NextCall
<1>3. q \in Player
  BY <1>1, <1>2 DEF SoundCall, Call, Row
<1>4. PICK row : row = RowOf(social[q].friends, p)
  OBVIOUS
<1>5. PICK calls : calls = IF IsFriendOf(social[q], p) /\ Online(q)
                           THEN Tell(q, "invite", "friends", row) ELSE <<>>
  OBVIOUS
<1>6. todo' = [todo EXCEPT ![p] = calls] /\ UNCHANGED <<social, panel, calm>>
  BY <1>1, <1>4, <1>5 DEF FindingInvited
<1>7. calls \in Seq(SoundCall(p))
  <2>1. CASE IsFriendOf(social[q], p)
    <3>1. row \in Row
      BY <1>3, <1>4, <2>1, PlaceFound DEF IsFriendOf, FriendsInv, TypeOK, Lists
    <3>2. Tell(q, "invite", "friends", row) \in Seq(SoundCall(p))
      BY <1>3, <3>1, TellIsSound
    <3> QED
      BY <1>5, <3>2
  <2>2. CASE ~ IsFriendOf(social[q], p)
    BY <1>5, <2>2
  <2> QED
    BY <2>1, <2>2
<1> QED
  BY <1>2, <1>6, <1>7, FindingStep

(***************************************************************************)
(* What a screen shows are rows.                                           *)
(***************************************************************************)
LEMMA ScreenStep ==
    ASSUME FriendsInv, NEW p \in Player, todo[p] # <<>>,
           todo' = [todo EXCEPT ![p] = Tail(@)], UNCHANGED <<social, calm>>,
           NEW q \in Player, Online(q), NEW list \in {"friends", "requests"}, NEW rows \in SUBSET Row,
           panel' = [panel EXCEPT ![q] = [panel[q] EXCEPT ![list] = rows]]
    PROVE  FriendsInv'
<1>1. Tail(todo[p]) \in Seq(SoundCall(p)) /\ Online(p)
  BY NextIsSound
<1>2. PICK screen : screen = [panel[q] EXCEPT ![list] = rows]
  OBVIOUS
<1>3. screen \in Panel /\ screen # Offline
  <2>1. panel[q] \in Panel
    BY DEF FriendsInv, TypeOK, Online
  <2> QED
    BY <1>2, <2>1, OfflineAssumption DEF Panel
<1>4. /\ panel' \in [Player -> Panel \cup {Offline}]
      /\ \A x \in Player : Online(x) => Online(x)'
  BY <1>2, <1>3 DEF FriendsInv, TypeOK, Online
<1>5. /\ \A x \in Player : social'[x] \in Kept(x)
      /\ social' \in [Player -> Lists]
      /\ calm' \in BOOLEAN
  BY DEF FriendsInv, TypeOK
<1> QED
  BY <1>1, <1>4, <1>5, HandlerStep

LEMMA TellingInv == ASSUME FriendsInv, NEW p \in Player, Telling(p) PROVE FriendsInv'
<1>1. PICK w : w = Head(todo[p])
  OBVIOUS
<1>2. w \in SoundCall(p) /\ w.do = "tell" /\ todo[p] # <<>>
  BY <1>1, NextIsSound DEF Telling, NextCall
<1>3. w.who \in Player /\ w.list \in {"friends", "requests"} /\ w.row \in Row
  BY <1>2 DEF SoundCall, Call
<1>4. todo' = [todo EXCEPT ![p] = Tail(@)] /\ UNCHANGED <<social, calm>>
  BY DEF Telling
<1>5. CASE ~ Online(w.who) \/ w.what = "invite"
  <2>1. UNCHANGED panel
    BY <1>1, <1>5 DEF Telling
  <2>2. Tail(todo[p]) \in Seq(SoundCall(p))
    BY <1>2, NextIsSound
  <2> QED
    BY <1>2, <1>4, <2>1, <2>2, FindingStep
<1>6. CASE Online(w.who) /\ w.what # "invite"
  <2>1. PICK shown : shown = panel[w.who][w.list]
    OBVIOUS
  <2>2. shown \in SUBSET Row
    BY <1>3, <1>6, <2>1 DEF FriendsInv, TypeOK, Online, Panel
  <2>3. PICK rows : rows = IF w.what = "add" THEN shown \cup {w.row}
                                             ELSE {r \in shown : r.id # w.row.id}
    OBVIOUS
  <2>4. rows \in SUBSET Row
    BY <1>3, <2>2, <2>3
  <2>5. panel' = [panel EXCEPT ![w.who] = [panel[w.who] EXCEPT ![w.list] = rows]]
    BY <1>1, <1>6, <2>1, <2>3 DEF Telling
  <2> QED
    BY <1>2, <1>3, <1>4, <1>6, <2>4, <2>5, ScreenStep
<1> QED
  BY <1>5, <1>6

LEMMA ShowingInv == ASSUME FriendsInv, NEW p \in Player, Showing(p) PROVE FriendsInv'
<1>1. PICK w : w = Head(todo[p])
  OBVIOUS
<1>2. w \in SoundCall(p) /\ w.do = "show" /\ todo[p] # <<>> /\ Online(p)
  BY <1>1, NextIsSound DEF Showing, NextCall
<1>3. w.who = p /\ w.list \in {"friends", "requests"} /\ w.rows \in SUBSET Row
  BY <1>2 DEF SoundCall, Call
<1>4. /\ todo' = [todo EXCEPT ![p] = Tail(@)] /\ UNCHANGED <<social, calm>>
      /\ panel' = [panel EXCEPT ![p] = [panel[p] EXCEPT ![w.list] = w.rows]]
  BY <1>1, <1>3 DEF Showing
<1> QED
  BY <1>2, <1>3, <1>4, ScreenStep

-----------------------------------------------------------------------------
LEMMA FriendsInit == Init => FriendsInv
<1> SUFFICES ASSUME Init PROVE FriendsInv
  OBVIOUS
<1>1. \A S : <<>> \in Seq(S)
  OBVIOUS
<1>2. NoLists \in Lists /\ NoLists.friends = <<>> /\ NoLists.requests = <<>>
  BY <1>1 DEF NoLists, Lists
<1>3. \A p \in Player : NoLists \in Kept(p)
  <2>1. NoLists \in SoundIDs
    <3>1. ToldApart(<<>>) /\ Apart(<<>>, <<>>)
      BY DEF ToldApart, Apart
    <3> QED
      BY <1>2, <3>1, ListsSplit
  <2> QED
    BY <1>2, <2>1 DEF Kept
<1> QED
  BY <1>1, <1>2, <1>3 DEF Init, FriendsInv, TypeOK

LEMMA FriendsNext == FriendsInv /\ [Next]_vars => FriendsInv'
<1>1. SUFFICES ASSUME FriendsInv, [Next]_vars PROVE FriendsInv'
  OBVIOUS
<1>2. CASE UNCHANGED vars
  BY <1>1, <1>2 DEF vars, FriendsInv, TypeOK, Online
<1>3. CASE (\E p \in Player : Logout(p) \/ Fail(p)) \/ Crash
  BY <1>1, <1>3, GoingInv
<1>4. ASSUME NEW p \in Player, Login(p) PROVE FriendsInv'
  BY <1>1, <1>4, ComingInv
<1>5. ASSUME NEW p \in Player, Asks(p) PROVE FriendsInv'
  BY <1>1, <1>5, RequestInv, AnswerInv DEF Asks
<1>6. ASSUME NEW p \in Player, Proceeds(p) PROVE FriendsInv'
  BY <1>1, <1>6, SavingInv, FindingSenderInv, FindingOtherInv, FindingInvitedInv, TellingInv,
     ShowingInv DEF Proceeds
<1> QED
  BY <1>1, <1>2, <1>3, <1>4, <1>5, <1>6 DEF Next

(***************************************************************************)
(* FriendsInv holds always, whatever overlaps, fails or is cut off: every  *)
(* account, and every list a handler is about to save to one, keeps to the *)
(* rules, for any number of accounts and any bounds.                       *)
(***************************************************************************)
THEOREM FriendsInvariant == Spec => []FriendsInv
<1>1. Init => FriendsInv
  BY FriendsInit
<1>2. FriendsInv /\ [Next]_vars => FriendsInv'
  BY FriendsNext
<1> QED
  BY <1>1, <1>2, PTL DEF Spec

(***************************************************************************)
(* TypeOK: the database holds lists of friends and requests, and so do the *)
(* handlers that have loaded them.                                         *)
(***************************************************************************)
THEOREM FriendsTypeCorrect == Spec => []TypeOK
<1>1. FriendsInv => TypeOK
  BY DEF FriendsInv
<1> QED
  BY <1>1, FriendsInvariant, PTL

(***************************************************************************)
(* SocialIDsUnique: NextSocialID counts from both lists of the copy that   *)
(* was loaded, and copies are saved whole, over whatever came in between;  *)
(* no two rows of an account, saved or waiting to be, share an id but the  *)
(* zero of a counter that has wrapped.                                     *)
(***************************************************************************)
THEOREM SocialIDsAlwaysUnique == Spec => []SocialIDsUnique
<1>1. FriendsInv => SocialIDsUnique
  <2> SUFFICES ASSUME FriendsInv PROVE SocialIDsUnique
    OBVIOUS
  <2>1. \A p \in Player : social[p] \in SoundIDs
    BY DEF FriendsInv, Kept
  <2>2. ASSUME NEW p \in Player, NEW i \in DOMAIN todo[p] PROVE todo[p][i] \in SoundCall(p)
    BY DEF FriendsInv
  <2> QED
    BY <2>1, <2>2 DEF SocialIDsUnique, SoundCall, Kept
<1> QED
  BY <1>1, FriendsInvariant, PTL

(***************************************************************************)
(* AskedOnce: Request looks for an earlier request in the copy it loaded   *)
(* and saves later; no account ever holds two requests from one player,    *)
(* or one from itself.                                                     *)
(***************************************************************************)
THEOREM AlwaysAskedOnce == Spec => []AskedOnce
<1>1. FriendsInv => AskedOnce
  BY DEF FriendsInv, Kept, AskedOnce
<1> QED
  BY <1>1, FriendsInvariant, PTL

-----------------------------------------------------------------------------
(***************************************************************************)
(* How often a player is in a list that grows or is cut.                   *)
(***************************************************************************)
Places(u, q) == {i \in DOMAIN u : u[i].who = q}

LEMMA TimesCounts ==
    ASSUME NEW u \in Seq(Row), NEW q
    PROVE  /\ IsFiniteSet(Places(u, q))
           /\ Times(u, q) = Cardinality(Places(u, q)) /\ Times(u, q) \in Nat
           /\ Times(u, q) = 0 <=> q \notin People(u)
<1>1. PICK n \in Nat : n = Len(u) /\ DOMAIN u = 1 .. n
  OBVIOUS
<1>2. IsFiniteSet(1 .. n)
  BY FS_Interval
<1>3. IsFiniteSet(Places(u, q))
  <2>1. Places(u, q) \subseteq 1 .. n
    BY <1>1 DEF Places
  <2> QED
    BY <1>2, <2>1, FS_Subset
<1>4. Times(u, q) = Cardinality(Places(u, q))
  BY DEF Times, Places
<1>5. Cardinality(Places(u, q)) \in Nat /\ (Cardinality(Places(u, q)) = 0 <=> Places(u, q) = {})
  BY <1>3, FS_CardinalityType, FS_EmptySet
<1>6. Places(u, q) = {} <=> q \notin People(u)
  BY DEF Places, People
<1> QED
  BY <1>3, <1>4, <1>5, <1>6

OneMore(v, u, p) ==
    \A q : /\ p = q => Times(v, q) = Times(u, q) + 1
           /\ p # q => Times(v, q) = Times(u, q)

OneLess(v, u, p) ==
    \A q : /\ p = q => Times(v, q) = Times(u, q) - 1
           /\ p # q => Times(v, q) = Times(u, q)

LEMMA TimesAppend ==
    ASSUME NEW u \in Seq(Row), NEW e \in Row, NEW v, v = Append(u, e)
    PROVE  OneMore(v, u, e.who)
<1> SUFFICES ASSUME NEW q PROVE /\ e.who = q => Times(v, q) = Times(u, q) + 1
                                /\ e.who # q => Times(v, q) = Times(u, q)
  BY DEF OneMore
<1>1. PICK n \in Nat : n = Len(u) /\ DOMAIN u = 1 .. n
  OBVIOUS
<1>2. v \in Seq(Row) /\ DOMAIN v = 1 .. n + 1 /\ v[n + 1] = e /\ \A i \in 1 .. n : v[i] = u[i]
  BY <1>1, AppendProperties
<1>3. Places(v, q) = IF e.who = q THEN Places(u, q) \cup {n + 1} ELSE Places(u, q)
  <2>1. \A i : i \in 1 .. n + 1 <=> i \in 1 .. n \/ i = n + 1
    OBVIOUS
  <2>2. \A i : i \in Places(v, q) <=> \/ i \in Places(u, q)
                                      \/ i = n + 1 /\ e.who = q
    BY <1>1, <1>2, <2>1 DEF Places
  <2> QED
    BY <2>2
<1>4. n + 1 \notin Places(u, q)
  BY <1>1 DEF Places
<1>5. IsFiniteSet(Places(u, q)) /\ Cardinality(Places(u, q)) \in Nat
  BY TimesCounts
<1>6. Cardinality(Places(u, q) \cup {n + 1}) = Cardinality(Places(u, q)) + 1
  BY <1>4, <1>5, FS_AddElement
<1> QED
  BY <1>2, <1>3, <1>6, TimesCounts

LEMMA TimesRemoved ==
    ASSUME NEW u \in Seq(Row), NEW k \in DOMAIN u, NEW v, v = RemoveAt(u, k)
    PROVE  OneLess(v, u, u[k].who)
<1> SUFFICES ASSUME NEW q PROVE /\ u[k].who = q => Times(v, q) = Times(u, q) - 1
                                /\ u[k].who # q => Times(v, q) = Times(u, q)
  BY DEF OneLess
<1>1. PICK n \in Nat : n = Len(u) /\ DOMAIN u = 1 .. n
  OBVIOUS
<1>2. /\ v \in Seq(Row) /\ DOMAIN v = 1 .. n - 1
      /\ \A i \in 1 .. n - 1 : v[i] = IF i < k THEN u[i] ELSE u[i + 1]
  BY <1>1, RemoveAtShifts
<1> DEFINE f == [i \in Places(v, q) |-> IF i < k THEN i ELSE i + 1]
<1> DEFINE T == Places(u, q) \ {k}
<1>3. k \in 1 .. n /\ Places(v, q) \subseteq 1 .. n - 1
  BY <1>1, <1>2 DEF Places
<1>4. \A i \in Places(v, q) : f[i] \in T
  BY <1>1, <1>2, <1>3 DEF Places
<1>5. \A i, j \in Places(v, q) : f[i] = f[j] => i = j
  BY <1>3
<1>6. ASSUME NEW j \in T PROVE \E i \in Places(v, q) : f[i] = j
  <2>1. j \in 1 .. n /\ j # k /\ u[j].who = q
    BY <1>1 DEF Places
  <2>2. CASE j < k
    <3>1. j \in 1 .. n - 1 /\ v[j] = u[j]
      BY <1>2, <1>3, <2>1, <2>2
    <3>2. j \in Places(v, q)
      BY <1>2, <2>1, <3>1 DEF Places
    <3> QED
      BY <2>2, <3>2
  <2>3. CASE ~ (j < k)
    <3>1. PICK i : i = j - 1
      OBVIOUS
    <3>2. i \in 1 .. n - 1 /\ ~ (i < k) /\ i + 1 = j
      BY <1>3, <2>1, <2>3, <3>1
    <3>3. i \in Places(v, q)
      BY <1>2, <2>1, <3>2 DEF Places
    <3> QED
      BY <3>2, <3>3
  <2> QED
    BY <2>2, <2>3
<1>7. IsFiniteSet(Places(u, q)) /\ IsFiniteSet(Places(v, q)) /\ Cardinality(Places(u, q)) \in Nat
  BY <1>2, TimesCounts
<1>8. Cardinality(Places(v, q)) = Cardinality(T)
  <2>1. f \in Bijection(Places(v, q), T)
    <3>1. f \in [Places(v, q) -> T]
      BY <1>4
    <3>2. f \in Injection(Places(v, q), T)
      <4> HIDE DEF f, T
      <4> QED
        BY <1>5, <3>1 DEF Injection, IsInjective
    <3>3. f \in Surjection(Places(v, q), T)
      <4> HIDE DEF f, T
      <4> QED
        BY <1>6, <3>1 DEF Surjection
    <3> QED
      BY <3>2, <3>3 DEF Bijection
  <2>2. IsFiniteSet(T)
    BY <1>7, FS_RemoveElement
  <2> HIDE DEF f, T
  <2> QED
    BY <1>7, <2>1, <2>2, FS_Bijection DEF ExistsBijection
<1>9. Cardinality(T) = IF k \in Places(u, q) THEN Cardinality(Places(u, q)) - 1 ELSE Cardinality(Places(u, q))
  BY <1>7, FS_RemoveElement
<1>10. k \in Places(u, q) <=> u[k].who = q
  BY DEF Places
<1>11. Times(v, q) = Cardinality(Places(v, q)) /\ Times(u, q) = Cardinality(Places(u, q))
  BY <1>2, TimesCounts
<1> QED
  BY <1>8, <1>9, <1>10, <1>11

LEMMA TimesOnce ==
    ASSUME NEW p, NEW u \in Seq(Row), AskedApart(p, u), NEW q
    PROVE  Times(u, q) <= 1
<1>1. Times(u, q) = Cardinality(Places(u, q)) /\ Times(u, q) \in Nat
  BY TimesCounts
<1>2. \A i, j \in Places(u, q) : i = j
  BY DEF Places, AskedApart
<1>3. CASE Places(u, q) = {}
  BY <1>1, <1>3, FS_EmptySet
<1>4. CASE Places(u, q) # {}
  <2>1. PICK i : Places(u, q) = {i}
    BY <1>2, <1>4
  <2>2. Cardinality({i}) = 1
    BY FS_Singleton
  <2> QED
    BY <1>1, <2>1, <2>2
<1> QED
  BY <1>3, <1>4

-----------------------------------------------------------------------------
(***************************************************************************)
(* What an answered request leaves is settled again.                       *)
(***************************************************************************)
Dbs == [Player -> Lists]

LEMMA DbRows ==
    ASSUME NEW db \in Dbs, NEW p \in Player
    PROVE  db[p] \in Lists /\ db[p].friends \in Seq(Row) /\ db[p].requests \in Seq(Row)
BY DEF Dbs, Lists

LEMMA SettledCounts ==
    ASSUME NEW db \in Dbs, Settled(db), NEW x \in Player, NEW y \in Player
    PROVE  /\ Times(db[x].friends, x) = 0
           /\ Times(db[x].friends, y) \in Nat /\ Times(db[x].requests, y) \in Nat
           /\ Times(db[x].friends, y) = Times(db[y].friends, x)
           /\ Times(db[x].friends, y) + Times(db[x].requests, y) + Times(db[y].requests, x) <= 2
<1>1. db[x].friends \in Seq(Row) /\ db[x].requests \in Seq(Row)
  BY DbRows
<1>2. /\ Times(db[x].friends, y) \in Nat /\ Times(db[x].requests, y) \in Nat
      /\ x \notin People(db[x].friends) => Times(db[x].friends, x) = 0
  BY <1>1, TimesCounts
<1>3. x \notin People(db[x].friends)
  BY DEF Settled
<1>4. /\ Times(db[x].friends, y) = Times(db[y].friends, x)
      /\ Times(db[x].friends, y) + Times(db[x].requests, y) + Times(db[y].requests, x) <= 2
  BY DEF Settled
<1> QED
  BY <1>2, <1>3, <1>4

LEMMA SettledIf ==
    ASSUME NEW db \in Dbs,
           \A x, y \in Player :
              /\ Times(db[x].friends, x) = 0
              /\ Times(db[x].friends, y) = Times(db[y].friends, x)
              /\ Times(db[x].friends, y) + Times(db[x].requests, y) + Times(db[y].requests, x) <= 2
    PROVE  Settled(db)
<1>1. ASSUME NEW x \in Player PROVE x \notin People(db[x].friends)
  <2>1. db[x].friends \in Seq(Row)
    BY DbRows
  <2>2. Times(db[x].friends, x) = 0
    OBVIOUS
  <2> QED
    BY <2>1, <2>2, TimesCounts
<1> QED
  BY <1>1 DEF Settled

\* A request enters a list that does not have the player in it.
LEMMA AskSettles ==
    ASSUME NEW db \in Dbs, Settled(db), NEW p \in Player, NEW q \in Player, p # q,
           AskedApart(p, db[p].requests),
           p \notin People(db[q].friends), p \notin People(db[q].requests),
           NEW row \in Row, row.who = p,
           NEW new \in Lists, new.friends = db[q].friends,
           new.requests = Append(db[q].requests, row),
           NEW db2, db2 = [db EXCEPT ![q] = new]
    PROVE  db2 \in Dbs /\ Settled(db2)
<1>1. /\ db2 \in Dbs /\ db2[q] = new
      /\ \A x \in Player : x # q => db2[x] = db[x]
  BY DEF Dbs
<1>2. \A x \in Player : db[x].friends \in Seq(Row) /\ db[x].requests \in Seq(Row)
  BY DbRows
<1>3. Times(db[q].friends, p) = 0 /\ Times(db[q].requests, p) = 0 /\ Times(db[p].requests, q) <= 1
  BY <1>2, TimesCounts, TimesOnce
<1>4. \A x, y \in Player : Times(db2[x].friends, y) = Times(db[x].friends, y)
  BY <1>1
<1>5. ASSUME NEW x \in Player, NEW y \in Player
      PROVE  Times(db2[x].requests, y) =
               IF x = q /\ y = p THEN Times(db[x].requests, y) + 1 ELSE Times(db[x].requests, y)
  <2>1. CASE x = q
    <3>1. Times(new.requests, y) = IF row.who = y THEN Times(db[q].requests, y) + 1
                                                 ELSE Times(db[q].requests, y)
      <4>1. PICK u \in Seq(Row) : u = db[q].requests
        BY <1>2
      <4>2. PICK v : v = Append(u, row)
        OBVIOUS
      <4>3. OneMore(v, u, row.who)
        BY <4>2, TimesAppend
      <4>4. new.requests = v
        BY <4>1, <4>2
      <4> QED
        BY <4>1, <4>3, <4>4 DEF OneMore
    <3> QED
      BY <1>1, <2>1, <3>1
  <2>2. CASE x # q
    BY <1>1, <2>2
  <2> QED
    BY <2>1, <2>2
<1>6. ASSUME NEW x \in Player, NEW y \in Player
      PROVE  /\ Times(db2[x].friends, x) = 0
             /\ Times(db2[x].friends, y) = Times(db2[y].friends, x)
             /\ Times(db2[x].friends, y) + Times(db2[x].requests, y) + Times(db2[y].requests, x) <= 2
  <2>1. /\ Times(db[x].friends, x) = 0
        /\ Times(db[x].friends, y) \in Nat /\ Times(db[x].requests, y) \in Nat
        /\ Times(db[y].requests, x) \in Nat
        /\ Times(db[x].friends, y) = Times(db[y].friends, x)
        /\ Times(db[x].friends, y) + Times(db[x].requests, y) + Times(db[y].requests, x) <= 2
    BY SettledCounts
  <2>2. /\ Times(db2[x].friends, x) = 0 /\ Times(db2[x].friends, y) = Times(db[x].friends, y)
        /\ Times(db2[x].friends, y) = Times(db2[y].friends, x)
    BY <1>4, <2>1
  <2>3. CASE x = q /\ y = p
    <3>1. Times(db2[x].requests, y) = 1 /\ Times(db2[y].requests, x) = Times(db[y].requests, x)
      BY <1>3, <1>5, <2>3
    <3> QED
      BY <1>3, <2>1, <2>2, <2>3, <3>1
  <2>4. CASE y = q /\ x = p
    <3>1. Times(db2[y].requests, x) = 1 /\ Times(db2[x].requests, y) = Times(db[x].requests, y)
      BY <1>3, <1>5, <2>4
    <3> QED
      BY <1>3, <2>1, <2>2, <2>4, <3>1
  <2>5. CASE ~ (x = q /\ y = p) /\ ~ (y = q /\ x = p)
    <3>1. Times(db2[x].requests, y) = Times(db[x].requests, y)
      BY <1>5, <2>5
    <3>2. Times(db2[y].requests, x) = Times(db[y].requests, x)
      BY <1>5, <2>5
    <3> QED
      BY <2>1, <2>2, <3>1, <3>2
  <2> QED
    BY <2>3, <2>4, <2>5
<1> QED
  BY <1>1, <1>6, SettledIf

\* A request is struck out.
LEMMA RejectSettles ==
    ASSUME NEW db \in Dbs, Settled(db), NEW p \in Player,
           NEW k \in DOMAIN db[p].requests,
           NEW new \in Lists, new.friends = db[p].friends,
           new.requests = RemoveAt(db[p].requests, k),
           NEW db2, db2 = [db EXCEPT ![p] = new]
    PROVE  db2 \in Dbs /\ Settled(db2)
<1>1. /\ db2 \in Dbs /\ db2[p] = new
      /\ \A x \in Player : x # p => db2[x] = db[x]
  BY DEF Dbs
<1>2. \A x \in Player : db[x].friends \in Seq(Row) /\ db[x].requests \in Seq(Row)
  BY DbRows
<1>3. \A x, y \in Player : Times(db2[x].friends, y) = Times(db[x].friends, y)
  BY <1>1
<1>4. ASSUME NEW x \in Player, NEW y \in Player
      PROVE  Times(db2[x].requests, y) <= Times(db[x].requests, y) /\ Times(db2[x].requests, y) \in Nat
  <2>1. db2[x].requests \in Seq(Row)
    BY <1>1, DbRows
  <2>2. Times(db2[x].requests, y) \in Nat /\ Times(db[x].requests, y) \in Nat
    BY <1>2, <2>1, TimesCounts
  <2>3. CASE x = p
    <3>1. \/ Times(new.requests, y) = Times(db[p].requests, y) - 1
          \/ Times(new.requests, y) = Times(db[p].requests, y)
      BY <1>2, TimesRemoved DEF OneLess
    <3> QED
      BY <1>1, <2>2, <2>3, <3>1
  <2>4. CASE x # p
    BY <1>1, <2>2, <2>4
  <2> QED
    BY <2>3, <2>4
<1>5. ASSUME NEW x \in Player, NEW y \in Player
      PROVE  /\ Times(db2[x].friends, x) = 0
             /\ Times(db2[x].friends, y) = Times(db2[y].friends, x)
             /\ Times(db2[x].friends, y) + Times(db2[x].requests, y) + Times(db2[y].requests, x) <= 2
  <2>1. /\ Times(db[x].friends, x) = 0
        /\ Times(db[x].friends, y) \in Nat /\ Times(db[x].requests, y) \in Nat
        /\ Times(db[y].requests, x) \in Nat
        /\ Times(db[x].friends, y) = Times(db[y].friends, x)
        /\ Times(db[x].friends, y) + Times(db[x].requests, y) + Times(db[y].requests, x) <= 2
    BY SettledCounts
  <2>2. /\ Times(db2[x].requests, y) <= Times(db[x].requests, y) /\ Times(db2[x].requests, y) \in Nat
        /\ Times(db2[y].requests, x) <= Times(db[y].requests, x) /\ Times(db2[y].requests, x) \in Nat
    BY <1>4
  <2>3. /\ Times(db2[x].friends, x) = Times(db[x].friends, x)
        /\ Times(db2[x].friends, y) = Times(db[x].friends, y)
        /\ Times(db2[y].friends, x) = Times(db[y].friends, x)
    BY <1>3
  <2> QED
    BY <2>1, <2>2, <2>3
<1> QED
  BY <1>1, <1>5, SettledIf

\* Two accounts are saved.
Rewritten(db, db2, p, a, s, b) ==
    /\ db2[p] = a /\ db2[s] = b
    /\ \A x \in Player : x # p /\ x # s => db2[x] = db[x]

LEMMA TwoSaved ==
    ASSUME NEW db \in Dbs, NEW p \in Player, NEW s \in Player, p # s,
           NEW a \in Lists, NEW b \in Lists,
           NEW db2, db2 = [db EXCEPT ![p] = a, ![s] = b]
    PROVE  db2 \in Dbs /\ Rewritten(db, db2, p, a, s, b)
BY DEF Dbs, Rewritten

\* The sender of a request and its answerer are entered with each other.
LEMMA AcceptSettles ==
    ASSUME NEW db \in Dbs, Settled(db), NEW p \in Player, NEW s \in Player, p # s,
           NEW row \in Row, row.who = s, NEW theirs \in Row, theirs.who = p,
           NEW k \in DOMAIN db[p].requests, db[p].requests[k].who = s,
           NEW a \in Lists, a.friends = Append(db[p].friends, row),
           a.requests = RemoveAt(db[p].requests, k),
           NEW b \in Lists, b.friends = Append(db[s].friends, theirs),
           b.requests = db[s].requests,
           NEW db2 \in Dbs, Rewritten(db, db2, p, a, s, b)
    PROVE  Settled(db2)
<1>1. /\ db2[p] = a /\ db2[s] = b
      /\ \A x \in Player : x # p /\ x # s => db2[x] = db[x]
  BY DEF Rewritten
<1>2. PICK f, r, g \in Seq(Row) : f = db[p].friends /\ r = db[p].requests /\ g = db[s].friends
  BY DbRows
<1>3. PICK f2, r2, g2 : f2 = Append(f, row) /\ r2 = RemoveAt(r, k) /\ g2 = Append(g, theirs)
  OBVIOUS
<1>4. /\ a.friends = f2 /\ a.requests = r2 /\ b.friends = g2
      /\ k \in DOMAIN r /\ r[k].who = s
  BY <1>2, <1>3
<1>5. ASSUME NEW y
      PROVE  /\ Times(f2, y) = IF s = y THEN Times(f, y) + 1 ELSE Times(f, y)
             /\ Times(g2, y) = IF p = y THEN Times(g, y) + 1 ELSE Times(g, y)
             /\ Times(r2, y) = IF s = y THEN Times(r, y) - 1 ELSE Times(r, y)
  <2>1. OneMore(f2, f, row.who)
    BY <1>3, TimesAppend
  <2>2. OneMore(g2, g, theirs.who)
    BY <1>3, TimesAppend
  <2>3. OneLess(r2, r, r[k].who)
    BY <1>3, <1>4, TimesRemoved
  <2> QED
    BY <1>4, <2>1, <2>2, <2>3 DEF OneMore, OneLess
<1>6. ASSUME NEW x \in Player, NEW y \in Player
      PROVE  /\ Times(db2[x].friends, y) = IF (x = p /\ y = s) \/ (x = s /\ y = p)
                                           THEN Times(db[x].friends, y) + 1
                                           ELSE Times(db[x].friends, y)
             /\ Times(db2[x].requests, y) = IF x = p /\ y = s THEN Times(db[x].requests, y) - 1
                                                              ELSE Times(db[x].requests, y)
  <2>1. CASE x = p
    <3>1. Times(db2[x].friends, y) = Times(f2, y) /\ Times(db[x].friends, y) = Times(f, y)
      BY <1>1, <1>2, <1>4, <2>1
    <3>2. Times(db2[x].requests, y) = Times(r2, y) /\ Times(db[x].requests, y) = Times(r, y)
      BY <1>1, <1>2, <1>4, <2>1
    <3> QED
      BY <1>5, <2>1, <3>1, <3>2
  <2>2. CASE x = s
    <3>1. Times(db2[x].friends, y) = Times(g2, y) /\ Times(db[x].friends, y) = Times(g, y)
      BY <1>1, <1>2, <1>4, <2>2
    <3>2. Times(db2[x].requests, y) = Times(db[x].requests, y)
      BY <1>1, <2>2
    <3> QED
      BY <1>5, <2>2, <3>1, <3>2
  <2>3. CASE x # p /\ x # s
    BY <1>1, <2>3
  <2> QED
    BY <2>1, <2>2, <2>3
<1>7. ASSUME NEW x \in Player, NEW y \in Player
      PROVE  /\ Times(db2[x].friends, x) = 0
             /\ Times(db2[x].friends, y) = Times(db2[y].friends, x)
             /\ Times(db2[x].friends, y) + Times(db2[x].requests, y) + Times(db2[y].requests, x) <= 2
  <2>1. /\ Times(db[x].friends, x) = 0
        /\ Times(db[x].friends, y) \in Nat /\ Times(db[x].requests, y) \in Nat
        /\ Times(db[y].requests, x) \in Nat
        /\ Times(db[x].friends, y) = Times(db[y].friends, x)
        /\ Times(db[x].friends, y) + Times(db[x].requests, y) + Times(db[y].requests, x) <= 2
    BY SettledCounts
  <2>2. Times(db2[x].friends, x) = 0
    BY <1>6, <2>1
  <2>3. CASE (x = p /\ y = s) \/ (x = s /\ y = p)
    <3>1. /\ Times(db2[x].friends, y) = Times(db[x].friends, y) + 1
          /\ Times(db2[y].friends, x) = Times(db[y].friends, x) + 1
      BY <1>6, <2>3
    <3>2. \/ /\ Times(db2[x].requests, y) = Times(db[x].requests, y) - 1
             /\ Times(db2[y].requests, x) = Times(db[y].requests, x)
          \/ /\ Times(db2[x].requests, y) = Times(db[x].requests, y)
             /\ Times(db2[y].requests, x) = Times(db[y].requests, x) - 1
      BY <1>6, <2>3
    <3> QED
      BY <2>1, <2>2, <3>1, <3>2
  <2>4. CASE ~ ((x = p /\ y = s) \/ (x = s /\ y = p))
    <3>1. /\ Times(db2[x].friends, y) = Times(db[x].friends, y)
          /\ Times(db2[y].friends, x) = Times(db[y].friends, x)
      BY <1>6, <2>4
    <3>2. /\ Times(db2[x].requests, y) = Times(db[x].requests, y)
          /\ Times(db2[y].requests, x) = Times(db[y].requests, x)
      BY <1>6, <2>4
    <3> QED
      BY <2>1, <2>2, <3>1, <3>2
  <2> QED
    BY <2>3, <2>4
<1> QED
  BY <1>1, <1>7, SettledIf

\* Two friends are cut out of each other's lists.
LEMMA DeleteSettles ==
    ASSUME NEW db \in Dbs, Settled(db), NEW p \in Player, NEW s \in Player, p # s,
           NEW k \in DOMAIN db[p].friends, db[p].friends[k].who = s,
           NEW j \in DOMAIN db[s].friends, db[s].friends[j].who = p,
           NEW a \in Lists, a.friends = RemoveAt(db[p].friends, k),
           a.requests = db[p].requests,
           NEW b \in Lists, b.friends = RemoveAt(db[s].friends, j),
           b.requests = db[s].requests,
           NEW db2 \in Dbs, Rewritten(db, db2, p, a, s, b)
    PROVE  Settled(db2)
<1>1. /\ db2[p] = a /\ db2[s] = b
      /\ \A x \in Player : x # p /\ x # s => db2[x] = db[x]
  BY DEF Rewritten
<1>2. PICK f, g \in Seq(Row) : f = db[p].friends /\ g = db[s].friends
  BY DbRows
<1>3. PICK f2, g2 : f2 = RemoveAt(f, k) /\ g2 = RemoveAt(g, j)
  OBVIOUS
<1>4. /\ a.friends = f2 /\ b.friends = g2
      /\ k \in DOMAIN f /\ f[k].who = s /\ j \in DOMAIN g /\ g[j].who = p
  BY <1>2, <1>3
<1>5. ASSUME NEW y
      PROVE  /\ Times(f2, y) = IF s = y THEN Times(f, y) - 1 ELSE Times(f, y)
             /\ Times(g2, y) = IF p = y THEN Times(g, y) - 1 ELSE Times(g, y)
  <2>1. OneLess(f2, f, f[k].who)
    BY <1>3, <1>4, TimesRemoved
  <2>2. OneLess(g2, g, g[j].who)
    BY <1>3, <1>4, TimesRemoved
  <2> QED
    BY <1>4, <2>1, <2>2 DEF OneLess
<1>6. ASSUME NEW x \in Player, NEW y \in Player
      PROVE  /\ Times(db2[x].friends, y) = IF (x = p /\ y = s) \/ (x = s /\ y = p)
                                           THEN Times(db[x].friends, y) - 1
                                           ELSE Times(db[x].friends, y)
             /\ Times(db2[x].requests, y) = Times(db[x].requests, y)
  <2>1. CASE x = p
    <3>1. Times(db2[x].friends, y) = Times(f2, y) /\ Times(db[x].friends, y) = Times(f, y)
      BY <1>1, <1>2, <1>4, <2>1
    <3> QED
      BY <1>1, <1>5, <2>1, <3>1
  <2>2. CASE x = s
    <3>1. Times(db2[x].friends, y) = Times(g2, y) /\ Times(db[x].friends, y) = Times(g, y)
      BY <1>1, <1>2, <1>4, <2>2
    <3> QED
      BY <1>1, <1>5, <2>2, <3>1
  <2>3. CASE x # p /\ x # s
    BY <1>1, <2>3
  <2> QED
    BY <2>1, <2>2, <2>3
<1>7. ASSUME NEW x \in Player, NEW y \in Player
      PROVE  /\ Times(db2[x].friends, x) = 0
             /\ Times(db2[x].friends, y) = Times(db2[y].friends, x)
             /\ Times(db2[x].friends, y) + Times(db2[x].requests, y) + Times(db2[y].requests, x) <= 2
  <2>1. /\ Times(db[x].friends, x) = 0
        /\ Times(db[x].friends, y) \in Nat /\ Times(db[x].requests, y) \in Nat
        /\ Times(db[y].requests, x) \in Nat
        /\ Times(db[x].friends, y) = Times(db[y].friends, x)
        /\ Times(db[x].friends, y) + Times(db[x].requests, y) + Times(db[y].requests, x) <= 2
    BY SettledCounts
  <2>2. Times(db2[x].friends, x) = 0
    BY <1>6, <2>1
  <2>3. /\ Times(db2[x].requests, y) = Times(db[x].requests, y)
        /\ Times(db2[y].requests, x) = Times(db[y].requests, x)
    BY <1>6
  <2>4. \/ /\ Times(db2[x].friends, y) = Times(db[x].friends, y) - 1
           /\ Times(db2[y].friends, x) = Times(db[y].friends, x) - 1
        \/ /\ Times(db2[x].friends, y) = Times(db[x].friends, y)
           /\ Times(db2[y].friends, x) = Times(db[y].friends, x)
    BY <1>6
  <2> QED
    BY <2>1, <2>2, <2>3, <2>4
<1> QED
  BY <1>1, <1>7, SettledIf

-----------------------------------------------------------------------------
(***************************************************************************)
(* A call made, and what is left.                                          *)
(***************************************************************************)
LEMMA OutcomePlain ==
    ASSUME NEW p, NEW db, NEW w, w.do # "saveSocial", ~ LooksUp(w)
    PROVE  Outcome(p, db, w) = db
BY DEF Outcome, LooksUp

LEMMA OutcomeSave ==
    ASSUME NEW p, NEW db, NEW w, w.do = "saveSocial"
    PROVE  Outcome(p, db, w) = [db EXCEPT ![w.who] = w.lists]
BY DEF Outcome

LEMMA TailCalls ==
    ASSUME NEW calls \in Seq(Call), calls # <<>>
    PROVE  \E n \in Nat \ {0} :
              /\ Len(calls) = n /\ DOMAIN calls = 1 .. n
              /\ Tail(calls) \in Seq(Call) /\ Len(Tail(calls)) = n - 1
              /\ DOMAIN Tail(calls) = 1 .. n - 1
              /\ \A i \in 1 .. n - 1 : Tail(calls)[i] = calls[i + 1]
              /\ Head(calls) = calls[1]
OBVIOUS

LEMMA AfterTail ==
    ASSUME NEW p, NEW db, NEW calls \in Seq(Call), calls # <<>>, InOrder(p, calls)
    PROVE  /\ After(p, Outcome(p, db, Head(calls)), Tail(calls)) = After(p, db, calls)
           /\ InOrder(p, Tail(calls))
<1>1. PICK n \in Nat \ {0} :
              /\ Len(calls) = n /\ DOMAIN calls = 1 .. n
              /\ Tail(calls) \in Seq(Call) /\ Len(Tail(calls)) = n - 1
              /\ DOMAIN Tail(calls) = 1 .. n - 1
              /\ \A i \in 1 .. n - 1 : Tail(calls)[i] = calls[i + 1]
              /\ Head(calls) = calls[1]
  BY TailCalls
<1>2. PICK rest, first, second :
         rest = Tail(calls) /\ first = Outcome(p, db, calls[1]) /\ second = Outcome(p, first, calls[2])
  OBVIOUS
<1>3. After(p, db, calls) = IF n < 2 THEN first ELSE second
  BY <1>1, <1>2 DEF After
<1>4. InOrder(p, rest)
  <2> SUFFICES ASSUME NEW i \in DOMAIN rest
               PROVE  /\ rest[i].do = "saveSocial" => i <= 2
                      /\ LooksUp(rest[i]) =>
                           /\ i = Len(rest) /\ rest[i].row.who # p
                           /\ i # 1 => i = 2 /\ rest[1].do = "saveSocial" /\ rest[1].who = p
                      /\ rest[i].do \in {"findSender", "findInvited"} => Len(rest) = 1
    BY DEF InOrder
  <2>1. i \in 1 .. n - 1 /\ Len(rest) = n - 1 /\ i + 1 \in DOMAIN calls /\ rest[i] = calls[i + 1]
    BY <1>1, <1>2
  <2>2. /\ calls[i + 1].do = "saveSocial" => i + 1 <= 2
        /\ LooksUp(calls[i + 1]) =>
             /\ i + 1 = n /\ calls[i + 1].row.who # p
             /\ i + 1 # 1 => i + 1 = 2
        /\ calls[i + 1].do \in {"findSender", "findInvited"} => n = 1
    BY <1>1, <2>1 DEF InOrder
  <2> QED
    BY <2>1, <2>2
<1>5. CASE n = 1
  <2>1. rest = <<>>
    BY <1>1, <1>2, <1>5
  <2>2. After(p, first, rest) = first
    BY <2>1 DEF After
  <2> QED
    BY <1>1, <1>2, <1>3, <1>4, <1>5, <2>2
<1>6. CASE n = 2
  <2>1. rest # <<>> /\ Len(rest) = 1 /\ rest[1] = calls[2]
    BY <1>1, <1>2, <1>6
  <2>2. After(p, first, rest) = second
    BY <1>2, <2>1 DEF After
  <2>3. After(p, db, calls) = second
    BY <1>3, <1>6
  <2>4. Outcome(p, db, Head(calls)) = first
    BY <1>1, <1>2
  <2> QED
    BY <1>2, <1>4, <2>2, <2>3, <2>4
<1>7. CASE n # 1 /\ n # 2
  <2>1. n >= 3
    BY <1>7
  <2>2. rest # <<>> /\ Len(rest) >= 2 /\ rest[1] = calls[2] /\ rest[2] = calls[3] /\ 3 \in DOMAIN calls
    <3>1. Len(rest) = n - 1 /\ 3 \in DOMAIN calls
      BY <1>1, <1>2, <2>1
    <3>2. 1 \in 1 .. n - 1 /\ 2 \in 1 .. n - 1 /\ 1 + 1 = 2 /\ 2 + 1 = 3
      BY <2>1
    <3>3. rest[1] = calls[2] /\ rest[2] = calls[3]
      BY <1>1, <1>2, <3>2
    <3>4. Len(rest) >= 2 /\ rest # <<>>
      BY <2>1, <3>1
    <3> QED
      BY <3>1, <3>3, <3>4
  <2>3. calls[3].do # "saveSocial" /\ ~ LooksUp(calls[3])
    BY <2>2 DEF InOrder
  <2>4. Outcome(p, second, calls[3]) = second
    BY <2>3, OutcomePlain
  <2>5. After(p, first, rest) = second
    <3>1. ~ (Len(rest) < 2)
      BY <1>1, <1>2, <2>1
    <3> QED
      BY <1>2, <2>2, <2>4, <3>1 DEF After
  <2> QED
    BY <1>1, <1>2, <1>3, <1>4, <1>7, <2>1, <2>5
<1> QED
  BY <1>5, <1>6, <1>7

LEMMA RangeOfTail ==
    ASSUME NEW calls \in Seq(Call), calls # <<>>
    PROVE  Range(calls) = {Head(calls)} \cup Range(Tail(calls))
<1>1. PICK n \in Nat \ {0} :
              /\ Len(calls) = n /\ DOMAIN calls = 1 .. n
              /\ Tail(calls) \in Seq(Call) /\ Len(Tail(calls)) = n - 1
              /\ DOMAIN Tail(calls) = 1 .. n - 1
              /\ \A i \in 1 .. n - 1 : Tail(calls)[i] = calls[i + 1]
              /\ Head(calls) = calls[1]
  BY TailCalls
<1>2. \A w \in Range(calls) : w = Head(calls) \/ w \in Range(Tail(calls))
  <2> SUFFICES ASSUME NEW i \in 1 .. n PROVE calls[i] = Head(calls) \/ calls[i] \in Range(Tail(calls))
    BY <1>1 DEF Range
  <2>1. CASE i = 1
    BY <1>1, <2>1
  <2>2. CASE i # 1
    <3>1. PICK k : k = i - 1
      OBVIOUS
    <3>2. k \in 1 .. n - 1 /\ k + 1 = i
      BY <2>2, <3>1
    <3> QED
      BY <1>1, <3>2 DEF Range
  <2> QED
    BY <2>1, <2>2
<1>3. \A w \in Range(Tail(calls)) : w \in Range(calls)
  <2> SUFFICES ASSUME NEW i \in 1 .. n - 1 PROVE calls[i + 1] \in Range(calls)
    BY <1>1 DEF Range
  <2>1. i + 1 \in 1 .. n
    OBVIOUS
  <2> QED
    BY <1>1, <2>1 DEF Range
<1>4. Head(calls) \in Range(calls)
  <2>1. 1 \in 1 .. n
    OBVIOUS
  <2> QED
    BY <1>1, <2>1 DEF Range
<1> QED
  BY <1>2, <1>3, <1>4

LEMMA RedrawnAgain ==
    ASSUME NEW w, NEW list, NEW rows PROVE Redrawn(w, list, Redrawn(w, list, rows)) = Redrawn(w, list, rows)
BY DEF Redrawn

LEMMA ScreenTail ==
    ASSUME NEW p \in Player, NEW q \in Player, NEW db \in Dbs, NEW list, NEW rows,
           NEW calls \in Seq(Call), calls # <<>>, InOrder(p, calls), ~ LooksUp(Head(calls)),
           ScreenDue(p, calls, db, q, list, rows),
           NEW rows2, rows2 = IF Concerns(p, Head(calls), q, list)
                              THEN Redrawn(Head(calls), list, rows) ELSE rows
    PROVE  ScreenDue(p, Tail(calls), Outcome(p, db, Head(calls)), q, list, rows2)
<1>1. PICK w, rest, db2 : w = Head(calls) /\ rest = Tail(calls) /\ db2 = Outcome(p, db, w)
  OBVIOUS
<1>2. PICK due, news, left : /\ due = Range(After(p, db, calls)[q][list])
                             /\ news = {c \in Range(calls) : Concerns(p, c, q, list)}
                             /\ left = {c \in Range(rest) : Concerns(p, c, q, list)}
  OBVIOUS
<1>3. due = Range(After(p, db2, rest)[q][list])
  BY <1>1, <1>2, AfterTail
<1>4. Range(calls) = {w} \cup Range(rest)
  BY <1>1, RangeOfTail
<1>5. news = IF Concerns(p, w, q, list) THEN left \cup {w} ELSE left
  BY <1>2, <1>4
<1>6. CASE q # p /\ \E c \in Range(calls) : LooksUp(c)
  <2>1. PICK i \in DOMAIN calls : LooksUp(calls[i])
    BY <1>6 DEF Range
  <2>2. calls[1] = w
    BY <1>1
  <2>3. i = 2 /\ w.do = "saveSocial" /\ w.who = p
    BY <1>1, <2>1, <2>2 DEF InOrder
  <2>4. db2[q] = db[q]
    <3>1. db2 = [db EXCEPT ![p] = w.lists]
      BY <1>1, <2>3, OutcomeSave
    <3> QED
      BY <1>6, <3>1 DEF Dbs
  <2>5. rows = Range(db[q][list])
    BY <1>6 DEF ScreenDue
  <2>6. rows2 = rows
    BY <1>1, <2>3 DEF Concerns
  <2>7. \E c \in Range(rest) : LooksUp(c)
    BY <1>1, <1>4, <1>6
  <2> QED
    BY <1>1, <1>6, <2>4, <2>5, <2>6, <2>7 DEF ScreenDue
<1>7. CASE ~ (q # p /\ \E c \in Range(calls) : LooksUp(c))
  <2>1. ~ (q # p /\ \E c \in Range(rest) : LooksUp(c))
    BY <1>4, <1>7
  <2>2. IF news = {} THEN rows = due ELSE \E c \in news : news = {c} /\ Redrawn(c, list, rows) = due
    BY <1>2, <1>7 DEF ScreenDue
  <2>3. IF left = {} THEN rows2 = due ELSE \E c \in left : left = {c} /\ Redrawn(c, list, rows2) = due
    <3>1. CASE ~ Concerns(p, w, q, list)
      BY <1>1, <1>5, <2>2, <3>1
    <3>2. CASE Concerns(p, w, q, list)
      <4>1. news = {w} /\ Redrawn(w, list, rows) = due
        <5>1. w \in news
          BY <1>5, <3>2
        <5>2. PICK c \in news : news = {c} /\ Redrawn(c, list, rows) = due
          BY <2>2, <5>1
        <5> QED
          BY <5>1, <5>2
      <4>2. rows2 = due
        BY <1>1, <3>2, <4>1
      <4>3. Redrawn(w, list, rows2) = due
        BY <1>1, <3>2, <4>1, <4>2, RedrawnAgain
      <4>4. left = {} \/ left = {w}
        BY <1>5, <3>2, <4>1
      <4> QED
        BY <4>2, <4>3, <4>4
    <3> QED
      BY <3>1, <3>2
  <2> QED
    BY <1>1, <1>2, <1>3, <2>1, <2>3 DEF ScreenDue
<1> QED
  BY <1>6, <1>7

-----------------------------------------------------------------------------
(***************************************************************************)
(* What CalmInv says of the one handler that is at work.                   *)
(***************************************************************************)
LEMMA NothingLeft ==
    ASSUME NEW p, NEW db PROVE InOrder(p, <<>>) /\ After(p, db, <<>>) = db
BY DEF InOrder, After

LEMMA NothingDue ==
    ASSUME NEW p, NEW db, NEW q, NEW list, NEW rows
    PROVE  ScreenDue(p, <<>>, db, q, list, rows) <=> rows = Range(db[q][list])
<1>1. After(p, db, <<>>) = db
  BY NothingLeft
<1>2. Range(<<>>) = {}
  BY DEF Range
<1> QED
  BY <1>1, <1>2 DEF ScreenDue

LEMMA QuietDue ==
    ASSUME CalmInv, calm, Quiet, NEW p \in Player
    PROVE  /\ Due(p, <<>>, social, panel) /\ NoZero(social) /\ Settled(social)
           /\ \A q \in Followed, list \in {"friends", "requests"} :
                 Online(q) => panel[q][list] = Range(social[q][list])
<1>1. Alone(p) /\ todo[p] = <<>>
  BY DEF Quiet, Alone
<1>2. Due(p, <<>>, social, panel) /\ NoZero(social)
  BY <1>1 DEF CalmInv
<1>3. Settled(social)
  BY <1>2, NothingLeft DEF Due
<1>4. ASSUME NEW q \in Followed, NEW list \in {"friends", "requests"}, Online(q)
      PROVE  panel[q][list] = Range(social[q][list])
  <2>1. ScreenDue(p, <<>>, social, q, list, panel[q][list])
    BY <1>2, <1>4 DEF Due, Online
  <2> QED
    BY <2>1, NothingDue
<1> QED
  BY <1>2, <1>3, <1>4

LEMMA DueToAny ==
    ASSUME NEW p, NEW r, NEW db, NEW screens, Due(p, <<>>, db, screens)
    PROVE  Due(r, <<>>, db, screens)
<1>1. ASSUME NEW q, NEW list, NEW rows, ScreenDue(p, <<>>, db, q, list, rows)
      PROVE  ScreenDue(r, <<>>, db, q, list, rows)
  <2>1. rows = Range(db[q][list])
    BY <1>1, NothingDue
  <2> QED
    BY <2>1, NothingDue
<1>2. InOrder(r, <<>>) /\ After(r, db, <<>>) = After(p, db, <<>>)
  BY NothingLeft
<1>3. Range(<<>>) = {}
  BY DEF Range
<1> QED
  BY <1>1, <1>2, <1>3 DEF Due, InvitesKnown

LEMMA CalmStep ==
    ASSUME FriendsInv, CalmInv, NEW p \in Player, NEW calls,
           todo' = [todo EXCEPT ![p] = calls],
           calm' => calm /\ (todo[p] # <<>> \/ Quiet),
           calm' => NoZero(social'),
           calm' => Due(p, calls, social', panel')
    PROVE  CalmInv'
<1> SUFFICES ASSUME calm' PROVE CalmInv'
  BY DEF CalmInv
<1>1. /\ todo'[p] = calls /\ \A r \in Player : r # p => todo'[r] = todo[r]
  BY DEF FriendsInv, TypeOK
<1>2. \A r \in Player : r # p => todo'[r] = <<>>
  <2>1. CASE todo[p] # <<>>
    <3>1. Alone(p)
      BY <2>1 DEF CalmInv
    <3> QED
      BY <1>1, <3>1 DEF Alone
  <2>2. CASE Quiet
    BY <1>1, <2>2 DEF Quiet
  <2> QED
    BY <2>1, <2>2
<1>3. Due(p, calls, social', panel')
  OBVIOUS
<1>4. \A r \in Player : todo'[r] # <<>> => Alone(r)'
  BY <1>2 DEF Alone
<1>5. ASSUME NEW r \in Player, Alone(r)' PROVE Due(r, todo'[r], social', panel')
  <2>1. CASE r = p
    BY <1>1, <1>3, <2>1
  <2>2. CASE r # p
    <3>1. todo'[r] = <<>> /\ calls = <<>>
      BY <1>1, <1>2, <1>5, <2>2 DEF Alone
    <3> QED
      BY <1>3, <3>1, DueToAny
  <2> QED
    BY <2>1, <2>2
<1> QED
  BY <1>4, <1>5 DEF CalmInv, NoZero

-----------------------------------------------------------------------------
(***************************************************************************)
(* A call that is made.                                                    *)
(***************************************************************************)
LEMMA TailDue ==
    ASSUME NEW p \in Player, NEW db \in Dbs, NEW screens, NEW calls \in Seq(Call), calls # <<>>,
           Due(p, calls, db, screens), NEW w, w = Head(calls), ~ LooksUp(w),
           NEW screens2,
           \A q \in Followed, list \in {"friends", "requests"} :
              screens2[q] # Offline =>
                 /\ screens[q] # Offline
                 /\ screens2[q][list] = IF Concerns(p, w, q, list)
                                        THEN Redrawn(w, list, screens[q][list]) ELSE screens[q][list]
    PROVE  Due(p, Tail(calls), Outcome(p, db, w), screens2)
<1>1. PICK n \in Nat \ {0} :
              /\ Len(calls) = n /\ DOMAIN calls = 1 .. n
              /\ Tail(calls) \in Seq(Call) /\ Len(Tail(calls)) = n - 1
              /\ DOMAIN Tail(calls) = 1 .. n - 1
              /\ \A i \in 1 .. n - 1 : Tail(calls)[i] = calls[i + 1]
              /\ Head(calls) = calls[1]
  BY TailCalls
<1>2. PICK rest, db2 : rest = Tail(calls) /\ db2 = Outcome(p, db, w)
  OBVIOUS
<1>3. InOrder(p, calls) /\ Settled(After(p, db, calls))
  BY DEF Due
<1>4. InOrder(p, rest) /\ Settled(After(p, db2, rest))
  BY <1>2, <1>3, AfterTail
<1>5. ASSUME NEW q \in Followed, NEW list \in {"friends", "requests"}, screens2[q] # Offline
      PROVE  ScreenDue(p, rest, db2, q, list, screens2[q][list])
  <2>1. ScreenDue(p, calls, db, q, list, screens[q][list])
    BY <1>5 DEF Due
  <2>2. PICK rows, rows2 : rows = screens[q][list] /\ rows2 = screens2[q][list]
    OBVIOUS
  <2>3. rows2 = IF Concerns(p, w, q, list) THEN Redrawn(w, list, rows) ELSE rows
    BY <1>5, <2>2
  <2>4. q \in Player
    BY FriendsAssumption
  <2>5. ScreenDue(p, Tail(calls), Outcome(p, db, Head(calls)), q, list, rows2)
    BY <1>3, <2>1, <2>2, <2>3, <2>4, ScreenTail
  <2> QED
    BY <1>2, <2>2, <2>5
<1>6. InvitesKnown(rest, screens2)
  <2> SUFFICES ASSUME NEW c \in Range(rest), c.do = "tell", c.what = "invite" PROVE FALSE
    BY DEF InvitesKnown
  <2>1. c \in Range(calls)
    BY <1>2, RangeOfTail
  <2>2. Len(calls) = 1
    BY <2>1 DEF Due, InvitesKnown
  <2>3. DOMAIN rest = {}
    BY <1>1, <1>2, <2>2
  <2> QED
    BY <2>3 DEF Range
<1> QED
  BY <1>2, <1>4, <1>5, <1>6 DEF Due

LEMMA AtWork ==
    ASSUME FriendsInv, CalmInv, NEW p \in Player, todo[p] # <<>>
    PROVE  /\ social \in Dbs /\ todo[p] \in Seq(Call)
           /\ Head(todo[p]) \in SoundCall(p) /\ Head(todo[p]) \in Call
           /\ calm => Due(p, todo[p], social, panel) /\ NoZero(social)
<1>1. social \in Dbs /\ todo[p] \in Seq(Call)
  BY DEF FriendsInv, TypeOK, Dbs
<1>2. Head(todo[p]) \in SoundCall(p)
  BY NextIsSound
<1> QED
  BY <1>1, <1>2 DEF CalmInv, SoundCall

LEMMA SavingCalm ==
    ASSUME FriendsInv, CalmInv, NEW p \in Player, Saving(p) PROVE CalmInv'
<1>1. PICK w : w = Head(todo[p])
  OBVIOUS
<1>2. /\ todo[p] # <<>> /\ w.do = "saveSocial"
      /\ social' = [social EXCEPT ![w.who] = w.lists]
      /\ todo' = [todo EXCEPT ![p] = Tail(todo[p])]
      /\ calm' = (calm /\ 0 \notin IDs(w.lists.friends) \cup IDs(w.lists.requests))
      /\ UNCHANGED panel
  BY <1>1 DEF Saving, NextCall
<1>3. /\ social \in Dbs /\ todo[p] \in Seq(Call)
      /\ calm => Due(p, todo[p], social, panel) /\ NoZero(social)
  BY <1>2, AtWork
<1>4. ~ LooksUp(w) /\ social' = Outcome(p, social, w)
  BY <1>2, OutcomeSave DEF LooksUp
<1>5. \A q, list : ~ Concerns(p, w, q, list)
  BY <1>2 DEF Concerns
<1>6. calm' => NoZero(social')
  <2> SUFFICES ASSUME calm', NEW q \in Player
               PROVE  0 \notin IDs(social'[q].friends) \cup IDs(social'[q].requests)
    BY DEF NoZero
  <2>1. CASE q = w.who
    BY <1>2, <1>3, <2>1 DEF Dbs
  <2>2. CASE q # w.who
    <3>1. social'[q] = social[q]
      BY <1>2, <1>3, <2>2 DEF Dbs
    <3> QED
      BY <1>2, <1>3, <3>1 DEF NoZero
  <2> QED
    BY <2>1, <2>2
<1>7. \A q \in Followed, list \in {"friends", "requests"} :
         panel'[q] # Offline =>
            /\ panel[q] # Offline
            /\ panel'[q][list] = IF Concerns(p, w, q, list)
                                 THEN Redrawn(w, list, panel[q][list]) ELSE panel[q][list]
  BY <1>2, <1>5
<1>8. calm' => Due(p, Tail(todo[p]), social', panel')
  <2>1. calm' => Due(p, todo[p], social, panel)
    BY <1>2, <1>3
  <2>2. Due(p, todo[p], social, panel) => Due(p, Tail(todo[p]), Outcome(p, social, w), panel')
    BY <1>1, <1>2, <1>3, <1>4, <1>7, TailDue
  <2> QED
    BY <1>4, <2>1, <2>2
<1> QED
  BY <1>2, <1>6, <1>8, CalmStep

LEMMA TellingCalm ==
    ASSUME FriendsInv, CalmInv, NEW p \in Player, Telling(p) PROVE CalmInv'
<1>1. PICK w : w = Head(todo[p])
  OBVIOUS
<1>2. /\ todo[p] # <<>> /\ w.do = "tell"
      /\ todo' = [todo EXCEPT ![p] = Tail(todo[p])]
      /\ UNCHANGED <<social, calm>>
  BY <1>1 DEF Telling, NextCall
<1>3. /\ social \in Dbs /\ todo[p] \in Seq(Call) /\ w \in Call
      /\ calm => Due(p, todo[p], social, panel) /\ NoZero(social)
  BY <1>1, <1>2, AtWork
<1>4. ~ LooksUp(w) /\ social' = Outcome(p, social, w)
  BY <1>2, OutcomePlain DEF LooksUp
<1>5. /\ w.who \in Player /\ w.list \in {"friends", "requests"}
      /\ panel' = IF ~ Online(w.who) \/ w.what = "invite" THEN panel
                  ELSE [panel EXCEPT ![w.who][w.list] =
                          IF w.what = "add" THEN @ \cup {w.row} ELSE {r \in @ : r.id # w.row.id}]
      /\ panel \in [Player -> Panel \cup {Offline}]
  BY <1>1, <1>2, <1>3 DEF Telling, Call, FriendsInv, TypeOK
<1>6. ASSUME NEW q \in Followed, NEW list \in {"friends", "requests"}, panel'[q] # Offline
      PROVE  /\ panel[q] # Offline
             /\ panel'[q][list] = IF Concerns(p, w, q, list)
                                  THEN Redrawn(w, list, panel[q][list]) ELSE panel[q][list]
  <2>1. q \in Player
    BY FriendsAssumption
  <2>2. Concerns(p, w, q, list) <=> w.what # "invite" /\ w.who = q /\ w.list = list
    BY <1>2 DEF Concerns
  <2>3. CASE ~ Online(w.who) \/ w.what = "invite"
    BY <1>5, <1>6, <2>2, <2>3 DEF Online
  <2>4. CASE Online(w.who) /\ w.what # "invite"
    <3>1. PICK rows : rows = Redrawn(w, w.list, panel[w.who][w.list])
      OBVIOUS
    <3>2. rows = IF w.what = "add" THEN panel[w.who][w.list] \cup {w.row}
                                   ELSE {r \in panel[w.who][w.list] : r.id # w.row.id}
      BY <1>2, <3>1 DEF Redrawn
    <3>3. panel' = [panel EXCEPT ![w.who] = [panel[w.who] EXCEPT ![w.list] = rows]]
      BY <1>5, <2>4, <3>2
    <3>4. panel[w.who] \in Panel
      BY <1>5, <2>4 DEF Online
    <3>5. CASE q = w.who
      <4>1. panel'[q] = [panel[q] EXCEPT ![w.list] = rows]
        BY <1>5, <2>1, <3>3, <3>5
      <4>2. panel'[q][list] = IF list = w.list THEN rows ELSE panel[q][list]
        BY <3>4, <3>5, <4>1 DEF Panel
      <4> QED
        BY <2>2, <2>4, <3>1, <3>5, <4>2 DEF Online
    <3>6. CASE q # w.who
      BY <1>5, <1>6, <2>1, <2>2, <3>3, <3>6
    <3> QED
      BY <3>5, <3>6
  <2> QED
    BY <2>3, <2>4
<1>7. calm' => Due(p, Tail(todo[p]), social', panel')
  BY <1>1, <1>2, <1>3, <1>4, <1>6, TailDue
<1> QED
  BY <1>2, <1>3, <1>7, CalmStep

LEMMA ShowingCalm ==
    ASSUME FriendsInv, CalmInv, NEW p \in Player, Showing(p) PROVE CalmInv'
<1>1. PICK w : w = Head(todo[p])
  OBVIOUS
<1>2. /\ todo[p] # <<>> /\ w.do = "show"
      /\ todo' = [todo EXCEPT ![p] = Tail(todo[p])]
      /\ UNCHANGED <<social, calm>>
  BY <1>1 DEF Showing, NextCall
<1>3. /\ social \in Dbs /\ todo[p] \in Seq(Call) /\ w \in Call /\ w.who = p
      /\ calm => Due(p, todo[p], social, panel) /\ NoZero(social)
  BY <1>1, <1>2, AtWork DEF SoundCall
<1>4. ~ LooksUp(w) /\ social' = Outcome(p, social, w)
  BY <1>2, OutcomePlain DEF LooksUp
<1>5. /\ w.list \in {"friends", "requests"}
      /\ panel' = [panel EXCEPT ![p] = [panel[p] EXCEPT ![w.list] = w.rows]]
      /\ panel \in [Player -> Panel \cup {Offline}] /\ panel[p] # Offline
  BY <1>1, <1>2, <1>3 DEF Showing, Call, FriendsInv, TypeOK, Online
<1>6. ASSUME NEW q \in Followed, NEW list \in {"friends", "requests"}, panel'[q] # Offline
      PROVE  /\ panel[q] # Offline
             /\ panel'[q][list] = IF Concerns(p, w, q, list)
                                  THEN Redrawn(w, list, panel[q][list]) ELSE panel[q][list]
  <2>1. q \in Player
    BY FriendsAssumption
  <2>2. Concerns(p, w, q, list) <=> q = p /\ w.list = list
    BY <1>2, <1>3 DEF Concerns
  <2>3. Redrawn(w, list, panel[q][list]) = w.rows
    BY <1>2 DEF Redrawn
  <2>4. CASE q = p
    <3>1. panel[p] \in Panel
      BY <1>5
    <3>2. panel'[q] = [panel[q] EXCEPT ![w.list] = w.rows]
      BY <1>5, <2>4
    <3>3. panel'[q][list] = IF list = w.list THEN w.rows ELSE panel[q][list]
      BY <2>4, <3>1, <3>2 DEF Panel
    <3> QED
      BY <1>5, <2>2, <2>3, <2>4, <3>3
  <2>5. CASE q # p
    BY <1>5, <1>6, <2>1, <2>2, <2>5
  <2> QED
    BY <2>4, <2>5
<1>7. calm' => Due(p, Tail(todo[p]), social', panel')
  BY <1>1, <1>2, <1>3, <1>4, <1>6, TailDue
<1> QED
  BY <1>2, <1>3, <1>7, CalmStep

-----------------------------------------------------------------------------
(***************************************************************************)
(* The rows of a list that grows or is cut.                                *)
(***************************************************************************)
LEMMA RangeAppended ==
    ASSUME NEW u \in Seq(Row), NEW e \in Row, NEW v, v = Append(u, e)
    PROVE  Range(v) = Range(u) \cup {e}
<1>1. PICK n \in Nat : n = Len(u) /\ DOMAIN u = 1 .. n
  OBVIOUS
<1>2. DOMAIN v = 1 .. n + 1 /\ v[n + 1] = e /\ \A i \in 1 .. n : v[i] = u[i]
  BY <1>1, AppendProperties
<1>3. \A i : i \in 1 .. n + 1 <=> i \in 1 .. n \/ i = n + 1
  OBVIOUS
<1> QED
  BY <1>1, <1>2, <1>3 DEF Range

Joined(v, u, t) ==
    /\ Len(v) = Len(u) + Len(t)
    /\ \A i \in DOMAIN v : \/ i \in DOMAIN u /\ v[i] = u[i]
                           \/ i > Len(u) /\ v[i] \in Range(t)
    /\ \A i \in DOMAIN u : v[i] = u[i]
    /\ Range(v) = Range(u) \cup Range(t)

LEMMA RangeJoined ==
    ASSUME NEW R, NEW u \in Seq(R), NEW t \in Seq(R), NEW v, v = u \o t
    PROVE  v \in Seq(R) /\ Joined(v, u, t)
<1>1. PICK n \in Nat, m \in Nat : n = Len(u) /\ DOMAIN u = 1 .. n /\ m = Len(t) /\ DOMAIN t = 1 .. m
  OBVIOUS
<1>2. /\ v \in Seq(R) /\ Len(v) = n + m
      /\ \A i \in 1 .. n + m : v[i] = IF i <= n THEN u[i] ELSE t[i - n]
  BY <1>1, ConcatProperties
<1>3. DOMAIN v = 1 .. n + m
  BY <1>2
<1>4. ASSUME NEW i \in 1 .. n + m PROVE (i \in 1 .. n /\ v[i] = u[i]) \/ (i > n /\ v[i] \in Range(t))
  <2>1. CASE i <= n
    BY <1>2, <2>1
  <2>2. CASE ~ (i <= n)
    <3>1. v[i] = t[i - n] /\ i - n \in 1 .. m
      BY <1>2, <2>2
    <3> QED
      BY <1>1, <2>2, <3>1 DEF Range
  <2> QED
    BY <2>1, <2>2
<1>5. \A i \in 1 .. n : i \in 1 .. n + m /\ v[i] = u[i]
  BY <1>2
<1>6. \A i \in 1 .. m : n + i \in 1 .. n + m /\ v[n + i] = t[i]
  BY <1>2
<1>7. Range(v) = Range(u) \cup Range(t)
  <2>1. \A x \in Range(v) : x \in Range(u) \/ x \in Range(t)
    BY <1>1, <1>3, <1>4 DEF Range
  <2>2. \A x \in Range(u) : x \in Range(v)
    BY <1>1, <1>3, <1>5 DEF Range
  <2>3. \A x \in Range(t) : x \in Range(v)
    <3> SUFFICES ASSUME NEW i \in 1 .. m PROVE t[i] \in Range(v)
      BY <1>1 DEF Range
    <3>1. n + i \in DOMAIN v /\ v[n + i] = t[i]
      BY <1>3, <1>6
    <3> QED
      BY <3>1 DEF Range
  <2> QED
    BY <2>1, <2>2, <2>3
<1> QED
  BY <1>1, <1>2, <1>3, <1>4, <1>5, <1>7 DEF Joined

LEMMA RangeRemoved ==
    ASSUME NEW u \in Seq(Row), ToldApart(u), NEW k \in DOMAIN u, u[k].id # 0,
           NEW v, v = RemoveAt(u, k), NEW id, id = u[k].id
    PROVE  Range(v) = {r \in Range(u) : r.id # id}
<1>1. PICK n \in Nat : n = Len(u) /\ DOMAIN u = 1 .. n
  OBVIOUS
<1>2. /\ v \in Seq(Row) /\ DOMAIN v = 1 .. n - 1
      /\ \A i \in 1 .. n - 1 : v[i] = IF i < k THEN u[i] ELSE u[i + 1]
  BY <1>1, RemoveAtShifts
<1>3. \A i \in 1 .. n : u[i].id = id <=> i = k
  BY <1>1 DEF ToldApart
<1>4. ASSUME NEW i \in 1 .. n - 1 PROVE v[i] \in Range(u) /\ v[i].id # id
  <2>1. CASE i < k
    <3>1. v[i] = u[i] /\ i \in 1 .. n /\ i # k
      BY <1>1, <1>2, <2>1
    <3> QED
      BY <1>1, <1>3, <3>1 DEF Range
  <2>2. CASE ~ (i < k)
    <3>1. v[i] = u[i + 1] /\ i + 1 \in 1 .. n /\ i + 1 # k
      BY <1>1, <1>2, <2>2
    <3> QED
      BY <1>1, <1>3, <3>1 DEF Range
  <2> QED
    BY <2>1, <2>2
<1>5. ASSUME NEW i \in 1 .. n, i # k PROVE u[i] \in Range(v)
  <2>1. CASE i < k
    <3>1. i \in 1 .. n - 1 /\ v[i] = u[i]
      BY <1>1, <1>2, <2>1
    <3> QED
      BY <1>2, <3>1 DEF Range
  <2>2. CASE ~ (i < k)
    <3>1. PICK j : j = i - 1
      OBVIOUS
    <3>2. j \in 1 .. n - 1 /\ ~ (j < k) /\ j + 1 = i
      BY <1>1, <1>5, <2>2, <3>1
    <3>3. v[j] = u[i]
      BY <1>2, <3>2
    <3> QED
      BY <1>2, <3>2, <3>3 DEF Range
  <2> QED
    BY <2>1, <2>2
<1>6. \A r \in Range(v) : r \in Range(u) /\ r.id # id
  BY <1>2, <1>4 DEF Range
<1>7. \A r \in Range(u) : r.id # id => r \in Range(v)
  BY <1>1, <1>3, <1>5 DEF Range
<1> QED
  BY <1>6, <1>7

\* The row with an id, and the list without it.
LEMMA CutOut ==
    ASSUME NEW u \in Seq(Row), ToldApart(u), 0 \notin IDs(u), NEW id \in IDs(u),
           NEW v, v = Without(u, id)
    PROVE  /\ IndexOf(u, id) \in DOMAIN u /\ u[IndexOf(u, id)] = RowWith(u, id)
           /\ RowWith(u, id) \in Row /\ RowWith(u, id) \in Range(u) /\ RowWith(u, id).id = id
           /\ v = RemoveAt(u, IndexOf(u, id))
           /\ Range(v) = {r \in Range(u) : r.id # id}
<1>1. PICK k : k = IndexOf(u, id)
  OBVIOUS
<1>2. k \in DOMAIN u /\ u[k].id = id
  BY <1>1, IndexFound
<1>3. RowWith(u, id) = u[k] /\ u[k] \in Row /\ u[k] \in Range(u)
  BY <1>1, <1>2 DEF RowWith, Range
<1>4. v = RemoveAt(u, k)
  BY <1>1 DEF Without
<1>5. id # 0
  OBVIOUS
<1>6. Range(v) = {r \in Range(u) : r.id # id}
  BY <1>2, <1>4, <1>5, RangeRemoved
<1> QED
  BY <1>1, <1>2, <1>3, <1>4, <1>6

-----------------------------------------------------------------------------
(***************************************************************************)
(* What a handler has left when it has looked everything up: the lists to  *)
(* save, then what it tells.                                               *)
(***************************************************************************)
TellOf(q, what, list, row) ==
    [do |-> "tell", who |-> q, what |-> what, list |-> list, row |-> row]

ShowOf(q, list, rows) == [do |-> "show", who |-> q, list |-> list, rows |-> rows]

News == {w \in Call : w.do = "show" \/ (w.do = "tell" /\ w.what # "invite")}

NewsDue(told, p, q, list, rows, due) ==
    LET news == {w \in Range(told) : Concerns(p, w, q, list)}
    IN  IF news = {} THEN rows = due
        ELSE \E w \in news : news = {w} /\ Redrawn(w, list, rows) = due

LEMMA TellMakes ==
    ASSUME NEW q \in Player, NEW what \in {"add", "withdraw"}, NEW list \in {"friends", "requests"},
           NEW row \in Row
    PROVE  /\ Tell(q, what, list, row) \in Seq(News)
           /\ Range(Tell(q, what, list, row)) = IF q \in Followed THEN {TellOf(q, what, list, row)} ELSE {}
<1>1. PICK w : w = TellOf(q, what, list, row)
  OBVIOUS
<1>2. w \in Call /\ w.do = "tell" /\ w.what = what
  BY <1>1 DEF Call, TellOf
<1>3. w \in News
  BY <1>2 DEF News
<1>4. Tell(q, what, list, row) = IF q \in Followed THEN <<w>> ELSE <<>>
  BY <1>1 DEF Tell, Message, TellOf
<1>5. Range(<<w>>) = {w} /\ Range(<<>>) = {} /\ <<w>> \in Seq(News) /\ <<>> \in Seq(News)
  BY <1>3 DEF Range
<1> QED
  BY <1>1, <1>4, <1>5, Zenon

LEMMA ShowMakes ==
    ASSUME NEW q \in Player, NEW list \in {"friends", "requests"}, NEW rows \in SUBSET Row
    PROVE  /\ Show(q, list, rows) \in Seq(News)
           /\ Range(Show(q, list, rows)) = IF q \in Followed THEN {ShowOf(q, list, rows)} ELSE {}
<1>1. PICK w : w = ShowOf(q, list, rows)
  OBVIOUS
<1>2. w \in Call /\ w.do = "show"
  BY <1>1 DEF Call, ShowOf
<1>3. w \in News
  BY <1>2 DEF News
<1>4. Show(q, list, rows) = IF q \in Followed THEN <<w>> ELSE <<>>
  BY <1>1 DEF Show, Message, ShowOf
<1>5. Range(<<w>>) = {w} /\ Range(<<>>) = {} /\ <<w>> \in Seq(News) /\ <<>> \in Seq(News)
  BY <1>3 DEF Range
<1> QED
  BY <1>1, <1>4, <1>5, Zenon

Saves == {w \in Call : w.do = "saveSocial"}

LEMMA PlanDue ==
    ASSUME NEW p, NEW db, NEW screens, NEW saves \in Seq(Saves), Len(saves) <= 2, NEW told \in Seq(News),
           NEW calls, calls = saves \o told,
           Settled(After(p, db, saves)),
           \A q \in Followed, list \in {"friends", "requests"} :
              screens[q] # Offline =>
                 NewsDue(told, p, q, list, screens[q][list], Range(After(p, db, saves)[q][list]))
    PROVE  Due(p, calls, db, screens)
<1>1. saves \in Seq(Call) /\ told \in Seq(Call)
  BY DEF Saves, News
<1>2. /\ calls \in Seq(Call) /\ Len(calls) = Len(saves) + Len(told)
      /\ \A i \in DOMAIN calls : \/ i \in DOMAIN saves /\ calls[i] = saves[i]
                                 \/ i > Len(saves) /\ calls[i] \in Range(told)
      /\ \A i \in DOMAIN saves : calls[i] = saves[i]
      /\ Range(calls) = Range(saves) \cup Range(told)
  <2>1. calls \in Seq(Call) /\ Joined(calls, saves, told)
    BY <1>1, RangeJoined
  <2> QED
    BY <2>1 DEF Joined
<1>3. \A i \in DOMAIN saves : saves[i].do = "saveSocial" /\ ~ LooksUp(saves[i]) /\ i <= 2
  <2>1. \A i \in DOMAIN saves : saves[i].do = "saveSocial" /\ i <= 2
    BY DEF Saves
  <2> QED
    BY <2>1 DEF LooksUp
<1>4. \A w \in Range(told) : w \in News
  BY DEF Range
<1>5. \A w \in News : /\ w.do = "tell" \/ w.do = "show"
                      /\ w.do = "tell" => w.what # "invite"
                      /\ ~ LooksUp(w)
  BY DEF News, LooksUp
<1>6. InOrder(p, calls)
  <2> SUFFICES ASSUME NEW i \in DOMAIN calls
               PROVE  /\ calls[i].do = "saveSocial" => i <= 2
                      /\ ~ LooksUp(calls[i])
                      /\ calls[i].do \notin {"findSender", "findInvited"}
    BY DEF InOrder
  <2>1. CASE i \in DOMAIN saves /\ calls[i] = saves[i]
    BY <1>3, <2>1
  <2>2. CASE calls[i] \in Range(told)
    BY <1>4, <1>5, <2>2
  <2> QED
    BY <1>2, <2>1, <2>2
<1>7. After(p, db, calls) = After(p, db, saves)
  <2>1. ASSUME NEW i \in DOMAIN calls, i > Len(saves), NEW x PROVE Outcome(p, x, calls[i]) = x
    <3>1. calls[i] \in News
      <4>1. ~ (i \in DOMAIN saves)
        BY <2>1
      <4> QED
        BY <1>2, <1>4, <2>1, <4>1
    <3>2. calls[i].do # "saveSocial" /\ ~ LooksUp(calls[i])
      BY <1>5, <3>1
    <3> QED
      BY <3>2, OutcomePlain
  <2>2. PICK n \in Nat, m \in Nat : n = Len(saves) /\ m = Len(calls) /\ n <= m /\ n <= 2
                                    /\ DOMAIN calls = 1 .. m /\ DOMAIN saves = 1 .. n
    BY <1>2
  <2>3. (calls = <<>> <=> m = 0) /\ (saves = <<>> <=> n = 0)
    BY <1>2, <2>2
  <2>4. CASE n = 0
    <3>1. After(p, db, saves) = db
      BY <2>2, <2>3, <2>4 DEF After
    <3>2. m >= 1 => Outcome(p, db, calls[1]) = db
      BY <2>1, <2>2, <2>4
    <3>3. m >= 2 => Outcome(p, db, calls[2]) = db
      <4>1. m >= 2 => 2 \in DOMAIN calls /\ 2 > Len(saves)
        BY <2>2, <2>4
      <4> QED
        BY <2>1, <4>1
    <3> QED
      BY <2>2, <2>3, <3>1, <3>2, <3>3 DEF After
  <2>5. CASE n = 1
    <3>1. PICK x : x = Outcome(p, db, saves[1])
      OBVIOUS
    <3>2. After(p, db, saves) = x
      BY <2>2, <2>3, <2>5, <3>1 DEF After
    <3>3. calls[1] = saves[1]
      BY <1>2, <2>2, <2>5
    <3>4. m >= 2 => Outcome(p, x, calls[2]) = x
      <4>1. m >= 2 => 2 \in DOMAIN calls /\ 2 > Len(saves)
        BY <2>2, <2>5
      <4> QED
        BY <2>1, <4>1
    <3> QED
      BY <2>2, <2>3, <2>5, <3>1, <3>2, <3>3, <3>4 DEF After
  <2>6. CASE n = 2
    <3>1. calls[1] = saves[1] /\ calls[2] = saves[2]
      BY <1>2, <2>2, <2>6
    <3> QED
      BY <2>2, <2>3, <2>6, <3>1 DEF After
  <2> QED
    BY <2>2, <2>4, <2>5, <2>6
<1>8. ASSUME NEW q \in Followed, NEW list \in {"friends", "requests"}, screens[q] # Offline
      PROVE  ScreenDue(p, calls, db, q, list, screens[q][list])
  <2>1. \A w \in Range(calls) : ~ LooksUp(w)
    BY <1>2, <1>3, <1>4, <1>5 DEF Range
  <2>2. {w \in Range(calls) : Concerns(p, w, q, list)} = {w \in Range(told) : Concerns(p, w, q, list)}
    <3>1. \A w \in Range(saves) : w.do = "saveSocial"
      BY <1>3 DEF Range
    <3>2. \A w \in Range(saves) : ~ Concerns(p, w, q, list)
      BY <3>1 DEF Concerns
    <3> QED
      BY <1>2, <3>2
  <2>3. NewsDue(told, p, q, list, screens[q][list], Range(After(p, db, saves)[q][list]))
    BY <1>8
  <2> QED
    BY <1>7, <2>1, <2>2, <2>3 DEF ScreenDue, NewsDue
<1>9. InvitesKnown(calls, screens)
  <2>1. \A w \in Range(calls) : ~ (w.do = "tell" /\ w.what = "invite")
    BY <1>2, <1>3, <1>4, <1>5 DEF Range
  <2> QED
    BY <2>1 DEF InvitesKnown
<1> QED
  BY <1>6, <1>7, <1>8, <1>9 DEF Due

-----------------------------------------------------------------------------
(***************************************************************************)
(* A handler begins, with nobody else at work.                             *)
(***************************************************************************)
LEMMA AfterOne ==
    ASSUME NEW p, NEW db, NEW w, NEW calls, calls = <<w>>
    PROVE  After(p, db, calls) = Outcome(p, db, w)
<1>1. calls # <<>> /\ Len(calls) = 1 /\ calls[1] = w
  OBVIOUS
<1> QED
  BY <1>1 DEF After

LEMMA AfterTwo ==
    ASSUME NEW p, NEW db, NEW v, NEW w, NEW calls, calls = <<v, w>>
    PROVE  After(p, db, calls) = Outcome(p, Outcome(p, db, v), w)
<1>1. calls # <<>> /\ Len(calls) = 2 /\ calls[1] = v /\ calls[2] = w
  OBVIOUS
<1> QED
  BY <1>1 DEF After

LEMMA SaveMakes ==
    ASSUME NEW q \in Player, NEW lists \in Lists, NEW p, NEW db
    PROVE  SaveSocial(q, lists) \in Saves /\ Outcome(p, db, SaveSocial(q, lists)) = [db EXCEPT ![q] = lists]
<1>1. PICK w : w = [do |-> "saveSocial", who |-> q, lists |-> lists]
  OBVIOUS
<1>2. w \in Call /\ w.do = "saveSocial" /\ w.who = q /\ w.lists = lists
  BY <1>1 DEF Call
<1>3. Outcome(p, db, w) = [db EXCEPT ![q] = lists]
  BY <1>2, OutcomeSave
<1> QED
  BY <1>1, <1>2, <1>3 DEF SaveSocial, Saves

Fine(p, lists) ==
    /\ lists \in Lists /\ lists.friends \in Seq(Row) /\ lists.requests \in Seq(Row)
    /\ ToldApart(lists.friends) /\ ToldApart(lists.requests)
    /\ AskedApart(p, lists.requests)
    /\ 0 \notin IDs(lists.friends) /\ 0 \notin IDs(lists.requests)

ShowsSaved == \A q \in Followed, list \in {"friends", "requests"} :
                 panel[q] # Offline => panel[q][list] = Range(social[q][list])

LEMMA QuietFine ==
    ASSUME FriendsInv, CalmInv, calm, Quiet
    PROVE  /\ social \in Dbs /\ (Player # {} => Settled(social) /\ ShowsSaved)
           /\ \A p \in Player : Fine(p, social[p])
<1>1. social \in Dbs
  BY DEF FriendsInv, TypeOK, Dbs
<1>2. ASSUME NEW p \in Player PROVE Settled(social) /\ ShowsSaved /\ Fine(p, social[p])
  <2>1. NoZero(social) /\ Settled(social) /\ ShowsSaved
    BY QuietDue DEF ShowsSaved, Online
  <2>2. social[p] \in Kept(p)
    BY DEF FriendsInv
  <2>3. social[p] \in SoundIDs /\ AskedApart(p, social[p].requests) /\ social[p] \in Lists
    BY <2>2, KeptParts DEF SoundIDs
  <2>4. /\ social[p].friends \in Seq(Row) /\ social[p].requests \in Seq(Row)
        /\ ToldApart(social[p].friends) /\ ToldApart(social[p].requests)
    BY <2>3, ListsSplit
  <2>5. 0 \notin IDs(social[p].friends) /\ 0 \notin IDs(social[p].requests)
    BY <2>1 DEF NoZero
  <2> QED
    BY <2>1, <2>3, <2>4, <2>5 DEF Fine
<1> QED
  BY <1>1, <1>2

LEMMA LeavesCalm ==
    ASSUME FriendsInv, CalmInv, NEW p \in Player, NEW calls, Leaves(p, calls),
           calm /\ Quiet => Due(p, calls, social, panel)
    PROVE  CalmInv'
<1>1. /\ todo' = [todo EXCEPT ![p] = calls] /\ calm' = (calm /\ Quiet)
      /\ social' = social /\ panel' = panel
  BY DEF Leaves, Begin
<1>2. calm' => NoZero(social') /\ Due(p, calls, social', panel')
  BY <1>1, QuietDue
<1> QED
  BY <1>1, <1>2, CalmStep

LEMMA RequestCalm ==
    ASSUME FriendsInv, CalmInv, NEW p \in Player, NEW q \in Player, Request(p, q) PROVE CalmInv'
<1>1. PICK row, lists : /\ row = [id |-> NextSocialID(social[q]), who |-> p]
                        /\ lists = [social[q] EXCEPT !.requests = Append(@, row)]
  OBVIOUS
<1>2. row \in Row /\ lists \in Kept(q)
  BY <1>1, KeptAsk DEF Request, FriendsInv
<1>3. PICK saves, told, calls : /\ saves = <<SaveSocial(q, lists)>>
                                /\ told = Tell(q, "add", "requests", row) /\ calls = saves \o told
  OBVIOUS
<1>4. Leaves(p, calls)
  BY <1>1, <1>3 DEF Request
<1>5. ASSUME calm, Quiet PROVE Due(p, calls, social, panel)
  <2>1. /\ social \in Dbs /\ Settled(social) /\ ShowsSaved
        /\ Fine(p, social[p]) /\ Fine(q, social[q])
    BY <1>5, QuietFine
  <2>2. PICK f, r \in Seq(Row) : f = social[q].friends /\ r = social[q].requests
    BY <2>1 DEF Fine
  <2>3. PICK s : s = Append(r, row)
    OBVIOUS
  <2>4. lists \in Lists /\ lists.friends = f /\ lists.requests = s
    <3>1. social[q] \in Lists
      BY <2>1 DEF Fine
    <3>2. lists = [social[q] EXCEPT !.requests = s]
      BY <1>1, <2>2, <2>3
    <3>3. lists \in Lists
      BY <1>2 DEF Kept, SoundIDs
    <3> QED
      BY <2>2, <3>1, <3>2, <3>3 DEF Lists
  <2>5. PICK db2 : db2 = [social EXCEPT ![q] = lists]
    OBVIOUS
  <2>6. SaveSocial(q, lists) \in Saves /\ After(p, social, saves) = db2
    <3>1. SaveSocial(q, lists) \in Saves
      BY <2>4, SaveMakes
    <3>2. Outcome(p, social, SaveSocial(q, lists)) = db2
      BY <2>4, <2>5, SaveMakes
    <3>3. After(p, social, saves) = Outcome(p, social, SaveSocial(q, lists))
      BY <1>3, AfterOne
    <3> QED
      BY <3>1, <3>2, <3>3
  <2>7. saves \in Seq(Saves) /\ Len(saves) <= 2
    BY <1>3, <2>6
  <2>8. Settled(db2)
    <3>1. p # q /\ p \notin People(social[q].friends) /\ p \notin People(social[q].requests)
      BY DEF Request, IsFriendOf, HasRequestFrom
    <3>2. AskedApart(p, social[p].requests)
      BY <2>1 DEF Fine
    <3>3. row.who = p
      BY <1>1
    <3> QED
      BY <1>2, <2>1, <2>2, <2>3, <2>4, <2>5, <3>1, <3>2, <3>3, AskSettles
  <2>9. told \in Seq(News) /\ Range(told) = IF q \in Followed THEN {TellOf(q, "add", "requests", row)} ELSE {}
    BY <1>2, <1>3, TellMakes
  <2>10. ASSUME NEW x \in Followed, NEW list \in {"friends", "requests"}, panel[x] # Offline
         PROVE  NewsDue(told, p, x, list, panel[x][list], Range(db2[x][list]))
    <3>1. PICK rows, w : rows = panel[x][list] /\ w = TellOf(q, "add", "requests", row)
      OBVIOUS
    <3>2. rows = Range(social[x][list]) /\ x \in Player
      BY <2>1, <2>10, <3>1, FriendsAssumption DEF ShowsSaved
    <3>3. Concerns(p, w, x, list) <=> x = q /\ list = "requests"
      BY <3>1 DEF Concerns, TellOf
    <3>4. CASE x = q /\ list = "requests"
      <4>1. Range(told) = {w}
        BY <2>9, <3>1, <3>4
      <4>2. Redrawn(w, list, rows) = rows \cup {row}
        BY <3>1 DEF Redrawn, TellOf
      <4>3. Range(s) = Range(r) \cup {row}
        BY <1>2, <2>2, <2>3, RangeAppended
      <4>4. db2[x][list] = s /\ rows = Range(r)
        BY <2>1, <2>2, <2>4, <2>5, <3>2, <3>4 DEF Dbs
      <4> QED
        BY <3>1, <3>3, <3>4, <4>1, <4>2, <4>3, <4>4 DEF NewsDue
    <3>5. CASE ~ (x = q /\ list = "requests")
      <4>1. db2[x][list] = social[x][list]
        BY <2>1, <2>2, <2>4, <2>5, <3>2, <3>5 DEF Dbs
      <4>2. \A c \in Range(told) : ~ Concerns(p, c, x, list)
        BY <2>9, <3>1, <3>3, <3>5
      <4> QED
        BY <3>1, <3>2, <4>1, <4>2 DEF NewsDue
    <3> QED
      BY <3>4, <3>5
  <2> QED
    BY <1>3, <2>6, <2>7, <2>8, <2>9, <2>10, PlanDue
<1> QED
  BY <1>4, <1>5, LeavesCalm

LEMMA NewsOf ==
    ASSUME NEW told, NEW p, NEW q, NEW list, NEW rows, NEW due, NEW w \in Range(told),
           Concerns(p, w, q, list), \A c \in Range(told) : Concerns(p, c, q, list) => c = w,
           Redrawn(w, list, rows) = due
    PROVE  NewsDue(told, p, q, list, rows, due)
<1>1. {c \in Range(told) : Concerns(p, c, q, list)} = {w}
  OBVIOUS
<1> QED
  BY <1>1 DEF NewsDue

LEMMA NoNews ==
    ASSUME NEW told, NEW p, NEW q, NEW list, NEW rows, NEW due,
           \A c \in Range(told) : ~ Concerns(p, c, q, list), rows = due
    PROVE  NewsDue(told, p, q, list, rows, due)
<1>1. {c \in Range(told) : Concerns(p, c, q, list)} = {}
  OBVIOUS
<1> QED
  BY <1>1 DEF NewsDue

LEMMA NewsJoined ==
    ASSUME NEW u \in Seq(News), NEW t \in Seq(News), NEW v, v = u \o t
    PROVE  v \in Seq(News) /\ Range(v) = Range(u) \cup Range(t)
<1>1. v \in Seq(News) /\ Joined(v, u, t)
  BY RangeJoined
<1> QED
  BY <1>1 DEF Joined

LEMMA TellRedraws ==
    ASSUME NEW q, NEW list, NEW row, NEW l, NEW rows
    PROVE  /\ Redrawn(TellOf(q, "add", list, row), l, rows) = rows \cup {row}
           /\ Redrawn(TellOf(q, "withdraw", list, row), l, rows) = {r \in rows : r.id # row.id}
BY DEF Redrawn, TellOf

LEMMA RejectCalm ==
    ASSUME FriendsInv, CalmInv, NEW p \in Player, NEW id, Reject(p, id) PROVE CalmInv'
<1>1. PICK lists, row : /\ lists = RemoveFriendRequest(social[p], id)
                        /\ row = RowWith(social[p].requests, id)
  OBVIOUS
<1>2. PICK saves, told, calls : /\ saves = <<SaveSocial(p, lists)>>
                                /\ told = Tell(p, "withdraw", "requests", row) /\ calls = saves \o told
  OBVIOUS
<1>3. id \in IDs(social[p].requests) /\ Leaves(p, calls)
  BY <1>1, <1>2 DEF Reject
<1>4. ASSUME calm, Quiet PROVE Due(p, calls, social, panel)
  <2>1. social \in Dbs /\ Settled(social) /\ ShowsSaved /\ Fine(p, social[p])
    BY <1>4, QuietFine
  <2>2. PICK f, r \in Seq(Row) : f = social[p].friends /\ r = social[p].requests
    BY <2>1 DEF Fine
  <2>3. PICK s, k : s = Without(r, id) /\ k = IndexOf(r, id)
    OBVIOUS
  <2>4. /\ k \in DOMAIN r /\ r[k] = row /\ row \in Row /\ row.id = id
        /\ s = RemoveAt(r, k) /\ Range(s) = {x \in Range(r) : x.id # id}
    <3>1. ToldApart(r) /\ 0 \notin IDs(r) /\ id \in IDs(r)
      BY <1>3, <2>1, <2>2 DEF Fine
    <3> QED
      BY <1>1, <2>2, <2>3, <3>1, CutOut
  <2>5. lists \in Lists /\ lists.friends = f /\ lists.requests = s
    <3>1. social[p] \in Lists
      BY <2>1 DEF Fine
    <3>2. s \in Seq(Row)
      BY <2>4, RemoveAtShifts
    <3>3. lists = [social[p] EXCEPT !.requests = s]
      BY <1>1, <2>2, <2>3 DEF RemoveFriendRequest
    <3> QED
      BY <2>2, <3>1, <3>2, <3>3 DEF Lists
  <2>6. PICK db2 : db2 = [social EXCEPT ![p] = lists]
    OBVIOUS
  <2>7. saves \in Seq(Saves) /\ Len(saves) <= 2 /\ After(p, social, saves) = db2
    <3>1. SaveSocial(p, lists) \in Saves
      BY <2>5, SaveMakes
    <3>2. Outcome(p, social, SaveSocial(p, lists)) = db2
      BY <2>5, <2>6, SaveMakes
    <3>3. After(p, social, saves) = Outcome(p, social, SaveSocial(p, lists))
      BY <1>2, AfterOne
    <3> QED
      BY <1>2, <3>1, <3>2, <3>3
  <2>8. Settled(db2)
    BY <2>1, <2>2, <2>4, <2>5, <2>6, RejectSettles
  <2>9. told \in Seq(News) /\ Range(told) = IF p \in Followed THEN {TellOf(p, "withdraw", "requests", row)} ELSE {}
    BY <1>2, <2>4, TellMakes
  <2>10. ASSUME NEW x \in Followed, NEW list \in {"friends", "requests"}, panel[x] # Offline
         PROVE  NewsDue(told, p, x, list, panel[x][list], Range(db2[x][list]))
    <3>1. PICK rows, w : rows = panel[x][list] /\ w = TellOf(p, "withdraw", "requests", row)
      OBVIOUS
    <3>2. rows = Range(social[x][list]) /\ x \in Player
      BY <2>1, <2>10, <3>1, FriendsAssumption DEF ShowsSaved
    <3>3. Concerns(p, w, x, list) <=> x = p /\ list = "requests"
      BY <3>1 DEF Concerns, TellOf
    <3>4. CASE x = p /\ list = "requests"
      <4>1. Range(told) = {w}
        BY <2>9, <3>1, <3>4
      <4>2. Redrawn(w, list, rows) = {y \in rows : y.id # id}
        BY <2>4, <3>1, TellRedraws
      <4>3. db2[x][list] = s /\ rows = Range(r)
        BY <2>1, <2>2, <2>5, <2>6, <3>2, <3>4 DEF Dbs
      <4>4. Redrawn(w, list, rows) = Range(db2[x][list])
        BY <2>4, <4>2, <4>3
      <4> QED
        BY <3>1, <3>3, <3>4, <4>1, <4>4, NewsOf
    <3>5. CASE ~ (x = p /\ list = "requests")
      <4>1. db2[x][list] = social[x][list]
        BY <2>1, <2>2, <2>5, <2>6, <3>2, <3>5 DEF Dbs
      <4>2. \A c \in Range(told) : ~ Concerns(p, c, x, list)
        BY <2>9, <3>1, <3>3, <3>5
      <4> QED
        BY <3>1, <3>2, <4>1, <4>2, NoNews
    <3> QED
      BY <3>4, <3>5
  <2> QED
    BY <1>2, <2>7, <2>8, <2>9, <2>10, PlanDue
<1> QED
  BY <1>3, <1>4, LeavesCalm

LEMMA LoginCalm ==
    ASSUME FriendsInv, CalmInv, NEW p \in Player, Login(p) PROVE CalmInv'
<1>1. PICK one, two, told : /\ one = Show(p, "friends", Range(social[p].friends))
                            /\ two = Show(p, "requests", Range(social[p].requests))
                            /\ told = one \o two
  OBVIOUS
<1>2. /\ todo' = [todo EXCEPT ![p] = told]
      /\ panel' = [panel EXCEPT ![p] = [friends |-> {}, requests |-> {}]]
      /\ calm' = (calm /\ Quiet) /\ UNCHANGED social
  BY <1>1 DEF Login, Begin
<1>3. ASSUME calm, Quiet PROVE Due(p, told, social, panel')
  <2>1. social \in Dbs /\ Settled(social) /\ ShowsSaved /\ Fine(p, social[p])
    BY <1>3, QuietFine
  <2>2. Range(social[p].friends) \in SUBSET Row /\ Range(social[p].requests) \in SUBSET Row
    BY <2>1 DEF Fine, Range
  <2>3. /\ one \in Seq(News)
        /\ Range(one) = IF p \in Followed THEN {ShowOf(p, "friends", Range(social[p].friends))} ELSE {}
        /\ two \in Seq(News)
        /\ Range(two) = IF p \in Followed THEN {ShowOf(p, "requests", Range(social[p].requests))} ELSE {}
    BY <1>1, <2>2, ShowMakes
  <2>4. told \in Seq(News) /\ Range(told) = Range(one) \cup Range(two)
    BY <1>1, <2>3, NewsJoined
  <2>5. PICK saves : saves = <<>>
    OBVIOUS
  <2>6. saves \in Seq(Saves) /\ Len(saves) <= 2 /\ told = saves \o told
    BY <2>4, <2>5, ConcatEmptySeq
  <2>7. After(p, social, saves) = social
    BY <2>5, NothingLeft
  <2>8. ASSUME NEW x \in Followed, NEW list \in {"friends", "requests"}, panel'[x] # Offline
        PROVE  NewsDue(told, p, x, list, panel'[x][list], Range(social[x][list]))
    <3>1. x \in Player
      BY FriendsAssumption
    <3>2. \A c \in Range(told) : \E l \in {"friends", "requests"} : c = ShowOf(p, l, Range(social[p][l]))
      BY <2>3, <2>4
    <3>3. \A l : LET c == ShowOf(p, l, Range(social[p][l]))
                 IN  /\ Concerns(p, c, x, list) <=> x = p /\ l = list
                     /\ Redrawn(c, list, panel'[x][list]) = Range(social[p][l])
      BY DEF ShowOf, Concerns, Redrawn
    <3>4. CASE x = p
      <4>1. PICK w : w = ShowOf(p, list, Range(social[p][list]))
        OBVIOUS
      <4>2. w \in Range(told)
        BY <2>3, <2>4, <3>4, <4>1
      <4>3. Concerns(p, w, x, list) /\ Redrawn(w, list, panel'[x][list]) = Range(social[x][list])
        BY <3>3, <3>4, <4>1
      <4>4. \A c \in Range(told) : Concerns(p, c, x, list) => c = w
        BY <3>2, <3>3, <4>1
      <4> QED
        BY <4>2, <4>3, <4>4, NewsOf
    <3>5. CASE x # p
      <4>1. \A c \in Range(told) : ~ Concerns(p, c, x, list)
        BY <3>2, <3>3, <3>5
      <4>2. panel'[x] = panel[x]
        BY <1>2, <3>1, <3>5 DEF FriendsInv, TypeOK
      <4>3. panel'[x][list] = Range(social[x][list])
        BY <2>1, <2>8, <4>2 DEF ShowsSaved
      <4> QED
        BY <4>1, <4>3, NoNews
    <3> QED
      BY <3>4, <3>5
  <2> QED
    BY <2>1, <2>4, <2>6, <2>7, <2>8, PlanDue
<1>4. calm' => NoZero(social') /\ Due(p, told, social', panel')
  BY <1>2, <1>3, QuietDue
<1> QED
  BY <1>2, <1>4, CalmStep

LEMMA FailCalm ==
    ASSUME NEW p, Fail(p) PROVE CalmInv'
BY DEF Fail, CalmInv

LEMMA LogoutCalm ==
    ASSUME FriendsInv, CalmInv, NEW p \in Player, Logout(p) PROVE CalmInv'
<1>1. panel' = [panel EXCEPT ![p] = Offline] /\ UNCHANGED <<social, todo, calm>>
  BY DEF Logout
<1>2. \A q : panel'[q] # Offline /\ q \in Player => panel'[q] = panel[q]
  BY <1>1 DEF FriendsInv, TypeOK
<1>3. ASSUME NEW r \in Player, Due(r, todo[r], social, panel) PROVE Due(r, todo[r], social, panel')
  <2>1. \A q \in Followed, list \in {"friends", "requests"} :
          panel'[q] # Offline => ScreenDue(r, todo[r], social, q, list, panel'[q][list])
    BY <1>2, <1>3, FriendsAssumption DEF Due
  <2>2. InvitesKnown(todo[r], panel')
    <3> SUFFICES ASSUME NEW w \in Range(todo[r]), w.do = "tell", w.what = "invite"
                 PROVE  /\ Len(todo[r]) = 1
                        /\ panel'[w.who] # Offline => w.row \in panel'[w.who].friends
      BY DEF InvitesKnown
    <3>1. Len(todo[r]) = 1 /\ (panel[w.who] # Offline => w.row \in panel[w.who].friends)
      BY <1>3 DEF Due, InvitesKnown
    <3>2. w \in Call
      BY DEF FriendsInv, TypeOK, Range
    <3>3. w.who \in Player
      BY <3>2 DEF Call
    <3> QED
      BY <1>2, <3>1, <3>3
  <2> QED
    BY <1>3, <2>1, <2>2 DEF Due
<1> QED
  BY <1>1, <1>3 DEF CalmInv, Alone, NoZero

LEMMA CrashCalm ==
    ASSUME FriendsInv, CalmInv, Crash PROVE CalmInv'
<1> SUFFICES ASSUME calm' PROVE CalmInv'
  BY DEF CalmInv
<1>1. /\ todo' = [p \in Player |-> <<>>] /\ panel' = [p \in Player |-> Offline]
      /\ calm /\ Quiet /\ UNCHANGED social
  BY DEF Crash
<1>2. \A p \in Player : NoZero(social) /\ Settled(social)
  BY <1>1, QuietDue
<1>3. ASSUME NEW p \in Player PROVE Due(p, <<>>, social, panel')
  <2>1. InOrder(p, <<>>) /\ After(p, social, <<>>) = social
    BY NothingLeft
  <2>2. InvitesKnown(<<>>, panel')
    BY DEF InvitesKnown, Range
  <2>3. \A q \in Followed : panel'[q] = Offline
    BY <1>1, FriendsAssumption
  <2> QED
    BY <1>2, <2>1, <2>2, <2>3 DEF Due
<1>4. NoZero(social)
  BY <1>2 DEF NoZero
<1>5. \A p \in Player : todo'[p] = <<>>
  BY <1>1
<1> QED
  BY <1>1, <1>3, <1>4, <1>5 DEF CalmInv, NoZero

-----------------------------------------------------------------------------
(***************************************************************************)
(* A handler that has one account left to look up before it saves.         *)
(***************************************************************************)
Looking(p, w, db, screens) ==
    /\ w.row.who # p
    /\ Settled(Outcome(p, db, w))
    /\ \A q \in Followed, list \in {"friends", "requests"} :
          screens[q] # Offline =>
             /\ q # p => screens[q][list] = Range(db[q][list])
             /\ q = p /\ Concerns(p, w, q, list) =>
                   Redrawn(w, list, screens[q][list]) = Range(Outcome(p, db, w)[q][list])
             /\ q = p /\ ~ Concerns(p, w, q, list) =>
                   screens[q][list] = Range(Outcome(p, db, w)[q][list])

LEMMA SingleCall ==
    ASSUME NEW w, NEW calls, calls = <<w>>
    PROVE  Len(calls) = 1 /\ DOMAIN calls = {1} /\ calls[1] = w /\ Range(calls) = {w}
<1>1. Len(calls) = 1 /\ DOMAIN calls = {1} /\ calls[1] = w
  OBVIOUS
<1> QED
  BY <1>1 DEF Range

LEMMA LookingDue ==
    ASSUME NEW p, NEW db, NEW screens, NEW w, LooksUp(w), NEW calls, calls = <<w>>,
           Looking(p, w, db, screens)
    PROVE  Due(p, calls, db, screens)
<1>1. Len(calls) = 1 /\ DOMAIN calls = {1} /\ calls[1] = w /\ Range(calls) = {w}
  BY SingleCall
<1>2. After(p, db, calls) = Outcome(p, db, w)
  BY AfterOne
<1>3. w.do \in {"findSender", "findOther"}
  BY DEF LooksUp
<1>4. InOrder(p, calls) /\ InvitesKnown(calls, screens)
  BY <1>1, <1>3 DEF InOrder, InvitesKnown, Looking
<1>5. ASSUME NEW q \in Followed, NEW list \in {"friends", "requests"}, screens[q] # Offline
      PROVE  ScreenDue(p, calls, db, q, list, screens[q][list])
  <2>1. /\ q # p => screens[q][list] = Range(db[q][list])
        /\ q = p /\ Concerns(p, w, q, list) =>
              Redrawn(w, list, screens[q][list]) = Range(Outcome(p, db, w)[q][list])
        /\ q = p /\ ~ Concerns(p, w, q, list) =>
              screens[q][list] = Range(Outcome(p, db, w)[q][list])
    BY <1>5 DEF Looking
  <2>2. CASE Concerns(p, w, q, list)
    <3>1. {c \in Range(calls) : Concerns(p, c, q, list)} = {w}
      BY <1>1, <2>2
    <3> QED
      BY <1>1, <1>2, <2>1, <2>2, <3>1 DEF ScreenDue
  <2>3. CASE ~ Concerns(p, w, q, list)
    <3>1. {c \in Range(calls) : Concerns(p, c, q, list)} = {}
      BY <1>1, <2>3
    <3> QED
      BY <1>1, <1>2, <2>1, <2>3, <3>1 DEF ScreenDue
  <2> QED
    BY <2>2, <2>3
<1>6. Settled(After(p, db, calls))
  BY <1>2 DEF Looking
<1> QED
  BY <1>4, <1>5, <1>6 DEF Due

LEMMA DueLooking ==
    ASSUME NEW p, NEW db, NEW screens, NEW calls \in Seq(Call), calls # <<>>,
           NEW w, w = Head(calls), LooksUp(w), Len(calls) = 1,
           Due(p, calls, db, screens)
    PROVE  Looking(p, w, db, screens)
<1>1. DOMAIN calls = {1} /\ calls[1] = w
  <2>1. PICK m \in Nat \ {0} : Len(calls) = m /\ DOMAIN calls = 1 .. m /\ Head(calls) = calls[1]
    BY TailCalls
  <2>2. 1 .. 1 = {1}
    OBVIOUS
  <2> QED
    BY <2>1, <2>2
<1>2. Len(calls) = 1 /\ DOMAIN calls = {1} /\ calls[1] = w /\ Range(calls) = {w}
  BY <1>1 DEF Range
<1>3. After(p, db, calls) = Outcome(p, db, w)
  BY <1>1 DEF After
<1>4. w.row.who # p
  BY <1>2 DEF Due, InOrder
<1>5. ASSUME NEW q \in Followed, NEW list \in {"friends", "requests"}, screens[q] # Offline
      PROVE  /\ q # p => screens[q][list] = Range(db[q][list])
             /\ q = p /\ Concerns(p, w, q, list) =>
                   Redrawn(w, list, screens[q][list]) = Range(Outcome(p, db, w)[q][list])
             /\ q = p /\ ~ Concerns(p, w, q, list) =>
                   screens[q][list] = Range(Outcome(p, db, w)[q][list])
  <2>1. ScreenDue(p, calls, db, q, list, screens[q][list])
    BY <1>5 DEF Due
  <2>2. Concerns(p, w, q, list) => {c \in Range(calls) : Concerns(p, c, q, list)} = {w}
    BY <1>2
  <2>3. ~ Concerns(p, w, q, list) => {c \in Range(calls) : Concerns(p, c, q, list)} = {}
    BY <1>2
  <2> QED
    BY <1>2, <1>3, <2>1, <2>2, <2>3 DEF ScreenDue
<1>6. Settled(Outcome(p, db, w))
  BY <1>3 DEF Due
<1> QED
  BY <1>4, <1>5, <1>6 DEF Looking

LEMMA BefriendParts ==
    ASSUME NEW lists \in Lists, NEW row \in Row, NEW a, a = Befriend(lists, row)
    PROVE  a \in Lists /\ a.friends = Append(lists.friends, row) /\ a.requests = lists.requests
<1>1. PICK f : f = Append(lists.friends, row)
  OBVIOUS
<1>2. lists.friends \in Seq(Row) /\ f \in Seq(Row)
  BY <1>1, AppendProperties DEF Lists
<1>3. a = [lists EXCEPT !.friends = f]
  BY <1>1 DEF Befriend
<1> QED
  BY <1>1, <1>2, <1>3 DEF Lists

LEMMA OutcomeSender ==
    ASSUME NEW p, NEW db, NEW w, w.do = "findSender", NEW s, s = w.row.who,
           NEW a, a = Befriend(w.copy, w.row),
           NEW b, b = Befriend(db[s], [id |-> NextSocialID(db[s]), who |-> p])
    PROVE  Outcome(p, db, w) = [db EXCEPT ![p] = a, ![s] = b]
BY DEF Outcome

LEMMA OutcomeOther ==
    ASSUME NEW p, NEW db, NEW w, w.do = "findOther", NEW s, s = w.row.who, IsFriendOf(db[s], p),
           NEW b, b = RemoveFriendOf(db[s], p)
    PROVE  Outcome(p, db, w) = [db EXCEPT ![s] = b]
BY DEF Outcome

LEMMA AcceptCalm ==
    ASSUME FriendsInv, CalmInv, NEW p \in Player, NEW id, Accept(p, id) PROVE CalmInv'
<1>1. PICK row, copy, s, w, calls :
        /\ row = RowWith(social[p].requests, id) /\ copy = RemoveFriendRequest(social[p], id)
        /\ s = row.who /\ w = FindSender(row, copy) /\ calls = <<w>>
  OBVIOUS
<1>2. id \in IDs(social[p].requests) /\ Leaves(p, calls)
  BY <1>1 DEF Accept
<1>3. w.do = "findSender" /\ w.row = row /\ w.copy = copy
  BY <1>1 DEF FindSender
<1>4. ASSUME calm, Quiet PROVE Due(p, calls, social, panel)
  <2>1. social \in Dbs /\ Settled(social) /\ ShowsSaved /\ Fine(p, social[p])
    BY <1>4, QuietFine
  <2>2. PICK f, r \in Seq(Row) : f = social[p].friends /\ r = social[p].requests
    BY <2>1 DEF Fine
  <2>3. PICK r2, k : r2 = Without(r, id) /\ k = IndexOf(r, id)
    OBVIOUS
  <2>4. /\ k \in DOMAIN r /\ r[k] = row /\ row \in Row /\ row.id = id
        /\ r2 = RemoveAt(r, k) /\ Range(r2) = {x \in Range(r) : x.id # id}
    <3>1. ToldApart(r) /\ 0 \notin IDs(r) /\ id \in IDs(r)
      BY <1>2, <2>1, <2>2 DEF Fine
    <3> QED
      BY <1>1, <2>2, <2>3, <3>1, CutOut
  <2>5. s \in Player /\ s # p
    <3>1. AskedApart(p, r)
      BY <2>1, <2>2 DEF Fine
    <3> QED
      BY <1>1, <2>4, <3>1 DEF AskedApart, Row
  <2>6. copy \in Lists /\ copy.friends = f /\ copy.requests = r2
    <3>1. social[p] \in Lists
      BY <2>1 DEF Fine
    <3>2. r2 \in Seq(Row)
      BY <2>4, RemoveAtShifts
    <3>3. copy = [social[p] EXCEPT !.requests = r2]
      BY <1>1, <2>2, <2>3 DEF RemoveFriendRequest
    <3> QED
      BY <2>2, <3>1, <3>2, <3>3 DEF Lists
  <2>7. PICK theirs : theirs = [id |-> NextSocialID(social[s]), who |-> p]
    OBVIOUS
  <2>8. theirs \in Row /\ theirs.who = p /\ social[s] \in Lists
    <3>1. social[s] \in Kept(s)
      BY <2>5 DEF FriendsInv
    <3>2. theirs \in Row
      BY <2>7, <3>1, KeptBefriend
    <3> QED
      BY <2>1, <2>5, <2>7, <3>2 DEF Dbs
  <2>9. PICK a, b, db2 : /\ a = Befriend(copy, row) /\ b = Befriend(social[s], theirs)
                         /\ db2 = [social EXCEPT ![p] = a, ![s] = b]
    OBVIOUS
  <2>10. /\ a \in Lists /\ a.friends = Append(f, row) /\ a.requests = r2
         /\ b \in Lists /\ b.friends = Append(social[s].friends, theirs)
         /\ b.requests = social[s].requests
    <3>1. a \in Lists /\ a.friends = Append(f, row) /\ a.requests = r2
      <4>1. row \in Row /\ a = Befriend(copy, row)
        BY <2>4, <2>9
      <4> QED
        BY <2>6, <4>1, BefriendParts
    <3>2. /\ b \in Lists /\ b.friends = Append(social[s].friends, theirs)
          /\ b.requests = social[s].requests
      BY <2>8, <2>9, BefriendParts
    <3> QED
      BY <3>1, <3>2
  <2>11. Outcome(p, social, w) = db2
    <3>1. /\ s = w.row.who /\ a = Befriend(w.copy, w.row)
          /\ b = Befriend(social[s], [id |-> NextSocialID(social[s]), who |-> p])
      BY <1>1, <1>3, <2>7, <2>9
    <3> QED
      BY <1>3, <2>9, <3>1, OutcomeSender
  <2>12. db2 \in Dbs /\ Rewritten(social, db2, p, a, s, b)
    BY <2>1, <2>5, <2>9, <2>10, TwoSaved
  <2>13. Settled(db2)
    BY <1>1, <2>1, <2>2, <2>4, <2>5, <2>8, <2>10, <2>12, AcceptSettles
  <2>14. ASSUME NEW x \in Followed, NEW list \in {"friends", "requests"}, panel[x] # Offline
         PROVE  /\ panel[x][list] = Range(social[x][list])
                /\ x = p => Concerns(p, w, x, list)
                            /\ Redrawn(w, list, panel[x][list]) = Range(db2[x][list])
    <3>1. panel[x][list] = Range(social[x][list])
      BY <2>1, <2>14 DEF ShowsSaved
    <3>2. x = p => Concerns(p, w, x, list)
      BY <1>3 DEF Concerns
    <3>3. ASSUME x = p, list = "friends"
          PROVE  Redrawn(w, list, panel[x][list]) = Range(db2[x][list])
      <4>1. Redrawn(w, list, panel[x][list]) = panel[x][list] \cup {row}
        BY <1>3, <3>3 DEF Redrawn
      <4>2. PICK f2 : f2 = Append(f, row)
        OBVIOUS
      <4>3. Range(f2) = Range(f) \cup {row}
        <5>1. f \in Seq(Row) /\ row \in Row
          BY <2>2, <2>4
        <5> QED
          BY <4>2, <5>1, RangeAppended
      <4>4. db2[x][list] = f2 /\ social[x][list] = f
        BY <2>2, <2>10, <2>12, <3>3, <4>2 DEF Rewritten
      <4> QED
        BY <3>1, <4>1, <4>3, <4>4
    <3>4. ASSUME x = p, list = "requests"
          PROVE  Redrawn(w, list, panel[x][list]) = Range(db2[x][list])
      <4>1. Redrawn(w, list, panel[x][list]) = {y \in panel[x][list] : y.id # row.id}
        BY <1>3, <3>4 DEF Redrawn
      <4>2. db2[x][list] = r2 /\ social[x][list] = r
        BY <2>2, <2>10, <2>12, <3>4 DEF Rewritten
      <4> QED
        BY <2>4, <3>1, <4>1, <4>2
    <3> QED
      BY <3>1, <3>2, <3>3, <3>4
  <2>15. LooksUp(w)
    BY <1>3 DEF LooksUp
  <2>16. Looking(p, w, social, panel)
    BY <1>1, <1>3, <2>5, <2>11, <2>13, <2>14 DEF Looking
  <2> QED
    BY <1>1, <2>15, <2>16, LookingDue
<1> QED
  BY <1>2, <1>4, LeavesCalm

\* Friends are friends of each other, and not of themselves.
LEMMA FriendsBothWays ==
    ASSUME NEW db \in Dbs, Settled(db), NEW p \in Player, NEW row \in Range(db[p].friends),
           NEW s, s = row.who
    PROVE  s \in Player /\ s # p /\ IsFriendOf(db[s], p)
<1>1. db[p].friends \in Seq(Row)
  BY DbRows
<1>2. PICK i \in DOMAIN db[p].friends : row = db[p].friends[i]
  BY DEF Range
<1>3. row \in Row /\ s \in Player /\ s \in People(db[p].friends)
  <2>1. row \in Row
    BY <1>1, <1>2
  <2>2. s \in Player
    BY <2>1 DEF Row
  <2> QED
    BY <1>2, <2>1, <2>2 DEF People
<1>4. s # p
  BY <1>3 DEF Settled
<1>5. Times(db[p].friends, s) # 0
  BY <1>1, <1>3, TimesCounts
<1>6. Times(db[s].friends, p) # 0
  BY <1>3, <1>5, SettledCounts
<1>7. db[s].friends \in Seq(Row)
  BY <1>3, DbRows
<1>8. p \in People(db[s].friends)
  BY <1>6, <1>7, TimesCounts
<1> QED
  BY <1>3, <1>4, <1>8 DEF IsFriendOf

\* The row of the actor cut out of the other's list.
LEMMA CutOf ==
    ASSUME NEW lists \in Lists, NEW p, IsFriendOf(lists, p), ToldApart(lists.friends),
           0 \notin IDs(lists.friends), NEW b, b = RemoveFriendOf(lists, p),
           NEW j, j = PlaceOf(lists.friends, p), NEW mirrored, mirrored = RowOf(lists.friends, p)
    PROVE  /\ j \in DOMAIN lists.friends /\ lists.friends[j].who = p /\ lists.friends[j] = mirrored
           /\ mirrored \in Row /\ mirrored.id # 0 /\ mirrored \in Range(lists.friends)
           /\ b \in Lists /\ b.friends = RemoveAt(lists.friends, j) /\ b.requests = lists.requests
           /\ Range(b.friends) = {r \in Range(lists.friends) : r.id # mirrored.id}
<1>1. PICK g \in Seq(Row) : g = lists.friends
  BY DEF Lists
<1>2. j \in DOMAIN g /\ g[j].who = p /\ g[j] = mirrored /\ mirrored \in Row
  BY <1>1, PlaceFound DEF IsFriendOf, RowOf
<1>3. mirrored.id # 0 /\ mirrored \in Range(g)
  BY <1>1, <1>2 DEF IDs, Range
<1>4. PICK g2 : g2 = RemoveAt(g, j)
  OBVIOUS
<1>5. g2 \in Seq(Row)
  BY <1>2, <1>4, RemoveAtShifts
<1>6. b = [lists EXCEPT !.friends = g2]
  BY <1>1, <1>4 DEF RemoveFriendOf
<1>7. b \in Lists /\ b.friends = g2 /\ b.requests = lists.requests
  BY <1>5, <1>6 DEF Lists
<1>8. Range(g2) = {r \in Range(g) : r.id # mirrored.id}
  BY <1>1, <1>2, <1>3, <1>4, RangeRemoved
<1> QED
  BY <1>1, <1>2, <1>3, <1>4, <1>7, <1>8

LEMMA DeleteCalm ==
    ASSUME FriendsInv, CalmInv, NEW p \in Player, NEW id, Delete(p, id) PROVE CalmInv'
<1>1. PICK row, a, s, v, w, calls :
        /\ row = RowWith(social[p].friends, id) /\ a = RemoveFriend(social[p], id)
        /\ s = row.who /\ v = SaveSocial(p, a) /\ w = FindOther(row) /\ calls = <<v, w>>
  OBVIOUS
<1>2. id \in IDs(social[p].friends) /\ Leaves(p, calls)
  BY <1>1 DEF Delete
<1>3. /\ v.do = "saveSocial" /\ v.who = p /\ v.lists = a
      /\ w.do = "findOther" /\ w.row = row /\ LooksUp(w) /\ ~ LooksUp(v)
  BY <1>1 DEF FindOther, SaveSocial, LooksUp
<1>4. ASSUME calm, Quiet PROVE Due(p, calls, social, panel)
  <2>1. social \in Dbs /\ Settled(social) /\ ShowsSaved /\ Fine(p, social[p])
    BY <1>4, QuietFine
  <2>2. PICK f, r \in Seq(Row) : f = social[p].friends /\ r = social[p].requests
    BY <2>1 DEF Fine
  <2>3. PICK f2, k : f2 = Without(f, id) /\ k = IndexOf(f, id)
    OBVIOUS
  <2>4. /\ k \in DOMAIN f /\ f[k] = row /\ row \in Row /\ row.id = id /\ row \in Range(f)
        /\ f2 = RemoveAt(f, k) /\ Range(f2) = {x \in Range(f) : x.id # id}
    <3>1. ToldApart(f) /\ 0 \notin IDs(f) /\ id \in IDs(f)
      BY <1>2, <2>1, <2>2 DEF Fine
    <3> QED
      BY <1>1, <2>2, <2>3, <3>1, CutOut
  <2>5. s \in Player /\ s # p /\ IsFriendOf(social[s], p)
    BY <1>1, <2>1, <2>2, <2>4, FriendsBothWays
  <2>6. a \in Lists /\ a.friends = f2 /\ a.requests = r
    <3>1. social[p] \in Lists
      BY <2>1 DEF Fine
    <3>2. f2 \in Seq(Row)
      BY <2>4, RemoveAtShifts
    <3>3. a = [social[p] EXCEPT !.friends = f2]
      BY <1>1, <2>2, <2>3 DEF RemoveFriend
    <3> QED
      BY <2>2, <3>1, <3>2, <3>3 DEF Lists
  <2>7. PICK b, db1, db2, j : /\ b = RemoveFriendOf(social[s], p)
                              /\ db1 = [social EXCEPT ![p] = a]
                              /\ db2 = [social EXCEPT ![p] = a, ![s] = b]
                              /\ j = PlaceOf(social[s].friends, p)
    OBVIOUS
  <2>8. /\ j \in DOMAIN social[s].friends /\ social[s].friends[j].who = p
        /\ b \in Lists /\ b.friends = RemoveAt(social[s].friends, j)
        /\ b.requests = social[s].requests
    <3>1. Fine(s, social[s])
      BY <1>4, <2>5, QuietFine
    <3>2. social[s] \in Lists /\ ToldApart(social[s].friends) /\ 0 \notin IDs(social[s].friends)
      BY <3>1 DEF Fine
    <3> QED
      BY <2>5, <2>7, <3>2, CutOf
  <2>9. db2 \in Dbs /\ Rewritten(social, db2, p, a, s, b)
    BY <2>1, <2>5, <2>6, <2>7, <2>8, TwoSaved
  <2>10. After(p, social, calls) = db2
    <3>1. Outcome(p, social, v) = db1
      BY <1>3, <2>7, OutcomeSave
    <3>2. db1[s] = social[s]
      BY <2>1, <2>5, <2>7 DEF Dbs
    <3>3. Outcome(p, db1, w) = [db1 EXCEPT ![s] = b]
      <4>1. s = w.row.who /\ IsFriendOf(db1[s], p) /\ b = RemoveFriendOf(db1[s], p)
        BY <1>1, <1>3, <2>5, <2>7, <3>2
      <4> QED
        BY <1>3, <4>1, OutcomeOther
    <3>4. After(p, social, calls) = Outcome(p, Outcome(p, social, v), w)
      BY <1>1, AfterTwo
    <3> QED
      BY <2>7, <3>1, <3>3, <3>4
  <2>11. Settled(db2)
    BY <1>1, <2>1, <2>2, <2>4, <2>5, <2>6, <2>8, <2>9, DeleteSettles
  <2>12. Len(calls) = 2 /\ DOMAIN calls = {1, 2} /\ calls[1] = v /\ calls[2] = w
    BY <1>1
  <2>13. Range(calls) = {v, w}
    BY <2>12 DEF Range
  <2>14. InOrder(p, calls)
    BY <1>1, <1>3, <2>5, <2>12 DEF InOrder
  <2>15. InvitesKnown(calls, panel)
    BY <1>3, <2>13 DEF InvitesKnown
  <2>16. ASSUME NEW x \in Followed, NEW list \in {"friends", "requests"}, panel[x] # Offline
         PROVE  ScreenDue(p, calls, social, x, list, panel[x][list])
    <3>1. panel[x][list] = Range(social[x][list])
      BY <2>1, <2>16 DEF ShowsSaved
    <3>2. ~ Concerns(p, v, x, list)
      BY <1>3 DEF Concerns
    <3>3. Concerns(p, w, x, list) <=> x = p /\ list = "friends"
      BY <1>3 DEF Concerns
    <3>4. CASE x # p
      BY <1>3, <2>13, <3>1, <3>4 DEF ScreenDue
    <3>5. CASE x = p /\ list = "friends"
      <4>1. {c \in Range(calls) : Concerns(p, c, x, list)} = {w}
        BY <2>13, <3>2, <3>3, <3>5
      <4>2. Redrawn(w, list, panel[x][list]) = {y \in panel[x][list] : y.id # id}
        BY <1>3, <2>4 DEF Redrawn
      <4>3. db2[x][list] = f2 /\ social[x][list] = f
        BY <2>2, <2>6, <2>9, <3>5 DEF Rewritten
      <4>4. Redrawn(w, list, panel[x][list]) = Range(db2[x][list])
        BY <2>4, <3>1, <4>2, <4>3
      <4> QED
        BY <2>10, <3>5, <4>1, <4>4 DEF ScreenDue
    <3>6. CASE x = p /\ list = "requests"
      <4>1. {c \in Range(calls) : Concerns(p, c, x, list)} = {}
        BY <2>13, <3>2, <3>3, <3>6
      <4>2. db2[x][list] = r /\ social[x][list] = r
        BY <2>2, <2>6, <2>9, <3>6 DEF Rewritten
      <4> QED
        BY <2>10, <3>1, <3>6, <4>1, <4>2 DEF ScreenDue
    <3> QED
      BY <3>4, <3>5, <3>6
  <2> QED
    BY <2>10, <2>11, <2>14, <2>15, <2>16 DEF Due
<1> QED
  BY <1>2, <1>4, LeavesCalm

\* Nothing is to be saved or told but an invitation.
LEMMA OnlyInvites ==
    ASSUME NEW p, NEW db, NEW screens, NEW w, NEW calls, calls = <<w>>,
           w.do = "findInvited" \/ (w.do = "tell" /\ w.what = "invite"),
           w.do = "tell" => (screens[w.who] # Offline => w.row \in screens[w.who].friends),
           Settled(db),
           \A q \in Followed, list \in {"friends", "requests"} :
              screens[q] # Offline => screens[q][list] = Range(db[q][list])
    PROVE  Due(p, calls, db, screens)
<1>1. Len(calls) = 1 /\ DOMAIN calls = {1} /\ calls[1] = w /\ Range(calls) = {w}
  BY SingleCall
<1>2. ~ LooksUp(w) /\ w.do # "saveSocial"
  BY DEF LooksUp
<1>3. After(p, db, calls) = db
  BY <1>2, AfterOne, OutcomePlain
<1>4. InOrder(p, calls) /\ InvitesKnown(calls, screens)
  BY <1>1, <1>2 DEF InOrder, InvitesKnown
<1>5. ASSUME NEW q \in Followed, NEW list \in {"friends", "requests"}, screens[q] # Offline
      PROVE  ScreenDue(p, calls, db, q, list, screens[q][list])
  <2>1. ~ Concerns(p, w, q, list)
    BY DEF Concerns
  <2>2. {c \in Range(calls) : Concerns(p, c, q, list)} = {}
    BY <1>1, <2>1
  <2>3. screens[q][list] = Range(db[q][list])
    BY <1>5
  <2> QED
    BY <1>1, <1>2, <1>3, <2>2, <2>3 DEF ScreenDue
<1> QED
  BY <1>3, <1>4, <1>5 DEF Due

LEMMA InviteCalm ==
    ASSUME FriendsInv, CalmInv, NEW p \in Player, NEW id, Invite(p, id) PROVE CalmInv'
<1>1. PICK w, calls : w = FindInvited(RowWith(social[p].friends, id)) /\ calls = <<w>>
  OBVIOUS
<1>2. Leaves(p, calls) /\ w.do = "findInvited"
  BY <1>1 DEF Invite, FindInvited
<1>3. ASSUME calm, Quiet PROVE Due(p, calls, social, panel)
  <2>1. Settled(social) /\ ShowsSaved
    BY <1>3, QuietFine
  <2> QED
    BY <1>1, <1>2, <2>1, OnlyInvites DEF ShowsSaved
<1> QED
  BY <1>2, <1>3, LeavesCalm

-----------------------------------------------------------------------------
(***************************************************************************)
(* An account is looked up.                                                *)
(***************************************************************************)
LEMMA FoundCalm ==
    ASSUME FriendsInv, CalmInv, NEW p \in Player, todo[p] # <<>>, NEW calls,
           todo' = [todo EXCEPT ![p] = calls], UNCHANGED <<social, panel, calm>>,
           calm => Due(p, calls, social, panel)
    PROVE  CalmInv'
<1>1. calm => NoZero(social)
  BY AtWork
<1> QED
  BY <1>1, CalmStep

\* A handler that looks an account up has nothing else left.
LEMMA LooksLast ==
    ASSUME FriendsInv, NEW p \in Player, todo[p] # <<>>, NEW w, w = Head(todo[p]),
           w.do \in {"findSender", "findOther", "findInvited"}, Due(p, todo[p], social, panel)
    PROVE  Len(todo[p]) = 1 /\ todo[p][1] = w /\ Range(todo[p]) = {w}
<1>1. todo[p] \in Seq(Call)
  BY DEF FriendsInv, TypeOK
<1>2. PICK n \in Nat \ {0} : Len(todo[p]) = n /\ DOMAIN todo[p] = 1 .. n /\ Head(todo[p]) = todo[p][1]
  BY <1>1, TailCalls
<1>3. InOrder(p, todo[p]) /\ 1 \in DOMAIN todo[p]
  BY <1>2 DEF Due
<1>4. n = 1
  BY <1>2, <1>3 DEF InOrder, LooksUp
<1>5. 1 .. 1 = {1}
  OBVIOUS
<1> QED
  BY <1>2, <1>4, <1>5 DEF Range

LEMMA FindingSenderCalm ==
    ASSUME FriendsInv, CalmInv, NEW p \in Player, FindingSender(p) PROVE CalmInv'
<1>1. PICK w, s : w = Head(todo[p]) /\ s = w.row.who
  OBVIOUS
<1>2. PICK theirs, a, b : /\ theirs = [id |-> NextSocialID(social[s]), who |-> p]
                          /\ a = Befriend(w.copy, w.row) /\ b = Befriend(social[s], theirs)
  OBVIOUS
<1>3. PICK saves, one, two, three :
        /\ saves = <<SaveSocial(p, a), SaveSocial(s, b)>>
        /\ one = Tell(p, "withdraw", "requests", w.row) /\ two = Tell(p, "add", "friends", w.row)
        /\ three = Tell(s, "add", "friends", theirs)
  OBVIOUS
<1>4. PICK told, calls : told = one \o two \o three /\ calls = saves \o told
  OBVIOUS
<1>5. todo[p] # <<>> /\ w.do = "findSender" /\ UNCHANGED <<social, panel, calm>>
  BY <1>1 DEF FindingSender, NextCall
<1>6. w \in Call /\ w.row \in Row /\ w.copy \in Lists /\ s \in Player /\ social \in Dbs
  BY <1>1, <1>5, AtWork DEF Call, Row
<1>7. social[s] \in Lists /\ theirs \in Row
  <2>1. social[s] \in Kept(s)
    BY <1>6 DEF FriendsInv
  <2>2. theirs \in Row
    BY <1>2, <2>1, KeptBefriend
  <2> QED
    BY <1>6, <2>2 DEF Dbs
<1>8. /\ a \in Lists /\ b \in Lists /\ b.friends = Append(social[s].friends, theirs)
      /\ b.requests = social[s].requests
  BY <1>2, <1>6, <1>7, BefriendParts
<1>9. saves \in Seq(Saves) /\ Len(saves) <= 2
  <2>1. SaveSocial(p, a) \in Saves /\ SaveSocial(s, b) \in Saves
    BY <1>6, <1>8, SaveMakes
  <2> QED
    BY <1>3, <2>1
<1>10. /\ one \in Seq(News) /\ two \in Seq(News) /\ three \in Seq(News)
       /\ Range(one) = IF p \in Followed THEN {TellOf(p, "withdraw", "requests", w.row)} ELSE {}
       /\ Range(two) = IF p \in Followed THEN {TellOf(p, "add", "friends", w.row)} ELSE {}
       /\ Range(three) = IF s \in Followed THEN {TellOf(s, "add", "friends", theirs)} ELSE {}
  BY <1>3, <1>6, <1>7, TellMakes
<1>11. told \in Seq(News) /\ Range(told) = Range(one) \cup Range(two) \cup Range(three)
  <2>1. PICK both : both = one \o two
    OBVIOUS
  <2>2. one \in Seq(News) /\ two \in Seq(News) /\ three \in Seq(News)
    BY <1>10
  <2>3. both \in Seq(News) /\ Range(both) = Range(one) \cup Range(two)
    BY <2>1, <2>2, NewsJoined
  <2>4. told = both \o three
    BY <1>4, <2>1
  <2>5. told \in Seq(News) /\ Range(told) = Range(both) \cup Range(three)
    BY <2>2, <2>3, <2>4, NewsJoined
  <2> QED
    BY <2>3, <2>5
<1>12. todo' = [todo EXCEPT ![p] = calls]
  <2>1. calls = saves \o (one \o two \o three)
    BY <1>4
  <2> QED
    BY <1>1, <1>2, <1>3, <2>1 DEF FindingSender
<1>13. ASSUME calm PROVE Due(p, calls, social, panel)
  <2>1. Due(p, todo[p], social, panel) /\ todo[p] \in Seq(Call)
    BY <1>5, <1>13, AtWork
  <2>2. LooksUp(w) /\ Len(todo[p]) = 1
    BY <1>1, <1>5, <2>1, LooksLast DEF LooksUp
  <2>3. Looking(p, w, social, panel)
    BY <1>1, <1>5, <2>1, <2>2, DueLooking
  <2>4. PICK db2 : db2 = [social EXCEPT ![p] = a, ![s] = b]
    OBVIOUS
  <2>5. s # p
    BY <1>1, <2>3 DEF Looking
  <2>6. Outcome(p, social, w) = db2
    <3>1. /\ s = w.row.who /\ a = Befriend(w.copy, w.row)
          /\ b = Befriend(social[s], [id |-> NextSocialID(social[s]), who |-> p])
      BY <1>1, <1>2
    <3> QED
      BY <1>5, <2>4, <3>1, OutcomeSender
  <2>7. After(p, social, saves) = db2
    <3>1. PICK db1 : db1 = [social EXCEPT ![p] = a]
      OBVIOUS
    <3>2. Outcome(p, social, SaveSocial(p, a)) = db1
      BY <1>8, <3>1, SaveMakes
    <3>3. Outcome(p, db1, SaveSocial(s, b)) = [db1 EXCEPT ![s] = b]
      BY <1>6, <1>8, SaveMakes
    <3>4. After(p, social, saves) = Outcome(p, Outcome(p, social, SaveSocial(p, a)), SaveSocial(s, b))
      BY <1>3, AfterTwo
    <3> QED
      BY <2>4, <3>1, <3>2, <3>3, <3>4
  <2>8. Settled(db2)
    BY <2>3, <2>6 DEF Looking
  <2>9. db2 \in Dbs /\ Rewritten(social, db2, p, a, s, b)
    BY <1>6, <1>8, <2>4, <2>5, TwoSaved
  <2>10. ASSUME NEW x \in Followed, NEW list \in {"friends", "requests"}, panel[x] # Offline
         PROVE  NewsDue(told, p, x, list, panel[x][list], Range(db2[x][list]))
    <3>1. PICK rows : rows = panel[x][list]
      OBVIOUS
    <3>2. PICK u, v, t : /\ u = TellOf(p, "withdraw", "requests", w.row)
                         /\ v = TellOf(p, "add", "friends", w.row)
                         /\ t = TellOf(s, "add", "friends", theirs)
      OBVIOUS
    <3>3. /\ Concerns(p, u, x, list) <=> x = p /\ list = "requests"
          /\ Concerns(p, v, x, list) <=> x = p /\ list = "friends"
          /\ Concerns(p, t, x, list) <=> x = s /\ list = "friends"
      BY <3>2 DEF Concerns, TellOf
    <3>4. \A c \in Range(told) : c = u \/ c = v \/ c = t
      BY <1>10, <1>11, <3>2
    <3>5. /\ x # p => rows = Range(social[x][list])
          /\ x = p => Redrawn(w, list, rows) = Range(db2[x][list])
      <4>1. x = p => Concerns(p, w, x, list)
        BY <1>5 DEF Concerns
      <4> QED
        BY <2>3, <2>6, <2>10, <3>1, <4>1 DEF Looking
    <3>6. CASE x = p /\ list = "requests"
      <4>1. u \in Range(told)
        BY <1>10, <1>11, <3>2, <3>6
      <4>2. Redrawn(u, list, rows) = {y \in rows : y.id # w.row.id}
        BY <3>2, TellRedraws
      <4>3. Redrawn(w, list, rows) = {y \in rows : y.id # w.row.id}
        BY <1>5, <3>6 DEF Redrawn
      <4>4. Redrawn(u, list, rows) = Range(db2[x][list])
        BY <3>5, <3>6, <4>2, <4>3
      <4>5. \A c \in Range(told) : Concerns(p, c, x, list) => c = u
        BY <2>5, <3>3, <3>4, <3>6
      <4> QED
        BY <3>1, <3>3, <3>6, <4>1, <4>4, <4>5, NewsOf
    <3>7. CASE x = p /\ list = "friends"
      <4>1. v \in Range(told)
        BY <1>10, <1>11, <3>2, <3>7
      <4>2. Redrawn(v, list, rows) = rows \cup {w.row}
        BY <3>2, TellRedraws
      <4>3. Redrawn(w, list, rows) = rows \cup {w.row}
        BY <1>5, <3>7 DEF Redrawn
      <4>4. Redrawn(v, list, rows) = Range(db2[x][list])
        BY <3>5, <3>7, <4>2, <4>3
      <4>5. \A c \in Range(told) : Concerns(p, c, x, list) => c = v
        BY <2>5, <3>3, <3>4, <3>7
      <4> QED
        BY <3>1, <3>3, <3>7, <4>1, <4>4, <4>5, NewsOf
    <3>8. CASE x = s /\ list = "friends"
      <4>1. t \in Range(told)
        BY <1>10, <1>11, <3>2, <3>8
      <4>2. Redrawn(t, list, rows) = rows \cup {theirs}
        BY <3>2, TellRedraws
      <4>3. PICK g, g2 : g = social[s].friends /\ g2 = Append(g, theirs)
        OBVIOUS
      <4>4. Range(g2) = Range(g) \cup {theirs}
        <5>1. g \in Seq(Row)
          BY <1>7, <4>3 DEF Lists
        <5> QED
          BY <1>7, <4>3, <5>1, RangeAppended
      <4>5. rows = Range(g) /\ db2[x][list] = g2
        BY <1>8, <2>5, <2>9, <3>5, <3>8, <4>3 DEF Rewritten
      <4>6. Redrawn(t, list, rows) = Range(db2[x][list])
        BY <4>2, <4>4, <4>5
      <4>7. \A c \in Range(told) : Concerns(p, c, x, list) => c = t
        BY <2>5, <3>3, <3>4, <3>8
      <4> QED
        BY <3>1, <3>3, <3>8, <4>1, <4>6, <4>7, NewsOf
    <3>9. CASE x # p /\ ~ (x = s /\ list = "friends")
      <4>1. \A c \in Range(told) : ~ Concerns(p, c, x, list)
        BY <3>3, <3>4, <3>9
      <4>2. x \in Player
        BY FriendsAssumption
      <4>3. db2[x][list] = social[x][list]
        BY <1>8, <2>9, <3>9, <4>2 DEF Rewritten
      <4>4. rows = Range(db2[x][list])
        BY <3>5, <3>9, <4>3
      <4> QED
        BY <3>1, <4>1, <4>4, NoNews
    <3> QED
      BY <3>6, <3>7, <3>8, <3>9
  <2> QED
    BY <1>4, <1>9, <1>11, <2>7, <2>8, <2>10, PlanDue
<1> QED
  BY <1>5, <1>12, <1>13, FoundCalm

LEMMA FindingOtherCalm ==
    ASSUME FriendsInv, CalmInv, NEW p \in Player, FindingOther(p) PROVE CalmInv'
<1>1. PICK w, s : w = Head(todo[p]) /\ s = w.row.who
  OBVIOUS
<1>2. PICK mirrored, b, own, theirs :
        /\ mirrored = RowOf(social[s].friends, p) /\ b = RemoveFriendOf(social[s], p)
        /\ own = Tell(p, "withdraw", "friends", w.row)
        /\ theirs = Tell(s, "withdraw", "friends", mirrored)
  OBVIOUS
<1>3. todo[p] # <<>> /\ w.do = "findOther" /\ UNCHANGED <<social, panel, calm>>
  BY <1>1 DEF FindingOther, NextCall
<1>4. w \in Call /\ w.row \in Row /\ s \in Player /\ social \in Dbs
  BY <1>1, <1>3, AtWork DEF Call, Row
<1>5. PICK calls : calls = IF ~ IsFriendOf(social[s], p) THEN own
                           ELSE <<SaveSocial(s, b)>>
                                \o (own \o IF mirrored.id = 0 THEN <<>> ELSE theirs)
  OBVIOUS
<1>6. todo' = [todo EXCEPT ![p] = calls]
  BY <1>1, <1>2, <1>5 DEF FindingOther
<1>7. own \in Seq(News) /\ Range(own) = IF p \in Followed THEN {TellOf(p, "withdraw", "friends", w.row)} ELSE {}
  BY <1>2, <1>4, TellMakes
<1>8. ASSUME calm PROVE Due(p, calls, social, panel)
  <2>1. Due(p, todo[p], social, panel) /\ todo[p] \in Seq(Call) /\ NoZero(social)
    BY <1>3, <1>8, AtWork
  <2>2. LooksUp(w) /\ Len(todo[p]) = 1
    BY <1>1, <1>3, <2>1, LooksLast DEF LooksUp
  <2>3. Looking(p, w, social, panel)
    BY <1>1, <1>3, <2>1, <2>2, DueLooking
  <2>4. PICK db2 : db2 = Outcome(p, social, w)
    OBVIOUS
  <2>5. s # p /\ Settled(db2)
    BY <1>1, <2>3, <2>4 DEF Looking
  <2>6. ASSUME NEW x \in Followed, NEW list \in {"friends", "requests"}, panel[x] # Offline
        PROVE  /\ x # p => panel[x][list] = Range(social[x][list])
               /\ x = p /\ list = "friends" =>
                    {y \in panel[x][list] : y.id # w.row.id} = Range(db2[x][list])
               /\ x = p /\ list # "friends" => panel[x][list] = Range(db2[x][list])
    <3>1. Concerns(p, w, x, list) <=> x = p /\ list = "friends"
      BY <1>3 DEF Concerns
    <3>2. Redrawn(w, list, panel[x][list]) = {y \in panel[x][list] : y.id # w.row.id}
      BY <1>3 DEF Redrawn
    <3> QED
      BY <2>3, <2>4, <2>6, <3>1, <3>2 DEF Looking
  <2>7. PICK u : u = TellOf(p, "withdraw", "friends", w.row)
    OBVIOUS
  <2>8. \A x, list : Concerns(p, u, x, list) <=> x = p /\ list = "friends"
    BY <2>7 DEF Concerns, TellOf
  <2>9. CASE ~ IsFriendOf(social[s], p)
    <3>1. calls = own /\ db2 = social
      BY <1>1, <1>3, <1>5, <2>4, <2>9 DEF Outcome
    <3>2. PICK saves : saves = <<>>
      OBVIOUS
    <3>3. saves \in Seq(Saves) /\ Len(saves) <= 2 /\ calls = saves \o own
      BY <1>7, <3>1, <3>2, ConcatEmptySeq
    <3>4. After(p, social, saves) = db2
      BY <3>1, <3>2, NothingLeft
    <3>5. ASSUME NEW x \in Followed, NEW list \in {"friends", "requests"}, panel[x] # Offline
          PROVE  NewsDue(own, p, x, list, panel[x][list], Range(db2[x][list]))
      <4>1. CASE x = p /\ list = "friends"
        <5>1. Range(own) = {u}
          BY <1>7, <2>7, <4>1
        <5>2. Concerns(p, u, x, list) /\ Redrawn(u, list, panel[x][list]) = Range(db2[x][list])
          <6>1. {y \in panel[x][list] : y.id # w.row.id} = Range(db2[x][list])
            BY <2>6, <3>5, <4>1
          <6>2. /\ Concerns(p, u, x, list)
                /\ Redrawn(u, list, panel[x][list]) = {y \in panel[x][list] : y.id # w.row.id}
            BY <2>7, <4>1 DEF Concerns, Redrawn, TellOf
          <6> QED
            BY <6>1, <6>2
        <5> QED
          BY <5>1, <5>2, NewsOf
      <4>2. CASE ~ (x = p /\ list = "friends")
        <5>1. \A c \in Range(own) : ~ Concerns(p, c, x, list)
          BY <1>7, <2>7, <2>8, <4>2
        <5>2. panel[x][list] = Range(db2[x][list])
          BY <2>6, <3>1, <3>5, <4>2
        <5> QED
          BY <5>1, <5>2, NoNews
      <4> QED
        BY <4>1, <4>2
    <3> QED
      BY <1>7, <2>5, <3>3, <3>4, <3>5, PlanDue
  <2>10. CASE IsFriendOf(social[s], p)
    <3>1. social[s] \in Lists /\ ToldApart(social[s].friends) /\ 0 \notin IDs(social[s].friends)
      <4>1. social[s] \in Kept(s)
        BY <1>4 DEF FriendsInv
      <4>2. social[s] \in SoundIDs /\ social[s] \in Lists
        BY <4>1, KeptParts DEF SoundIDs
      <4> QED
        BY <1>4, <2>1, <4>2, ListsSplit DEF NoZero
    <3>2. /\ mirrored \in Row /\ mirrored.id # 0
          /\ b \in Lists /\ b.requests = social[s].requests
          /\ Range(b.friends) = {r \in Range(social[s].friends) : r.id # mirrored.id}
      BY <1>2, <2>10, <3>1, CutOf
    <3>3. PICK told, saves : told = own \o theirs /\ saves = <<SaveSocial(s, b)>>
      OBVIOUS
    <3>4. theirs \in Seq(News) /\ Range(theirs) = IF s \in Followed THEN {TellOf(s, "withdraw", "friends", mirrored)} ELSE {}
      BY <1>2, <1>4, <3>2, TellMakes
    <3>5. told \in Seq(News) /\ Range(told) = Range(own) \cup Range(theirs)
      BY <1>7, <3>3, <3>4, NewsJoined
    <3>6. SaveSocial(s, b) \in Saves /\ Outcome(p, social, SaveSocial(s, b)) = [social EXCEPT ![s] = b]
      BY <1>4, <3>2, SaveMakes
    <3>7. saves \in Seq(Saves) /\ Len(saves) <= 2
      BY <3>3, <3>6
    <3>8. calls = saves \o told
      BY <1>5, <2>10, <3>2, <3>3
    <3>9. db2 = [social EXCEPT ![s] = b]
      <4>1. s = w.row.who /\ b = RemoveFriendOf(social[s], p)
        BY <1>1, <1>2
      <4> QED
        BY <1>3, <2>4, <2>10, <4>1, OutcomeOther
    <3>10. After(p, social, saves) = db2
      <4>1. After(p, social, saves) = Outcome(p, social, SaveSocial(s, b))
        BY <3>3, AfterOne
      <4> QED
        BY <3>6, <3>9, <4>1
    <3>11. ASSUME NEW x \in Followed, NEW list \in {"friends", "requests"}, panel[x] # Offline
           PROVE  NewsDue(told, p, x, list, panel[x][list], Range(db2[x][list]))
      <4>1. PICK t : t = TellOf(s, "withdraw", "friends", mirrored)
        OBVIOUS
      <4>2. /\ Concerns(p, t, x, list) <=> x = s /\ list = "friends"
            /\ Redrawn(t, list, panel[x][list]) = {y \in panel[x][list] : y.id # mirrored.id}
        BY <4>1 DEF Concerns, Redrawn, TellOf
      <4>3. \A c \in Range(told) : c = u \/ c = t
        BY <1>7, <2>7, <3>4, <3>5, <4>1
      <4>4. x \in Player
        BY FriendsAssumption
      <4>5. CASE x = p /\ list = "friends"
        <5>1. u \in Range(told)
          BY <1>7, <2>7, <3>5, <4>5
        <5>2. Concerns(p, u, x, list) /\ Redrawn(u, list, panel[x][list]) = Range(db2[x][list])
          <6>1. {y \in panel[x][list] : y.id # w.row.id} = Range(db2[x][list])
            BY <2>6, <3>11, <4>5
          <6>2. /\ Concerns(p, u, x, list)
                /\ Redrawn(u, list, panel[x][list]) = {y \in panel[x][list] : y.id # w.row.id}
            BY <2>7, <4>5 DEF Concerns, Redrawn, TellOf
          <6> QED
            BY <6>1, <6>2
        <5>3. \A c \in Range(told) : Concerns(p, c, x, list) => c = u
          BY <2>5, <4>2, <4>3, <4>5
        <5> QED
          BY <5>1, <5>2, <5>3, NewsOf
      <4>6. CASE x = s /\ list = "friends"
        <5>1. t \in Range(told)
          BY <3>4, <3>5, <4>1, <4>6
        <5>2. panel[x][list] = Range(social[s].friends) /\ db2[x][list] = b.friends
          BY <1>4, <2>5, <2>6, <3>9, <3>11, <4>6 DEF Dbs
        <5>3. Concerns(p, t, x, list) /\ Redrawn(t, list, panel[x][list]) = Range(db2[x][list])
          BY <3>2, <4>2, <4>6, <5>2
        <5>4. \A c \in Range(told) : Concerns(p, c, x, list) => c = t
          BY <2>5, <2>8, <4>3, <4>6
        <5> QED
          BY <5>1, <5>3, <5>4, NewsOf
      <4>7. CASE list # "friends" \/ (x # p /\ x # s)
        <5>1. \A c \in Range(told) : ~ Concerns(p, c, x, list)
          BY <2>8, <4>2, <4>3, <4>7
        <5>2. db2[x][list] = social[x][list]
          BY <1>4, <3>2, <3>9, <4>4, <4>7 DEF Dbs
        <5>3. panel[x][list] = Range(db2[x][list])
          BY <2>6, <3>11, <4>7, <5>2
        <5> QED
          BY <5>1, <5>3, NoNews
      <4> QED
        BY <4>5, <4>6, <4>7
    <3> QED
      BY <2>5, <3>5, <3>7, <3>8, <3>10, <3>11, PlanDue
  <2> QED
    BY <2>9, <2>10
<1> QED
  BY <1>3, <1>6, <1>8, FoundCalm

LEMMA FindingInvitedCalm ==
    ASSUME FriendsInv, CalmInv, NEW p \in Player, FindingInvited(p) PROVE CalmInv'
<1>1. PICK v, q, row : v = Head(todo[p]) /\ q = v.row.who /\ row = RowOf(social[q].friends, p)
  OBVIOUS
<1>2. todo[p] # <<>> /\ v.do = "findInvited" /\ UNCHANGED <<social, panel, calm>>
  BY <1>1 DEF FindingInvited, NextCall
<1>3. q \in Player /\ social \in Dbs
  BY <1>1, <1>2, AtWork DEF Call, Row
<1>4. PICK calls, w : /\ w = TellOf(q, "invite", "friends", row)
                      /\ calls = IF IsFriendOf(social[q], p) /\ Online(q) /\ q \in Followed
                                 THEN <<w>> ELSE <<>>
  OBVIOUS
<1>5. todo' = [todo EXCEPT ![p] = calls]
  BY <1>1, <1>4 DEF FindingInvited, Tell, Message, TellOf
<1>6. ASSUME calm PROVE Due(p, calls, social, panel)
  <2>1. Due(p, todo[p], social, panel) /\ todo[p] \in Seq(Call)
    BY <1>2, <1>6, AtWork
  <2>2. Len(todo[p]) = 1 /\ todo[p][1] = v /\ Range(todo[p]) = {v}
    BY <1>1, <1>2, <2>1, LooksLast
  <2>3. ~ LooksUp(v) /\ After(p, social, todo[p]) = social
    <3>1. ~ LooksUp(v) /\ Outcome(p, social, v) = social
      BY <1>2, OutcomePlain DEF LooksUp
    <3> QED
      BY <1>2, <2>2, <3>1 DEF After
  <2>4. Settled(social)
    BY <2>1, <2>3 DEF Due
  <2>5. ASSUME NEW x \in Followed, NEW list \in {"friends", "requests"}, panel[x] # Offline
        PROVE  panel[x][list] = Range(social[x][list])
    <3>1. ~ Concerns(p, v, x, list)
      BY <1>2 DEF Concerns
    <3>2. {c \in Range(todo[p]) : Concerns(p, c, x, list)} = {}
      BY <2>2, <3>1
    <3>3. ScreenDue(p, todo[p], social, x, list, panel[x][list])
      BY <2>1, <2>5 DEF Due
    <3> QED
      BY <2>2, <2>3, <3>2, <3>3 DEF ScreenDue
  <2>6. CASE IsFriendOf(social[q], p) /\ Online(q) /\ q \in Followed
    <3>1. w.do = "tell" /\ w.what = "invite" /\ w.who = q /\ w.row = row
      BY <1>4 DEF TellOf
    <3>2. row \in Range(social[q].friends)
      <4>1. social[q].friends \in Seq(Row)
        BY <1>3, DbRows
      <4>2. PlaceOf(social[q].friends, p) \in DOMAIN social[q].friends
        BY <2>6, <4>1, PlaceFound DEF IsFriendOf
      <4> QED
        BY <1>1, <4>2 DEF RowOf, Range
    <3>3. panel[q].friends = Range(social[q].friends)
      BY <2>5, <2>6 DEF Online
    <3>4. calls = <<w>>
      BY <1>4, <2>6
    <3> QED
      BY <2>4, <2>5, <3>1, <3>2, <3>3, <3>4, OnlyInvites
  <2>7. CASE ~ (IsFriendOf(social[q], p) /\ Online(q) /\ q \in Followed)
    <3>1. calls = <<>>
      BY <1>4, <2>7
    <3>2. InOrder(p, <<>>) /\ Settled(After(p, social, <<>>))
      BY <2>4, NothingLeft
    <3>3. InvitesKnown(<<>>, panel)
      BY DEF InvitesKnown, Range
    <3>4. \A x \in Followed, list \in {"friends", "requests"} :
             panel[x] # Offline => ScreenDue(p, <<>>, social, x, list, panel[x][list])
      BY <2>5, NothingDue
    <3> QED
      BY <3>1, <3>2, <3>3, <3>4 DEF Due
  <2> QED
    BY <2>6, <2>7
<1> QED
  BY <1>2, <1>5, <1>6, FoundCalm

LEMMA CalmInit == Init => CalmInv
<1> SUFFICES ASSUME Init PROVE CalmInv
  OBVIOUS
<1>1. /\ social = [p \in Player |-> NoLists] /\ panel = [p \in Player |-> Offline]
      /\ todo = [p \in Player |-> <<>>]
  BY DEF Init
<1>2. People(<<>>) = {} /\ IDs(<<>>) = {}
  BY DEF People, IDs
<1>3. NoLists.friends = <<>> /\ NoLists.requests = <<>>
  BY DEF NoLists
<1>4. \A q : Times(<<>>, q) = 0
  <2>1. \A q : {i \in DOMAIN <<>> : <<>>[i].who = q} = {}
    OBVIOUS
  <2> QED
    BY <2>1, FS_EmptySet DEF Times
<1>5. NoZero(social)
  BY <1>1, <1>2, <1>3 DEF NoZero
<1>6. Settled(social)
  BY <1>1, <1>2, <1>3, <1>4 DEF Settled
<1>7. ASSUME NEW p \in Player PROVE todo[p] = <<>> /\ Due(p, <<>>, social, panel)
  <2>1. InOrder(p, <<>>) /\ After(p, social, <<>>) = social
    BY NothingLeft
  <2>2. InvitesKnown(<<>>, panel)
    BY DEF InvitesKnown, Range
  <2>3. \A q \in Followed : panel[q] = Offline
    BY <1>1, FriendsAssumption
  <2> QED
    BY <1>1, <1>6, <2>1, <2>2, <2>3 DEF Due
<1> QED
  BY <1>5, <1>7 DEF CalmInv

LEMMA CalmNext == FriendsInv /\ CalmInv /\ [Next]_vars => CalmInv'
<1>1. SUFFICES ASSUME FriendsInv, CalmInv, [Next]_vars PROVE CalmInv'
  OBVIOUS
<1>2. CASE UNCHANGED vars
  BY <1>1, <1>2 DEF vars, CalmInv, Alone, NoZero
<1>3. CASE Crash
  BY <1>1, <1>3, CrashCalm
<1>4. ASSUME NEW p \in Player, Login(p) \/ Logout(p) \/ Fail(p) PROVE CalmInv'
  BY <1>1, <1>4, LoginCalm, LogoutCalm, FailCalm
<1>5. ASSUME NEW p \in Player, Asks(p) PROVE CalmInv'
  <2>1. CASE \E q \in Player : Request(p, q)
    BY <1>1, <2>1, RequestCalm
  <2>2. ASSUME NEW id, Accept(p, id) \/ Reject(p, id) \/ Delete(p, id) \/ Invite(p, id)
        PROVE  CalmInv'
    BY <1>1, <2>2, AcceptCalm, RejectCalm, DeleteCalm, InviteCalm
  <2> QED
    BY <1>5, <2>1, <2>2 DEF Asks
<1>6. ASSUME NEW p \in Player, Proceeds(p) PROVE CalmInv'
  BY <1>1, <1>6, SavingCalm, FindingSenderCalm, FindingOtherCalm, FindingInvitedCalm, TellingCalm,
     ShowingCalm DEF Proceeds
<1> QED
  BY <1>1, <1>2, <1>3, <1>4, <1>5, <1>6 DEF Next

(***************************************************************************)
(* CalmInv holds always: while requests come one at a time and none fails, *)
(* the calls that a handler has left, which it makes one by one while      *)
(* others read and write, settle what they have unsettled.                 *)
(***************************************************************************)
THEOREM CalmInvariant == Spec => []CalmInv
<1>1. Init => FriendsInv /\ CalmInv
  BY FriendsInit, CalmInit
<1>2. (FriendsInv /\ CalmInv) /\ [Next]_vars => (FriendsInv /\ CalmInv)'
  BY FriendsNext, CalmNext
<1> QED
  BY <1>1, <1>2, PTL DEF Spec

(***************************************************************************)
(* MutualFriends: Accept enters each of two accounts in the other's list   *)
(* with two saves, and Delete cuts each out of the other's with two; as    *)
(* long as one request is over before the next, p has q as often as q has  *)
(* p, however many players have been accepted, rejected and deleted.       *)
(***************************************************************************)
THEOREM AlwaysMutualFriends == Spec => []MutualFriends
<1>1. CalmInv => MutualFriends
  <2> SUFFICES ASSUME CalmInv, calm, Quiet, NEW p \in Player, NEW q \in Player
               PROVE  Times(social[p].friends, q) = Times(social[q].friends, p)
    BY DEF MutualFriends
  <2>1. Settled(social)
    BY QuietDue
  <2> QED
    BY <2>1 DEF Settled
<1> QED
  BY <1>1, CalmInvariant, PTL

(***************************************************************************)
(* TwiceAtMost: Accept does not look whether the two are friends already,  *)
(* so that crossing requests, both accepted, enter a friend twice; the     *)
(* entries and the open requests between two players are never more.       *)
(***************************************************************************)
THEOREM AlwaysTwiceAtMost == Spec => []TwiceAtMost
<1>1. CalmInv => TwiceAtMost
  <2> SUFFICES ASSUME CalmInv, calm, Quiet, NEW p \in Player, NEW q \in Player
               PROVE  Times(social[p].friends, q) + Times(social[p].requests, q)
                        + Times(social[q].requests, p) <= 2
    BY DEF TwiceAtMost
  <2>1. Settled(social)
    BY QuietDue
  <2> QED
    BY <2>1 DEF Settled
<1> QED
  BY <1>1, CalmInvariant, PTL

(***************************************************************************)
(* PanelAgrees: every answer and announcement carries one row, or one id   *)
(* to strike, and none is ever corrected; still, when no request is under  *)
(* way each followed client shows exactly the rows that are saved, and     *)
(* every invitation that is sent names a row which its client shows.       *)
(***************************************************************************)
THEOREM PanelsAlwaysAgree == Spec => []PanelAgrees
<1>1. FriendsInv /\ CalmInv => PanelAgrees
  <2> SUFFICES ASSUME FriendsInv, CalmInv, calm PROVE PanelAgrees
    BY DEF PanelAgrees
  <2>1. ASSUME Quiet, NEW p \in Followed, Online(p)
        PROVE  /\ panel[p].friends = Range(social[p].friends)
               /\ panel[p].requests = Range(social[p].requests)
    <3>1. p \in Player
      BY FriendsAssumption
    <3> QED
      BY <2>1, <3>1, QuietDue
  <2>2. ASSUME NEW p \in Player, NextCall(p, "tell"), NEW w, w = Head(todo[p]),
               w.what = "invite", Online(w.who)
        PROVE  w.row \in panel[w.who].friends
    <3>1. todo[p] # <<>> /\ w.do = "tell"
      BY <2>2 DEF NextCall
    <3>2. Due(p, todo[p], social, panel) /\ todo[p] \in Seq(Call)
      BY <3>1, AtWork
    <3>3. w \in Range(todo[p])
      BY <2>2, <3>1, <3>2, TailCalls DEF Range
    <3> QED
      BY <2>2, <3>1, <3>2, <3>3 DEF Due, InvitesKnown, Online
  <2> QED
    BY <2>1, <2>2 DEF PanelAgrees
<1> QED
  BY <1>1, FriendsInvariant, CalmInvariant, PTL
=============================================================================
