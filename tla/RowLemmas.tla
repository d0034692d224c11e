------------------------------ MODULE RowLemmas ------------------------------
(***************************************************************************)
(* What the loops over rows promise, for slices of any length and rows of  *)
(* any kind that carry a natural number as their id.                       *)
(***************************************************************************)
EXTENDS Integers, Rows, WellFoundedInduction, SequenceTheorems, FiniteSetTheorems, TLAPS

-----------------------------------------------------------------------------
(***************************************************************************)
(* A nonempty set of naturals has a least element.                         *)
(***************************************************************************)
LEMMA LeastNat ==
    ASSUME NEW T \in SUBSET Nat, T # {}
    PROVE  \E x \in T : \A y \in T : x <= y
<1> DEFINE R == OpToRel(<, Nat)
<1>1. \E x \in T : \A y \in T : ~ (<<y, x>> \in R)
  <2>1. IsWellFoundedOn(R, Nat)
    BY NatLessThanWellFounded
  <2> HIDE DEF R
  <2> QED
    BY <2>1, WFMin
<1>2. \A x, y \in Nat : y < x => <<y, x>> \in R
  BY DEF OpToRel
<1>3. \E x \in T : \A y \in T : ~ (y < x)
  <2> HIDE DEF R
  <2> QED
    BY <1>1, <1>2, Zenon
<1> HIDE DEF R
<1> QED
  BY <1>3

(***************************************************************************)
(* A bounded one has a largest, and Max finds it.                          *)
(***************************************************************************)
LEMMA LargestNat ==
    ASSUME NEW T \in SUBSET Nat, T # {}, NEW m \in Nat, \A y \in T : y <= m
    PROVE  /\ Max(T) \in T
           /\ \A y \in T : y <= Max(T)
<1> DEFINE D == {d \in Nat : m - d \in T}
<1>1. D \in SUBSET Nat /\ D # {}
  <2>1. PICK y \in T : TRUE
    OBVIOUS
  <2>2. m - y \in Nat /\ m - (m - y) = y
    OBVIOUS
  <2> QED
    BY <2>1, <2>2
<1>2. PICK d \in D : \A e \in D : d <= e
  BY <1>1, LeastNat
<1>3. \A y \in T : y <= m - d
  <2> TAKE y \in T
  <2>1. m - y \in Nat /\ m - (m - y) = y
    OBVIOUS
  <2> QED
    BY <1>2, <2>1
<1>4. m - d \in T
  OBVIOUS
<1> QED
  BY <1>3, <1>4 DEF Max

(***************************************************************************)
(* Min finds the least element.                                            *)
(***************************************************************************)
LEMMA MinIsLeast ==
    ASSUME NEW T \in SUBSET Nat, T # {}
    PROVE  /\ Min(T) \in T
           /\ \A y \in T : Min(T) <= y
<1>1. PICK x \in T : \A y \in T : x <= y
  BY LeastNat
<1> QED
  BY <1>1 DEF Min

(***************************************************************************)
(* Two numbers less than a width apart differ modulo that width: a counter *)
(* that wraps tells apart as many as its width.                            *)
(***************************************************************************)
LEMMA ModApart ==
    ASSUME NEW M \in Nat \ {0}, NEW k \in Nat, NEW n \in Nat, k < n, n - k < M
    PROVE  n % M # k % M
<1>1. ASSUME NEW m \in Nat
      PROVE  m = M * (m \div M) + (m % M) /\ m \div M \in Int /\ m % M \in Int
  OBVIOUS
<1>2. PICK a, b \in Int : /\ a = n \div M /\ n = M * a + (n % M)
                          /\ b = k \div M /\ k = M * b + (k % M)
  BY <1>1
<1>3. SUFFICES ASSUME n % M = k % M PROVE FALSE
  OBVIOUS
<1>4. n - k = M * (a - b)
  <2>1. n - k = M * a - M * b
    BY <1>1, <1>2, <1>3
  <2>2. M * a - M * b = M * (a - b)
    OBVIOUS
  <2> QED
    BY <2>1, <2>2
<1>5. CASE a - b <= 0
  <2>1. M * (a - b) <= 0
    BY <1>5
  <2> QED
    BY <1>4, <2>1
<1>6. CASE a - b >= 1
  <2>1. M * (a - b) >= M
    BY <1>6
  <2> QED
    BY <1>4, <2>1
<1> QED
  BY <1>5, <1>6

LEMMA ModTurn ==
    ASSUME NEW M \in Nat \ {0}, NEW n \in 0 .. M
    PROVE  n % M = IF n = M THEN 0 ELSE n
<1>1. PICK q, r \in Int : n = M * q + r /\ r = n % M /\ 0 <= r /\ r < M
  <2>1. n = M * (n \div M) + (n % M) /\ n \div M \in Int /\ n % M \in Int
    OBVIOUS
  <2>2. 0 <= n % M /\ n % M < M
    OBVIOUS
  <2> QED
    BY <2>1, <2>2
<1>2. CASE q <= -1
  <2>1. M * q <= -M
    BY <1>2
  <2> QED
    BY <1>1, <2>1
<1>3. CASE q = 0
  BY <1>1, <1>3
<1>4. CASE q = 1
  BY <1>1, <1>4
<1>5. CASE q >= 2
  <2>1. M * q >= M + M
    BY <1>5
  <2> QED
    BY <1>1, <2>1
<1> QED
  BY <1>1, <1>2, <1>3, <1>4, <1>5

-----------------------------------------------------------------------------

Numbered(R) == \A r \in R : r.id \in Nat

(***************************************************************************)
(* The ids of a slice are bounded; by least counterexample on its length.  *)
(***************************************************************************)
LEMMA IDsBounded ==
    ASSUME NEW R, NEW u \in Seq(R), Numbered(R)
    PROVE  \E m \in Nat : \A i \in DOMAIN u : u[i].id <= m
<1> DEFINE Bounded(n) == \E m \in Nat : \A i \in 1 .. n : u[i].id <= m
           Bad == {n \in 0 .. Len(u) : ~ Bounded(n)}
<1>1. Len(u) \in Nat /\ DOMAIN u = 1 .. Len(u)
  OBVIOUS
<1>2. \A i \in 1 .. Len(u) : u[i].id \in Nat
  BY DEF Numbered
<1>3. Bounded(0)
  OBVIOUS
<1>4. ASSUME NEW n \in 0 .. Len(u) - 1, Bounded(n)
      PROVE  Bounded(n + 1)
  <2>1. PICK m \in Nat : \A i \in 1 .. n : u[i].id <= m
    BY <1>4
  <2>2. CASE u[n + 1].id <= m
    <3>1. \A i \in 1 .. n + 1 : u[i].id <= m
      BY <1>1, <2>1, <2>2
    <3> QED
      BY <3>1
  <2>3. CASE ~ (u[n + 1].id <= m)
    <3>1. u[n + 1].id \in Nat
      BY <1>1, <1>2
    <3>2. \A i \in 1 .. n + 1 : u[i].id <= u[n + 1].id
      BY <1>1, <1>2, <2>1, <2>3, <3>1
    <3> QED
      BY <3>1, <3>2
  <2> QED
    BY <2>2, <2>3
<1>5. Bad = {}
  <2>1. SUFFICES ASSUME Bad # {}
                 PROVE  FALSE
    OBVIOUS
  <2>2. Bad \in SUBSET Nat
    BY <1>1
  <2>3. PICK n \in Bad : \A k \in Bad : n <= k
    <3> HIDE DEF Bad
    <3> QED
      BY <2>1, <2>2, LeastNat
  <2> HIDE DEF Bounded
  <2>4. n # 0
    BY <1>3
  <2>5. n - 1 \in 0 .. Len(u) - 1 /\ n - 1 \notin Bad
    BY <1>1, <2>3, <2>4
  <2>6. Bounded(n - 1)
    BY <1>1, <2>5
  <2>7. Bounded((n - 1) + 1)
    BY <1>4, <2>5, <2>6
  <2> QED
    BY <1>1, <2>7
<1>6. Bounded(Len(u))
  <2> HIDE DEF Bounded
  <2> QED
    BY <1>1, <1>5
<1> QED
  BY <1>1, <1>6

(***************************************************************************)
(* Highest is what it is named for.                                        *)
(***************************************************************************)
LEMMA HighestIsBound ==
    ASSUME NEW R, NEW u \in Seq(R), Numbered(R)
    PROVE  /\ Highest(u) \in Nat /\ Highest(u) \in {0} \cup IDs(u)
           /\ \A i \in DOMAIN u : u[i].id <= Highest(u)
<1>1. PICK m \in Nat : \A i \in DOMAIN u : u[i].id <= m
  BY IDsBounded
<1>2. \A i \in DOMAIN u : u[i].id \in Nat
  BY DEF Numbered
<1> DEFINE T == {0} \cup IDs(u)
<1>3. T \in SUBSET Nat /\ T # {} /\ \A y \in T : y <= m
  BY <1>1, <1>2 DEF IDs
<1>4. Max(T) \in T /\ \A y \in T : y <= Max(T)
  <2> HIDE DEF T
  <2> QED
    BY <1>3, LargestNat
<1> QED
  BY <1>3, <1>4 DEF Highest, IDs

(***************************************************************************)
(* Appending a row keeps the others, and with the next id it stays unique. *)
(***************************************************************************)
LEMMA AppendKeeps ==
    ASSUME NEW R, NEW u \in Seq(R), NEW e \in R, NEW v, v = Append(u, e)
    PROVE  /\ v \in Seq(R)
           /\ Len(v) = Len(u) + 1
           /\ v # <<>>
           /\ \A i \in DOMAIN u : i \in DOMAIN v /\ v[i] = u[i]
           /\ Len(v) \in DOMAIN v /\ v[Len(v)] = e
<1>1. /\ v \in Seq(R)
      /\ Len(v) = Len(u) + 1
      /\ \A i \in 1 .. Len(u) : v[i] = u[i]
      /\ v[Len(u) + 1] = e
  BY AppendProperties
<1>2. DOMAIN u = 1 .. Len(u) /\ DOMAIN v = 1 .. Len(u) + 1 /\ Len(u) \in Nat
  BY <1>1
<1>3. v # <<>>
  BY <1>1, EmptySeq
<1> QED
  BY <1>1, <1>2, <1>3

LEMMA NextIDFresh ==
    ASSUME NEW R, NEW u \in Seq(R), Numbered(R)
    PROVE  /\ NextID(u) \in Nat \ {0}
           /\ \A i \in DOMAIN u : u[i].id \in Nat /\ u[i].id < NextID(u)
<1>1. \A i \in DOMAIN u : u[i].id \in Nat
  BY DEF Numbered
<1> QED
  BY <1>1, HighestIsBound DEF NextID

LEMMA AppendUnique ==
    ASSUME NEW R, NEW u \in Seq(R), Numbered(R), NEW e \in R, e.id = NextID(u),
           Unique(u), NEW v, v = Append(u, e)
    PROVE  Unique(v)
<1>1. /\ v \in Seq(R)
      /\ Len(v) = Len(u) + 1
      /\ \A i \in 1 .. Len(u) : v[i] = u[i]
      /\ v[Len(u) + 1] = e
  BY AppendProperties
<1>2. DOMAIN u = 1 .. Len(u) /\ DOMAIN v = 1 .. Len(u) + 1 /\ Len(u) \in Nat
  BY <1>1
<1>3. \A i \in DOMAIN u : u[i].id # NextID(u)
  BY NextIDFresh
<1> QED
  BY <1>1, <1>2, <1>3 DEF Unique

(***************************************************************************)
(* IndexOf finds the first row with this id, if there is one.              *)
(***************************************************************************)
LEMMA IndexFound ==
    ASSUME NEW R, NEW u \in Seq(R), NEW id \in IDs(u)
    PROVE  /\ IndexOf(u, id) \in DOMAIN u /\ u[IndexOf(u, id)].id = id
           /\ \A j \in DOMAIN u : u[j].id = id => IndexOf(u, id) <= j
<1> DEFINE I == {i \in DOMAIN u : u[i].id = id}
<1>1. I \in SUBSET Nat /\ I # {}
  BY DEF IDs
<1>2. PICK i \in I : \A j \in I : i <= j
  <2> HIDE DEF I
  <2> QED
    BY <1>1, LeastNat
<1>3. \E k \in DOMAIN u :
        /\ u[k].id = id
        /\ \A j \in DOMAIN u : u[j].id = id => k <= j
  BY <1>2
<1> QED
  BY <1>3 DEF IndexOf

(***************************************************************************)
(* RemoveAt takes one element out and keeps the others in order.           *)
(***************************************************************************)
LEMMA RemoveAtShifts ==
    ASSUME NEW R, NEW u \in Seq(R), NEW k \in DOMAIN u,
           NEW v, v = RemoveAt(u, k)
    PROVE  /\ v \in Seq(R)
           /\ Len(v) = Len(u) - 1
           /\ \A i \in DOMAIN v : v[i] = IF i < k THEN u[i] ELSE u[i + 1]
<1> DEFINE a == SubSeq(u, 1, k - 1)
           b == SubSeq(u, k + 1, Len(u))
<1>1. k \in 1 .. Len(u) /\ Len(u) \in Nat /\ \A i \in 1 .. Len(u) : u[i] \in R
  OBVIOUS
<1>2. /\ a \in Seq(R)
      /\ Len(a) = k - 1
      /\ \A i \in 1 .. k - 1 : a[i] = u[i]
  <2>1. \A i \in 1 .. k - 1 : u[i] \in R
    BY <1>1
  <2>2. /\ SubSeq(u, 1, k - 1) \in Seq(R)
        /\ Len(SubSeq(u, 1, k - 1)) = IF 1 <= k - 1 THEN (k - 1) - 1 + 1 ELSE 0
        /\ \A i \in 1 .. (k - 1) - 1 + 1 : SubSeq(u, 1, k - 1)[i] = u[1 + i - 1]
    BY <1>1, <2>1, SubSeqProperties
  <2> QED
    BY <1>1, <2>2
<1>3. /\ b \in Seq(R)
      /\ Len(b) = Len(u) - k
      /\ \A i \in 1 .. Len(u) - k : b[i] = u[k + i]
  <2>1. \A i \in k + 1 .. Len(u) : u[i] \in R
    BY <1>1
  <2>2. /\ SubSeq(u, k + 1, Len(u)) \in Seq(R)
        /\ Len(SubSeq(u, k + 1, Len(u))) = IF k + 1 <= Len(u) THEN Len(u) - (k + 1) + 1 ELSE 0
        /\ \A i \in 1 .. Len(u) - (k + 1) + 1 :
              SubSeq(u, k + 1, Len(u))[i] = u[(k + 1) + i - 1]
    BY <1>1, <2>1, SubSeqProperties
  <2> QED
    BY <1>1, <2>2
<1>4. /\ a \o b \in Seq(R)
      /\ Len(a \o b) = Len(u) - 1
      /\ \A i \in 1 .. Len(u) - 1 : (a \o b)[i] = IF i <= k - 1 THEN a[i] ELSE b[i - (k - 1)]
  <2> HIDE DEF a, b
  <2>1. /\ a \o b \in Seq(R)
        /\ Len(a \o b) = Len(a) + Len(b)
        /\ \A i \in 1 .. Len(a) + Len(b) :
              (a \o b)[i] = IF i <= Len(a) THEN a[i] ELSE b[i - Len(a)]
    BY <1>2, <1>3, ConcatProperties
  <2>2. Len(a) = k - 1 /\ Len(a) + Len(b) = Len(u) - 1
    BY <1>1, <1>2, <1>3
  <2> QED
    BY <2>1, <2>2
<1>5. v = a \o b
  BY DEF RemoveAt
<1>6. \A i \in 1 .. Len(u) - 1 : (a \o b)[i] = IF i < k THEN u[i] ELSE u[i + 1]
  <2> TAKE i \in 1 .. Len(u) - 1
  <2> HIDE DEF a, b
  <2>1. CASE i < k
    BY <1>1, <1>2, <1>4, <2>1
  <2>2. CASE ~ (i < k)
    <3>1. i - (k - 1) \in 1 .. Len(u) - k /\ k + (i - (k - 1)) = i + 1
      BY <1>1, <2>2
    <3>2. (a \o b)[i] = b[i - (k - 1)]
      <4>1. ~ (i <= k - 1)
        BY <1>1, <2>2
      <4>2. (a \o b)[i] = IF i <= k - 1 THEN a[i] ELSE b[i - (k - 1)]
        BY <1>4
      <4> QED
        BY <4>1, <4>2
    <3>3. b[i - (k - 1)] = u[k + (i - (k - 1))]
      BY <1>3, <3>1
    <3> QED
      BY <2>2, <3>1, <3>2, <3>3
  <2> QED
    BY <2>1, <2>2
<1>7. /\ v \in Seq(R)
      /\ Len(v) = Len(u) - 1
      /\ \A i \in 1 .. Len(u) - 1 : v[i] = IF i < k THEN u[i] ELSE u[i + 1]
  <2> HIDE DEF a, b
  <2> QED
    BY <1>4, <1>5, <1>6
<1>8. DOMAIN v = 1 .. Len(u) - 1
  BY <1>7
<1>9. \A i \in DOMAIN v : v[i] = IF i < k THEN u[i] ELSE u[i + 1]
  BY <1>7, <1>8
<1> QED
  BY <1>7, <1>9

(***************************************************************************)
(* Without takes away the row with this id and nothing else.                *)
(***************************************************************************)
LEMMA WithoutRemoves ==
    ASSUME NEW R, NEW u \in Seq(R), NEW id, Unique(u),
           NEW v, v = Without(u, id)
    PROVE  /\ v \in Seq(R)
           /\ Len(v) <= Len(u)
           /\ Unique(v)
           /\ \A i \in DOMAIN u : u[i].id # id => \E j \in DOMAIN v : v[j] = u[i]
           /\ \A j \in DOMAIN v : \E i \in DOMAIN u : v[j] = u[i]
           /\ 1 \in DOMAIN u /\ u[1].id # id => 1 \in DOMAIN v /\ v[1] = u[1]
<1>1. CASE id \notin IDs(u)
  BY <1>1 DEF Without
<1>2. CASE id \in IDs(u)
  <2> DEFINE k == IndexOf(u, id)
  <2>1. k \in 1 .. Len(u) /\ u[k].id = id /\ Len(u) \in Nat
    BY <1>2, IndexFound
  <2>2. v = RemoveAt(u, k)
    BY <1>2 DEF Without
  <2> HIDE DEF k
  <2>3. /\ v \in Seq(R)
        /\ Len(v) = Len(u) - 1
        /\ \A i \in 1 .. Len(u) - 1 : v[i] = IF i < k THEN u[i] ELSE u[i + 1]
    <3>1. k \in DOMAIN u
      BY <2>1
    <3> QED
      BY <2>1, <2>2, <3>1, RemoveAtShifts
  <2>4. DOMAIN v = 1 .. Len(u) - 1 /\ DOMAIN u = 1 .. Len(u)
    BY <2>3
  <2>5. ASSUME NEW j \in DOMAIN v
        PROVE  \E i \in DOMAIN u : v[j] = u[i]
    <3>1. j \in DOMAIN u /\ j + 1 \in DOMAIN u
      BY <2>1, <2>4
    <3>2. v[j] = IF j < k THEN u[j] ELSE u[j + 1]
      BY <2>3, <2>4
    <3> QED
      BY <3>1, <3>2
  <2>6. Unique(v)
    <3> SUFFICES ASSUME NEW i \in DOMAIN v, NEW j \in DOMAIN v, v[i].id = v[j].id
                 PROVE  i = j
      BY DEF Unique
    <3> DEFINE f(n) == IF n < k THEN n ELSE n + 1
    <3>1. f(i) \in DOMAIN u /\ f(j) \in DOMAIN u /\ v[i] = u[f(i)] /\ v[j] = u[f(j)]
      BY <2>1, <2>3, <2>4
    <3>2. f(i) = f(j)
      BY <3>1 DEF Unique
    <3> QED
      BY <2>1, <2>4, <3>2
  <2>7. ASSUME NEW i \in DOMAIN u, u[i].id # id
        PROVE  \E j \in DOMAIN v : v[j] = u[i]
    <3>1. CASE i < k
      <4>1. i \in DOMAIN v /\ v[i] = u[i]
        BY <2>1, <2>3, <2>4, <3>1
      <4> QED
        BY <4>1
    <3>2. CASE ~ (i < k)
      <4>1. i - 1 \in DOMAIN v /\ v[i - 1] = u[(i - 1) + 1]
        BY <2>1, <2>3, <2>4, <2>7, <3>2
      <4> QED
        BY <2>4, <4>1
    <3> QED
      BY <3>1, <3>2
  <2>8. ASSUME 1 \in DOMAIN u, u[1].id # id
        PROVE  1 \in DOMAIN v /\ v[1] = u[1]
    <3>1. k > 1 /\ Len(u) > 1
      BY <2>1, <2>8
    <3>2. 1 \in 1 .. Len(u) - 1
      BY <2>1, <3>1
    <3> QED
      BY <2>3, <2>4, <3>1, <3>2
  <2> QED
    BY <2>1, <2>2, <2>3, <2>5, <2>6, <2>7, <2>8
<1> QED
  BY <1>1, <1>2

(***************************************************************************)
(* PlaceOf finds the first row about a player, if there is one.            *)
(***************************************************************************)
LEMMA PlaceFound ==
    ASSUME NEW R, NEW u \in Seq(R), NEW p \in People(u)
    PROVE  /\ PlaceOf(u, p) \in DOMAIN u /\ u[PlaceOf(u, p)].who = p
           /\ RowOf(u, p) \in R /\ RowOf(u, p).who = p
<1> DEFINE I == {i \in DOMAIN u : u[i].who = p}
<1>1. I \in SUBSET Nat /\ I # {}
  BY DEF People
<1>2. PICK i \in I : \A j \in I : i <= j
  <2> HIDE DEF I
  <2> QED
    BY <1>1, LeastNat
<1>3. \E k \in DOMAIN u :
        /\ u[k].who = p
        /\ \A j \in DOMAIN u : u[j].who = p => k <= j
  BY <1>2
<1> HIDE DEF I
<1>4. PlaceOf(u, p) \in DOMAIN u /\ u[PlaceOf(u, p)].who = p
  BY <1>3 DEF PlaceOf
<1> QED
  BY <1>4 DEF RowOf

(***************************************************************************)
(* What a cut leaves is some of the rows, each at most once: whatever no   *)
(* two rows may share, they do not share afterwards.                       *)
(***************************************************************************)
Thinned(v, u) ==
    \E f \in [DOMAIN v -> DOMAIN u] :
        /\ \A i, j \in DOMAIN v : f[i] = f[j] => i = j
        /\ \A i \in DOMAIN v : v[i] = u[f[i]]

LEMMA RemoveAtThins ==
    ASSUME NEW R, NEW u \in Seq(R), NEW k \in DOMAIN u, NEW v, v = RemoveAt(u, k)
    PROVE  v \in Seq(R) /\ Thinned(v, u)
<1>1. /\ v \in Seq(R)
      /\ Len(v) = Len(u) - 1
      /\ \A i \in DOMAIN v : v[i] = IF i < k THEN u[i] ELSE u[i + 1]
  BY RemoveAtShifts
<1>2. DOMAIN v = 1 .. Len(u) - 1 /\ DOMAIN u = 1 .. Len(u) /\ Len(u) \in Nat /\ k \in 1 .. Len(u)
  BY <1>1
<1> DEFINE f == [i \in DOMAIN v |-> IF i < k THEN i ELSE i + 1]
<1>3. f \in [DOMAIN v -> DOMAIN u]
  BY <1>2
<1>4. \A i, j \in DOMAIN v : f[i] = f[j] => i = j
  BY <1>2
<1>5. \A i \in DOMAIN v : v[i] = u[f[i]]
  BY <1>1
<1> HIDE DEF f
<1> QED
  BY <1>1, <1>3, <1>4, <1>5 DEF Thinned

LEMMA WithoutThins ==
    ASSUME NEW R, NEW u \in Seq(R), NEW id, NEW v, v = Without(u, id)
    PROVE  v \in Seq(R) /\ Thinned(v, u)
<1>1. CASE id \in IDs(u)
  <2>1. IndexOf(u, id) \in DOMAIN u
    BY <1>1, IndexFound
  <2> QED
    BY <1>1, <2>1, RemoveAtThins DEF Without
<1>2. CASE id \notin IDs(u)
  <2> DEFINE f == [i \in DOMAIN u |-> i]
  <2>1. v = u
    BY <1>2 DEF Without
  <2>2. f \in [DOMAIN v -> DOMAIN u] /\ \A i \in DOMAIN v : f[i] = i
    BY <2>1
  <2> HIDE DEF f
  <2> QED
    BY <2>1, <2>2 DEF Thinned
<1> QED
  BY <1>1, <1>2

(***************************************************************************)
(* Keep leaves the chosen rows, every one of them, each once.              *)
(***************************************************************************)
LEMMA KeepChooses ==
    ASSUME NEW R, NEW u \in Seq(R), NEW P \in SUBSET DOMAIN u, NEW v, v = Keep(u, P)
    PROVE  /\ v \in Seq(R) /\ Thinned(v, u)
           /\ \A i \in DOMAIN v : \E k \in P : v[i] = u[k]
           /\ \A k \in P : \E i \in DOMAIN v : v[i] = u[k]
<1> DEFINE Upto(i) == {k \in P : k <= i}
           Nth(n) == CHOOSE i \in P : Cardinality(Upto(i)) = n
<1>1. DOMAIN u = 1 .. Len(u) /\ Len(u) \in Nat
  OBVIOUS
<1>2. IsFiniteSet(P) /\ Cardinality(P) \in Nat
  <2>1. IsFiniteSet(1 .. Len(u))
    BY <1>1, FS_Interval
  <2> QED
    BY <1>1, <2>1, FS_Subset, FS_CardinalityType
<1>3. \A i : IsFiniteSet(Upto(i)) /\ Cardinality(Upto(i)) \in Nat
                                  /\ Cardinality(Upto(i)) <= Cardinality(P)
  <2> TAKE i
  <2>1. Upto(i) \in SUBSET P
    OBVIOUS
  <2> HIDE DEF Upto
  <2> QED
    BY <1>2, <2>1, FS_Subset, FS_CardinalityType
<1>4. ASSUME NEW n \in 1 .. Cardinality(P) PROVE \E i \in P : Cardinality(Upto(i)) = n
  <2> DEFINE T == {m \in 0 .. Len(u) : n <= Cardinality(Upto(m))}
  <2>1. Upto(Len(u)) = P
    BY <1>1
  <2>2. T \in SUBSET Nat /\ T # {}
    <3> HIDE DEF Upto
    <3>1. n <= Cardinality(Upto(Len(u)))
      BY <1>2, <2>1
    <3>2. Len(u) \in T
      BY <1>1, <3>1
    <3> QED
      BY <1>1, <3>2
  <2>3. PICK m \in T : \A k \in T : m <= k
    <3> HIDE DEF T
    <3> QED
      BY <2>2, LeastNat
  <2>4. Upto(0) = {}
    BY <1>1
  <2>5. m # 0
    <3>1. Cardinality(Upto(0)) = 0
      BY <2>4, FS_EmptySet
    <3> HIDE DEF Upto
    <3> QED
      BY <3>1
  <2>6. m \in 1 .. Len(u) /\ m - 1 \in 0 .. Len(u) /\ m - 1 \notin T
    BY <1>1, <2>3, <2>5
  <2>7. Cardinality(Upto(m - 1)) < n /\ n <= Cardinality(Upto(m))
    <3> HIDE DEF Upto
    <3> QED
      BY <1>2, <1>3, <2>6
  <2>8. CASE m \in P
    <3>1. Upto(m) = Upto(m - 1) \cup {m} /\ m \notin Upto(m - 1)
      BY <1>1, <2>6, <2>8
    <3> HIDE DEF Upto
    <3>2. Cardinality(Upto(m)) = Cardinality(Upto(m - 1)) + 1
      BY <1>3, <3>1, FS_AddElement
    <3> QED
      BY <1>3, <2>7, <2>8, <3>2
  <2>9. CASE m \notin P
    <3>1. Upto(m) = Upto(m - 1)
      BY <1>1, <2>6, <2>9
    <3> HIDE DEF Upto
    <3> QED
      BY <1>3, <2>7, <3>1
  <2> QED
    BY <2>8, <2>9
<1>5. \A n \in 1 .. Cardinality(P) : Nth(n) \in P /\ Cardinality(Upto(Nth(n))) = n
  <2> HIDE DEF Upto
  <2> QED
    BY <1>4
<1>6. ASSUME NEW i \in P, NEW j \in P, Cardinality(Upto(i)) = Cardinality(Upto(j)), i < j
      PROVE  FALSE
  <2>1. Upto(i) \in SUBSET Upto(j) /\ j \in Upto(j) /\ j \notin Upto(i)
    BY <1>1, <1>6
  <2> HIDE DEF Upto
  <2> QED
    BY <1>3, <1>6, <2>1, FS_Subset
<1>7. ASSUME NEW k \in P
      PROVE  Cardinality(Upto(k)) \in 1 .. Cardinality(P) /\ Nth(Cardinality(Upto(k))) = k
  <2>1. k \in Upto(k)
    BY <1>1
  <2>2. Cardinality(Upto(k)) \in 1 .. Cardinality(P)
    <3> HIDE DEF Upto
    <3>1. Cardinality(Upto(k)) # 0
      BY <1>3, <2>1, FS_EmptySet
    <3> QED
      BY <1>2, <1>3, <3>1
  <2>3. PICK i : i = Nth(Cardinality(Upto(k)))
    OBVIOUS
  <2>4. i \in P /\ Cardinality(Upto(i)) = Cardinality(Upto(k))
    <3> HIDE DEF Upto, Nth
    <3> QED
      BY <1>5, <2>2, <2>3
  <2>5. ~ (i < k) /\ ~ (k < i)
    <3> HIDE DEF Upto, Nth
    <3> QED
      BY <1>6, <2>4
  <2> HIDE DEF Upto, Nth
  <2> QED
    BY <1>1, <2>2, <2>3, <2>4, <2>5
<1>8. v = [n \in 1 .. Cardinality(P) |-> u[Nth(n)]]
  BY DEF Keep
<1> DEFINE f == [n \in 1 .. Cardinality(P) |-> Nth(n)]
<1>9. DOMAIN v = 1 .. Cardinality(P) /\ \A n \in DOMAIN v : v[n] = u[f[n]] /\ f[n] = Nth(n)
  <2> HIDE DEF Nth
  <2> QED
    BY <1>8
<1> HIDE DEF Upto, Nth
<1>10. \A n \in DOMAIN v : f[n] \in P /\ v[n] \in R
  BY <1>5, <1>9
<1>11. v \in Seq(R)
  <2>1. v = [n \in 1 .. Cardinality(P) |-> v[n]]
    BY <1>8
  <2> QED
    BY <1>2, <1>9, <1>10, <2>1, SeqDef
<1>12. f \in [DOMAIN v -> DOMAIN u]
  BY <1>9, <1>10
<1>13. \A i, j \in DOMAIN v : f[i] = f[j] => i = j
  BY <1>5, <1>9
<1> HIDE DEF f
<1>14. Thinned(v, u)
  BY <1>9, <1>12, <1>13 DEF Thinned
<1>15. \A k \in P : \E i \in DOMAIN v : v[i] = u[k]
  BY <1>7, <1>9
<1> QED
  BY <1>9, <1>10, <1>11, <1>14, <1>15
=============================================================================
