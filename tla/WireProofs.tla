------------------------------ MODULE WireProofs ------------------------------
(***************************************************************************)
(* Proofs about Wire, for any number of connections and accounts and       *)
(* whatever the clients send: a frame is read back whole however it is cut *)
(* up, the registry of sessions mirrors what the sessions hold, frames are *)
(* sent whole and in order, and encrypted ones carry consecutive counters. *)
(***************************************************************************)
EXTENDS Wire, RowLemmas

-----------------------------------------------------------------------------
(***************************************************************************)
(* Codec: a length read back.                                              *)
(***************************************************************************)
ValueFrom(cells, from, i) ==
    (cells[i] % Group) + (IF i = Len(cells) THEN 0 ELSE Group * from[i + 1])

\* The value of a sequence of groups, one group at a time.
LEMMA ValueUnfolds ==
    ASSUME NEW cells \in Seq(Nat)
    PROVE  \E from : /\ GroupsValue(cells) = from[1]
                     /\ from = [i \in 1 .. Len(cells) |-> ValueFrom(cells, from, i)]
<1>1. PICK n \in Nat : n = Len(cells)
  OBVIOUS
<1> DEFINE Part(k) == \E f : f = [i \in n - k + 1 .. n |-> ValueFrom(cells, f, i)]
<1>2. Part(0)
  <2>1. PICK f : f = [i \in {} |-> 0]
    OBVIOUS
  <2>2. n - 0 + 1 .. n = {}
    OBVIOUS
  <2> QED
    BY <2>1, <2>2
<1>3. ASSUME NEW k \in Nat, k < n, Part(k) PROVE Part(k + 1)
  <2>1. PICK f : f = [i \in n - k + 1 .. n |-> ValueFrom(cells, f, i)]
    BY <1>3
  <2>2. PICK g : g = [i \in n - k .. n |-> IF i = n - k THEN ValueFrom(cells, f, i) ELSE f[i]]
    OBVIOUS
  <2>3. ASSUME NEW i \in n - k .. n PROVE g[i] = ValueFrom(cells, g, i)
    <3>1. ValueFrom(cells, g, i) = ValueFrom(cells, f, i)
      <4>1. i # n => i + 1 \in n - k .. n /\ i + 1 # n - k
        BY <1>3
      <4>2. i # n => g[i + 1] = f[i + 1]
        BY <2>2, <4>1
      <4> QED
        BY <1>1, <4>2 DEF ValueFrom
    <3>2. i # n - k => i \in n - k + 1 .. n
      BY <1>3
    <3>3. i # n - k => f[i] = ValueFrom(cells, f, i)
      BY <2>1, <3>2
    <3> QED
      BY <2>2, <3>1, <3>3
  <2>4. g = [i \in n - k .. n |-> ValueFrom(cells, g, i)]
    BY <2>2, <2>3
  <2>5. n - (k + 1) + 1 = n - k
    BY <1>3
  <2> QED
    BY <2>4, <2>5
<1>4. Part(n)
  <2> HIDE DEF Part
  <2>1. PICK T : T = {k \in 0 .. n : ~ Part(k)}
    OBVIOUS
  <2>2. SUFFICES ASSUME T # {} PROVE FALSE
    BY <2>1
  <2>3. PICK k \in T : \A m \in T : k <= m
    <3>1. T \in SUBSET Nat
      BY <2>1
    <3> QED
      BY <2>2, <3>1, LeastNat
  <2>4. k # 0 /\ k \in 0 .. n
    BY <1>2, <2>1
  <2>5. k - 1 \in Nat /\ k - 1 < n /\ k - 1 \notin T
    BY <2>3, <2>4
  <2>6. Part(k - 1 + 1)
    BY <1>3, <2>1, <2>5
  <2> QED
    BY <2>1, <2>4, <2>6
<1>5. PICK f : f = [i \in 1 .. Len(cells) |-> ValueFrom(cells, f, i)]
  BY <1>1, <1>4
<1>6. PICK g : g = CHOOSE h : h = [i \in 1 .. Len(cells) |-> ValueFrom(cells, h, i)]
  OBVIOUS
<1>7. g = [i \in 1 .. Len(cells) |-> ValueFrom(cells, g, i)]
  BY <1>5, <1>6
<1>8. GroupsValue(cells) = g[1]
  BY <1>6 DEF GroupsValue, ValueFrom
<1> QED
  BY <1>7, <1>8

\* One group more, in front.
LEMMA ValueOfMore ==
    ASSUME NEW c \in Nat, NEW rest \in Seq(Nat), Len(rest) > 0
    PROVE  GroupsValue(<<c>> \o rest) = (c % Group) + Group * GroupsValue(rest)
<1>1. PICK cells : cells = <<c>> \o rest
  OBVIOUS
<1>2a. cells \in Seq(Nat) /\ Len(cells) = Len(rest) + 1
  BY <1>1
<1>2. PICK n \in Nat : n = Len(rest) /\ Len(cells) = n + 1 /\ n > 0
  BY <1>2a
<1>3. cells[1] = c /\ \A i \in 1 .. n : cells[i + 1] = rest[i]
  BY <1>1, <1>2
<1>4. PICK f : GroupsValue(cells) = f[1] /\ f = [i \in 1 .. Len(cells) |-> ValueFrom(cells, f, i)]
  BY <1>2a, ValueUnfolds
<1>5. PICK g : GroupsValue(rest) = g[1] /\ g = [i \in 1 .. Len(rest) |-> ValueFrom(rest, g, i)]
  BY ValueUnfolds
<1>6. \A i \in 1 .. n : f[i + 1] = g[i]
  <2>1. PICK T : T = {i \in 1 .. n : f[i + 1] # g[i]}
    OBVIOUS
  <2>2. SUFFICES ASSUME T # {} PROVE FALSE
    BY <2>1
  <2>3. Max(T) \in T /\ \A i \in T : i <= Max(T)
    <3>1. T \in SUBSET Nat /\ \A i \in T : i <= n
      BY <2>1
    <3> QED
      BY <2>2, <3>1, LargestNat
  <2>4. PICK i \in 1 .. n : i = Max(T)
    BY <2>1, <2>3
  <2>5. i # n => i + 1 \in 1 .. n /\ i + 1 \notin T
    BY <2>3, <2>4
  <2>6. i # n => f[i + 1 + 1] = g[i + 1]
    BY <2>1, <2>5
  <2>7. g[i] = ValueFrom(rest, g, i)
    BY <1>2, <1>5
  <2>8. f[i + 1] = ValueFrom(cells, f, i + 1)
    <3>1. i + 1 \in 1 .. Len(cells)
      BY <1>2
    <3> QED
      BY <1>4, <3>1
  <2>9. cells[i + 1] = rest[i] /\ (i + 1 = n + 1 <=> i = n)
    BY <1>3
  <2>10. ValueFrom(cells, f, i + 1) = ValueFrom(rest, g, i)
    BY <1>2, <2>6, <2>9 DEF ValueFrom
  <2> QED
    BY <2>1, <2>3, <2>4, <2>7, <2>8, <2>10
<1>7. f[1] = (c % Group) + Group * f[1 + 1]
  BY <1>2, <1>3, <1>4 DEF ValueFrom
<1>8. f[1 + 1] = g[1]
  BY <1>2, <1>6
<1> QED
  BY <1>1, <1>4, <1>5, <1>7, <1>8

\* The value of a last group.
LEMMA ValueOfOne ==
    ASSUME NEW c \in Nat PROVE GroupsValue(<<c>>) = c % Group
<1>1. PICK cells : cells = <<c>>
  OBVIOUS
<1>2. cells \in Seq(Nat) /\ Len(cells) = 1 /\ cells[1] = c
  BY <1>1
<1>3. PICK f : GroupsValue(cells) = f[1] /\ f = [i \in 1 .. Len(cells) |-> ValueFrom(cells, f, i)]
  BY <1>2, ValueUnfolds
<1>4. 1 \in 1 .. Len(cells)
  BY <1>2
<1>5. f[1] = ValueFrom(cells, f, 1)
  BY <1>3, <1>4
<1>6. ValueFrom(cells, f, 1) = c % Group
  <2>1. c % Group \in Nat
    BY CodecAssumption
  <2>2. ValueFrom(cells, f, 1) = (c % Group) + 0
    BY <1>2 DEF ValueFrom
  <2> QED
    BY <2>1, <2>2
<1> QED
  BY <1>1, <1>3, <1>5, <1>6

-----------------------------------------------------------------------------
(***************************************************************************)
(* A length written and read back, group by group.                         *)
(***************************************************************************)
\* Quotient and remainder by the number of values of a group.
LEMMA GroupSplit ==
    ASSUME NEW v \in Nat
    PROVE  /\ v \div Group \in Nat /\ v % Group \in Nat /\ v % Group < Group
           /\ v = Group * (v \div Group) + (v % Group)
BY CodecAssumption

\* They are the only ones.
LEMMA GroupUnique ==
    ASSUME NEW q \in Nat, NEW r \in Nat, r < Group, NEW v \in Nat, v = Group * q + r
    PROVE  v \div Group = q /\ v % Group = r
<1>1. PICK a \in Nat, b \in Nat : /\ a = v \div Group /\ b = v % Group /\ b < Group
                                  /\ v = Group * a + b
  BY GroupSplit
<1>2. Group \in Nat /\ Group > 2
  BY CodecAssumption
<1>3. Group * (a - q) = r - b
  BY <1>1, <1>2
<1>4. a - q \in Int /\ r - b < Group /\ r - b > -Group
  BY <1>1, <1>2
<1>5. a - q >= 1 => Group * (a - q) >= Group
  BY <1>2, <1>4
<1>6. a - q <= -1 => Group * (a - q) <= -Group
  BY <1>2, <1>4
<1>7. a = q
  BY <1>1, <1>3, <1>4, <1>5, <1>6, <1>2
<1> QED
  BY <1>1, <1>7, <1>2

\* A quotient has one group less ...
LEMMA GroupLess ==
    ASSUME NEW v \in Nat, NEW k \in Nat, v < Group * k
    PROVE  v \div Group < k
<1>1. PICK a \in Nat, b \in Nat : a = v \div Group /\ b = v % Group /\ v = Group * a + b
  BY GroupSplit
<1>2. Group \in Nat /\ Group > 2
  BY CodecAssumption
<1>3. a >= k => Group * a >= Group * k
  <2>1. SUFFICES ASSUME a >= k PROVE Group * (a - k) >= 0
    BY <1>1, <1>2
  <2> QED
    BY <1>1, <1>2, <2>1
<1> QED
  BY <1>1, <1>2, <1>3

\* ... and is smaller, so that the groups of a value are well defined.
LEMMA GroupShrinks ==
    ASSUME NEW v \in Nat, v >= Group
    PROVE  v \div Group \in 0 .. v - 1
<1>1. PICK a \in Nat, b \in Nat : a = v \div Group /\ b = v % Group /\ v = Group * a + b
  BY GroupSplit
<1>2. Group \in Nat /\ Group > 2
  BY CodecAssumption
<1>3. Group * a >= 2 * a
  <2>1. (Group - 2) * a >= 0
    BY <1>1, <1>2
  <2> QED
    BY <2>1, <1>1, <1>2
<1> QED
  BY <1>1, <1>2, <1>3

GroupsFrom(g, v) ==
    IF v >= Group THEN <<Group + (v % Group)>> \o g[v \div Group]
    ELSE IF 2 * v >= Group THEN <<v + Group, 0>> ELSE <<v>>

\* The groups of a value depend on those of its quotient only.
LEMMA GroupsFromSame ==
    ASSUME NEW v \in Nat, NEW f, NEW g, v >= Group => f[v \div Group] = g[v \div Group]
    PROVE  GroupsFrom(f, v) = GroupsFrom(g, v)
BY DEF GroupsFrom

LEMMA GroupsUnfold ==
    ASSUME NEW value \in Nat
    PROVE  \E g : /\ EncodeVarInt(value) = g[value]
                  /\ g = [v \in 0 .. value |-> GroupsFrom(g, v)]
<1> DEFINE Part(k) == \E f : f = [v \in 0 .. k - 1 |-> GroupsFrom(f, v)]
<1>2. Part(0)
  <2>1. PICK f : f = [i \in {} |-> 0]
    OBVIOUS
  <2>2. 0 .. 0 - 1 = {}
    OBVIOUS
  <2> QED
    BY <2>1, <2>2
<1>3. ASSUME NEW k \in Nat, Part(k) PROVE Part(k + 1)
  <2>1. PICK f : f = [v \in 0 .. k - 1 |-> GroupsFrom(f, v)]
    BY <1>3
  <2>2. PICK g : g = [v \in 0 .. k |-> IF v = k THEN GroupsFrom(f, v) ELSE f[v]]
    OBVIOUS
  <2>3. ASSUME NEW v \in 0 .. k PROVE g[v] = GroupsFrom(g, v)
    <3>1. v >= Group => v \div Group \in 0 .. k - 1
      BY GroupShrinks
    <3>2. v >= Group => f[v \div Group] = g[v \div Group]
      BY <2>2, <3>1
    <3>3. GroupsFrom(f, v) = GroupsFrom(g, v)
      BY <3>2, GroupsFromSame
    <3>4. v # k => v \in 0 .. k - 1
      BY <1>3
    <3>5. v # k => f[v] = GroupsFrom(f, v)
      BY <2>1, <3>4
    <3> QED
      BY <2>2, <3>3, <3>5
  <2>4. g = [v \in 0 .. k |-> GroupsFrom(g, v)]
    BY <2>2, <2>3
  <2>5. (k + 1) - 1 = k
    BY <1>3
  <2> QED
    BY <2>4, <2>5
<1>4. Part(value + 1)
  <2> HIDE DEF Part
  <2>1. PICK T : T = {k \in Nat : ~ Part(k)}
    OBVIOUS
  <2>2. SUFFICES ASSUME T # {} PROVE FALSE
    BY <2>1
  <2>3. PICK k \in T : \A m \in T : k <= m
    BY <2>1, <2>2, LeastNat
  <2>4. k # 0 /\ k \in Nat
    BY <1>2, <2>1
  <2>5. k - 1 \in Nat /\ k - 1 \notin T
    BY <2>3, <2>4
  <2>6. Part(k - 1 + 1)
    BY <1>3, <2>1, <2>5
  <2> QED
    BY <2>1, <2>4, <2>6
<1>5. value + 1 - 1 = value
  OBVIOUS
<1>6. PICK f : f = [v \in 0 .. value |-> GroupsFrom(f, v)]
  BY <1>4, <1>5
<1>7. PICK g : g = CHOOSE h : h = [v \in 0 .. value |-> GroupsFrom(h, v)]
  OBVIOUS
<1>8. g = [v \in 0 .. value |-> GroupsFrom(g, v)]
  BY <1>6, <1>7
<1>9. EncodeVarInt(value) = g[value]
  BY <1>7 DEF EncodeVarInt, GroupsFrom
<1> QED
  BY <1>8, <1>9

\* What EncodeVarInt writes: groups with the continuation flag, and a last one
\* with neither the flag nor the sign.
SoundGroups(e, v) ==
    /\ e \in Seq(Nat) /\ Len(e) >= 1
    /\ \A i \in 1 .. Len(e) - 1 : e[i] >= Group
    /\ e[Len(e)] < Group /\ 2 * e[Len(e)] < Group
    /\ GroupsValue(e) = v

\* The groups of a value are sound if those of its quotient are.
LEMMA SoundStep ==
    ASSUME NEW v \in Nat, NEW g, v >= Group => SoundGroups(g[v \div Group], v \div Group)
    PROVE  /\ SoundGroups(GroupsFrom(g, v), v)
           /\ v >= Group => Len(GroupsFrom(g, v)) = Len(g[v \div Group]) + 1
           /\ v < Group => Len(GroupsFrom(g, v)) <= 2
<1>0. Group \in Nat /\ Group > 2 /\ 0 < Group
  BY CodecAssumption
<1>1. CASE v >= Group
  <2>1. PICK r : r = g[v \div Group]
    OBVIOUS
  <2>2. PICK c \in Nat : c = Group + (v % Group) /\ c >= Group /\ c % Group = v % Group
    <3>1. v % Group \in Nat /\ v % Group < Group
      BY GroupSplit
    <3>2. Group + (v % Group) = Group * 1 + (v % Group)
      BY <3>1, <1>0
    <3> QED
      BY <3>1, <3>2, <1>0, GroupUnique
  <2>3. PICK e : e = <<c>> \o r
    OBVIOUS
  <2>4. GroupsFrom(g, v) = e
    BY <1>1, <1>0, <2>1, <2>2, <2>3 DEF GroupsFrom
  <2>5. SoundGroups(r, v \div Group) /\ r \in Seq(Nat) /\ Len(r) >= 1
    BY <1>1, <2>1 DEF SoundGroups
  <2>6. e \in Seq(Nat) /\ Len(e) = Len(r) + 1 /\ e[1] = c /\ \A i \in 1 .. Len(r) : e[i + 1] = r[i]
    BY <2>3, <2>5
  <2>7. GroupsValue(e) = (v % Group) + Group * (v \div Group)
    BY <2>2, <2>3, <2>5, ValueOfMore DEF SoundGroups
  <2>8. GroupsValue(e) = v
    BY <2>7, GroupSplit, <1>0
  <2>9. e[Len(e)] = r[Len(r)]
    <3>1. PICK n : n = Len(r)
      OBVIOUS
    <3>2. n \in 1 .. Len(r)
      BY <2>5, <3>1
    <3>3. e[n + 1] = r[n] /\ Len(e) = n + 1
      BY <2>6, <3>1, <3>2
    <3> QED
      BY <3>1, <3>3
  <2>10. ASSUME NEW i \in 1 .. Len(e) - 1 PROVE e[i] >= Group
    <3>1. i # 1 => i - 1 \in 1 .. Len(r) - 1 /\ i - 1 \in 1 .. Len(r)
      BY <2>5, <2>6
    <3>2. i # 1 => e[i - 1 + 1] = r[i - 1]
      BY <2>6, <3>1
    <3>3. i - 1 + 1 = i
      OBVIOUS
    <3> QED
      BY <3>1, <3>2, <3>3, <2>2, <2>5, <2>6 DEF SoundGroups
  <2> QED
    BY <1>1, <1>0, <2>1, <2>4, <2>5, <2>6, <2>8, <2>9, <2>10 DEF SoundGroups
<1>2. CASE v < Group /\ 2 * v >= Group
  <2>1. GroupsFrom(g, v) = <<v + Group, 0>>
    BY <1>2, <1>0 DEF GroupsFrom
  <2>2. PICK e : e = <<v + Group, 0>>
    OBVIOUS
  <2>3. e = <<v + Group>> \o <<0>>
    BY <2>2
  <2>4. (v + Group) % Group = v /\ 0 % Group = 0
    <3>1. v + Group = Group * 1 + v /\ 0 = Group * 0 + 0
      BY <1>0
    <3> QED
      BY <3>1, <1>0, <1>2, GroupUnique
  <2>5. GroupsValue(<<0>>) = 0
    BY <2>4, ValueOfOne
  <2>6. GroupsValue(e) = v + Group * 0
    <3>1. v + Group \in Nat /\ <<0>> \in Seq(Nat) /\ Len(<<0>>) > 0
      BY <1>0
    <3> QED
      BY <2>3, <2>4, <2>5, <3>1, ValueOfMore
  <2>7. GroupsValue(e) = v
    BY <2>6, <1>0
  <2>8. e \in Seq(Nat) /\ Len(e) = 2 /\ e[1] = v + Group /\ e[2] = 0
    BY <2>2, <1>0
  <2> QED
    BY <2>1, <2>2, <2>7, <2>8, <1>0, <1>2 DEF SoundGroups
<1>3. CASE v < Group /\ ~ 2 * v >= Group
  <2>1. GroupsFrom(g, v) = <<v>>
    BY <1>3, <1>0 DEF GroupsFrom
  <2>2. v % Group = v
    <3>1. v = Group * 0 + v
      BY <1>0
    <3> QED
      BY <3>1, <1>0, <1>3, GroupUnique
  <2>3. GroupsValue(<<v>>) = v
    BY <2>2, ValueOfOne
  <2>4. PICK e : e = <<v>>
    OBVIOUS
  <2>5. e \in Seq(Nat) /\ Len(e) = 1 /\ e[1] = v
    BY <2>4
  <2> QED
    BY <2>1, <2>3, <2>4, <2>5, <1>0, <1>3 DEF SoundGroups
<1> QED
  BY <1>0, <1>1, <1>2, <1>3

\* A length is written in at most five groups that read as it.
LEMMA VarIntWritten ==
    ASSUME NEW value \in 0 .. MaxFrame
    PROVE  /\ SoundGroups(EncodeVarInt(value), value)
           /\ \E k \in 1 .. 5 : k = Len(EncodeVarInt(value))
<1>0. Group \in Nat /\ Group > 2 /\ value \in Nat
  BY CodecAssumption
<1>1. PICK g : EncodeVarInt(value) = g[value] /\ g = [v \in 0 .. value |-> GroupsFrom(g, v)]
  BY <1>0, GroupsUnfold
<1>2. \A v \in 0 .. value : g[v] = GroupsFrom(g, v)
  BY <1>1
<1>3. \A v \in 0 .. value : SoundGroups(g[v], v)
  <2>1. PICK T : T = {v \in 0 .. value : ~ SoundGroups(g[v], v)}
    OBVIOUS
  <2>2. SUFFICES ASSUME T # {} PROVE FALSE
    BY <2>1
  <2>3. PICK v \in T : \A m \in T : v <= m
    BY <2>1, <2>2, LeastNat
  <2>4. v \in 0 .. value /\ v \in Nat
    BY <2>1
  <2>5. v >= Group => v \div Group \in 0 .. value /\ v \div Group \notin T
    BY <2>3, <2>4, GroupShrinks
  <2>6. SoundGroups(GroupsFrom(g, v), v)
    BY <2>1, <2>4, <2>5, SoundStep
  <2> QED
    BY <1>2, <2>1, <2>4, <2>6
<1>4. ASSUME NEW v \in 0 .. value
      PROVE  /\ v < Group => Len(g[v]) <= 2
             /\ v >= Group => v \div Group \in 0 .. value /\ Len(g[v]) = Len(g[v \div Group]) + 1
             /\ Len(g[v]) \in Nat
  <2>1. v >= Group => v \div Group \in 0 .. value
    BY GroupShrinks
  <2>2. v >= Group => SoundGroups(g[v \div Group], v \div Group)
    BY <1>3, <2>1
  <2>3. Len(g[v]) \in Nat
    BY <1>3 DEF SoundGroups
  <2> QED
    BY <1>2, <2>1, <2>2, <2>3, SoundStep
<1> DEFINE Short(m, k) == \A v \in 0 .. value : v < m => Len(g[v]) <= k
<1>5. ASSUME NEW m \in Nat, NEW k \in Nat, k >= 2, Short(m, k) PROVE Short(Group * m, k + 1)
  <2>1. TAKE v \in 0 .. value
  <2>2. HAVE v < Group * m
  <2>3. v \div Group < m
    BY <2>2, GroupLess
  <2>4. v >= Group => Len(g[v \div Group]) <= k /\ Len(g[v]) = Len(g[v \div Group]) + 1
    BY <1>4, <1>5, <2>3
  <2>5. v < Group => Len(g[v]) <= 2
    BY <1>4
  <2>6. Len(g[v]) \in Nat
    BY <1>4
  <2>7. v >= Group => Len(g[v \div Group]) \in Nat
    BY <1>4
  <2> QED
    BY <2>4, <2>5, <2>6, <2>7, <1>5, <1>0
<1>6. Short(Group, 2)
  BY <1>4, <1>0
<1> HIDE DEF Short
<1>7. Short(Group * Group, 2 + 1)
  BY <1>5, <1>6, <1>0
<1>8. Short(Group * (Group * Group), 3 + 1)
  BY <1>5, <1>7, <1>0
<1>9. Short(Group * (Group * (Group * Group)), 4 + 1)
  BY <1>5, <1>8, <1>0
<1>10. value < Group * (Group * (Group * Group))
  BY <1>0, CodecAssumption
<1>11. PICK k \in Nat : k = Len(g[value]) /\ k >= 1
  <2>1. SoundGroups(g[value], value)
    BY <1>0, <1>3
  <2> QED
    BY <2>1 DEF SoundGroups
<1>12. k <= 4 + 1
  BY <1>0, <1>9, <1>10, <1>11 DEF Short
<1>13. k \in 1 .. 5
  <2>1. k >= 1
    BY <1>11
  <2> QED
    BY <2>1, <1>12
<1> QED
  BY <1>1, <1>3, <1>11, <1>13, <1>0

-----------------------------------------------------------------------------
(***************************************************************************)
(* A length, and a sequence of frames, read from a buffer.                 *)
(***************************************************************************)
\* Sequences that agree in length and elements are equal.
LEMMA SameCells ==
    ASSUME NEW S, NEW T, NEW s \in Seq(S), NEW t \in Seq(T), Len(s) = Len(t),
           \A i \in 1 .. Len(s) : s[i] = t[i]
    PROVE  s = t
OBVIOUS

\* The first m cells of e are at a position of buf.
CellsAt(buf, at, e, m) == \A i \in 1 .. m : buf[at + i - 1] = e[i]

\* Cells that are all there are read as they are.
LEMMA CellsRead ==
    ASSUME NEW S, NEW T, NEW buf \in Seq(S), NEW e \in Seq(T), NEW at \in Nat \ {0},
           CellsAt(buf, at, e, Len(e)), at + Len(e) - 1 <= Len(buf)
    PROVE  SubSeq(buf, at, at + Len(e) - 1) = e
<1>1. PICK k \in Nat, m \in Nat : k = Len(e) /\ m = Len(buf) /\ at + k - 1 <= m
  OBVIOUS
<1>2. PICK s : s = SubSeq(buf, at, at + k - 1)
  OBVIOUS
<1>3. s \in Seq(S) /\ Len(s) = k /\ \A i \in 1 .. k : s[i] = buf[at + i - 1]
  BY <1>1, <1>2
<1>4. \A i \in 1 .. k : s[i] = e[i]
  BY <1>1, <1>3 DEF CellsAt
<1>5. s = e
  BY <1>1, <1>3, <1>4
<1> QED
  BY <1>1, <1>2, <1>5

\* The cells of a length: only the last one ends it, and it has no sign.
LEMMA VarIntCells ==
    ASSUME NEW n \in 0 .. MaxFrame
    PROVE  \E e \in Seq(Nat), k \in 1 .. 5 :
             /\ e = EncodeVarInt(n) /\ k = Len(e)
             /\ \A i \in 1 .. k - 1 : ~ e[i] < Group
             /\ e[k] < Group /\ ~ 2 * e[k] >= Group
             /\ GroupsValue(e) = n
<1>1. PICK e : e = EncodeVarInt(n)
  OBVIOUS
<1>2. SoundGroups(e, n) /\ \E k \in 1 .. 5 : k = Len(e)
  BY <1>1, VarIntWritten
<1>3. PICK k \in 1 .. 5 : k = Len(e)
  BY <1>2
<1>4. e \in Seq(Nat)
  BY <1>2 DEF SoundGroups
<1>5. \A i \in 1 .. k : e[i] \in Nat
  BY <1>3, <1>4
<1>6. Group \in Nat
  BY CodecAssumption
<1>7. \A i \in 1 .. k - 1 : e[i] >= Group
  BY <1>2, <1>3 DEF SoundGroups
<1>8. \A i \in 1 .. k - 1 : ~ e[i] < Group
  BY <1>5, <1>6, <1>7
<1>9. e[k] < Group /\ 2 * e[k] < Group /\ GroupsValue(e) = n
  BY <1>2, <1>3 DEF SoundGroups
<1>10. e[k] < Group /\ ~ 2 * e[k] >= Group
  BY <1>5, <1>6, <1>9
<1> QED
  BY <1>1, <1>3, <1>4, <1>8, <1>9, <1>10

\* A varint that is all there is read back ...
LEMMA VarIntRead ==
    ASSUME NEW S, NEW buf \in Seq(S), NEW at \in Nat \ {0}, NEW n \in 0 .. MaxFrame,
           at + Len(EncodeVarInt(n)) - 1 <= Len(buf),
           CellsAt(buf, at, EncodeVarInt(n), Len(EncodeVarInt(n)))
    PROVE  DecodeVarInt(buf, at) = [is |-> "ok", value |-> n, read |-> Len(EncodeVarInt(n))]
<1>1. PICK e \in Seq(Nat), k \in 1 .. 5 :
             /\ e = EncodeVarInt(n) /\ k = Len(e)
             /\ \A i \in 1 .. k - 1 : ~ e[i] < Group
             /\ e[k] < Group /\ ~ 2 * e[k] >= Group
             /\ GroupsValue(e) = n
  BY VarIntCells
<1>2. k = Len(e) /\ at + k - 1 <= Len(buf)
  BY <1>1
<1>3. PICK last \in Nat : last = at + k - 1
  OBVIOUS
<1>4. PICK cells \in SUBSET Nat : cells = at .. (IF at + 4 <= Len(buf) THEN at + 4 ELSE Len(buf))
  OBVIOUS
<1>5. PICK ends \in SUBSET Nat : ends = {i \in cells : buf[i] < Group}
  OBVIOUS
<1>6. last \in cells /\ at <= last /\ last <= Len(buf)
  <2>1. PICK m \in Nat : m = Len(buf) /\ at + k - 1 <= m
    BY <1>2
  <2>2. at <= last /\ last <= m /\ last <= at + 4
    BY <2>1, <1>3
  <2> QED
    BY <2>1, <2>2, <1>4
<1>7. \A i \in 1 .. k : buf[at + i - 1] = e[i]
  BY <1>1, <1>2 DEF CellsAt
<1>8. buf[last] = e[k]
  BY <1>3, <1>7
<1>9. last \in ends
  BY <1>1, <1>2, <1>5, <1>6, <1>8
<1>10. ASSUME NEW i \in ends PROVE last <= i
  <2>1. SUFFICES ASSUME i < last PROVE FALSE
    BY <1>3, <1>4, <1>5
  <2>2. i \in Nat /\ at <= i /\ buf[i] < Group
    BY <1>4, <1>5
  <2>3. i - at + 1 \in 1 .. k - 1 /\ at + (i - at + 1) - 1 = i
    BY <1>2, <1>3, <2>1, <2>2
  <2>4. buf[i] = e[i - at + 1]
    BY <1>7, <2>3
  <2> QED
    BY <1>1, <1>2, <2>2, <2>3, <2>4
<1>11. Min(ends) = last
  <2>1. Min(ends) \in ends /\ \A y \in ends : Min(ends) <= y
    BY <1>9, MinIsLeast
  <2>2. Min(ends) \in Nat /\ Min(ends) <= last /\ last <= Min(ends)
    BY <2>1, <1>9, <1>10
  <2> QED
    BY <2>2
<1>12. SubSeq(buf, at, last) = e
  <2>1. CellsAt(buf, at, e, Len(e)) /\ at + Len(e) - 1 <= Len(buf)
    BY <1>1
  <2>2. SubSeq(buf, at, at + Len(e) - 1) = e
    BY <2>1, CellsRead
  <2> QED
    BY <1>2, <1>3, <2>2
<1>13. ~ 2 * buf[last] >= Group
  BY <1>1, <1>2, <1>8
<1>14. last - at + 1 = k
  BY <1>3
<1>15. DecodeVarInt(buf, at) =
         [is |-> "ok", value |-> GroupsValue(SubSeq(buf, at, last)), read |-> last - at + 1]
  BY <1>4, <1>5, <1>9, <1>11, <1>13 DEF DecodeVarInt
<1> QED
  BY <1>1, <1>2, <1>12, <1>14, <1>15

\* ... and one that is cut short is incomplete.
LEMMA VarIntCut ==
    ASSUME NEW S, NEW buf \in Seq(S), NEW at \in Nat \ {0}, NEW n \in 0 .. MaxFrame,
           at <= Len(buf) + 1, Len(buf) < at + Len(EncodeVarInt(n)) - 1,
           CellsAt(buf, at, EncodeVarInt(n), Len(buf) - at + 1)
    PROVE  DecodeVarInt(buf, at).is = "incomplete"
<1>1. PICK e \in Seq(Nat), k \in 1 .. 5 :
             /\ e = EncodeVarInt(n) /\ k = Len(e)
             /\ \A i \in 1 .. k - 1 : ~ e[i] < Group
             /\ e[k] < Group /\ ~ 2 * e[k] >= Group
             /\ GroupsValue(e) = n
  BY VarIntCells
<1>2. PICK m \in Nat : m = Len(buf) /\ m < at + k - 1
  <2>1. Len(EncodeVarInt(n)) = k
    BY <1>1
  <2>2. Len(buf) \in Nat
    OBVIOUS
  <2> QED
    BY <2>1, <2>2
<1>3. ~ at + 4 <= m
  BY <1>2
<1>4. ASSUME NEW i \in at .. Len(buf) PROVE ~ buf[i] < Group
  <2>1. /\ i - at + 1 \in 1 .. k - 1 /\ i - at + 1 \in 1 .. Len(buf) - at + 1
        /\ at + (i - at + 1) - 1 = i
    BY <1>2
  <2>2. buf[i] = e[i - at + 1]
    BY <1>1, <2>1 DEF CellsAt
  <2> QED
    BY <1>1, <1>2, <2>1, <2>2
<1>5. {i \in at .. Len(buf) : buf[i] < Group} = {}
  BY <1>4
<1> QED
  BY <1>2, <1>3, <1>5 DEF DecodeVarInt

\* A varint that is read takes a cell at least.
LEMMA VarIntTakes ==
    ASSUME NEW S, NEW buf \in Seq(S), NEW at \in Nat \ {0}, DecodeVarInt(buf, at).is = "ok"
    PROVE  DecodeVarInt(buf, at).read \in Nat \ {0}
<1>1. PICK cells \in SUBSET Nat : cells = at .. (IF at + 4 <= Len(buf) THEN at + 4 ELSE Len(buf))
  OBVIOUS
<1>2. PICK ends \in SUBSET Nat : ends = {i \in cells : buf[i] < Group}
  OBVIOUS
<1>3. ends # {} /\ DecodeVarInt(buf, at).read = Min(ends) - at + 1
  BY <1>1, <1>2 DEF DecodeVarInt
<1>4. Min(ends) \in ends
  BY <1>3, MinIsLeast
<1>5. Min(ends) \in Nat /\ Min(ends) >= at
  BY <1>1, <1>2, <1>4
<1> QED
  BY <1>3, <1>5

\* A frame read ends inside the buffer, past where it starts, within the limit.
LEMMA FrontFrameEnds ==
    ASSUME NEW S, NEW buf \in Seq(S), NEW offset \in 0 .. Len(buf),
           FrontFrame(buf, offset).is = "frame"
    PROVE  /\ FrontFrame(buf, offset).next \in offset + 1 .. Len(buf)
           /\ FrontFrame(buf, offset).payload \in Seq(S)
           /\ Len(FrontFrame(buf, offset).payload) <= MaxFrame
<1>1. PICK length : length = DecodeVarInt(buf, offset + 3)
  OBVIOUS
<1>2. PICK start, next : start = offset + 2 + length.read /\ next = start + length.value
  OBVIOUS
<1>3. /\ length.is = "ok" /\ length.value \in 0 .. MaxFrame
      /\ ~ Len(buf) < next
      /\ FrontFrame(buf, offset).next = next
      /\ FrontFrame(buf, offset).payload = SubSeq(buf, start + 1, next)
  BY <1>1, <1>2 DEF FrontFrame
<1>4. length.read \in Nat \ {0}
  <2>1. offset + 3 \in Nat \ {0}
    OBVIOUS
  <2> QED
    BY <1>1, <1>3, <2>1, VarIntTakes
<1>5. start \in Nat /\ next \in Nat /\ next >= offset + 1 /\ next <= Len(buf) /\ next - start \in 0 .. MaxFrame
  <2>1. PICK r \in Nat \ {0}, v \in Nat : r = length.read /\ v = length.value /\ v <= MaxFrame
    BY <1>3, <1>4, CodecAssumption
  <2>2. start = offset + 2 + r /\ next = start + v /\ MaxFrame \in Nat
    BY <1>2, <2>1, CodecAssumption
  <2>3. PICK m \in Nat, o \in Nat : m = Len(buf) /\ o = offset
    OBVIOUS
  <2>3a. start = o + 2 + r /\ next = o + 2 + r + v
    BY <2>2, <2>3
  <2>4. ~ m < next
    BY <1>3, <2>3
  <2>5. next \in Nat /\ next <= m
    BY <2>3a, <2>4
  <2>6. start \in Nat /\ next - start = v
    BY <2>3a
  <2>7. next >= offset + 1
    BY <2>3, <2>3a
  <2> QED
    BY <2>1, <2>3, <2>5, <2>6, <2>7
<1>6. SubSeq(buf, start + 1, next) \in Seq(S) /\ Len(SubSeq(buf, start + 1, next)) = next - start
  <2>1. start + 1 <= next => SubSeq(buf, start + 1, next) \in Seq(S) /\ Len(SubSeq(buf, start + 1, next)) = next - start
    BY <1>5
  <2>2. start = next => SubSeq(buf, start + 1, next) = <<>>
    BY <1>5
  <2> QED
    BY <1>5, <2>1, <2>2
<1> QED
  BY <1>3, <1>5, <1>6, CodecAssumption

ParsedFrom(buf, f, offset) ==
    IF FrontFrame(buf, offset).is = "frame"
    THEN [f[FrontFrame(buf, offset).next] EXCEPT !.frames = <<FrontFrame(buf, offset).payload>> \o @]
    ELSE [frames    |-> <<>>,
          remaining |-> SubSeq(buf, offset + 1, Len(buf)),
          malformed |-> FrontFrame(buf, offset).is = "malformed"]

\* What is parsed from a place depends on what is parsed further on only.
LEMMA ParsedFromSame ==
    ASSUME NEW buf, NEW f, NEW g, NEW offset,
           FrontFrame(buf, offset).is = "frame" =>
              f[FrontFrame(buf, offset).next] = g[FrontFrame(buf, offset).next]
    PROVE  ParsedFrom(buf, f, offset) = ParsedFrom(buf, g, offset)
BY DEF ParsedFrom

\* What is parsed, one frame at a time.
LEMMA ParseUnfolds ==
    ASSUME NEW S, NEW buf \in Seq(S)
    PROVE  \E f : /\ ParseFrames(buf) = f[0]
                  /\ f = [offset \in 0 .. Len(buf) |-> ParsedFrom(buf, f, offset)]
<1>1. PICK n \in Nat : n = Len(buf)
  OBVIOUS
<1> DEFINE Part(k) == \E f : f = [i \in n - k + 1 .. n |-> ParsedFrom(buf, f, i)]
<1>2. Part(0)
  <2>1. PICK f : f = [i \in {} |-> 0]
    OBVIOUS
  <2>2. n - 0 + 1 .. n = {}
    OBVIOUS
  <2> QED
    BY <2>1, <2>2
<1>3. ASSUME NEW k \in Nat, k <= n, Part(k) PROVE Part(k + 1)
  <2>1. PICK f : f = [i \in n - k + 1 .. n |-> ParsedFrom(buf, f, i)]
    BY <1>3
  <2>2. PICK g : g = [i \in n - k .. n |-> IF i = n - k THEN ParsedFrom(buf, f, i) ELSE f[i]]
    OBVIOUS
  <2>3. ASSUME NEW i \in n - k .. n PROVE g[i] = ParsedFrom(buf, g, i)
    <3>0. i \in 0 .. Len(buf)
      BY <1>1, <1>3
    <3>1. FrontFrame(buf, i).is = "frame" => FrontFrame(buf, i).next \in i + 1 .. n
      BY <1>1, <3>0, FrontFrameEnds
    <3>2. \A j \in i + 1 .. n : f[j] = g[j]
      BY <1>3, <2>2
    <3>3. ParsedFrom(buf, f, i) = ParsedFrom(buf, g, i)
      BY <3>1, <3>2, ParsedFromSame
    <3>4. i # n - k => i \in n - k + 1 .. n
      BY <1>3
    <3>5. i # n - k => f[i] = ParsedFrom(buf, f, i)
      BY <2>1, <3>4
    <3> QED
      BY <2>2, <3>3, <3>5
  <2>4. g = [i \in n - k .. n |-> ParsedFrom(buf, g, i)]
    BY <2>2, <2>3
  <2>5. n - (k + 1) + 1 = n - k
    BY <1>3
  <2> QED
    BY <2>4, <2>5
<1>4. Part(n + 1)
  <2> HIDE DEF Part
  <2>1. PICK T : T = {k \in 0 .. n + 1 : ~ Part(k)}
    OBVIOUS
  <2>2. SUFFICES ASSUME T # {} PROVE FALSE
    BY <2>1
  <2>3. PICK k \in T : \A m \in T : k <= m
    <3>1. T \in SUBSET Nat
      BY <2>1
    <3> QED
      BY <3>1, <2>2, LeastNat
  <2>4. k # 0 /\ k \in 0 .. n + 1
    BY <1>2, <2>1
  <2>5. k - 1 \in Nat /\ k - 1 <= n /\ k - 1 \notin T
    BY <2>3, <2>4
  <2>6. Part(k - 1 + 1)
    BY <1>3, <2>1, <2>5
  <2> QED
    BY <2>1, <2>4, <2>6
<1>5. n - (n + 1) + 1 = 0
  OBVIOUS
<1>6. PICK f : f = [i \in 0 .. Len(buf) |-> ParsedFrom(buf, f, i)]
  BY <1>1, <1>4, <1>5
<1>7. PICK g : g = CHOOSE h : h = [i \in 0 .. Len(buf) |-> ParsedFrom(buf, h, i)]
  OBVIOUS
<1>8. g = [i \in 0 .. Len(buf) |-> ParsedFrom(buf, g, i)]
  BY <1>6, <1>7
<1>9. ParseFrames(buf) = g[0]
  BY <1>7 DEF ParseFrames, ParsedFrom
<1> QED
  BY <1>8, <1>9

\* What is read from bytes is frames of bytes, none over the limit, and bytes.
FramePayload == {p \in Seq(Nat) : Len(p) <= MaxFrame}

LEMMA ParseTyped ==
    ASSUME NEW buf \in Seq(Nat)
    PROVE  ParseFrames(buf) \in
             [frames : Seq(FramePayload), remaining : Seq(Nat), malformed : BOOLEAN]
<1>1. PICK f : /\ ParseFrames(buf) = f[0]
               /\ f = [offset \in 0 .. Len(buf) |-> ParsedFrom(buf, f, offset)]
  BY ParseUnfolds
<1>2. PICK R : R = [frames : Seq(FramePayload), remaining : Seq(Nat), malformed : BOOLEAN]
  OBVIOUS
<1>3. PICK n \in Nat : n = Len(buf)
  OBVIOUS
<1>4. \A i \in 0 .. n : f[i] \in R
  <2>1. PICK T : T = {i \in 0 .. n : f[i] \notin R}
    OBVIOUS
  <2>2. SUFFICES ASSUME T # {} PROVE FALSE
    BY <2>1
  <2>3. Max(T) \in T /\ \A i \in T : i <= Max(T)
    <3>1. T \in SUBSET Nat /\ \A i \in T : i <= n
      BY <2>1
    <3> QED
      BY <3>1, <2>2, LargestNat
  <2>4. PICK i \in 0 .. n : i = Max(T)
    BY <2>1, <2>3
  <2>5. f[i] = ParsedFrom(buf, f, i)
    BY <1>1, <1>3
  <2>6. CASE FrontFrame(buf, i).is = "frame"
    <3>1. PICK next \in i + 1 .. n, p \in FramePayload :
             next = FrontFrame(buf, i).next /\ p = FrontFrame(buf, i).payload
      BY <1>3, <2>6, FrontFrameEnds DEF FramePayload
    <3>2. f[next] \in R
      <4>1. next \in 0 .. n /\ ~ next <= i
        BY <3>1
      <4>2. next \notin T
        BY <2>3, <2>4, <4>1
      <4> QED
        BY <2>1, <4>1, <4>2
    <3>3. f[i] = [f[next] EXCEPT !.frames = <<p>> \o @]
      BY <2>5, <2>6, <3>1 DEF ParsedFrom
    <3>4. f[next].frames \in Seq(FramePayload)
      BY <1>2, <3>2
    <3>5. <<p>> \o f[next].frames \in Seq(FramePayload)
      BY <3>1, <3>4
    <3>6. f[i] \in R
      BY <1>2, <3>2, <3>3, <3>5
    <3> QED
      BY <2>1, <2>3, <2>4, <3>6
  <2>7. CASE FrontFrame(buf, i).is # "frame"
    <3>1. f[i] = [frames    |-> <<>>,
                  remaining |-> SubSeq(buf, i + 1, Len(buf)),
                  malformed |-> FrontFrame(buf, i).is = "malformed"]
      BY <2>5, <2>7 DEF ParsedFrom
    <3>2. SubSeq(buf, i + 1, Len(buf)) \in Seq(Nat) /\ <<>> \in Seq(FramePayload)
      BY <1>3
    <3>3. f[i] \in R
      BY <1>2, <3>1, <3>2
    <3> QED
      BY <2>1, <2>3, <2>4, <3>3
  <2> QED
    BY <2>6, <2>7
<1> QED
  BY <1>1, <1>2, <1>3, <1>4

-----------------------------------------------------------------------------
(***************************************************************************)
(* A frame and its parts.                                                  *)
(***************************************************************************)
\* A sequence over a set is one over any larger set.
LEMMA SeqWider ==
    ASSUME NEW T, NEW S, T \subseteq S, NEW s \in Seq(T) PROVE s \in Seq(S)
OBVIOUS

\* The marker, the length's cells and the payload.
FrameShape(frame, payload, e, k, n) ==
    /\ frame = EncodeFrame(Reliable, payload) /\ e = EncodeVarInt(n)
    /\ n \in 0 .. MaxFrame /\ n = Len(payload)
    /\ k \in 1 .. 5 /\ k = Len(e)
    /\ Len(frame) = 2 + k + n
    /\ frame[1] = 19 /\ frame[2] = 87
    /\ \A i \in 1 .. k : frame[2 + i] = e[i]
    /\ \A i \in 1 .. n : frame[2 + k + i] = payload[i]

ThreeJoined(S, f, m, j, e, k, p, n) ==
    /\ f \in Seq(S) /\ Len(f) = j + k + n
    /\ \A i \in 1 .. j : f[i] = m[i]
    /\ \A i \in 1 .. k : f[j + i] = e[i]
    /\ \A i \in 1 .. n : f[j + k + i] = p[i]

\* Three sequences, one after the other.
LEMMA ConcatShape ==
    ASSUME NEW S, NEW m \in Seq(S), NEW e \in Seq(S), NEW p \in Seq(S),
           NEW j \in Nat, NEW k \in Nat, NEW n \in Nat, j = Len(m), k = Len(e), n = Len(p),
           NEW h, h = m \o e, NEW f, f = h \o p
    PROVE  ThreeJoined(S, f, m, j, e, k, p, n)
<1>2. h \in Seq(S) /\ Len(h) = j + k
  OBVIOUS
<1>3. (\A i \in 1 .. j : h[i] = m[i]) /\ (\A i \in 1 .. k : h[j + i] = e[i])
  OBVIOUS
<1>5. f \in Seq(S) /\ Len(f) = Len(h) + Len(p)
  BY <1>2
<1>6. \A i \in 1 .. Len(h) : f[i] = h[i]
  BY <1>2
<1>7. \A i \in 1 .. Len(p) : f[Len(h) + i] = p[i]
  BY <1>2
<1>8. \A i \in 1 .. j : i \in 1 .. Len(h)
  BY <1>2
<1>9. \A i \in 1 .. k : j + i \in 1 .. Len(h)
  BY <1>2
<1>10. \A i \in 1 .. k : f[j + i] = e[i]
  BY <1>3, <1>6, <1>9
<1>11. \A i \in 1 .. j : f[i] = m[i]
  BY <1>3, <1>6, <1>8
<1>12. \A i \in 1 .. n : f[j + k + i] = p[i]
  BY <1>2, <1>7
<1>13. Len(f) = j + k + n
  BY <1>2, <1>5
<1> QED
  BY <1>5, <1>10, <1>11, <1>12, <1>13 DEF ThreeJoined

\* The marker is recognised.
LEMMA MarkerRead ==
    ASSUME NEW S, NEW buf \in Seq(S), NEW l \in Nat, l = Len(buf), l >= 2,
           buf[1] = 19, buf[2] = 87
    PROVE  SubSeq(buf, 0 + 1, 0 + 2) = Reliable
<1>1. PICK s : s = SubSeq(buf, 1, 2)
  OBVIOUS
<1>2. PICK t : t = <<19, 87>>
  OBVIOUS
<1>3. s \in Seq(S) /\ Len(s) = 2 /\ s[1] = buf[1] /\ s[2] = buf[2]
  BY <1>1
<1>4. t \in Seq(Nat) /\ Len(t) = 2 /\ t[1] = 19 /\ t[2] = 87
  BY <1>2
<1>5. \A i \in 1 .. 2 : s[i] = t[i]
  <2>1. \A i \in 1 .. 2 : i = 1 \/ i = 2
    OBVIOUS
  <2> QED
    BY <1>3, <1>4, <2>1
<1>6. Len(s) = Len(t) /\ \A i \in 1 .. Len(s) : s[i] = t[i]
  BY <1>3, <1>4, <1>5
<1>7. s = t
  BY <1>3, <1>4, <1>6, SameCells, ZenonT(20)
<1>8. 0 + 1 = 1 /\ 0 + 2 = 2
  OBVIOUS
<1> QED
  BY <1>1, <1>2, <1>7, <1>8 DEF Reliable

\* Every payload makes a frame of that shape.
LEMMA FrameShaped ==
    ASSUME NEW payload, IsPayload(payload)
    PROVE  \E frame, e, k, n : /\ frame \in Seq(Nat \cup Range(payload))
                             /\ FrameShape(frame, payload, e, k, n)
<1>1. PICK S : S = Nat \cup Range(payload)
  OBVIOUS
<1>2. payload \in Seq(S)
  <2>1. payload \in Seq(Range(payload)) /\ Range(payload) \subseteq S
    BY <1>1 DEF IsPayload
  <2> QED
    BY <2>1, SeqWider
<1>3. PICK n \in 0 .. MaxFrame : n = Len(payload)
  BY <1>2, CodecAssumption DEF IsPayload
<1>4. PICK e \in Seq(Nat), k \in 1 .. 5 : e = EncodeVarInt(n) /\ k = Len(e)
  BY VarIntCells
<1>5. e \in Seq(S)
  BY <1>1, <1>4, SeqWider
<1>6. PICK m : m = <<19, 87>>
  OBVIOUS
<1>7. PICK j \in Nat : j = 2
  OBVIOUS
<1>8. m \in Seq(S) /\ j = Len(m) /\ m[1] = 19 /\ m[2] = 87
  BY <1>1, <1>6, <1>7
<1>9. PICK h, f : h = m \o e /\ f = h \o payload
  OBVIOUS
<1>10. /\ f \in Seq(S) /\ Len(f) = j + k + n
       /\ \A i \in 1 .. j : f[i] = m[i]
       /\ \A i \in 1 .. k : f[j + i] = e[i]
       /\ \A i \in 1 .. n : f[j + k + i] = payload[i]
  <2>1. k \in Nat /\ n \in Nat
    BY CodecAssumption
  <2>2. m \in Seq(S) /\ e \in Seq(S) /\ payload \in Seq(S)
    BY <1>2, <1>5, <1>8
  <2>3. j = Len(m) /\ k = Len(e) /\ n = Len(payload)
    BY <1>3, <1>4, <1>8
  <2>4. ThreeJoined(S, f, m, j, e, k, payload, n)
    BY <1>9, <2>1, <2>2, <2>3, ConcatShape
  <2> QED
    BY <2>4 DEF ThreeJoined
<1>11. f[1] = 19 /\ f[2] = 87
  <2>1. 1 \in 1 .. j /\ 2 \in 1 .. j
    BY <1>7
  <2> QED
    BY <1>8, <1>10, <2>1
<1>12. f = EncodeFrame(Reliable, payload)
  BY <1>3, <1>4, <1>6, <1>9 DEF EncodeFrame, Reliable
<1>13. FrameShape(f, payload, e, k, n)
  BY <1>3, <1>4, <1>7, <1>10, <1>11, <1>12 DEF FrameShape
<1> QED
  BY <1>1, <1>10, <1>13

\* What the client makes of the first m cells of a frame.
LEMMA FrontOfPart ==
    ASSUME NEW S, NEW frame \in Seq(S), NEW payload, NEW e, NEW k, NEW n,
           FrameShape(frame, payload, e, k, n),
           NEW m \in Nat, m < Len(frame), NEW buf, buf = SubSeq(frame, 1, m)
    PROVE  FrontFrame(buf, 0).is = "part"
<1>1. /\ n \in Nat /\ k \in 1 .. 5 /\ Len(frame) = 2 + k + n
      /\ frame[1] = 19 /\ frame[2] = 87
      /\ \A i \in 1 .. k : frame[2 + i] = e[i]
  BY CodecAssumption DEF FrameShape
<1>2. buf \in Seq(S) /\ Len(buf) = m /\ \A i \in 1 .. m : buf[i] = frame[i]
  BY <1>1
<1>3. CASE m < 3
  BY <1>2, <1>3 DEF FrontFrame
<1>4. CASE ~ m < 3
  <2>1. SubSeq(buf, 0 + 1, 0 + 2) = Reliable
    <3>1. buf[1] = 19 /\ buf[2] = 87
      BY <1>1, <1>2, <1>4
    <3>2. m >= 2
      BY <1>4
    <3> QED
      BY <1>2, <3>1, <3>2, MarkerRead
  <2>2. CASE m < 2 + k
    <3>1. CellsAt(buf, 3, e, m - 2)
      <4>1. SUFFICES ASSUME NEW i \in 1 .. m - 2 PROVE buf[3 + i - 1] = e[i]
        BY DEF CellsAt
      <4>2. 3 + i - 1 = 2 + i /\ 2 + i \in 1 .. m /\ i \in 1 .. k
        BY <1>1, <2>2
      <4> QED
        BY <1>1, <1>2, <4>2
    <3>2. e = EncodeVarInt(n) /\ n \in 0 .. MaxFrame /\ k = Len(e)
      BY DEF FrameShape
    <3>3. DecodeVarInt(buf, 3).is = "incomplete"
      <4>1. PICK at \in Nat \ {0} : at = 3
        OBVIOUS
      <4>2. at <= Len(buf) + 1 /\ Len(buf) < at + Len(EncodeVarInt(n)) - 1
        BY <1>1, <1>2, <1>4, <2>2, <3>2, <4>1
      <4>3. CellsAt(buf, at, EncodeVarInt(n), Len(buf) - at + 1)
        BY <1>2, <3>1, <3>2, <4>1
      <4> QED
        BY <1>2, <3>2, <4>1, <4>2, <4>3, VarIntCut
    <3> QED
      BY <2>1, <3>3 DEF FrontFrame
  <2>3. CASE ~ m < 2 + k
    <3>1. CellsAt(buf, 3, e, k)
      <4>1. SUFFICES ASSUME NEW i \in 1 .. k PROVE buf[3 + i - 1] = e[i]
        BY DEF CellsAt
      <4>2. 3 + i - 1 = 2 + i /\ 2 + i \in 1 .. m
        BY <1>1, <2>3
      <4> QED
        BY <1>1, <1>2, <4>2
    <3>2. e = EncodeVarInt(n) /\ n \in 0 .. MaxFrame /\ k = Len(e)
      BY DEF FrameShape
    <3>3. DecodeVarInt(buf, 3) = [is |-> "ok", value |-> n, read |-> k]
      <4>1. PICK at \in Nat \ {0} : at = 3
        OBVIOUS
      <4>2. at + Len(EncodeVarInt(n)) - 1 <= Len(buf)
        BY <1>1, <1>2, <2>3, <3>2, <4>1
      <4>3. CellsAt(buf, at, EncodeVarInt(n), Len(EncodeVarInt(n)))
        BY <3>1, <3>2, <4>1
      <4> QED
        BY <1>2, <3>2, <4>1, <4>2, <4>3, VarIntRead
    <3>4. Len(buf) < (0 + 2 + k) + n
      BY <1>1, <1>2
    <3> QED
      BY <2>1, <3>2, <3>3, <3>4 DEF FrontFrame
  <2> QED
    BY <2>2, <2>3
<1> QED
  BY <1>3, <1>4

\* A frame that is not whole yet is kept as it is ...
LEMMA PartKept ==
    ASSUME NEW payload, IsPayload(payload),
           NEW m \in 0 .. Len(EncodeFrame(Reliable, payload)) - 1,
           NEW buf, buf = SubSeq(EncodeFrame(Reliable, payload), 1, m)
    PROVE  ParseFrames(buf).frames = <<>> /\ ParseFrames(buf).remaining = buf
<1>1. PICK frame, e, k, n : frame \in Seq(Nat \cup Range(payload)) /\ FrameShape(frame, payload, e, k, n)
  BY FrameShaped
<1>2. frame = EncodeFrame(Reliable, payload)
  BY <1>1 DEF FrameShape
<1>3. m \in Nat /\ m < Len(frame) /\ buf = SubSeq(frame, 1, m)
  BY <1>2
<1>4. FrontFrame(buf, 0).is = "part"
  BY <1>1, <1>3, FrontOfPart
<1>5. PICK S : frame \in Seq(S)
  BY <1>1
<1>5a. buf \in Seq(S) /\ 0 \in 0 .. Len(buf) /\ SubSeq(buf, 0 + 1, Len(buf)) = buf
  BY <1>3, <1>5
<1>6. PICK f : /\ ParseFrames(buf) = f[0]
               /\ f = [offset \in 0 .. Len(buf) |-> ParsedFrom(buf, f, offset)]
  <2>1. buf \in Seq(S)
    BY <1>5a
  <2> QED
    BY <2>1, ParseUnfolds, ZenonT(20)
<1>7. f[0] = ParsedFrom(buf, f, 0)
  BY <1>5a, <1>6
<1>8. f[0] = [frames |-> <<>>, remaining |-> SubSeq(buf, 0 + 1, Len(buf)), malformed |-> FALSE]
  BY <1>4, <1>7 DEF ParsedFrom
<1> QED
  BY <1>5a, <1>6, <1>8

\* ... and one that is gives its payload.
LEMMA WholeRead ==
    ASSUME NEW payload, IsPayload(payload), NEW buf, buf = EncodeFrame(Reliable, payload)
    PROVE  ParseFrames(buf).frames = <<payload>> /\ ParseFrames(buf).remaining = <<>>
<1>0. PICK frame, e, k, n : frame \in Seq(Nat \cup Range(payload)) /\ FrameShape(frame, payload, e, k, n)
  BY FrameShaped
<1>1. PICK S : S = Nat \cup Range(payload) /\ buf \in Seq(S)
  BY <1>0 DEF FrameShape
<1>2. /\ n \in Nat /\ n = Len(payload) /\ k \in 1 .. 5 /\ Len(buf) = 2 + k + n
      /\ buf[1] = 19 /\ buf[2] = 87
      /\ \A i \in 1 .. k : buf[2 + i] = e[i]
      /\ \A i \in 1 .. n : buf[2 + k + i] = payload[i]
      /\ e = EncodeVarInt(n) /\ n \in 0 .. MaxFrame /\ k = Len(e)
  BY <1>0, CodecAssumption DEF FrameShape
<1>3. SubSeq(buf, 0 + 1, 0 + 2) = Reliable
  <2>1. PICK l \in Nat : l = Len(buf) /\ l >= 2
    BY <1>2
  <2> QED
    BY <1>1, <1>2, <2>1, MarkerRead
<1>4. DecodeVarInt(buf, 3) = [is |-> "ok", value |-> n, read |-> k]
  <2>1. PICK at \in Nat \ {0} : at = 3
    OBVIOUS
  <2>2. at + Len(EncodeVarInt(n)) - 1 <= Len(buf)
    BY <1>2, <2>1
  <2>3. CellsAt(buf, at, EncodeVarInt(n), Len(EncodeVarInt(n)))
    <3>1. SUFFICES ASSUME NEW i \in 1 .. k PROVE buf[3 + i - 1] = e[i]
      BY <1>2, <2>1 DEF CellsAt
    <3>2. 3 + i - 1 = 2 + i
      OBVIOUS
    <3> QED
      BY <1>2, <3>2
  <2> QED
    BY <1>1, <1>2, <2>1, <2>2, <2>3, VarIntRead
<1>5. PICK L \in Nat : L = 2 + k + n /\ L = Len(buf)
  BY <1>2
<1>6. SubSeq(buf, (0 + 2 + k) + 1, L) = payload
  <2>1. PICK T : payload \in Seq(T)
    BY DEF IsPayload
  <2>2. PICK at \in Nat \ {0} : at = 2 + k + 1
    BY <1>2
  <2>3. at + Len(payload) - 1 = L
    BY <1>2, <1>5, <2>2
  <2>4. CellsAt(buf, at, payload, Len(payload))
    <3>1. SUFFICES ASSUME NEW i \in 1 .. n PROVE buf[at + i - 1] = payload[i]
      BY <1>2 DEF CellsAt
    <3>2. at + i - 1 = 2 + k + i
      BY <1>2, <2>2
    <3> QED
      BY <1>2, <3>2, ZenonT(20)
  <2>5. at + Len(payload) - 1 <= Len(buf)
    BY <1>5, <2>3
  <2>6. SubSeq(buf, at, at + Len(payload) - 1) = payload
    <3>1. PICK U : buf \in Seq(U)
      BY <1>1
    <3> QED
      BY <2>1, <2>4, <2>5, <3>1, CellsRead, ZenonT(60)
  <2>7. (0 + 2 + k) + 1 = at
    BY <1>2, <2>2
  <2> QED
    BY <2>3, <2>6, <2>7
<1>7. FrontFrame(buf, 0) = [is |-> "frame", payload |-> payload, next |-> L]
  <2>1. ~ Len(buf) - 0 < 3 /\ (0 + 2 + k) + n = L /\ ~ Len(buf) < L
    <3>1. ~ L - 0 < 3 /\ (0 + 2 + k) + n = L /\ ~ L < L
      BY <1>2, <1>5
    <3> QED
      BY <1>5, <3>1
  <2>2. 0 + 3 = 3
    OBVIOUS
  <2>3. PICK length : length = DecodeVarInt(buf, 0 + 3)
    OBVIOUS
  <2>4. length.is = "ok" /\ length.value = n /\ length.read = k
    BY <1>4, <2>2, <2>3
  <2>5. /\ length.value \in 0 .. MaxFrame
        /\ 0 + 2 + length.read + length.value = L
        /\ SubSeq(buf, (0 + 2 + length.read) + 1, L) = payload
    BY <1>2, <1>6, <2>1, <2>4
  <2> QED
    BY <1>3, <2>1, <2>3, <2>4, <2>5 DEF FrontFrame
<1>8. FrontFrame(buf, L).is = "part"
  <2>1. Len(buf) - L < 3
    <3>1. L - L < 3
      OBVIOUS
    <3> QED
      BY <1>5, <3>1
  <2> QED
    BY <2>1 DEF FrontFrame
<1>9. PICK f : /\ ParseFrames(buf) = f[0]
               /\ f = [offset \in 0 .. Len(buf) |-> ParsedFrom(buf, f, offset)]
  BY <1>1, ParseUnfolds
<1>10. f[0] = ParsedFrom(buf, f, 0) /\ f[L] = ParsedFrom(buf, f, L)
  <2>1. 0 \in 0 .. L /\ L \in 0 .. L
    OBVIOUS
  <2> QED
    BY <1>5, <1>9, <2>1
<1>11. SubSeq(buf, L + 1, Len(buf)) = <<>>
  BY <1>1, <1>5
<1>13. f[L] = [frames |-> <<>>, remaining |-> <<>>, malformed |-> FALSE]
  BY <1>8, <1>10, <1>11 DEF ParsedFrom
<1>14. f[0] = [f[L] EXCEPT !.frames = <<payload>> \o @]
  <2>1. PICK front : front = FrontFrame(buf, 0)
    OBVIOUS
  <2>2. front.is = "frame" /\ front.payload = payload /\ front.next = L
    BY <1>7, <2>1
  <2>3. f[0] = [f[front.next] EXCEPT !.frames = <<front.payload>> \o @]
    BY <1>10, <2>1, <2>2 DEF ParsedFrom
  <2> QED
    BY <2>2, <2>3
<1>15. <<payload>> \o f[L].frames = <<payload>>
  <2>1. f[L].frames = <<>>
    BY <1>13
  <2>2. <<payload>> \o <<>> = <<payload>>
    OBVIOUS
  <2> QED
    BY <2>1, <2>2
<1>16. f[0] = [f[L] EXCEPT !.frames = <<payload>>]
  BY <1>14, <1>15
<1>17. PICK r, g : r = f[L] /\ g = f[0]
  OBVIOUS
<1>18. r = [frames |-> <<>>, remaining |-> <<>>, malformed |-> FALSE] /\ g = [r EXCEPT !.frames = <<payload>>]
  BY <1>13, <1>16, <1>17
<1>19. g.frames = <<payload>> /\ g.remaining = <<>>
  BY <1>18
<1> QED
  BY <1>9, <1>17, <1>19

\* However much of a frame has arrived, ParseFrames gives nothing and keeps what
\* it has until the frame is whole, and then gives its payload and keeps nothing
\* (frame.go, ParseFrames; varint.go, DecodeVarInt).
THEOREM FrameReadBack ==
    ASSUME NEW payload, IsPayload(payload),
           NEW m \in 0 .. Len(EncodeFrame(Reliable, payload)),
           NEW buf, buf = SubSeq(EncodeFrame(Reliable, payload), 1, m)
    PROVE  IF m < Len(EncodeFrame(Reliable, payload))
           THEN ParseFrames(buf).frames = <<>> /\ ParseFrames(buf).remaining = buf
           ELSE ParseFrames(buf).frames = <<payload>> /\ ParseFrames(buf).remaining = <<>>
<1>1. PICK f, e, k, n : f \in Seq(Nat \cup Range(payload)) /\ FrameShape(f, payload, e, k, n)
  BY FrameShaped
<1>2. f = EncodeFrame(Reliable, payload)
  BY <1>1 DEF FrameShape
<1>3. PICK l \in Nat : l = Len(f)
  OBVIOUS
<1>4. m \in 0 .. l
  BY <1>2, <1>3
<1>5. CASE m < l
  <2>1. m \in 0 .. Len(EncodeFrame(Reliable, payload)) - 1
    BY <1>2, <1>3, <1>4, <1>5
  <2> QED
    BY <1>2, <1>3, <1>5, <2>1, PartKept
<1>6. CASE ~ (m < l)
  <2>1. m = l
    BY <1>4, <1>6
  <2>2. buf = f
    <3>1. SubSeq(f, 1, l) = f
      BY <1>1, <1>3
    <3> QED
      BY <1>2, <2>1, <3>1
  <2> QED
    BY <1>2, <1>3, <1>6, <2>2, WholeRead
<1> QED
  BY <1>5, <1>6

-----------------------------------------------------------------------------
(***************************************************************************)
(* The payloads, and how many of them are encrypted.                       *)
(***************************************************************************)
\* A sequence is one over its own elements.
LEMMA RangedSeq ==
    ASSUME NEW S, NEW s \in Seq(S) PROVE s \in Seq(Range(s)) /\ Range(s) \subseteq S
<1>1. DOMAIN s = 1 .. Len(s) /\ Len(s) \in Nat
  OBVIOUS
<1>2. \A i \in 1 .. Len(s) : s[i] \in Range(s)
  BY <1>1 DEF Range
<1>3. s = [i \in 1 .. Len(s) |-> s[i]]
  BY <1>1
<1>4. s \in Seq(Range(s))
  BY <1>1, <1>2, <1>3
<1>5. Range(s) \subseteq S
  BY <1>1 DEF Range
<1> QED
  BY <1>4, <1>5

\* Division with remainder, by any modulus.
LEMMA Distributes ==
    ASSUME NEW M \in Nat, NEW a \in Nat, NEW q \in Nat
    PROVE  M * (a - q) = M * a - M * q
OBVIOUS

LEMMA DivUnique ==
    ASSUME NEW M \in Nat, M # 0, NEW q \in Nat, NEW r \in Nat, r < M, NEW v \in Nat, v = M * q + r
    PROVE  v % M = r
<1>1. PICK a \in Nat, b \in Nat : b = v % M /\ b < M /\ v = M * a + b
  <2>1. v = M * (v \div M) + (v % M) /\ v \div M \in Nat /\ v % M \in Nat /\ v % M < M
    OBVIOUS
  <2> QED
    BY <2>1
<1>2. M \in Nat /\ M * a + b = M * q + r
  BY <1>1
<1>3. a - q \in Int /\ r - b < M /\ r - b > -M
  BY <1>1, <1>2
<1>4. M * (a - q) = r - b
  <2>1. PICK x \in Nat, y \in Nat : x = M * a /\ y = M * q
    BY <1>1
  <2>2. x + b = y + r
    BY <1>1, <1>2, <2>1
  <2>3. M * (a - q) = x - y
    BY <2>1, Distributes
  <2>4. x - y = r - b
    BY <2>2
  <2> QED
    BY <2>3, <2>4, Zenon
<1>5. a - q >= 1 => M * (a - q) >= M
  BY <1>2, <1>3
<1>6. a - q <= -1 => M * (a - q) <= -M
  BY <1>2, <1>3
<1>7. a = q
  BY <1>1, <1>2, <1>3, <1>4, <1>5, <1>6
<1> QED
  BY <1>1, <1>7

\* Counting on modulo M.
LEMMA ModNext ==
    ASSUME NEW M \in Nat, M # 0, NEW v \in Nat
    PROVE  ((v % M) + 1) % M = (v + 1) % M
<1>1. PICK q \in Nat, r \in Nat : r = v % M /\ r < M /\ v = M * q + r
  <2>1. v = M * (v \div M) + (v % M) /\ v \div M \in Nat /\ v % M \in Nat /\ v % M < M
    OBVIOUS
  <2> QED
    BY <2>1
<1>2. PICK w \in Nat, t \in Nat, k \in Nat, z \in Nat : w = v + 1 /\ t = r + 1 /\ k = q + 1 /\ z = 0
  BY <1>1
<1>3. CASE t < M
  <2>1. w = M * q + t /\ t = M * z + t
    BY <1>1, <1>2
  <2>2. w % M = t
    BY <1>3, <2>1, DivUnique
  <2>3. t % M = t
    BY <1>3, <2>1, DivUnique
  <2> QED
    BY <1>1, <1>2, <2>2, <2>3
<1>4. CASE t = M
  <2>1. PICK one \in Nat : one = 1
    OBVIOUS
  <2>2. w = M * k + z /\ t = M * one + z /\ z < M
    BY <1>1, <1>2, <1>4, <2>1
  <2>3. w % M = z
    BY <2>2, DivUnique
  <2>4. t % M = z
    BY <2>2, DivUnique
  <2> QED
    BY <1>1, <1>2, <2>3, <2>4
<1> QED
  BY <1>1, <1>2, <1>3, <1>4

\* The zeros that AESECBEncrypt adds make whole blocks of three cells and them.
LEMMA PadsToBlocks ==
    ASSUME NEW pad, pad = (Block - (3 % Block)) % Block
    PROVE  pad \in Nat /\ pad < Block /\ (3 + pad) % Block = 0
<1>0. Block \in Nat \ {0}
  BY CodecAssumption
<1>1. PICK q \in Nat, r \in Nat : r = 3 % Block /\ r < Block /\ 3 = Block * q + r
  <2>1. 3 = Block * (3 \div Block) + (3 % Block) /\ 3 \div Block \in Nat /\ 3 % Block \in Nat /\ 3 % Block < Block
    BY <1>0
  <2> QED
    BY <2>1
<1>2. CASE r = 0
  <2>1. Block - r = Block * 1 + 0 /\ Block - r \in Nat
    BY <1>0, <1>2
  <2>2. pad = 0
    BY <1>0, <1>1, <2>1, DivUnique
  <2>3. 3 + pad = Block * q + 0
    BY <1>1, <1>2, <2>2, <1>0
  <2>4. (3 + pad) % Block = 0
    BY <1>0, <2>2, <2>3, DivUnique
  <2> QED
    BY <1>0, <2>2, <2>4
<1>3. CASE r # 0
  <2>1. Block - r = Block * 0 + (Block - r) /\ Block - r \in Nat /\ Block - r < Block
    BY <1>0, <1>1, <1>3
  <2>2. pad = Block - r
    BY <1>0, <1>1, <2>1, DivUnique
  <2>3. 3 + pad = Block * (q + 1) + 0
    BY <1>0, <1>1, <2>2
  <2>4. 3 + pad \in Nat
    BY <2>1, <2>2
  <2>5. (3 + pad) % Block = 0
    BY <1>0, <2>3, <2>4, DivUnique
  <2> QED
    BY <1>0, <2>1, <2>2, <2>5
<1> QED
  BY <1>2, <1>3

\* A plain message with a short body is a payload, and not an encrypted one.
LEMMA PlainPayload ==
    ASSUME NEW msg, msg.body \in Seq(Range(msg.body)), Len(msg.body) <= 1
    PROVE  IsPayload(EncodePlain(msg)) /\ FrameType(EncodePlain(msg)) # EnvelopeEncrypted
<1>1. PICK S : S = {EnvelopePlain, msg.id} \cup Range(msg.body)
  OBVIOUS
<1>2. PICK body, head, p : /\ body = msg.body /\ head = <<EnvelopePlain, msg.id>>
                           /\ p = head \o body
  OBVIOUS
<1>3. body \in Seq(S)
  BY <1>1, <1>2, SeqWider
<1>4. head \in Seq(S) /\ Len(head) = 2 /\ head[1] = EnvelopePlain
  BY <1>1, <1>2
<1>5. p \in Seq(S) /\ Len(p) = Len(head) + Len(body)
  BY <1>2, <1>3, <1>4
<1>6. p[1] = EnvelopePlain /\ p # <<>>
  BY <1>2, <1>3, <1>4
<1>7. PICK l \in Nat : l = Len(body) /\ l <= 1
  BY <1>2, <1>3
<1>8. Len(p) = 2 + l /\ 2 + l <= MaxFrame
  BY <1>4, <1>5, <1>7, CodecAssumption
<1>9. EncodePlain(msg) = p
  BY <1>2 DEF EncodePlain
<1>10. p \in Seq(Range(p)) /\ Len(p) <= MaxFrame
  BY <1>5, <1>8, RangedSeq
<1> QED
  BY <1>6, <1>9, <1>10 DEF IsPayload, FrameType, EnvelopePlain, EnvelopeEncrypted

\* An encrypted message without a body is a payload that carries its counter.
LEMMA EncryptedPayload ==
    ASSUME NEW number, NEW msg, msg.body = <<>>
    PROVE  /\ IsPayload(EncodeEncrypted(number, msg))
           /\ FrameType(EncodeEncrypted(number, msg)) = EnvelopeEncrypted
           /\ DecodeEncrypted(EncodeEncrypted(number, msg)).count = number
<1>1. PICK S : S = {EnvelopeEncrypted, number, ContextApp, msg.id, 0}
  OBVIOUS
<1>2. PICK inner : inner = <<number, ContextApp, msg.id>>
  OBVIOUS
<1>3. /\ inner \in Seq(S) /\ Len(inner) = 3
      /\ inner[1] = number /\ inner[2] = ContextApp /\ inner[3] = msg.id
  BY <1>1, <1>2
<1>4. inner \o msg.body = inner
  BY <1>3
<1>5. PICK pad \in Nat : /\ pad = (Block - (3 % Block)) % Block
                         /\ pad < Block /\ (3 + pad) % Block = 0
  BY PadsToBlocks
<1>6. PICK zeros : zeros = [i \in 1 .. pad |-> 0]
  OBVIOUS
<1>7. zeros \in Seq(S) /\ Len(zeros) = pad
  BY <1>1, <1>6
<1>8. PICK padded : padded = inner \o zeros
  OBVIOUS
<1>9. padded \in Seq(S) /\ Len(padded) = 3 + pad /\ \A i \in 1 .. 3 : padded[i] = inner[i]
  <2>1. inner \in Seq(S) /\ zeros \in Seq(S)
    BY <1>3, <1>7
  <2>2. /\ padded \in Seq(S) /\ Len(padded) = Len(inner) + Len(zeros)
        /\ \A i \in 1 .. Len(inner) : padded[i] = inner[i]
    BY <1>8, <2>1
  <2> QED
    BY <1>3, <1>7, <2>2
<1>10. padded[1] = number
  BY <1>3, <1>9
<1>11. Padded(inner \o msg.body) = padded
  <2>1. Len(inner \o msg.body) = 3
    BY <1>3, <1>4
  <2> QED
    BY <1>4, <1>5, <1>6, <1>8, <2>1 DEF Padded
<1>12. PICK head : head = <<EnvelopeEncrypted>>
  OBVIOUS
<1>13. head \in Seq(S) /\ Len(head) = 1 /\ head[1] = EnvelopeEncrypted
  BY <1>1, <1>12
<1>14. PICK p : p = head \o padded
  OBVIOUS
<1>15. /\ p \in Seq(S) /\ Len(p) = 1 + (3 + pad)
       /\ \A i \in 1 .. 1 : p[i] = head[i]
       /\ \A i \in 1 .. 3 + pad : p[1 + i] = padded[i]
  <2>1. head \in Seq(S) /\ padded \in Seq(S)
    BY <1>9, <1>13
  <2>2. /\ p \in Seq(S) /\ Len(p) = Len(head) + Len(padded)
        /\ \A i \in 1 .. Len(head) : p[i] = head[i]
        /\ \A i \in 1 .. Len(padded) : p[Len(head) + i] = padded[i]
    BY <1>14, <2>1
  <2> QED
    BY <1>9, <1>13, <2>2
<1>16. p[1] = EnvelopeEncrypted /\ p # <<>> /\ p[2] = number
  <2>1. 1 \in 1 .. 1 /\ 1 \in 1 .. 3 + pad /\ 1 + 1 = 2
    OBVIOUS
  <2>2. p[1] = head[1] /\ p[1 + 1] = padded[1]
    BY <1>15, <2>1
  <2>3. Len(p) # 0
    BY <1>15
  <2> QED
    BY <1>10, <1>13, <1>15, <2>1, <2>2, <2>3
<1>17. PICK l \in Nat : l = Len(p) /\ l = 1 + (3 + pad)
  BY <1>15
<1>18. EncodeEncrypted(number, msg) = p
  BY <1>2, <1>11, <1>12, <1>14 DEF EncodeEncrypted
<1>19. IsPayload(p)
  <2>1. l <= MaxFrame
    BY <1>5, <1>17, CodecAssumption
  <2>2. p \in Seq(Range(p))
    BY <1>15, RangedSeq
  <2> QED
    BY <1>17, <2>1, <2>2 DEF IsPayload
<1>20. DecodeEncrypted(p).count = number
  <2>1. ~ l < 4 /\ (l - 1) % Block = 0
    <3>1. l - 1 = 3 + pad
      BY <1>17
    <3> QED
      BY <1>5, <1>17, <3>1
  <2>2. ~ (Len(p) < 4 \/ (Len(p) - 1) % Block # 0)
    BY <1>17, <2>1
  <2> QED
    BY <1>16, <2>2 DEF DecodeEncrypted
<1> QED
  BY <1>16, <1>18, <1>19, <1>20 DEF FrameType

-----------------------------------------------------------------------------
\* The encrypted payloads among the first n are finitely many ...
LEMMA AmongCounted ==
    ASSUME NEW payloads, NEW n \in Nat
    PROVE  /\ IsFiniteSet(EncryptedAmong(payloads, 1 .. n))
           /\ Cardinality(EncryptedAmong(payloads, 1 .. n)) \in Nat
<1>1. IsFiniteSet(1 .. n)
  BY FS_Interval
<1>2. EncryptedAmong(payloads, 1 .. n) \in SUBSET (1 .. n)
  BY DEF EncryptedAmong
<1>3. IsFiniteSet(EncryptedAmong(payloads, 1 .. n))
  BY <1>1, <1>2, FS_Subset
<1> QED
  BY <1>3, FS_CardinalityType

\* ... and depend on those payloads only.
LEMMA AmongSame ==
    ASSUME NEW p, NEW q, NEW n \in Nat, \A i \in 1 .. n : p[i] = q[i]
    PROVE  EncryptedAmong(p, 1 .. n) = EncryptedAmong(q, 1 .. n)
BY DEF EncryptedAmong

\* The number of encrypted payloads once one more is given out.
GivenMore(before, p, after, n) ==
    /\ DOMAIN after = 1 .. n + 1 /\ DOMAIN before = 1 .. n
    /\ \A i \in 1 .. n + 1 : after[i] = IF i = n + 1 THEN p ELSE before[i]
    /\ Cardinality(EncryptedAmong(after, 1 .. n + 1)) =
         Cardinality(EncryptedAmong(before, 1 .. n)) +
           (IF FrameType(p) = EnvelopeEncrypted THEN 1 ELSE 0)

LEMMA AmongMore ==
    ASSUME NEW S, NEW before \in Seq(S), NEW p, NEW after, after = Append(before, p),
           NEW n \in Nat, n = Len(before)
    PROVE  GivenMore(before, p, after, n)
<1>1. DOMAIN after = 1 .. n + 1 /\ DOMAIN before = 1 .. n
  OBVIOUS
<1>2. \A i \in 1 .. n + 1 : after[i] = IF i = n + 1 THEN p ELSE before[i]
  OBVIOUS
<1>3. EncryptedAmong(after, 1 .. n) = EncryptedAmong(before, 1 .. n)
  <2>1. \A i \in 1 .. n : after[i] = before[i]
    BY <1>2
  <2> QED
    BY <2>1, AmongSame
<1>4. after[n + 1] = p
  BY <1>2
<1>5. CASE FrameType(p) = EnvelopeEncrypted
  <2>1. EncryptedAmong(after, 1 .. n + 1) = EncryptedAmong(after, 1 .. n) \cup {n + 1}
    BY <1>4, <1>5 DEF EncryptedAmong
  <2>2. n + 1 \notin EncryptedAmong(after, 1 .. n)
    BY DEF EncryptedAmong
  <2> QED
    BY <1>1, <1>2, <1>3, <1>5, <2>1, <2>2, AmongCounted, FS_AddElement DEF GivenMore
<1>6. CASE FrameType(p) # EnvelopeEncrypted
  <2>1. EncryptedAmong(after, 1 .. n + 1) = EncryptedAmong(after, 1 .. n)
    BY <1>4, <1>6 DEF EncryptedAmong
  <2>2. Cardinality(EncryptedAmong(before, 1 .. n)) \in Nat
    BY AmongCounted
  <2> QED
    BY <1>1, <1>2, <1>3, <1>6, <2>1, <2>2 DEF GivenMore
<1> QED
  BY <1>5, <1>6

-----------------------------------------------------------------------------
(***************************************************************************)
(* The registry of sessions.                                               *)
(***************************************************************************)
-----------------------------------------------------------------------------
(***************************************************************************)
(* A step that leaves the registry and the sessions' accounts alone keeps  *)
(* WireInv if it ends no connection and leaves its goroutine with          *)
(* something to do or nothing to send.                                     *)
(***************************************************************************)
LEMMA QuietStep ==
    ASSUME WireInv, NEW c \in Connection, UNCHANGED <<binding, player, registry>>,
           status' \in [Connection -> {"open", "gone", "closing", "lost", "closed"}],
           OfConnections(todo)', OfConnections(writing)',
           \A d \in Connection :
              /\ status'[d] = "closed" => status[d] = "closed"
              /\ status[d] = "closed" => status'[d] = "closed" /\ todo'[d] = todo[d]
              /\ todo'[d] = <<>> => ~binding[d] /\ writing'[d] = NotWriting
              /\ binding[d] => writing'[d] = NotWriting
    PROVE  WireInv'
BY DEF WireInv, RegistryMirrors, OfConnections, registry

(***************************************************************************)
(* The answers of the login handlers end with the list of channels.        *)
(***************************************************************************)
LEMMA EndsWithSomething ==
    ASSUME NEW S, NEW s \in Seq(S), NEW x \in S
    PROVE  s \o <<x>> # <<>>
<1>1. Len(s \o <<x>>) = Len(s) + 1
  OBVIOUS
<1> QED
  BY <1>1

-----------------------------------------------------------------------------
(***************************************************************************)
(* Reading, and the client going away.                                     *)
(***************************************************************************)
\* Reading.
LEMMA ReadInv == ASSUME WireInv, NEW c \in Connection, Read(c) PROVE WireInv'
BY QuietStep DEF WireInv, OfConnections, Read, Idle, Breaks, identity, registry

\* The client goes away.
LEMMA DropInv == ASSUME WireInv, NEW c \in Connection, Drop(c) PROVE WireInv'
BY QuietStep DEF WireInv, OfConnections, Drop, identity, registry

(***************************************************************************)
(* The handlers that leave the session's account alone.                    *)
(***************************************************************************)
\* The handshake.
LEMMA HandshakeInv ==
    ASSUME WireInv, NEW c \in Connection,
           \/ HandleHello(c) \/ HandleCryptoSetup(c) \/ HandleConnect(c) \/ HandleHeartbeat(c)
    PROVE  WireInv'
<1>1. PICK items : /\ todo' = [todo EXCEPT ![c] = items] /\ items # <<>>
                   /\ status[c] \in {"open", "gone"}
                   /\ UNCHANGED <<status, binding, writing, player, registry>>
  BY DEF HandleHello, HandleCryptoSetup, HandleConnect, HandleHeartbeat, Ready, Do, identity
<1> QED
  BY <1>1, QuietStep DEF WireInv, OfConnections

\* What cannot be read and what is passed over.
LEMMA RefusedInv ==
    ASSUME WireInv, NEW c \in Connection, HandleUnreadable(c) \/ HandleUnknown(c)
    PROVE  WireInv'
<1>1. CASE HandleUnreadable(c)
  BY <1>1, QuietStep DEF WireInv, OfConnections, HandleUnreadable, Ready, Breaks, identity, registry
<1>2. CASE HandleUnknown(c)
  BY <1>2, QuietStep DEF WireInv, OfConnections, HandleUnknown, Ready, identity, registry
<1> QED
  BY <1>1, <1>2

\* The requests that do not change who the session is.
LEMMA AnsweredInv ==
    ASSUME WireInv, NEW c \in Connection,
           \/ HandleCreateCredential(c) \/ HandleChannelJoin(c) \/ HandleAnswered(c)
           \/ HandleChat(c) \/ HandleWhisper(c)
    PROVE  WireInv'
<1>1. /\ status[c] \in {"open", "gone"} /\ todo[c] = <<>>
      /\ UNCHANGED <<status, binding, writing, player, registry>>
  BY DEF HandleCreateCredential, HandleChannelJoin, HandleAnswered, HandleChat, HandleWhisper,
         Dispatch, Ready, identity
<1>2. \E items : todo' = [todo EXCEPT ![c] = items]
  <2>1. CASE HandleCreateCredential(c)
    BY <2>1, <1>1 DEF HandleCreateCredential, Do, WireInv, OfConnections
  <2>2. CASE HandleChannelJoin(c)
    BY <2>2 DEF HandleChannelJoin, Do
  <2>3. CASE HandleAnswered(c)
    BY <2>3 DEF HandleAnswered, Do
  <2>4. CASE HandleChat(c)
    BY <2>4 DEF HandleChat, Do, Refuse
  <2>5. CASE HandleWhisper(c)
    BY <2>5, <1>1 DEF HandleWhisper, Do, Refuse, WireInv, OfConnections
  <2> QED
    BY <2>1, <2>2, <2>3, <2>4, <2>5
<1> QED
  BY <1>1, <1>2, QuietStep DEF WireInv, OfConnections

(***************************************************************************)
(* The handlers that identify the session: it is bound to the account in a *)
(* later step of the same goroutine.                                       *)
(***************************************************************************)
\* A fresh state is put on the session.
LEMMA IdentifiedInv ==
    ASSUME WireInv, NEW c \in Connection, NEW a, NEW answers, Identified(c, a, answers),
           status[c] \in {"open", "gone"}, todo[c] = <<>>,
           answers \o <<Plain(ID.sendList, <<>>)>> # <<>>,
           UNCHANGED <<status, writing, registry>>
    PROVE  WireInv'
BY DEF Identified, Do, WireInv, RegistryMirrors, OfConnections, registry

\* The login handlers.
LEMMA LoginInv ==
    ASSUME WireInv, NEW c \in Connection, HandleAuth(c) \/ HandleCheckCredential(c)
    PROVE  WireInv'
<1>1. /\ status[c] \in {"open", "gone"} /\ todo[c] = <<>>
      /\ UNCHANGED <<status, writing, registry>>
  BY DEF HandleAuth, HandleCheckCredential, Dispatch, Ready
<1>2. CASE UNCHANGED <<todo, binding, player>>
  BY <1>1, <1>2, QuietStep DEF WireInv, OfConnections
<1>3. CASE Identified(c, Argument(c), Both(Answer(ID.auth)) \o Both(Answer(ID.launcher)))
  <2>1. PICK e1, e2, e3, e4 : /\ Both(Answer(ID.auth)) = <<e1, e2>>
                              /\ Both(Answer(ID.launcher)) = <<e3, e4>>
    BY DEF Both
  <2>2. PICK e : e = Plain(ID.sendList, <<>>)
    OBVIOUS
  <2>3. PICK S : S = {e1, e2, e3, e4, e}
    OBVIOUS
  <2>4. <<e1, e2>> \o <<e3, e4>> \in Seq(S) /\ e \in S
    BY <2>3
  <2>5. (<<e1, e2>> \o <<e3, e4>>) \o <<e>> # <<>>
    BY <2>4, EndsWithSomething
  <2> QED
    BY <1>1, <1>3, <2>1, <2>2, <2>5, IdentifiedInv
<1>4. CASE Identified(c, tokens[Argument(c)], <<Plain(Answer(ID.check), <<>>)>>)
  <2>1. PICK e1, e : e1 = Plain(Answer(ID.check), <<>>) /\ e = Plain(ID.sendList, <<>>)
    OBVIOUS
  <2>2. PICK S : S = {e1, e}
    OBVIOUS
  <2>3. <<e1>> \in Seq(S) /\ e \in S
    BY <2>2
  <2>4. <<e1>> \o <<e>> # <<>>
    BY <2>3, EndsWithSomething
  <2> QED
    BY <1>1, <1>4, <2>1, <2>4, IdentifiedInv
<1> QED
  BY <1>2, <1>3, <1>4 DEF HandleAuth, HandleCheckCredential

-----------------------------------------------------------------------------
(***************************************************************************)
(* Binding enters the session in both maps under one account and takes it  *)
(* out of every other; releasing takes it out of all.                      *)
(***************************************************************************)
\* The session is bound.
LEMMA BindInv == ASSUME WireInv, NEW c \in Connection, Bind(c) PROVE WireInv'
BY DEF Bind, Bound, WireInv, RegistryMirrors, OfConnections, identity

\* The session is released.
LEMMA ReleaseInv == ASSUME WireInv, NEW c \in Connection, Release(c) PROVE WireInv'
<1>1. 0 \notin Account
  BY WireAssumption
<1>2. todo[c] = <<>> /\ status' = [status EXCEPT ![c] = "closed"]
  BY DEF Release, Idle
<1>3. /\ bySession' = [bySession EXCEPT ![c] = 0]
      /\ byAccount' = [a \in Account |-> byAccount[a] \ {c}]
      /\ UNCHANGED <<todo, binding, writing, player>>
  BY DEF Release, Unbound, identity
<1> QED
  BY <1>1, <1>2, <1>3 DEF WireInv, RegistryMirrors, OfConnections

(***************************************************************************)
(* Looking up sessions and sending.  Only a goroutine with work does       *)
(* either, so its connection has not ended; what it has left to do is all  *)
(* that changes, and it is done with the frame before it is with the work. *)
(***************************************************************************)
\* Looking up who is online.
LEMMA LookUpInv ==
    ASSUME WireInv, NEW c \in Connection,
           LookUpOnline(c) \/ LookUpSessions(c) \/ ToldAll(c) \/ NoKey(c)
    PROVE  WireInv'
<1>1. /\ todo[c] # <<>> /\ ~binding[c] /\ writing[c] = NotWriting
      /\ UNCHANGED <<status, binding, writing, player, registry>>
  BY DEF LookUpOnline, LookUpSessions, ToldAll, NoKey, Turns, identity
<1>2. \E items : todo' = [todo EXCEPT ![c] = items]
  <2>1. CASE LookUpOnline(c)
    BY <2>1 DEF LookUpOnline, Instead
  <2>2. CASE LookUpSessions(c)
    BY <2>2 DEF LookUpSessions, Then
  <2>3. CASE ToldAll(c)
    BY <2>3 DEF ToldAll, Then
  <2>4. CASE NoKey(c)
    BY <2>4 DEF NoKey, Do
  <2> QED
    BY <2>1, <2>2, <2>3, <2>4
<1> QED
  <2>1. PICK items : todo' = [todo EXCEPT ![c] = items]
    BY <1>2
  <2> QED
    BY <1>1, <2>1, QuietStep DEF WireInv, OfConnections

\* Beginning to send.
LEMMA BeginSendInv == ASSUME WireInv, NEW c \in Connection, BeginSend(c) PROVE WireInv'
<1>1. /\ todo[c] # <<>> /\ ~binding[c]
      /\ UNCHANGED <<status, todo, binding, player, registry>>
      /\ \E w : writing' = [writing EXCEPT ![c] = w]
  BY DEF BeginSend, Turns, identity
<1> QED
  BY <1>1, QuietStep DEF WireInv, OfConnections

\* Going on after a write leaves the other goroutines alone.
LEMMA OnwardsChanges ==
    ASSUME NEW c, NEW d, Onwards(c, d)
    PROVE  \E items : todo' = [todo EXCEPT ![c] = items]
BY DEF Onwards, Instead, Then

\* Writing.
LEMMA WriteInv == ASSUME WireInv, NEW c \in Connection, Write(c) PROVE WireInv'
<1>1. PICK n : Written(c, n)
  BY DEF Write
<1>2. /\ writing[c] # NotWriting
      /\ UNCHANGED <<status, binding, player, registry>>
  BY <1>1 DEF Write, Written, identity
<1>3. todo[c] # <<>> /\ ~binding[c] /\ status[c] # "closed"
  BY <1>2 DEF WireInv
<1>4. /\ \E w : writing' = [writing EXCEPT ![c] = w]
      /\ \/ UNCHANGED todo
         \/ /\ writing' = [writing EXCEPT ![c] = NotWriting]
            /\ \E items : todo' = [todo EXCEPT ![c] = items]
  <2>1. CASE n < Len(writing[c].rest)
    BY <1>1, <2>1 DEF Written
  <2>2. CASE ~ n < Len(writing[c].rest)
    BY <1>1, <2>2, OnwardsChanges DEF Written
  <2> QED
    BY <2>1, <2>2
<1> QED
  <2>1. PICK w : writing' = [writing EXCEPT ![c] = w]
    BY <1>4
  <2>2. CASE UNCHANGED todo
    BY <1>2, <1>3, <2>1, <2>2, QuietStep DEF WireInv, OfConnections
  <2>3. CASE /\ writing' = [writing EXCEPT ![c] = NotWriting]
             /\ \E items : todo' = [todo EXCEPT ![c] = items]
    <3>1. PICK items : todo' = [todo EXCEPT ![c] = items]
      BY <2>3
    <3> QED
      BY <1>2, <1>3, <2>3, <3>1, QuietStep DEF WireInv, OfConnections
  <2> QED
    BY <1>4, <2>2, <2>3

\* A write that fails.
LEMMA WriteFailsInv == ASSUME WireInv, NEW c \in Connection, WriteFails(c) PROVE WireInv'
<1>1. /\ writing[c] # NotWriting
      /\ writing' = [writing EXCEPT ![c] = NotWriting]
      /\ \/ status' = status
         \/ \E s \in {"closing", "lost"} : status' = [status EXCEPT ![c] = s]
      /\ UNCHANGED <<binding, player, registry>>
  BY DEF WriteFails, Breaks, identity
<1>2. todo[c] # <<>> /\ ~binding[c] /\ status[c] # "closed"
  BY <1>1 DEF WireInv
<1>3. \E items : todo' = [todo EXCEPT ![c] = items]
  BY OnwardsChanges DEF WriteFails, Failed, Do
<1>4. PICK items : todo' = [todo EXCEPT ![c] = items]
  BY <1>3
<1>5. /\ status' \in [Connection -> {"open", "gone", "closing", "lost", "closed"}]
      /\ \A d \in Connection : status'[d] = "closed" <=> status[d] = "closed"
  BY <1>1, <1>2 DEF WireInv
<1>6. OfConnections(todo)' /\ OfConnections(writing)'
  BY <1>1, <1>4 DEF WireInv, OfConnections
<1>7. \A d \in Connection : d # c => todo'[d] = todo[d] /\ writing'[d] = writing[d]
  BY <1>1, <1>4 DEF WireInv, OfConnections
<1>8. writing'[c] = NotWriting
  BY <1>1 DEF WireInv, OfConnections
<1>9. \A d \in Connection :
        /\ status'[d] = "closed" => status[d] = "closed"
        /\ status[d] = "closed" => status'[d] = "closed" /\ todo'[d] = todo[d]
        /\ todo'[d] = <<>> => ~binding[d] /\ writing'[d] = NotWriting
        /\ binding[d] => writing'[d] = NotWriting
  BY <1>2, <1>5, <1>7, <1>8 DEF WireInv
<1> QED
  BY <1>1, <1>5, <1>6, <1>9, QuietStep

-----------------------------------------------------------------------------
\* The start, and every step.
LEMMA InitInv == Init => WireInv
BY WireAssumption DEF Init, WireInv, RegistryMirrors, OfConnections

LEMMA NextInv == WireInv /\ [Next]_vars => WireInv'
<1>1. SUFFICES ASSUME WireInv, [Next]_vars PROVE WireInv'
  OBVIOUS
<1>2. CASE UNCHANGED vars
  BY <1>1, <1>2 DEF vars, identity, registry, WireInv, RegistryMirrors, OfConnections
<1>3. ASSUME NEW c \in Connection, Handle(c) PROVE WireInv'
  BY <1>1, <1>3, HandshakeInv, RefusedInv, LoginInv, AnsweredInv DEF Handle
<1>4. ASSUME NEW c \in Connection, Work(c) PROVE WireInv'
  BY <1>1, <1>4, BindInv, LookUpInv, BeginSendInv, WriteFailsInv DEF Work
<1>5. ASSUME NEW c \in Connection, Serve(c) \/ Drop(c) PROVE WireInv'
  BY <1>1, <1>3, <1>4, <1>5, ReadInv, WriteInv, ReleaseInv, DropInv DEF Serve
<1> QED
  BY <1>1, <1>2, <1>5 DEF Next

(***************************************************************************)
(* WireInv holds always: the registry mirrors the sessions, a session that *)
(* is about to be bound sends nothing, and a connection that has ended has *)
(* no work, for any number of connections, accounts and messages.          *)
(***************************************************************************)
THEOREM WireInvariant == Spec => []WireInv
<1>1. Init => WireInv
  BY InitInv
<1>2. WireInv /\ [Next]_vars => WireInv'
  BY NextInv
<1> QED
  BY <1>1, <1>2, PTL DEF Spec

(***************************************************************************)
(* RegistryMirrors: the two maps of the registry say the same of every     *)
(* session, and what the session's own state says; nobody who has gone is  *)
(* in them.                                                                *)
(***************************************************************************)
THEOREM RegistryAlwaysMirrors == Spec => []RegistryMirrors
<1>1. WireInv => RegistryMirrors
  BY DEF WireInv
<1> QED
  BY <1>1, WireInvariant, PTL

-----------------------------------------------------------------------------
(***************************************************************************)
(* What a goroutine has left to do.                                        *)
(***************************************************************************)
\* What a goroutine has left to do, put together from sound pieces.
LEMMA SoundOf ==
    ASSUME NEW S, \A w \in S : SoundItem(w), NEW items \in Seq(S)
    PROVE  SoundItems(items)
<1>1. items \in Seq(Range(items)) /\ Range(items) \subseteq S
  BY RangedSeq
<1>2. \A i \in DOMAIN items : items[i] \in Range(items)
  BY DEF Range
<1> QED
  BY <1>1, <1>2 DEF SoundItems

\* All that is in it is sound.
LEMMA SoundSet ==
    ASSUME NEW items, SoundItems(items)
    PROVE  /\ items \in Seq(Range(items)) /\ \A w \in Range(items) : SoundItem(w)
BY DEF SoundItems, Range

\* The first of it is sound, and so is the rest.
LEMMA SoundRest ==
    ASSUME NEW items, SoundItems(items), items # <<>>
    PROVE  SoundItem(Head(items)) /\ SoundItems(Tail(items))
<1>1. PICK S : S = Range(items)
  OBVIOUS
<1>2. items \in Seq(S) /\ \A w \in S : SoundItem(w)
  BY <1>1, SoundSet
<1>3. Head(items) \in S /\ Tail(items) \in Seq(S)
  BY <1>2
<1> QED
  BY <1>2, <1>3, SoundOf

\* One more, two more in front, and the short ones.
LEMMA SoundBefore ==
    ASSUME NEW w, SoundItem(w), NEW items, SoundItems(items)
    PROVE  SoundItems(<<w>> \o items)
<1>1. PICK S : S = {w} \cup Range(items)
  OBVIOUS
<1>2. items \in Seq(Range(items)) /\ \A v \in S : SoundItem(v)
  BY <1>1, SoundSet
<1>3. items \in Seq(S)
  BY <1>1, <1>2, SeqWider
<1>4. <<w>> \o items \in Seq(S)
  BY <1>1, <1>3
<1> QED
  BY <1>2, <1>4, SoundOf

LEMMA SoundTwoBefore ==
    ASSUME NEW v, SoundItem(v), NEW w, SoundItem(w), NEW items, SoundItems(items)
    PROVE  SoundItems(<<v, w>> \o items)
<1>1. PICK S : S = {v, w} \cup Range(items)
  OBVIOUS
<1>2. items \in Seq(Range(items)) /\ \A x \in S : SoundItem(x)
  BY <1>1, SoundSet
<1>3. items \in Seq(S)
  BY <1>1, <1>2, SeqWider
<1>4. <<v, w>> \o items \in Seq(S)
  BY <1>1, <1>3
<1> QED
  BY <1>2, <1>4, SoundOf

LEMMA SoundNone == SoundItems(<<>>)
<1>1. PICK S : S = {}
  OBVIOUS
<1>2. <<>> \in Seq(S) /\ \A w \in S : SoundItem(w)
  BY <1>1
<1> QED
  BY <1>2, SoundOf

LEMMA SoundOne ==
    ASSUME NEW w, SoundItem(w) PROVE SoundItems(<<w>>)
<1>1. PICK S : S = {w}
  OBVIOUS
<1>2. <<w>> \in Seq(S) /\ \A x \in S : SoundItem(x)
  BY <1>1
<1> QED
  BY <1>2, SoundOf

LEMMA SoundTwo ==
    ASSUME NEW v, SoundItem(v), NEW w, SoundItem(w) PROVE SoundItems(<<v, w>>)
<1>1. PICK S : S = {v, w}
  OBVIOUS
<1>2. <<v, w>> \in Seq(S) /\ \A x \in S : SoundItem(x)
  BY <1>1
<1> QED
  BY <1>2, SoundOf

LEMMA SoundThree ==
    ASSUME NEW u, SoundItem(u), NEW v, SoundItem(v), NEW w, SoundItem(w)
    PROVE  SoundItems(<<u, v, w>>)
<1>1. PICK S : S = {u, v, w}
  OBVIOUS
<1>2. <<u, v, w>> \in Seq(S) /\ \A x \in S : SoundItem(x)
  BY <1>1
<1> QED
  BY <1>2, SoundOf

LEMMA SoundJoined ==
    ASSUME NEW a, SoundItems(a), NEW b, SoundItems(b) PROVE SoundItems(a \o b)
<1>1. PICK S : S = Range(a) \cup Range(b)
  OBVIOUS
<1>2. a \in Seq(Range(a)) /\ b \in Seq(Range(b)) /\ \A x \in S : SoundItem(x)
  BY <1>1, SoundSet
<1>3. a \in Seq(S) /\ b \in Seq(S)
  BY <1>1, <1>2, SeqWider
<1>4. a \o b \in Seq(S)
  BY <1>3
<1> QED
  BY <1>2, <1>4, SoundOf

\* The bodies of the messages that are sent have one field at most.
LEMMA ShortBody ==
    ASSUME NEW x
    PROVE  /\ <<>> \in Seq(Range(<<>>)) /\ Len(<<>>) <= 1
           /\ <<x>> \in Seq(Range(<<x>>)) /\ Len(<<x>>) <= 1
<1>1. <<>> \in Seq({}) /\ <<x>> \in Seq({x})
  OBVIOUS
<1>2. <<>> \in Seq(Range(<<>>)) /\ <<x>> \in Seq(Range(<<x>>))
  BY <1>1, RangedSeq
<1>3. Len(<<>>) <= 1 /\ Len(<<x>>) <= 1
  OBVIOUS
<1> QED
  BY <1>2, <1>3

\* The things to do that the handlers leave.
LEMMA SoundPlain ==
    ASSUME NEW id PROVE /\ SoundItem(Plain(id, <<>>))
                        /\ \A x : SoundItem(Plain(id, <<x>>))
BY ShortBody DEF SoundItem, Plain

LEMMA SoundEncrypted == ASSUME NEW id PROVE SoundItem(Encrypted(id, <<>>))
BY ShortBody DEF SoundItem, Encrypted

LEMMA SoundBoth == ASSUME NEW id PROVE SoundItems(Both(id))
BY SoundTwo, SoundPlain, SoundEncrypted DEF Both

LEMMA SoundOthers ==
    ASSUME NEW line
    PROVE  /\ SoundItem(ToAll(line))
           /\ \A accounts \in SUBSET Account : SoundItem(Push(accounts, line))
           /\ \A sessions \in SUBSET Connection : SoundItem(Tell(sessions, line))
BY DEF SoundItem, ToAll, Push, Tell

LEMMA SoundReply ==
    ASSUME NEW p, IsPayload(p), FrameType(p) # EnvelopeEncrypted PROVE SoundItem(Reply(p))
BY DEF SoundItem, Reply

-----------------------------------------------------------------------------
(***************************************************************************)
(* The steps that send nothing.                                            *)
(***************************************************************************)
\* Giving one goroutine sound things to do leaves all with sound ones.
LEMMA TodoSound ==
    ASSUME SendInv, NEW c \in Connection, NEW items, SoundItems(items),
           todo' = [todo EXCEPT ![c] = items]
    PROVE  \A d \in Connection : SoundItems(todo'[d])
BY DEF SendInv, Typed, WireInv, OfConnections

(***************************************************************************)
(* A step that sends nothing keeps SendInv if it brings no client back and *)
(* leaves sound things to do.                                              *)
(***************************************************************************)
LEMMA QuietSend ==
    ASSUME SendInv, WireInv', UNCHANGED <<lock, writing, count, client, sent>>,
           \A d \in Connection : status'[d] \in {"open", "closing"} => status[d] \in {"open", "closing"},
           inbox' \in [Connection -> Seq(Nat)], pending' \in [Connection -> Seq(Nat)],
           frames' \in [Connection -> Seq(FramePayload)],
           \A d \in Connection : SoundItems(todo'[d])
    PROVE  SendInv'
<1>1. /\ WireInv /\ Typed /\ Exclusive /\ Delivered /\ Counted
      /\ lock' = lock /\ writing' = writing /\ count' = count
      /\ got' = got /\ part' = part /\ sent' = sent
  BY DEF SendInv, client
<1>2. Typed'
  BY <1>1 DEF Typed, OfConnections, FramePayload
<1>3. Exclusive' /\ Counted'
  BY <1>1 DEF Exclusive, Counted
<1>4. \A d \in Connection : Reached(d)' = Reached(d)
  BY <1>1 DEF Reached
<1>5. \A d \in Connection : \A rest : UnderWay(d, rest)' <=> UnderWay(d, rest)
  BY <1>1 DEF UnderWay
<1>6. Delivered'
  BY <1>1, <1>4, <1>5 DEF Delivered
<1> QED
  BY <1>2, <1>3, <1>6 DEF SendInv

\* A handler takes the frame in hand and leaves sound things to do.
LEMMA HandlerSend ==
    ASSUME SendInv, WireInv', NEW c \in Connection, frames[c] # <<>>, NextFrame(c),
           UNCHANGED <<status, inbox, pending, writing, lock, count, client, sent>>,
           \/ UNCHANGED todo
           \/ \E items : SoundItems(items) /\ todo' = [todo EXCEPT ![c] = items]
    PROVE  SendInv'
<1>1. /\ inbox \in [Connection -> Seq(Nat)] /\ pending \in [Connection -> Seq(Nat)]
      /\ frames \in [Connection -> Seq(FramePayload)]
      /\ \A d \in Connection : SoundItems(todo[d])
  BY DEF SendInv, Typed, FramePayload
<1>2. frames' \in [Connection -> Seq(FramePayload)]
  <2>1. Tail(frames[c]) \in Seq(FramePayload)
    BY <1>1
  <2>2. frames' = [frames EXCEPT ![c] = Tail(frames[c])]
    BY DEF NextFrame
  <2> QED
    BY <1>1, <2>1, <2>2
<1>3. \A d \in Connection : SoundItems(todo'[d])
  BY <1>1, TodoSound
<1> QED
  BY <1>1, <1>2, <1>3, QuietSend

\* The frame in hand can be sent back as it is.
LEMMA FrameInHand ==
    ASSUME SendInv, NEW c \in Connection, frames[c] # <<>>
    PROVE  IsPayload(InHand(c))
<1>1. frames[c] \in Seq(FramePayload)
  BY DEF SendInv, Typed, FramePayload
<1>2. InHand(c) \in FramePayload
  BY <1>1 DEF InHand
<1>3. InHand(c) \in Seq(Nat) /\ Len(InHand(c)) <= MaxFrame
  BY <1>2 DEF FramePayload
<1>4. InHand(c) \in Seq(Range(InHand(c)))
  BY <1>3, RangedSeq
<1> QED
  BY <1>3, <1>4 DEF IsPayload

\* The answers of the handshake are payloads.
LEMMA ShortPayload ==
    ASSUME NEW x, NEW y, x # EnvelopeEncrypted
    PROVE  /\ IsPayload(<<x>>) /\ FrameType(<<x>>) # EnvelopeEncrypted
           /\ IsPayload(<<x, y>>) /\ FrameType(<<x, y>>) # EnvelopeEncrypted
<1>1. <<x>> \in Seq({x, y}) /\ <<x, y>> \in Seq({x, y})
  OBVIOUS
<1>2. <<x>> \in Seq(Range(<<x>>)) /\ <<x, y>> \in Seq(Range(<<x, y>>))
  BY <1>1, RangedSeq
<1>3. MaxFrame \in Nat /\ 2 <= MaxFrame
  BY CodecAssumption
<1>4. Len(<<x>>) = 1 /\ Len(<<x, y>>) = 2 /\ <<x>>[1] = x /\ <<x, y>>[1] = x /\ <<x>> # <<>> /\ <<x, y>> # <<>>
  OBVIOUS
<1>5. Len(<<x>>) <= MaxFrame /\ Len(<<x, y>>) <= MaxFrame
  BY <1>3, <1>4
<1> QED
  BY <1>2, <1>4, <1>5 DEF IsPayload, FrameType

\* The handshake.
LEMMA HandshakeSend ==
    ASSUME SendInv, WireInv', NEW c \in Connection,
           \/ HandleHello(c) \/ HandleCryptoSetup(c) \/ HandleConnect(c) \/ HandleHeartbeat(c)
    PROVE  SendInv'
<1>1. /\ frames[c] # <<>> /\ NextFrame(c)
      /\ UNCHANGED <<status, inbox, pending, writing, lock, count, client, sent>>
  BY DEF HandleHello, HandleCryptoSetup, HandleConnect, HandleHeartbeat, Ready, crypto
<1>2. \E p : /\ IsPayload(p) /\ FrameType(p) # EnvelopeEncrypted
             /\ todo' = [todo EXCEPT ![c] = <<Reply(p)>>]
  <2>0. 5 # EnvelopeEncrypted /\ 7 # EnvelopeEncrypted /\ ServerConnectOK # EnvelopeEncrypted
        /\ Heartbeat # EnvelopeEncrypted
    BY DEF EnvelopeEncrypted, ServerConnectOK, Heartbeat
  <2>1. CASE HandleHello(c)
    <3>1. IsPayload(ConnectionParams) /\ FrameType(ConnectionParams) # EnvelopeEncrypted
      BY <2>0, ShortPayload, Zenon DEF ConnectionParams
    <3> QED
      BY <2>1, <3>1 DEF HandleHello, Do
  <2>2. CASE HandleCryptoSetup(c)
    <3>1. IsPayload(ServerAuthSuccess) /\ FrameType(ServerAuthSuccess) # EnvelopeEncrypted
      BY <2>0, ShortPayload, Zenon DEF ServerAuthSuccess
    <3> QED
      BY <2>2, <3>1 DEF HandleCryptoSetup, Do
  <2>3. CASE HandleConnect(c)
    <3>1. PICK p : p = <<ServerConnectOK, InHand(c)[2]>>
      OBVIOUS
    <3>2. IsPayload(p) /\ FrameType(p) # EnvelopeEncrypted
      BY <2>0, <3>1, ShortPayload, Zenon
    <3> QED
      BY <2>3, <3>1, <3>2 DEF HandleConnect, Do
  <2>4. CASE HandleHeartbeat(c)
    <3>1. FrameType(InHand(c)) # EnvelopeEncrypted /\ todo' = [todo EXCEPT ![c] = <<Reply(InHand(c))>>]
      BY <2>0, <2>4 DEF HandleHeartbeat, Do
    <3>2. IsPayload(InHand(c))
      BY <1>1, FrameInHand
    <3> QED
      BY <3>1, <3>2
  <2> QED
    BY <2>1, <2>2, <2>3, <2>4
<1>3. \E items : SoundItems(items) /\ todo' = [todo EXCEPT ![c] = items]
  BY <1>2, SoundReply, SoundOne
<1> QED
  BY <1>1, <1>3, HandlerSend

\* What cannot be read and what is passed over.
LEMMA RefusedSend ==
    ASSUME SendInv, WireInv', NEW c \in Connection, HandleUnreadable(c) \/ HandleUnknown(c)
    PROVE  SendInv'
<1>1. CASE HandleUnreadable(c)
  <2>1. /\ inbox' = inbox /\ pending' = pending /\ frames' = frames /\ todo' = todo
        /\ UNCHANGED <<lock, writing, count, client, sent>>
        /\ Breaks(c) /\ status[c] \in {"open", "gone"}
    BY <1>1 DEF HandleUnreadable, Ready, reading, crypto
  <2>2. /\ inbox \in [Connection -> Seq(Nat)] /\ pending \in [Connection -> Seq(Nat)]
        /\ frames \in [Connection -> Seq(FramePayload)]
        /\ \A d \in Connection : SoundItems(todo[d])
    BY DEF SendInv, Typed, FramePayload
  <2>3. \A d \in Connection : status'[d] \in {"open", "closing"} => status[d] \in {"open", "closing"}
    BY <2>1 DEF Breaks, SendInv, WireInv
  <2> QED
    BY <2>1, <2>2, <2>3, QuietSend
<1>2. CASE HandleUnknown(c)
  <2>1. /\ frames[c] # <<>> /\ NextFrame(c)
        /\ UNCHANGED <<status, inbox, pending, todo, writing, lock, count, client, sent>>
    BY <1>2 DEF HandleUnknown, Ready, crypto
  <2> QED
    BY <2>1, HandlerSend
<1> QED
  BY <1>1, <1>2

\* The login handlers.
LEMMA LoginSend ==
    ASSUME SendInv, WireInv', NEW c \in Connection, HandleAuth(c) \/ HandleCheckCredential(c)
    PROVE  SendInv'
<1>1. /\ frames[c] # <<>> /\ NextFrame(c)
      /\ UNCHANGED <<status, inbox, pending, writing, lock, count, client, sent>>
  BY DEF HandleAuth, HandleCheckCredential, Dispatch, Ready, crypto
<1>2. SoundItems(<<Plain(ID.sendList, <<>>)>>)
  BY SoundPlain, SoundOne
<1>3. \/ UNCHANGED todo
      \/ \E items : SoundItems(items) /\ todo' = [todo EXCEPT ![c] = items]
  <2>1. CASE HandleAuth(c)
    <3>1. SoundItems((Both(Answer(ID.auth)) \o Both(Answer(ID.launcher))) \o <<Plain(ID.sendList, <<>>)>>)
      BY <1>2, SoundBoth, SoundJoined
    <3> QED
      BY <2>1, <3>1 DEF HandleAuth, Identified, Do
  <2>2. CASE HandleCheckCredential(c)
    <3>1. SoundItems(<<Plain(Answer(ID.check), <<>>)>> \o <<Plain(ID.sendList, <<>>)>>)
      BY <1>2, SoundPlain, SoundOne, SoundJoined
    <3> QED
      BY <2>2, <3>1 DEF HandleCheckCredential, Identified, Do
  <2> QED
    BY <2>1, <2>2
<1> QED
  BY <1>1, <1>3, HandlerSend

\* The other requests.
LEMMA AnsweredSend ==
    ASSUME SendInv, WireInv', NEW c \in Connection,
           \/ HandleCreateCredential(c) \/ HandleChannelJoin(c) \/ HandleAnswered(c)
           \/ HandleChat(c) \/ HandleWhisper(c)
    PROVE  SendInv'
<1>1. /\ frames[c] # <<>> /\ NextFrame(c)
      /\ UNCHANGED <<status, inbox, pending, writing, lock, count, client, sent>>
  BY DEF HandleCreateCredential, HandleChannelJoin, HandleAnswered, HandleChat, HandleWhisper,
         Dispatch, Ready, crypto
<1>2. \/ UNCHANGED todo
      \/ \E items : SoundItems(items) /\ todo' = [todo EXCEPT ![c] = items]
  <2>1. CASE HandleCreateCredential(c)
    BY <2>1, SoundPlain, SoundOne DEF HandleCreateCredential, Do
  <2>2. CASE HandleChannelJoin(c)
    BY <2>2, SoundPlain, SoundOne DEF HandleChannelJoin, Do
  <2>3. CASE HandleAnswered(c)
    <3>1. /\ Request(c).id \in {ID.launcher, ID.list, ID.open}
          /\ todo' = [todo EXCEPT ![c] = Answers(Request(c).id)]
      BY <2>3 DEF HandleAnswered, Dispatch, Do
    <3>2. \A id \in {ID.launcher, ID.list, ID.open} : SoundItems(Answers(id))
      <4>1. SoundItems(Answers(ID.launcher))
        BY SoundBoth DEF Answers, ID
      <4>2. SoundItems(Answers(ID.list))
        BY SoundPlain, SoundTwo DEF Answers, ID
      <4>3. SoundItems(Answers(ID.open))
        BY SoundPlain, SoundOne DEF Answers, ID
      <4> QED
        BY <4>1, <4>2, <4>3
    <3> QED
      BY <3>1, <3>2
  <2>4. CASE HandleChat(c)
    <3>1. SoundItems(<<Plain(Refusal(Request(c).id), <<0>>)>>)
      BY SoundPlain, SoundOne
    <3>2. SoundItems(<<Plain(Answer(Request(c).id), <<>>), ToAll(Argument(c))>>)
      BY SoundPlain, SoundOthers, SoundTwo
    <3>3. SoundItems(<<Plain(Answer(Request(c).id), <<>>), Push(Mates, Argument(c))>>)
      BY WireAssumption, SoundPlain, SoundOthers, SoundTwo
    <3> QED
      BY <2>4, <3>1, <3>2, <3>3 DEF HandleChat, Refuse, Do
  <2>5. CASE HandleWhisper(c)
    <3>1. PICK to, line : to = Request(c).body[1] /\ line = Request(c).body[2]
      OBVIOUS
    <3>2. SoundItems(<<Plain(Refusal(ID.user), <<0>>)>>)
      BY SoundPlain, SoundOne
    <3>3. to \in Account =>
            SoundItems(<<Plain(Answer(ID.user), <<>>), Push({to}, line), Plain(ID.notify, <<line>>)>>)
      <4>1. SoundItem(Plain(Answer(ID.user), <<>>)) /\ SoundItem(Plain(ID.notify, <<line>>))
        BY SoundPlain
      <4>2. to \in Account => SoundItem(Push({to}, line))
        BY SoundOthers
      <4> QED
        BY <4>1, <4>2, SoundThree
    <3> QED
      BY <2>5, <3>1, <3>2, <3>3 DEF HandleWhisper, Refuse, Do
  <2> QED
    BY <2>1, <2>2, <2>3, <2>4, <2>5
<1> QED
  BY <1>1, <1>2, HandlerSend

\* The typing that the steps need.
LEMMA SendTypes ==
    ASSUME SendInv
    PROVE  /\ inbox \in [Connection -> Seq(Nat)] /\ pending \in [Connection -> Seq(Nat)]
           /\ frames \in [Connection -> Seq(FramePayload)]
           /\ status \in [Connection -> {"open", "gone", "closing", "lost", "closed"}]
           /\ \A d \in Connection : SoundItems(todo[d])
           /\ byAccount \in [Account -> SUBSET Connection]
BY DEF SendInv, Typed, WireInv, FramePayload

\* Reading, going away, releasing and binding.
LEMMA ReadSend == ASSUME SendInv, WireInv', NEW c \in Connection, Read(c) PROVE SendInv'
<1>1. PICK n \in Amounts(Len(inbox[c])) :
        LET parsed == ParseFrames(pending[c] \o SubSeq(inbox[c], 1, n))
        IN /\ inbox' = [inbox EXCEPT ![c] = SubSeq(@, n + 1, Len(@))]
           /\ frames' = [frames EXCEPT ![c] = IF parsed.malformed THEN <<>> ELSE parsed.frames]
           /\ pending' = [pending EXCEPT ![c] = parsed.remaining]
           /\ IF parsed.malformed THEN Breaks(c) ELSE UNCHANGED status
  BY DEF Read
<1>2. PICK box, some, p : /\ box = inbox[c] /\ some = pending[c] \o SubSeq(box, 1, n)
                          /\ p = ParseFrames(some)
  OBVIOUS
<1>3. box \in Seq(Nat) /\ Len(box) \in Nat /\ n \in 0 .. Len(box)
  <2>1. box \in Seq(Nat)
    BY <1>2, SendTypes
  <2>2. Len(box) \in Nat
    BY <2>1
  <2>3. \A m \in Pieces : m \in Nat
    BY WireAssumption
  <2>4. n \in {m \in Pieces : m < Len(box)} \cup {Len(box)}
    BY <1>2 DEF Amounts
  <2> QED
    BY <2>1, <2>2, <2>3, <2>4
<1>4. some \in Seq(Nat)
  <2>1. pending[c] \in Seq(Nat) /\ SubSeq(box, 1, n) \in Seq(Nat)
    BY <1>3, SendTypes
  <2> QED
    BY <1>2, <2>1
<1>5. p \in [frames : Seq(FramePayload), remaining : Seq(Nat), malformed : BOOLEAN]
  BY <1>2, <1>4, ParseTyped
<1>6. SubSeq(box, n + 1, Len(box)) \in Seq(Nat)
  BY <1>3
<1>7. /\ inbox' = [inbox EXCEPT ![c] = SubSeq(box, n + 1, Len(box))]
      /\ frames' = [frames EXCEPT ![c] = IF p.malformed THEN <<>> ELSE p.frames]
      /\ pending' = [pending EXCEPT ![c] = p.remaining]
      /\ Breaks(c) \/ UNCHANGED status
  BY <1>1, <1>2
<1>8. p.remaining \in Seq(Nat) /\ (IF p.malformed THEN <<>> ELSE p.frames) \in Seq(FramePayload)
  BY <1>5
<1>9. /\ inbox' \in [Connection -> Seq(Nat)] /\ pending' \in [Connection -> Seq(Nat)]
      /\ frames' \in [Connection -> Seq(FramePayload)]
  BY <1>6, <1>7, <1>8, SendTypes
<1>10. \A d \in Connection : status'[d] \in {"open", "closing"} => status[d] \in {"open", "closing"}
  BY <1>7, SendTypes DEF Breaks, Read
<1>11. todo' = todo /\ UNCHANGED <<lock, writing, count, client, sent>>
  BY DEF Read, crypto
<1> QED
  BY <1>9, <1>10, <1>11, SendTypes, QuietSend

LEMMA DropSend == ASSUME SendInv, WireInv', NEW c \in Connection, Drop(c) PROVE SendInv'
<1>1. /\ inbox' = inbox /\ pending' = pending /\ frames' = frames /\ todo' = todo
      /\ UNCHANGED <<lock, writing, count, client, sent>>
  BY DEF Drop, reading, crypto
<1>2. \A d \in Connection : status'[d] \in {"open", "closing"} => status[d] \in {"open", "closing"}
  BY SendTypes DEF Drop
<1> QED
  BY <1>1, <1>2, SendTypes, QuietSend

LEMMA ReleaseSend == ASSUME SendInv, WireInv', NEW c \in Connection, Release(c) PROVE SendInv'
<1>1. /\ inbox' = [inbox EXCEPT ![c] = <<>>] /\ pending' = [pending EXCEPT ![c] = <<>>]
      /\ frames' = [frames EXCEPT ![c] = <<>>] /\ todo' = todo
      /\ UNCHANGED <<lock, writing, count, client, sent>>
  BY DEF Release, crypto
<1>2. \A d \in Connection : status'[d] \in {"open", "closing"} => status[d] \in {"open", "closing"}
  BY SendTypes DEF Release
<1>3. /\ inbox' \in [Connection -> Seq(Nat)] /\ pending' \in [Connection -> Seq(Nat)]
      /\ frames' \in [Connection -> Seq(FramePayload)]
  BY <1>1, SendTypes
<1> QED
  BY <1>1, <1>2, <1>3, SendTypes, QuietSend

LEMMA BindSend == ASSUME SendInv, WireInv', NEW c \in Connection, Bind(c) PROVE SendInv'
<1>1. /\ inbox' = inbox /\ pending' = pending /\ frames' = frames /\ todo' = todo
      /\ status' = status /\ UNCHANGED <<lock, writing, count, client, sent>>
  BY DEF Bind, reading, crypto
<1> QED
  BY <1>1, SendTypes, QuietSend

\* Looking up who is online.
LEMMA LookUpSend ==
    ASSUME SendInv, WireInv', NEW c \in Connection,
           LookUpOnline(c) \/ LookUpSessions(c) \/ ToldAll(c) \/ NoKey(c)
    PROVE  SendInv'
<1>1. /\ inbox' = inbox /\ pending' = pending /\ frames' = frames
      /\ status' = status /\ UNCHANGED <<lock, writing, count, client, sent>>
  BY DEF LookUpOnline, LookUpSessions, ToldAll, NoKey, reading, crypto
<1>2. PICK items : items = todo[c] /\ SoundItems(items) /\ items # <<>>
  <2>1. todo[c] # <<>>
    BY DEF LookUpOnline, LookUpSessions, ToldAll, NoKey, Turns
  <2> QED
    BY <2>1, SendTypes
<1>3. Now(c) = Head(items) /\ SoundItem(Now(c)) /\ SoundItems(Tail(items))
  BY <1>2, SoundRest DEF Now
<1>4. \E new : SoundItems(new) /\ todo' = [todo EXCEPT ![c] = new]
  <2>1. CASE LookUpOnline(c)
    <3>1. PICK w : w = Push(Online, Now(c).what)
      OBVIOUS
    <3>2. SoundItem(w)
      <4>1. Online \in SUBSET Account
        BY DEF Online
      <4> QED
        BY <3>1, <4>1, SoundOthers
    <3>3. SoundItems(<<w>> \o Tail(items))
      BY <1>3, <3>2, SoundBefore
    <3> QED
      BY <1>2, <2>1, <3>1, <3>3 DEF LookUpOnline, Instead
  <2>2. CASE LookUpSessions(c)
    <3>1. Now(c).to \subseteq Account
      BY <1>3, <2>2 DEF LookUpSessions, Turns, SoundItem
    <3>2. CASE Now(c).to = {}
      BY <1>2, <1>3, <2>2, <3>2 DEF LookUpSessions, Then
    <3>3. CASE Now(c).to # {}
      <4>1. PICK a \in Now(c).to :
               todo' = [todo EXCEPT ![c] =
                          <<Tell(byAccount[a], Now(c).what), Push(Now(c).to \ {a}, Now(c).what)>> \o Tail(@)]
        BY <2>2, <3>3 DEF LookUpSessions
      <4>2. PICK v, w : v = Tell(byAccount[a], Now(c).what) /\ w = Push(Now(c).to \ {a}, Now(c).what)
        OBVIOUS
      <4>3. SoundItem(v) /\ SoundItem(w)
        <5>1. byAccount[a] \in SUBSET Connection /\ Now(c).to \ {a} \in SUBSET Account
          BY <3>1, SendTypes
        <5> QED
          BY <4>2, <5>1, SoundOthers
      <4>4. SoundItems(<<v, w>> \o Tail(items))
        BY <1>3, <4>3, SoundTwoBefore
      <4> QED
        BY <1>2, <4>1, <4>2, <4>4
    <3> QED
      BY <3>2, <3>3
  <2>3. CASE ToldAll(c)
    BY <1>2, <1>3, <2>3 DEF ToldAll, Then
  <2>4. CASE NoKey(c)
    BY <2>4, SoundNone DEF NoKey, Do
  <2> QED
    BY <2>1, <2>2, <2>3, <2>4
<1>5. \A d \in Connection : SoundItems(todo'[d])
  BY <1>4, TodoSound
<1> QED
  BY <1>1, <1>5, SendTypes, QuietSend

-----------------------------------------------------------------------------
\* What is sent for each kind of thing to do.
LEMMA PayloadOf ==
    ASSUME NEW what, NEW d
    PROVE  /\ Payload("reply", what, d) = what
           /\ Payload("encrypt", what, d) = EncodeEncrypted(count[d], what)
           /\ Payload("send", what, d) = EncodePlain(what)
           /\ Payload("tell", what, d) = EncodePlain(Notify(what))
BY DEF Payload

\* What is sent is a payload, encrypted under the counter if it is meant to be.
LEMMA PayloadSound ==
    ASSUME NEW w, SoundItem(w), NEW d, NEW p, p = Payload(w.op, w.what, d),
           w.op \in {"reply", "send", "encrypt", "tell"}
    PROVE  /\ IsPayload(p)
           /\ FrameType(p) = EnvelopeEncrypted <=> CountsUp(w.op)
           /\ CountsUp(w.op) => DecodeEncrypted(p).count = count[d]
<1>1. CASE w.op = "reply"
  BY <1>1, PayloadOf DEF SoundItem, CountsUp
<1>2. CASE w.op = "encrypt"
  <2>1. p = EncodeEncrypted(count[d], w.what) /\ w.what.body = <<>>
    BY <1>2, PayloadOf DEF SoundItem
  <2> QED
    BY <1>2, <2>1, EncryptedPayload DEF CountsUp
<1>3. CASE w.op = "send"
  <2>1. p = EncodePlain(w.what) /\ w.what.body \in Seq(Range(w.what.body)) /\ Len(w.what.body) <= 1
    BY <1>3, PayloadOf DEF SoundItem
  <2>2. IsPayload(p) /\ FrameType(p) # EnvelopeEncrypted
    BY <2>1, PlainPayload
  <2> QED
    BY <1>3, <2>2 DEF CountsUp
<1>4. CASE w.op = "tell"
  <2>1. PICK msg : msg = Notify(w.what)
    OBVIOUS
  <2>2. msg.body = <<w.what>>
    BY <2>1 DEF Notify
  <2>3. msg.body \in Seq(Range(msg.body)) /\ Len(msg.body) <= 1
    BY <2>2, ShortBody
  <2>4. p = EncodePlain(msg)
    BY <1>4, <2>1, PayloadOf
  <2>5. IsPayload(p) /\ FrameType(p) # EnvelopeEncrypted
    BY <2>3, <2>4, PlainPayload
  <2> QED
    BY <1>4, <2>5 DEF CountsUp
<1> QED
  BY <1>1, <1>2, <1>3, <1>4

\* A goroutine that sends to a connection is writing.
LEMMA NothingIsNobody == \A d \in Connection : \A rest : [to |-> d, rest |-> rest] # NotWriting
BY WireAssumption DEF NotWriting

(***************************************************************************)
(* Beginning to send: the frame is whole ahead of it, and the counter      *)
(* counts it if it is encrypted.                                           *)
(***************************************************************************)
LEMMA BeginSendSend ==
    ASSUME SendInv, WireInv', NEW c \in Connection, BeginSend(c) PROVE SendInv'
<1>0. /\ WireInv /\ Typed /\ Exclusive /\ Delivered /\ Counted
  BY DEF SendInv
<1>1. PICK w : w = Now(c)
  OBVIOUS
<1>2. /\ todo[c] # <<>> /\ writing[c] = NotWriting
      /\ w.op \in {"reply", "send", "encrypt", "tell"}
  BY <1>1 DEF BeginSend, Turns
<1>3. SoundItem(w)
  BY <1>1, <1>2, SendTypes, SoundRest DEF Now
<1>4. PICK d \in Receivers(c) :
         /\ Free(d)
         /\ lock' = [lock EXCEPT ![d] = c]
         /\ LET payload == Payload(Now(c).op, Now(c).what, d)
            IN /\ writing' = [writing EXCEPT ![c] = [to |-> d, rest |-> EncodeFrame(Reliable, payload)]]
               /\ sent' = [sent EXCEPT ![d] = Append(@, payload)]
         /\ count' = IF CountsUp(Now(c).op) THEN [count EXCEPT ![d] = (@ + 1) % Counts] ELSE count
  BY DEF BeginSend
<1>5. PICK p, frame, now : /\ p = Payload(w.op, w.what, d) /\ frame = EncodeFrame(Reliable, p)
                           /\ now = [to |-> d, rest |-> frame]
  OBVIOUS
<1>6. /\ lock[d] = Nobody /\ lock' = [lock EXCEPT ![d] = c]
      /\ writing' = [writing EXCEPT ![c] = now]
      /\ sent' = [sent EXCEPT ![d] = Append(@, p)]
      /\ count' = IF CountsUp(w.op) THEN [count EXCEPT ![d] = (@ + 1) % Counts] ELSE count
  BY <1>1, <1>4, <1>5 DEF Free
<1>7. d \in Connection
  BY <1>1, <1>3 DEF Receivers, SoundItem
<1>8. /\ IsPayload(p)
      /\ FrameType(p) = EnvelopeEncrypted <=> CountsUp(w.op)
      /\ CountsUp(w.op) => DecodeEncrypted(p).count = count[d]
  BY <1>2, <1>3, <1>5, PayloadSound
<1>9. UNCHANGED <<status, inbox, pending, frames, todo, got, part>>
  BY DEF BeginSend, reading, client
<1>10. now # NotWriting /\ now.to = d /\ now = [to |-> now.to, rest |-> now.rest] /\ now.rest = frame
  BY <1>5, <1>7, NothingIsNobody
<1>11. /\ OfConnections(sent) /\ OfConnections(count) /\ OfConnections(writing)
       /\ lock \in [Connection -> Connection \cup {Nobody}]
       /\ sent[d] \in Seq(Range(sent[d])) /\ got[d] \in Seq(Range(got[d]))
  BY <1>0, <1>7 DEF Typed, WireInv
<1>12. PICK before, after : before = sent[d] /\ after = Append(before, p)
  OBVIOUS
<1>12a. before \in Seq(Range(before))
  BY <1>11, <1>12
<1>12b. PICK n \in Nat : n = Len(before)
  BY <1>12a
<1>12c. PICK T : before \in Seq(T)
  BY <1>12a
<1>13. /\ sent'[d] = after /\ \A e \in Connection : e # d => sent'[e] = sent[e]
       /\ writing'[c] = now /\ \A e \in Connection : e # c => writing'[e] = writing[e]
       /\ lock'[d] = c /\ \A e \in Connection : e # d => lock'[e] = lock[e]
       /\ count'[d] = IF CountsUp(w.op) THEN (count[d] + 1) % Counts ELSE count[d]
       /\ \A e \in Connection : e # d => count'[e] = count[e]
  BY <1>6, <1>7, <1>11, <1>12 DEF OfConnections
<1>14a. GivenMore(before, p, after, n)
  BY <1>12, <1>12b, <1>12c, AmongMore
<1>14. /\ DOMAIN after = 1 .. n + 1 /\ DOMAIN before = 1 .. n
       /\ \A i \in 1 .. n + 1 : after[i] = IF i = n + 1 THEN p ELSE before[i]
       /\ Cardinality(EncryptedAmong(after, 1 .. n + 1)) =
            Cardinality(EncryptedAmong(before, 1 .. n)) +
              (IF FrameType(p) = EnvelopeEncrypted THEN 1 ELSE 0)
  BY <1>14a DEF GivenMore
<1>15. after \in Seq(Range(after)) /\ p \in Range(after)
  <2>1. PICK S : S = Range(before) \cup {p}
    OBVIOUS
  <2>2. before \in Seq(S)
    BY <1>11, <1>12, <2>1, SeqWider
  <2>3. after \in Seq(S)
    BY <1>12, <2>1, <2>2
  <2>4. n + 1 \in DOMAIN after /\ after[n + 1] = p
    BY <1>14
  <2> QED
    BY <2>3, <2>4, RangedSeq DEF Range
<1>16. Typed'
  <2>1. /\ (lock \in [Connection -> Connection \cup {Nobody}])'
        /\ (inbox \in [Connection -> Seq(Nat)])' /\ (pending \in [Connection -> Seq(Nat)])'
        /\ (frames \in [Connection -> Seq({q \in Seq(Nat) : Len(q) <= MaxFrame})])'
    BY <1>0, <1>6, <1>7, <1>9, <1>11 DEF Typed
  <2>2. OfConnections(count)' /\ OfConnections(got)' /\ OfConnections(part)' /\ OfConnections(sent)'
    BY <1>0, <1>6, <1>9, <1>11 DEF Typed, OfConnections
  <2>3. ASSUME NEW e \in Connection
        PROVE  /\ SoundItems(todo[e])'
               /\ (writing[e] # NotWriting)' =>
                     writing'[e].to \in Connection /\ writing'[e] = [to |-> writing'[e].to, rest |-> writing'[e].rest]
               /\ sent'[e] \in Seq(Range(sent'[e])) /\ got'[e] \in Seq(Range(got'[e]))
    <3>1. SoundItems(todo[e])' /\ got'[e] \in Seq(Range(got'[e]))
      BY <1>0, <1>9 DEF Typed
    <3>2. sent'[e] \in Seq(Range(sent'[e]))
      BY <1>0, <1>13, <1>15 DEF Typed
    <3>3. (writing[e] # NotWriting)' =>
             writing'[e].to \in Connection /\ writing'[e] = [to |-> writing'[e].to, rest |-> writing'[e].rest]
      BY <1>0, <1>7, <1>10, <1>13 DEF Typed
    <3> QED
      BY <3>1, <3>2, <3>3
  <2> QED
    BY <2>1, <2>2, <2>3 DEF Typed
<1>17. Exclusive'
  <2>1. ASSUME NEW a \in Connection, NEW e \in Connection
        PROVE  lock'[e] = a <=> writing'[a] # NotWriting /\ writing'[a].to = e
    <3>1. \A x, y \in Connection : lock[y] = x <=> writing[x] # NotWriting /\ writing[x].to = y
      BY <1>0 DEF Exclusive
    <3>2. lock[d] # a /\ lock[e] # c
      BY <1>2, <1>6, <3>1, WireAssumption
    <3> QED
      BY <1>7, <1>10, <1>13, <3>1, <3>2
  <2> QED
    BY <2>1 DEF Exclusive
<1>18. Delivered'
  <2>1. ASSUME NEW e \in Connection PROVE Reached(e)'
    <3>1. Reached(e) /\ got'[e] = got[e]
      BY <1>0, <1>9 DEF Delivered
    <3>2. CASE e # d
      BY <1>13, <3>1, <3>2 DEF Reached
    <3>3. CASE e = d
      BY <1>12, <1>13, <1>14, <3>1, <3>3 DEF Reached
    <3> QED
      BY <3>2, <3>3
  <2>2. ASSUME NEW e \in Connection, e # d, status'[e] \in {"open", "closing"}
        PROVE  /\ lock'[e] = Nobody => got'[e] = sent'[e] /\ part'[e] = <<>>
               /\ \A a \in Connection : lock'[e] = a => UnderWay(e, writing[a].rest)'
    <3>1. /\ lock[e] = Nobody => got[e] = sent[e] /\ part[e] = <<>>
          /\ \A a \in Connection : lock[e] = a => UnderWay(e, writing[a].rest)
      BY <1>0, <1>9, <2>2 DEF Delivered
    <3>2. ASSUME NEW a \in Connection, lock[e] = a PROVE UnderWay(e, writing[a].rest)'
      <4>1. a # c
        BY <1>0, <1>2, <3>2 DEF Exclusive
      <4>2. writing'[a] = writing[a] /\ sent'[e] = sent[e] /\ got'[e] = got[e] /\ part'[e] = part[e]
        BY <1>9, <1>13, <2>2, <4>1
      <4>3. UnderWay(e, writing[a].rest)
        BY <3>1, <3>2
      <4> QED
        BY <4>2, <4>3 DEF UnderWay
    <3> QED
      BY <1>9, <1>13, <2>2, <3>1, <3>2
  <2>3. ASSUME status'[d] \in {"open", "closing"} PROVE UnderWay(d, writing[c].rest)'
    <3>1. got[d] = before /\ part[d] = <<>>
      BY <1>0, <1>6, <1>7, <1>9, <1>12, <2>3 DEF Delivered
    <3>2. PICK S : frame \in Seq(S) /\ Len(frame) \in Nat \ {0}
      <4>1. PICK f, e, k, m : f \in Seq(Nat \cup Range(p)) /\ FrameShape(f, p, e, k, m)
        BY <1>8, FrameShaped
      <4>2. f = frame /\ Len(f) = 2 + k + m /\ k \in 1 .. 5 /\ m \in 0 .. MaxFrame
        BY <1>5, <4>1 DEF FrameShape
      <4>3. Len(f) \in Nat \ {0}
        BY <4>2, CodecAssumption
      <4> QED
        BY <4>1, <4>2, <4>3
    <3>3. /\ 0 \in 0 .. Len(frame) - 1 /\ SubSeq(frame, 1, 0) = <<>>
          /\ SubSeq(frame, 0 + 1, Len(frame)) = frame
      BY <3>2
    <3>4. sent'[d] = Append(got'[d], p) /\ part'[d] = <<>> /\ writing'[c].rest = frame /\ p \in Range(sent'[d])
      BY <1>9, <1>10, <1>12, <1>13, <1>15, <3>1
    <3> QED
      BY <1>5, <1>8, <3>3, <3>4 DEF UnderWay
  <2> QED
    BY <1>7, <1>13, <2>1, <2>2, <2>3, WireAssumption DEF Delivered
<1>19. Counted'
  <2>1. ASSUME NEW e \in Connection, e # d
        PROVE  /\ count'[e] = Cardinality(EncryptedAmong(sent'[e], DOMAIN sent'[e])) % Counts
               /\ \A i \in EncryptedAmong(sent'[e], DOMAIN sent'[e]) :
                     DecodeEncrypted(sent'[e][i]).count =
                        Cardinality(EncryptedAmong(sent'[e], 1 .. i - 1)) % Counts
    BY <1>0, <1>13, <2>1 DEF Counted
  <2>2. PICK number \in Nat : number = Cardinality(EncryptedAmong(before, 1 .. n))
    BY AmongCounted
  <2>3. count[d] = number % Counts
    BY <1>0, <1>7, <1>12, <1>14, <2>2 DEF Counted
  <2>4. count'[d] = Cardinality(EncryptedAmong(after, 1 .. n + 1)) % Counts
    <3>1. ((number % Counts) + 1) % Counts = (number + 1) % Counts
      BY <2>2, WireAssumption, ModNext
    <3>2. CASE CountsUp(w.op)
      BY <1>8, <1>13, <1>14, <2>2, <2>3, <3>1, <3>2
    <3>3. CASE ~ CountsUp(w.op)
      BY <1>8, <1>13, <1>14, <2>2, <2>3, <3>3
    <3> QED
      BY <3>2, <3>3
  <2>5. ASSUME NEW i \in EncryptedAmong(after, 1 .. n + 1)
        PROVE  DecodeEncrypted(after[i]).count = Cardinality(EncryptedAmong(after, 1 .. i - 1)) % Counts
    <3>1. i \in 1 .. n + 1 /\ FrameType(after[i]) = EnvelopeEncrypted
      BY DEF EncryptedAmong
    <3>2. EncryptedAmong(after, 1 .. i - 1) = EncryptedAmong(before, 1 .. i - 1)
      <4>1. i - 1 \in Nat /\ \A j \in 1 .. i - 1 : j \in 1 .. n + 1 /\ j # n + 1
        BY <3>1
      <4>2. \A j \in 1 .. i - 1 : after[j] = before[j]
        BY <1>14, <4>1
      <4> QED
        BY <4>1, <4>2, AmongSame
    <3>3. CASE i = n + 1
      <4>1. after[i] = p /\ CountsUp(w.op) /\ i - 1 = n
        BY <1>8, <1>14, <3>1, <3>3
      <4> QED
        BY <1>8, <2>2, <2>3, <3>2, <4>1
    <3>4. CASE i # n + 1
      <4>1. after[i] = before[i] /\ i \in 1 .. n
        BY <1>14, <3>1, <3>4
      <4>2. i \in EncryptedAmong(before, 1 .. n)
        BY <3>1, <4>1 DEF EncryptedAmong
      <4> QED
        BY <1>0, <1>7, <1>12, <1>14, <3>2, <4>1, <4>2 DEF Counted
    <3> QED
      BY <3>3, <3>4
  <2> QED
    BY <1>13, <1>14, <2>1, <2>4, <2>5 DEF Counted
<1> QED
  BY <1>16, <1>17, <1>18, <1>19 DEF SendInv

(***************************************************************************)
(* Writing a part of the frame that is under way.                          *)
(***************************************************************************)
\* h is a, of length n, and then b, of length k.
Joins(S, h, a, n, b, k) ==
    /\ h \in Seq(S) /\ Len(h) = n + k
    /\ \A i \in 1 .. n : h[i] = a[i]
    /\ \A i \in 1 .. k : h[n + i] = b[i]

\* Two sequences, one after the other.
LEMMA TwoJoined ==
    ASSUME NEW S, NEW a \in Seq(S), NEW b \in Seq(S), NEW n \in Nat, NEW k \in Nat,
           n = Len(a), k = Len(b), NEW h, h = a \o b
    PROVE  Joins(S, h, a, n, b, k)
<1>1. h \in Seq(S) /\ Len(h) = n + k
  OBVIOUS
<1>2. (\A i \in 1 .. n : h[i] = a[i]) /\ (\A i \in 1 .. k : h[n + i] = b[i])
  OBVIOUS
<1> QED
  BY <1>1, <1>2 DEF Joins

\* The front and the end of a sequence.
LEMMA FrontCells ==
    ASSUME NEW S, NEW s \in Seq(S), NEW k \in Nat, k <= Len(s), NEW t, t = SubSeq(s, 1, k)
    PROVE  t \in Seq(S) /\ Len(t) = k /\ \A i \in 1 .. k : t[i] = s[i]
<1>1. \A i \in 1 .. k : i \in 1 .. Len(s)
  OBVIOUS
<1>2. \A i \in 1 .. k : s[i] \in S
  BY <1>1, ElementOfSeq
<1>3. /\ t \in Seq(S) /\ Len(t) = IF 1 <= k THEN k - 1 + 1 ELSE 0
      /\ \A i \in 1 .. k - 1 + 1 : t[i] = s[1 + i - 1]
  BY <1>2, SubSeqProperties
<1>4. k - 1 + 1 = k /\ \A i \in 1 .. k : 1 + i - 1 = i
  OBVIOUS
<1> QED
  BY <1>3, <1>4

LEMMA TailCells ==
    ASSUME NEW S, NEW s \in Seq(S), NEW k \in Nat, NEW j \in Nat, NEW l \in Nat,
           l = Len(s), l = k + j, NEW t, t = SubSeq(s, k + 1, l)
    PROVE  t \in Seq(S) /\ Len(t) = j /\ \A i \in 1 .. j : t[i] = s[k + i]
<1>1. PICK q \in Nat : q = k + 1
  OBVIOUS
<1>2. t = SubSeq(s, q, l)
  BY <1>1
<1>3. t \in Seq(S)
  <2>0. \A i \in 1 .. l : s[i] \in S
    <3>1. \A i \in 1 .. Len(s) : s[i] \in S
      BY ElementOfSeq
    <3> QED
      BY <3>1
  <2>1. \A i \in q .. l : i \in 1 .. l
    BY <1>1
  <2>2. \A i \in q .. l : s[i] \in S
    BY <2>0, <2>1
  <2> QED
    BY <1>1, <1>2, <2>2, SubSeqProperties
<1>4. Len(t) = IF q <= l THEN l - q + 1 ELSE 0
  BY <1>1, <1>2
<1>5. \A i \in 1 .. l - q + 1 : t[i] = s[q + i - 1]
  BY <1>1, <1>2
<1>6. Len(t) = j
  BY <1>1, <1>4
<1>7. \A i \in 1 .. j : i \in 1 .. l - q + 1 /\ q + i - 1 = k + i
  BY <1>1
<1>8. \A i \in 1 .. j : t[i] = s[k + i]
  BY <1>5, <1>7
<1> QED
  BY <1>3, <1>6, <1>8

CutAt(f, l, n, k, rest) ==
    /\ Len(rest) = l - n
    /\ SubSeq(f, 1, n) \o SubSeq(rest, 1, k) = SubSeq(f, 1, n + k)
    /\ SubSeq(rest, k + 1, l - n) = SubSeq(f, n + k + 1, l)

\* Taking k more cells of a frame of which n have been written.
LEMMA FrameCut ==
    ASSUME NEW S, NEW f \in Seq(S), NEW l \in Nat, l = Len(f), NEW n \in Nat, n < l,
           NEW k \in Nat, n + k <= l, NEW rest, rest = SubSeq(f, n + 1, l)
    PROVE  CutAt(f, l, n, k, rest)
<1>1. PICK m \in Nat : m = l - n
  <2>1. l - n \in Nat
    OBVIOUS
  <2> QED
    BY <2>1
<1>2. rest \in Seq(S) /\ Len(rest) = m /\ \A i \in 1 .. m : rest[i] = f[n + i]
  BY <1>1
<1>3. k <= m
  BY <1>1
<1>4. SubSeq(f, 1, n) \o SubSeq(rest, 1, k) = SubSeq(f, 1, n + k)
  <2>1. PICK a, b : a = SubSeq(f, 1, n) /\ b = SubSeq(rest, 1, k)
    OBVIOUS
  <2>2. /\ a \in Seq(S) /\ Len(a) = n /\ \A i \in 1 .. n : a[i] = f[i]
        /\ b \in Seq(S) /\ Len(b) = k /\ \A i \in 1 .. k : b[i] = rest[i]
    <3>1. n <= Len(f) /\ k <= Len(rest) /\ rest \in Seq(S)
      BY <1>2, <1>3
    <3>2. a \in Seq(S) /\ Len(a) = n /\ \A i \in 1 .. n : a[i] = f[i]
      BY <2>1, <3>1, FrontCells
    <3>3. b \in Seq(S) /\ Len(b) = k /\ \A i \in 1 .. k : b[i] = rest[i]
      BY <2>1, <3>1, FrontCells
    <3> QED
      BY <3>2, <3>3
  <2>3. PICK t : t = SubSeq(f, 1, n + k)
    OBVIOUS
  <2>4. t \in Seq(S) /\ Len(t) = n + k /\ \A i \in 1 .. n + k : t[i] = f[i]
    <3>1. PICK m1 \in Nat : m1 = n + k /\ m1 <= Len(f)
      <4>1. n + k \in Nat /\ n + k <= Len(f)
        OBVIOUS
      <4> QED
        BY <4>1
    <3>2. t \in Seq(S) /\ Len(t) = m1 /\ \A i \in 1 .. m1 : t[i] = f[i]
      BY <2>3, <3>1, FrontCells
    <3> QED
      BY <3>1, <3>2
  <2>5. PICK h : h = a \o b
    OBVIOUS
  <2>6. /\ h \in Seq(S) /\ Len(h) = n + k
        /\ \A i \in 1 .. n : h[i] = a[i]
        /\ \A i \in 1 .. k : h[n + i] = b[i]
    <3>1. Joins(S, h, a, n, b, k)
      BY <2>2, <2>5, TwoJoined
    <3> QED
      BY <3>1 DEF Joins
  <2>7. \A i \in 1 .. n + k : h[i] = t[i]
    <3>1. ASSUME NEW i \in 1 .. n + k PROVE h[i] = t[i]
      <4>1. CASE i <= n
        BY <2>2, <2>4, <2>6, <4>1
      <4>2. CASE i > n
        <5>1. PICK j \in 1 .. k : i = n + j
          <6>1. i - n \in 1 .. k /\ i = n + (i - n)
            BY <4>2
          <6> QED
            BY <6>1
        <5>2. b[j] = f[n + j] /\ h[n + j] = b[j]
          <6>1. j \in 1 .. m
            BY <1>3
          <6> QED
            BY <1>2, <2>2, <2>6, <6>1
        <5> QED
          BY <2>4, <5>1, <5>2
      <4> QED
        BY <4>1, <4>2
    <3> QED
      BY <3>1
  <2>8. h = t
    <3>1. /\ h \in Seq(S) /\ t \in Seq(S) /\ Len(h) = Len(t)
          /\ \A i \in 1 .. Len(h) : h[i] = t[i]
      BY <2>4, <2>6, <2>7
    <3> QED
      BY <3>1, SameCells
  <2> QED
    BY <2>1, <2>3, <2>5, <2>8
<1>5. SubSeq(rest, k + 1, l - n) = SubSeq(f, n + k + 1, l)
  <2>1. PICK a, b : a = SubSeq(rest, k + 1, m) /\ b = SubSeq(f, n + k + 1, l)
    OBVIOUS
  <2>2. PICK j \in Nat : j = m - k /\ l = n + k + j
    BY <1>1, <1>3
  <2>3. /\ a \in Seq(S) /\ Len(a) = j /\ \A i \in 1 .. j : a[i] = rest[k + i]
        /\ b \in Seq(S) /\ Len(b) = j /\ \A i \in 1 .. j : b[i] = f[n + k + i]
    <3>1. a \in Seq(S) /\ Len(a) = j /\ \A i \in 1 .. j : a[i] = rest[k + i]
      <4>1. m = k + j
        BY <1>1, <2>2
      <4> QED
        BY <1>2, <2>1, <4>1, TailCells
    <3>2. b \in Seq(S) /\ Len(b) = j /\ \A i \in 1 .. j : b[i] = f[n + k + i]
      <4>1. PICK h \in Nat : h = n + k
        OBVIOUS
      <4>2. l = h + j /\ b = SubSeq(f, h + 1, l)
        BY <2>1, <2>2, <4>1
      <4>3. b \in Seq(S) /\ Len(b) = j /\ \A i \in 1 .. j : b[i] = f[h + i]
        <5>1. Len(f) = h + j
          BY <4>2
        <5> QED
          BY <4>2, <5>1, TailCells
      <4> QED
        BY <4>1, <4>3
    <3> QED
      BY <3>1, <3>2
  <2>4. \A i \in 1 .. j : a[i] = b[i]
    <3>1. ASSUME NEW i \in 1 .. j PROVE rest[k + i] = f[n + k + i]
      <4>1. PICK h \in 1 .. m : h = k + i
        BY <2>2
      <4>2. rest[h] = f[n + h] /\ n + h = n + k + i
        BY <1>2, <4>1
      <4> QED
        BY <4>1, <4>2
    <3> QED
      BY <2>3, <3>1
  <2> QED
    BY <1>1, <2>1, <2>3, <2>4, SameCells
<1> QED
  BY <1>1, <1>2, <1>4, <1>5 DEF CutAt

\* Going on after a write leaves sound things to do.
LEMMA OnwardsSound ==
    ASSUME SendInv, NEW c \in Connection, NEW d, todo[c] # <<>>, Onwards(c, d) \/ Do(c, <<>>)
    PROVE  \A e \in Connection : SoundItems(todo'[e])
<1>1. PICK items : items = todo[c] /\ SoundItems(items) /\ items # <<>>
  BY SendTypes
<1>2. Now(c) = Head(items) /\ SoundItem(Now(c)) /\ SoundItems(Tail(items))
  BY <1>1, SoundRest DEF Now
<1>3. \E new : SoundItems(new) /\ todo' = [todo EXCEPT ![c] = new]
  <2>1. CASE Do(c, <<>>)
    BY <2>1, SoundNone DEF Do
  <2>2. CASE Onwards(c, d) /\ Now(c).op # "tell"
    BY <1>1, <1>2, <2>2 DEF Onwards, Then
  <2>3. CASE Onwards(c, d) /\ Now(c).op = "tell"
    <3>1. PICK w : w = Tell(Now(c).to \ {d}, Now(c).what)
      OBVIOUS
    <3>2. Now(c).to \ {d} \in SUBSET Connection
      BY <1>2, <2>3 DEF SoundItem
    <3>3. SoundItems(<<w>> \o Tail(items))
      BY <1>2, <3>1, <3>2, SoundOthers, SoundBefore
    <3> QED
      BY <1>1, <2>3, <3>1, <3>3 DEF Onwards, Instead
  <2> QED
    BY <2>1, <2>2, <2>3
<1> QED
  BY <1>3, TodoSound

\* Whoever sends holds the mutex of the connection it sends to.
LEMMA HoldsMutex ==
    ASSUME SendInv, NEW c \in Connection, writing[c] # NotWriting
    PROVE  /\ writing[c].to \in Connection /\ lock[writing[c].to] = c /\ todo[c] # <<>>
           /\ writing[c] = [to |-> writing[c].to, rest |-> writing[c].rest]
BY DEF SendInv, Typed, Exclusive, WireInv

(***************************************************************************)
(* The mutex of d is given back, d having got the frame or being gone.     *)
(***************************************************************************)
LEMMA UnlockSend ==
    ASSUME SendInv, WireInv', NEW c \in Connection, writing[c] # NotWriting,
           NEW d \in Connection, d = writing[c].to,
           writing' = [writing EXCEPT ![c] = NotWriting], Unlock(d),
           UNCHANGED <<inbox, pending, frames, count, sent>>,
           \A e \in Connection : status'[e] \in {"open", "closing"} => status[e] \in {"open", "closing"},
           OfConnections(got)', OfConnections(part)',
           \A e \in Connection : e # d => got'[e] = got[e] /\ part'[e] = part[e],
           got'[d] = got[d] \/ got'[d] = sent[d],
           status'[d] \in {"open", "closing"} => got'[d] = sent[d] /\ part'[d] = <<>>,
           \A e \in Connection : SoundItems(todo'[e])
    PROVE  SendInv'
<1>1. /\ WireInv /\ Typed /\ Exclusive /\ Delivered /\ Counted
      /\ inbox' = inbox /\ pending' = pending /\ frames' = frames /\ count' = count /\ sent' = sent
      /\ lock \in [Connection -> Connection \cup {Nobody}] /\ OfConnections(writing)
  BY DEF SendInv, Typed, WireInv
<1>2. /\ writing'[c] = NotWriting /\ \A e \in Connection : e # c => writing'[e] = writing[e]
      /\ lock' = [lock EXCEPT ![d] = Nobody]
      /\ lock'[d] = Nobody /\ \A e \in Connection : e # d => lock'[e] = lock[e]
  BY <1>1 DEF Unlock, OfConnections
<1>3. Typed'
  <2>1. /\ (lock \in [Connection -> Connection \cup {Nobody}])'
        /\ (inbox \in [Connection -> Seq(Nat)])' /\ (pending \in [Connection -> Seq(Nat)])'
        /\ (frames \in [Connection -> Seq({q \in Seq(Nat) : Len(q) <= MaxFrame})])'
        /\ OfConnections(count)' /\ OfConnections(sent)'
    BY <1>1, <1>2 DEF Typed, OfConnections
  <2>2. ASSUME NEW e \in Connection
        PROVE  /\ (writing[e] # NotWriting)' =>
                     writing'[e].to \in Connection /\ writing'[e] = [to |-> writing'[e].to, rest |-> writing'[e].rest]
               /\ sent'[e] \in Seq(Range(sent'[e])) /\ got'[e] \in Seq(Range(got'[e]))
    <3>1. /\ sent[e] \in Seq(Range(sent[e])) /\ sent[d] \in Seq(Range(sent[d]))
          /\ got[e] \in Seq(Range(got[e])) /\ got[d] \in Seq(Range(got[d]))
      BY <1>1 DEF Typed
    <3>2. sent'[e] \in Seq(Range(sent'[e]))
      BY <1>1, <3>1
    <3>3. got'[e] = got[e] \/ got'[e] = sent[e]
      OBVIOUS
    <3>4. got'[e] \in Seq(Range(got'[e]))
      BY <3>1, <3>3
    <3>5. (writing[e] # NotWriting)' =>
                     writing'[e].to \in Connection /\ writing'[e] = [to |-> writing'[e].to, rest |-> writing'[e].rest]
      BY <1>1, <1>2 DEF Typed
    <3> QED
      BY <3>2, <3>4, <3>5
  <2> QED
    BY <2>1, <2>2 DEF Typed
<1>4. Exclusive'
  <2>1. \A x, y \in Connection : lock[y] = x <=> writing[x] # NotWriting /\ writing[x].to = y
    BY <1>1 DEF Exclusive
  <2>2. ASSUME NEW a \in Connection, NEW e \in Connection
        PROVE  lock'[e] = a <=> writing'[a] # NotWriting /\ writing'[a].to = e
    <3>1. CASE a = c
      BY <1>2, <2>1, <3>1, WireAssumption
    <3>2. CASE a # c
      BY <1>2, <2>1, <3>2, WireAssumption
    <3> QED
      BY <3>1, <3>2
  <2> QED
    BY <2>2 DEF Exclusive
<1>5. Delivered'
  <2>1. ASSUME NEW e \in Connection PROVE Reached(e)'
    BY <1>1, <2>1 DEF Delivered, Reached
  <2>2. ASSUME NEW e \in Connection, e # d, status'[e] \in {"open", "closing"}
        PROVE  /\ lock'[e] = Nobody => got'[e] = sent'[e] /\ part'[e] = <<>>
               /\ \A a \in Connection : lock'[e] = a => UnderWay(e, writing[a].rest)'
    <3>1. /\ lock[e] = Nobody => got[e] = sent[e] /\ part[e] = <<>>
          /\ \A a \in Connection : lock[e] = a => UnderWay(e, writing[a].rest)
      BY <1>1, <2>2 DEF Delivered
    <3>2. ASSUME NEW a \in Connection, lock[e] = a PROVE UnderWay(e, writing[a].rest)'
      <4>1. a # c
        BY <1>1, <2>2, <3>2 DEF Exclusive
      <4>2. writing'[a] = writing[a] /\ sent'[e] = sent[e] /\ got'[e] = got[e] /\ part'[e] = part[e]
        BY <1>1, <1>2, <2>2, <4>1
      <4>3. UnderWay(e, writing[a].rest)
        BY <3>1, <3>2
      <4> QED
        BY <4>2, <4>3 DEF UnderWay
    <3> QED
      BY <1>1, <1>2, <2>2, <3>1, <3>2
  <2>3. d \notin {Nobody} /\ \A a \in Connection : lock'[d] # a
    BY <1>2, WireAssumption
  <2> QED
    BY <1>1, <1>2, <2>1, <2>2, <2>3 DEF Delivered
<1>6. Counted'
  BY <1>1 DEF Counted
<1> QED
  BY <1>3, <1>4, <1>5, <1>6 DEF SendInv

\* A write that fails.
LEMMA WriteFailsSend ==
    ASSUME SendInv, WireInv', NEW c \in Connection, WriteFails(c) PROVE SendInv'
<1>1. PICK d : d = writing[c].to
  OBVIOUS
<1>2. /\ writing[c] # NotWriting /\ status[d] \in {"gone", "lost", "closed"}
      /\ writing' = [writing EXCEPT ![c] = NotWriting] /\ Unlock(d)
      /\ Onwards(c, d) \/ Do(c, <<>>)
      /\ Breaks(c) \/ UNCHANGED status
      /\ inbox' = inbox /\ pending' = pending /\ frames' = frames /\ count' = count /\ sent' = sent
      /\ got' = got /\ part' = part
  BY <1>1 DEF WriteFails, Failed, reading, crypto, client
<1>3. d \in Connection /\ todo[c] # <<>>
  BY <1>1, <1>2, HoldsMutex
<1>4. \A e \in Connection : status'[e] \in {"open", "closing"} => status[e] \in {"open", "closing"}
  BY <1>2, SendTypes DEF Breaks
<1>5. OfConnections(got)' /\ OfConnections(part)'
  BY <1>2 DEF SendInv, Typed, OfConnections
<1>6. \A e \in Connection : SoundItems(todo'[e])
  BY <1>2, <1>3, OnwardsSound
<1>7. status'[d] \notin {"open", "closing"}
  BY <1>2, <1>3, <1>4
<1> QED
  BY <1>1, <1>2, <1>3, <1>4, <1>5, <1>6, <1>7, UnlockSend

(***************************************************************************)
(* More of the frame for d is written, and some is left.                   *)
(***************************************************************************)
LEMMA GoOnSend ==
    ASSUME SendInv, WireInv', NEW c \in Connection, writing[c] # NotWriting,
           NEW d \in Connection, d = writing[c].to,
           NEW now, now # NotWriting, now.to = d, now = [to |-> now.to, rest |-> now.rest],
           writing' = [writing EXCEPT ![c] = now],
           UNCHANGED <<status, inbox, pending, frames, todo, lock, count, sent, got>>,
           OfConnections(part)', \A e \in Connection : e # d => part'[e] = part[e],
           UnderWay(d, now.rest)'
    PROVE  SendInv'
<1>1. /\ WireInv /\ Typed /\ Exclusive /\ Delivered /\ Counted
      /\ status' = status /\ inbox' = inbox /\ pending' = pending /\ frames' = frames /\ todo' = todo
      /\ lock' = lock /\ count' = count /\ sent' = sent /\ got' = got
      /\ OfConnections(writing)
  BY DEF SendInv, WireInv
<1>2. writing'[c] = now /\ \A e \in Connection : e # c => writing'[e] = writing[e]
  BY <1>1 DEF OfConnections
<1>3. Typed'
  <2>1. /\ (lock \in [Connection -> Connection \cup {Nobody}])'
        /\ (inbox \in [Connection -> Seq(Nat)])' /\ (pending \in [Connection -> Seq(Nat)])'
        /\ (frames \in [Connection -> Seq({q \in Seq(Nat) : Len(q) <= MaxFrame})])'
        /\ OfConnections(count)' /\ OfConnections(sent)' /\ OfConnections(got)'
    BY <1>1 DEF Typed, OfConnections
  <2>2. ASSUME NEW e \in Connection
        PROVE  /\ SoundItems(todo[e])'
               /\ sent'[e] \in Seq(Range(sent'[e])) /\ got'[e] \in Seq(Range(got'[e]))
    BY <1>1 DEF Typed
  <2>3. ASSUME NEW e \in Connection
        PROVE  (writing[e] # NotWriting)' =>
                  writing'[e].to \in Connection /\ writing'[e] = [to |-> writing'[e].to, rest |-> writing'[e].rest]
    <3>1. CASE e = c
      BY <1>2, <3>1
    <3>2. CASE e # c
      BY <1>1, <1>2, <3>2 DEF Typed
    <3> QED
      BY <3>1, <3>2
  <2> QED
    BY <2>1, <2>2, <2>3 DEF Typed
<1>4. Exclusive'
  <2>1. \A x, y \in Connection : lock[y] = x <=> writing[x] # NotWriting /\ writing[x].to = y
    BY <1>1 DEF Exclusive
  <2>2. \A x \in Connection : /\ writing'[x] # NotWriting <=> writing[x] # NotWriting
                              /\ writing'[x].to = writing[x].to
    BY <1>2
  <2> QED
    BY <1>1, <2>1, <2>2 DEF Exclusive
<1>5. Delivered'
  <2>1. ASSUME NEW e \in Connection PROVE Reached(e)'
    BY <1>1 DEF Delivered, Reached
  <2>2. lock[d] = c
    BY HoldsMutex
  <2>3. ASSUME NEW e \in Connection, status'[e] \in {"open", "closing"}
        PROVE  /\ lock'[e] = Nobody => got'[e] = sent'[e] /\ part'[e] = <<>>
               /\ \A a \in Connection : lock'[e] = a => UnderWay(e, writing[a].rest)'
    <3>1. /\ lock[e] = Nobody => got[e] = sent[e] /\ part[e] = <<>>
          /\ \A a \in Connection : lock[e] = a => UnderWay(e, writing[a].rest)
      BY <1>1, <2>3 DEF Delivered
    <3>2. CASE e = d
      BY <1>1, <1>2, <2>2, <3>2, WireAssumption
    <3>3. CASE e # d
      <4>1. ASSUME NEW a \in Connection, lock[e] = a PROVE UnderWay(e, writing[a].rest)'
        <5>1. a # c
          BY <1>1, <3>3, <4>1 DEF Exclusive
        <5>2. writing'[a] = writing[a] /\ part'[e] = part[e]
          BY <1>2, <3>3, <5>1
        <5>3. UnderWay(e, writing[a].rest)
          BY <3>1, <4>1
        <5> QED
          BY <1>1, <5>2, <5>3 DEF UnderWay
      <4> QED
        BY <1>1, <3>1, <3>3, <4>1
    <3> QED
      BY <3>2, <3>3
  <2> QED
    BY <2>1, <2>3 DEF Delivered
<1>6. Counted'
  BY <1>1 DEF Counted
<1> QED
  BY <1>3, <1>4, <1>5, <1>6 DEF SendInv

\* The rest of a frame takes the place of what was left of it.
LEMMA RestReplaced ==
    \A to, rest, tail : [[to |-> to, rest |-> rest] EXCEPT !.rest = tail] = [to |-> to, rest |-> tail]
OBVIOUS

\* Writing.
LEMMA WriteSend == ASSUME SendInv, WireInv', NEW c \in Connection, Write(c) PROVE SendInv'
<1>1. writing[c] # NotWriting
  BY DEF Write
<1>2. PICK d, rest : d = writing[c].to /\ rest = writing[c].rest
  OBVIOUS
<1>3. /\ d \in Connection /\ lock[d] = c /\ todo[c] # <<>>
      /\ writing[c] = [to |-> d, rest |-> rest]
  BY <1>1, <1>2, HoldsMutex
<1>4. PICK amount \in Amounts(Len(rest)) :
        /\ Written(c, amount) /\ Receive(d, SubSeq(rest, 1, amount))
  BY <1>2 DEF Write
<1>5. /\ status[d] \in {"open", "closing"}
      /\ UNCHANGED <<status, inbox, pending, frames, count, sent>>
  BY <1>2, <1>4 DEF Written, reading, crypto
<1>6. UnderWay(d, rest)
  BY <1>2, <1>3, <1>5 DEF SendInv, Delivered
<1>7. PICK payload : /\ payload \in Range(sent[d]) /\ IsPayload(payload) /\ sent[d] = Append(got[d], payload)
                     /\ LET frame == EncodeFrame(Reliable, payload)
                        IN \E n \in 0 .. Len(frame) - 1 :
                              part[d] = SubSeq(frame, 1, n) /\ rest = SubSeq(frame, n + 1, Len(frame))
  BY <1>6 DEF UnderWay
<1>8. PICK S, f : f \in Seq(S) /\ f = EncodeFrame(Reliable, payload)
  <2>1. PICK f, e, k, m : f \in Seq(Nat \cup Range(payload)) /\ FrameShape(f, payload, e, k, m)
    BY <1>7, FrameShaped
  <2> QED
    BY <2>1 DEF FrameShape
<1>9. PICK l \in Nat : l = Len(f)
  BY <1>8
<1>10. PICK n : n \in 0 .. l - 1 /\ part[d] = SubSeq(f, 1, n) /\ rest = SubSeq(f, n + 1, l)
  BY <1>7, <1>8, <1>9
<1>11. n \in Nat /\ n < l /\ l - n \in Nat
  BY <1>10
<1>12. Len(rest) = l - n
  <2>1. 0 \in Nat /\ n + 0 <= l
    BY <1>11
  <2> QED
    BY <1>8, <1>9, <1>10, <1>11, <2>1, FrameCut DEF CutAt
<1>13. amount \in Nat /\ n + amount <= l
  <2>1. PICK m \in Nat : m = Len(rest) /\ n + m = l
    BY <1>11, <1>12
  <2>2. amount \in Amounts(m)
    BY <1>4, <2>1
  <2>3. amount \in Nat /\ amount <= m
    BY <2>2, WireAssumption DEF Amounts
  <2> QED
    BY <1>11, <2>1, <2>3
<1>14. PICK buf : /\ buf = SubSeq(f, 1, n + amount)
                  /\ buf = part[d] \o SubSeq(rest, 1, amount)
                  /\ SubSeq(rest, amount + 1, Len(rest)) = SubSeq(f, n + amount + 1, l)
  <2>1. PICK m \in Nat : m = Len(rest) /\ m = l - n
    BY <1>11, <1>12
  <2>2. CutAt(f, l, n, amount, rest)
    BY <1>8, <1>9, <1>10, <1>11, <1>13, FrameCut
  <2> QED
    BY <1>10, <2>1, <2>2 DEF CutAt
<1>15. PICK p : /\ p = ParseFrames(buf)
                /\ got' = [got EXCEPT ![d] = got[d] \o p.frames]
                /\ part' = [part EXCEPT ![d] = p.remaining]
  BY <1>4, <1>14 DEF Receive
<1>16. OfConnections(got) /\ OfConnections(part) /\ OfConnections(writing) /\ got[d] \in Seq(Range(got[d]))
  BY <1>3 DEF SendInv, Typed, WireInv
<1>17. /\ \A e \in Connection : e # d => got'[e] = got[e] /\ part'[e] = part[e]
       /\ got'[d] = got[d] \o p.frames /\ part'[d] = p.remaining
       /\ OfConnections(got)' /\ OfConnections(part)'
  BY <1>3, <1>15, <1>16 DEF OfConnections
<1>18. CASE n + amount < l
  <2>1. amount < Len(rest)
    BY <1>11, <1>12, <1>13, <1>18
  <2>2. /\ writing' = [writing EXCEPT ![c].rest = SubSeq(rest, amount + 1, Len(rest))]
        /\ lock' = lock /\ todo' = todo
    BY <1>2, <1>4, <2>1 DEF Written
  <2>3. PICK now : now = [to |-> d, rest |-> SubSeq(rest, amount + 1, Len(rest))]
    OBVIOUS
  <2>4. writing' = [writing EXCEPT ![c] = now]
    <3>1. PICK r, tail : r = writing[c] /\ tail = SubSeq(rest, amount + 1, Len(rest))
      OBVIOUS
    <3>2. [r EXCEPT !.rest = tail] = now
      <4>1. r = [to |-> d, rest |-> rest]
        BY <1>3, <3>1
      <4>2. [[to |-> d, rest |-> rest] EXCEPT !.rest = tail] = now
        BY <2>3, <3>1, RestReplaced
      <4> QED
        BY <4>1, <4>2, Zenon
    <3>3. writing' = [writing EXCEPT ![c] = [r EXCEPT !.rest = tail]]
      BY <2>2, <3>1
    <3> QED
      BY <3>2, <3>3
  <2>5. now # NotWriting /\ now.to = d /\ now = [to |-> now.to, rest |-> now.rest]
        /\ now.rest = SubSeq(f, n + amount + 1, l)
    BY <1>3, <1>14, <2>3, NothingIsNobody
  <2>6. n + amount \in 0 .. l - 1
    BY <1>11, <1>13, <1>18
  <2>7. p.frames = <<>> /\ p.remaining = buf
    <3>1. /\ n + amount \in 0 .. Len(EncodeFrame(Reliable, payload)) - 1
          /\ buf = SubSeq(EncodeFrame(Reliable, payload), 1, n + amount)
      BY <1>8, <1>9, <1>14, <2>6
    <3>2. ParseFrames(buf).frames = <<>> /\ ParseFrames(buf).remaining = buf
      BY <1>7, <3>1, PartKept
    <3> QED
      BY <1>15, <3>2
  <2>8. got' = got
    <3>1. got[d] \o <<>> = got[d]
      BY <1>16
    <3> QED
      BY <1>15, <1>16, <2>7, <3>1 DEF OfConnections
  <2>9. part'[d] = SubSeq(f, 1, n + amount) /\ sent'[d] = sent[d]
    BY <1>5, <1>14, <1>17, <2>7
  <2>10. UnderWay(d, now.rest)'
    BY <1>7, <1>8, <1>9, <2>5, <2>6, <2>8, <2>9 DEF UnderWay
  <2>11. UNCHANGED <<status, inbox, pending, frames, todo, lock, count, sent, got>>
    BY <1>5, <2>2, <2>8
  <2> QED
    BY <1>1, <1>2, <1>3, <1>17, <2>4, <2>5, <2>10, <2>11, GoOnSend
<1>19. CASE n + amount = l
  <2>1. ~ (amount < Len(rest))
    BY <1>11, <1>12, <1>13, <1>19
  <2>2. writing' = [writing EXCEPT ![c] = NotWriting] /\ Unlock(d) /\ Onwards(c, d)
    BY <1>2, <1>4, <2>1 DEF Written
  <2>3. buf = f
    <3>1. SubSeq(f, 1, l) = f
      BY <1>8, <1>9
    <3> QED
      BY <1>14, <1>19, <3>1
  <2>4. p.frames = <<payload>> /\ p.remaining = <<>>
    BY <1>7, <1>8, <1>15, <2>3, WholeRead
  <2>5. got'[d] = sent[d]
    <3>1. PICK g, q : g = got[d] /\ q = payload
      OBVIOUS
    <3>2. g \in Seq(Range(g))
      BY <1>16, <3>1
    <3>3. g \o <<q>> = Append(g, q)
      BY <3>2
    <3> QED
      BY <1>7, <1>17, <2>4, <3>1, <3>3
  <2>6. sent' = sent /\ part'[d] = <<>> /\ got'[d] = sent'[d]
    BY <1>5, <1>17, <2>4, <2>5
  <2>7. \A e \in Connection : SoundItems(todo'[e])
    BY <1>3, <2>2, OnwardsSound
  <2> QED
    BY <1>1, <1>2, <1>3, <1>5, <1>17, <2>2, <2>5, <2>6, <2>7, UnlockSend
<1> QED
  BY <1>9, <1>11, <1>13, <1>18, <1>19

(***************************************************************************)
(* At the start there is nothing to deliver.                               *)
(***************************************************************************)
LEMMA SendInit == ASSUME Init PROVE SendInv
<1>1. WireInv
  BY InitInv
<1>2. Typed
  <2>1. inbox \in [Connection -> Seq(Nat)]
    BY ScriptsAssumption DEF Init
  <2>2. /\ lock \in [Connection -> Connection \cup {Nobody}]
        /\ pending \in [Connection -> Seq(Nat)]
        /\ frames \in [Connection -> Seq({p \in Seq(Nat) : Len(p) <= MaxFrame})]
        /\ OfConnections(count) /\ OfConnections(got) /\ OfConnections(part) /\ OfConnections(sent)
    BY DEF Init, OfConnections
  <2>3. ASSUME NEW c \in Connection
        PROVE  /\ SoundItems(todo[c]) /\ writing[c] = NotWriting
               /\ sent[c] \in Seq(Range(sent[c])) /\ got[c] \in Seq(Range(got[c]))
    <3>1. todo[c] = <<>> /\ writing[c] = NotWriting /\ sent[c] = <<>> /\ got[c] = <<>>
      BY DEF Init
    <3> QED
      BY <3>1, SoundNone, ShortBody
  <2> QED
    BY <2>1, <2>2, <2>3 DEF Typed
<1>3. Exclusive
  BY WireAssumption DEF Init, Exclusive
<1>4. Delivered
  <2>1. ASSUME NEW d \in Connection
        PROVE  got[d] = <<>> /\ sent[d] = <<>> /\ part[d] = <<>> /\ lock[d] = Nobody
    BY DEF Init
  <2>2. ASSUME NEW d \in Connection PROVE Reached(d)
    <3>1. got[d] = sent[d]
      BY <2>1
    <3> QED
      BY <3>1 DEF Reached
  <2> QED
    BY <2>1, <2>2, WireAssumption DEF Delivered
<1>5. Counted
  <2>1. ASSUME NEW d \in Connection
        PROVE  count[d] = 0 /\ EncryptedAmong(sent[d], DOMAIN sent[d]) = {}
    <3>1. count[d] = 0 /\ sent[d] = <<>>
      BY DEF Init
    <3>2. DOMAIN sent[d] = {}
      BY <3>1
    <3> QED
      BY <3>1, <3>2 DEF EncryptedAmong
  <2>2. Cardinality({}) = 0 /\ 0 % Counts = 0
    BY FS_EmptySet, WireAssumption
  <2> QED
    BY <2>1, <2>2 DEF Counted
<1> QED
  BY <1>1, <1>2, <1>3, <1>4, <1>5 DEF SendInv

\* Every step of the system.
LEMMA SendNext == SendInv /\ [Next]_vars => SendInv'
<1> SUFFICES ASSUME SendInv, [Next]_vars PROVE SendInv'
  OBVIOUS
<1>1. WireInv'
  BY NextInv DEF SendInv
<1>2. CASE Next
  <2>1. PICK c \in Connection : Serve(c) \/ Drop(c)
    BY <1>2 DEF Next
  <2>2. CASE Handle(c)
    BY <1>1, <2>2, HandshakeSend, RefusedSend, LoginSend, AnsweredSend DEF Handle
  <2>3. CASE Work(c)
    BY <1>1, <2>3, BindSend, LookUpSend, BeginSendSend, WriteFailsSend DEF Work
  <2>4. CASE Read(c)
    BY <1>1, <2>4, ReadSend
  <2>5. CASE Write(c)
    BY <1>1, <2>5, WriteSend
  <2>6. CASE Release(c)
    BY <1>1, <2>6, ReleaseSend
  <2>7. CASE Drop(c)
    BY <1>1, <2>7, DropSend
  <2> QED
    BY <2>1, <2>2, <2>3, <2>4, <2>5, <2>6, <2>7 DEF Serve
<1>3. CASE UNCHANGED vars
  <2>1. /\ inbox' = inbox /\ pending' = pending /\ frames' = frames /\ todo' = todo
        /\ status' = status /\ UNCHANGED <<lock, writing, count, client, sent>>
    BY <1>3 DEF vars, reading, crypto
  <2> QED
    BY <1>1, <2>1, SendTypes, QuietSend
<1> QED
  BY <1>2, <1>3

\* Whatever the clients send, however it is cut up and whoever goes away, every
\* connection's mutex is held by whoever writes to it, its client has whole
\* frames in order, and its counter counts (session.go, SendPlain and SendEncrypted).
THEOREM SendInvariant == Spec => []SendInv
<1>1. Init => SendInv
  BY SendInit
<1>2. SendInv /\ [Next]_vars => SendInv'
  BY SendNext
<1> QED
  BY <1>1, <1>2, PTL DEF Spec

\* What a client has received reads as the payloads given to it, each whole and
\* in the order in which sendMu was taken (session.go, SendPlain).
THEOREM FramesAlwaysWhole == Spec => []FramesWhole
<1>1. SendInv => FramesWhole
  <2> SUFFICES ASSUME SendInv, NEW c \in Connection
               PROVE  /\ IsPrefix(got[c], sent[c])
                      /\ lock[c] = Nobody /\ status[c] = "open" => got[c] = sent[c] /\ part[c] = <<>>
    BY DEF FramesWhole
  <2>1. Reached(c) /\ (lock[c] = Nobody /\ status[c] = "open" => got[c] = sent[c] /\ part[c] = <<>>)
    BY DEF SendInv, Delivered
  <2>2. PICK g, s : g = got[c] /\ s = sent[c]
    OBVIOUS
  <2>3. PICK G, S : g \in Seq(G) /\ s \in Seq(S)
    BY <2>2 DEF SendInv, Typed
  <2>4. PICK n \in Nat, m \in Nat : n = Len(g) /\ m = Len(s)
    <3>1. Len(g) \in Nat /\ Len(s) \in Nat
      BY <2>3
    <3> QED
      BY <3>1
  <2>5. DOMAIN g = 1 .. n /\ DOMAIN s = 1 .. m
    BY <2>3, <2>4
  <2>6. \A i \in 1 .. n : i \in 1 .. m /\ g[i] = s[i]
    BY <2>1, <2>2, <2>5 DEF Reached
  <2>7. n <= m
    BY <2>6
  <2>8. SubSeq(g, 1, n) = SubSeq(s, 1, n)
    <3>1. PICK a, b : a = SubSeq(g, 1, n) /\ b = SubSeq(s, 1, n)
      OBVIOUS
    <3>2. a \in Seq(G) /\ Len(a) = n /\ \A i \in 1 .. n : a[i] = g[i]
      BY <2>3, <2>4, <3>1
    <3>3. b \in Seq(S) /\ Len(b) = n /\ \A i \in 1 .. n : b[i] = s[i]
      BY <2>3, <2>4, <2>7, <3>1
    <3>4. PICK T : T = G \cup S
      OBVIOUS
    <3>5. a \in Seq(T) /\ b \in Seq(T)
      BY <3>2, <3>3, <3>4, SeqWider
    <3> QED
      BY <2>6, <3>1, <3>2, <3>3, <3>5, SameCells
  <2>9. IsPrefix(g, s)
    BY <2>4, <2>7, <2>8 DEF IsPrefix
  <2> QED
    BY <2>1, <2>2, <2>9
<1> QED
  BY <1>1, SendInvariant, PTL

\* The encrypted messages that a client receives carry consecutive counters
\* modulo their width (session.go, SendEncrypted).
THEOREM CountersAlwaysInOrder == Spec => []CountersInOrder
<1>1. SendInv => CountersInOrder
  <2> SUFFICES ASSUME SendInv, NEW c \in Connection, NEW i \in EncryptedAmong(got[c], DOMAIN got[c])
               PROVE  DecodeEncrypted(got[c][i]).count =
                         Cardinality(EncryptedAmong(got[c], 1 .. i - 1)) % Counts
    BY DEF CountersInOrder
  <2>1. /\ \A j \in DOMAIN got[c] : j \in DOMAIN sent[c] /\ got[c][j] = sent[c][j]
        /\ \A j \in EncryptedAmong(sent[c], DOMAIN sent[c]) :
              DecodeEncrypted(sent[c][j]).count = Cardinality(EncryptedAmong(sent[c], 1 .. j - 1)) % Counts
    BY DEF SendInv, Delivered, Reached, Counted
  <2>2. PICK g : g = got[c]
    OBVIOUS
  <2>3. PICK G : g \in Seq(G)
    BY <2>2 DEF SendInv, Typed
  <2>4. PICK n \in Nat : n = Len(g)
    BY <2>3
  <2>5. DOMAIN g = 1 .. n
    BY <2>3, <2>4
  <2>6. i \in DOMAIN got[c] /\ FrameType(got[c][i]) = EnvelopeEncrypted
    BY DEF EncryptedAmong
  <2>7. i \in 1 .. n
    BY <2>2, <2>5, <2>6
  <2>8. i \in EncryptedAmong(sent[c], DOMAIN sent[c])
    BY <2>1, <2>6 DEF EncryptedAmong
  <2>9. EncryptedAmong(got[c], 1 .. i - 1) = EncryptedAmong(sent[c], 1 .. i - 1)
    <3>1. i - 1 \in Nat /\ \A j \in 1 .. i - 1 : j \in 1 .. n
      BY <2>7
    <3>2. \A j \in 1 .. i - 1 : got[c][j] = sent[c][j]
      BY <2>1, <2>2, <2>5, <3>1
    <3> QED
      BY <3>1, <3>2, AmongSame
  <2> QED
    BY <2>1, <2>6, <2>8, <2>9
<1> QED
  BY <1>1, SendInvariant, PTL
=============================================================================
