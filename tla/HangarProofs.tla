---------------------------- MODULE HangarProofs ----------------------------
(***************************************************************************)
(* Proofs about Hangar, for any catalog, any number of sessions and items, *)
(* any bounds and any disruption: wallets never go below zero, no two      *)
(* items share a serial, nothing shares a slot, and a login binds an       *)
(* account with its heroes equipped.  And, while requests come one at a    *)
(* time, for catalogs whose recipes and functions leave alone what can be  *)
(* worn: what is worn is owned; and if no part that fits a weapon is       *)
(* rented, the session's copy is the account and its client shows it.      *)
(***************************************************************************)
EXTENDS Hangar, RowLemmas

-----------------------------------------------------------------------------
(***************************************************************************)
(* Lists that have had rows taken out.                                     *)
(***************************************************************************)
LEMMA ThinnedUnique ==
    ASSUME NEW u, NEW v, Thinned(v, u), Unique(u) PROVE Unique(v)
BY DEF Thinned, Unique

LEMMA ThinnedItems ==
    ASSUME NEW u, NEW v, Thinned(v, u), OneItemEach(u) PROVE OneItemEach(v)
BY DEF Thinned, OneItemEach

LEMMA ThinnedParts ==
    ASSUME NEW u, NEW v, Thinned(v, u), OnePartEach(u) PROVE OnePartEach(v)
BY DEF Thinned, OnePartEach

(***************************************************************************)
(* Serials.                                                                *)
(***************************************************************************)
LEMMA SerialsPositive == \A serial \in Serial : serial \in Nat \ {0}
BY AccountAssumption DEF Serial

LEMMA NextSerialFree ==
    ASSUME NEW u, NextSerial(u) # 0 PROVE NextSerial(u) \in Serial \ IDs(u)
<1>1. PICK free : free = Serial \ IDs(u)
  OBVIOUS
<1>2. free \in SUBSET Nat /\ free # {}
  BY <1>1, SerialsPositive DEF NextSerial
<1>3. Min(free) \in free
  BY <1>2, MinIsLeast
<1> QED
  BY <1>1, <1>2, <1>3 DEF NextSerial

LEMMA NewItemTyped ==
    ASSUME NEW serial \in Serial, NEW item \in Item, NEW t \in Nat
    PROVE  NewItem(serial, item, t) \in InventoryItem /\ NewItem(serial, item, t).id = serial
<1>1. ExpiryFor(item, t) \in Nat /\ (Catalog[item].useTime = 0 => ExpiryFor(item, t) = 0)
  BY AccountAssumption DEF ExpiryFor, GameItem
<1>2. PICK row : row = NewItem(serial, item, t)
  OBVIOUS
<1>3. row = [id |-> serial, item |-> item, value |-> 1, expires |-> ExpiryFor(item, t)]
  BY <1>2 DEF NewItem
<1> QED
  BY <1>1, <1>2, <1>3 DEF InventoryItem

(***************************************************************************)
(* Items that are added or changed.                                        *)
(***************************************************************************)
LEMMA FreshAppended ==
    ASSUME NEW u \in Inventory, Unique(u), NEW row \in InventoryItem, row.id \notin IDs(u),
           NEW v, v = Append(u, row)
    PROVE  v \in Inventory /\ Unique(v)
<1>1. /\ v \in Seq(InventoryItem)
      /\ Len(v) = Len(u) + 1
      /\ \A i \in DOMAIN u : i \in DOMAIN v /\ v[i] = u[i]
      /\ Len(v) \in DOMAIN v /\ v[Len(v)] = row
  BY AppendKeeps DEF Inventory
<1>2. DOMAIN u = 1 .. Len(u) /\ DOMAIN v = 1 .. Len(u) + 1 /\ Len(u) \in Nat
  BY <1>1 DEF Inventory
<1>3. \A i \in DOMAIN v : (i \in DOMAIN u /\ v[i] = u[i]) \/ (i = Len(v) /\ v[i] = row)
  BY <1>1, <1>2
<1>4. \A i \in DOMAIN u : u[i].id # row.id
  BY DEF IDs
<1> QED
  BY <1>1, <1>3, <1>4 DEF Unique, Inventory

LEMMA RowChanged ==
    ASSUME NEW u \in Inventory, Unique(u), NEW k \in DOMAIN u, NEW row \in InventoryItem,
           row.id = u[k].id, NEW v, v = [u EXCEPT ![k] = row]
    PROVE  v \in Inventory /\ Unique(v)
<1>1. u \in Seq(InventoryItem)
  BY DEF Inventory
<1>2. v \in Seq(InventoryItem)
  BY <1>1
<1>3. DOMAIN v = DOMAIN u /\ \A i \in DOMAIN u : v[i].id = u[i].id
  BY <1>1
<1> QED
  BY <1>2, <1>3 DEF Unique, Inventory

LEMMA FirstHeld ==
    ASSUME NEW u \in Inventory, NEW item, Holding(u, item) # {}
    PROVE  FirstOf(u, item) \in DOMAIN u /\ u[FirstOf(u, item)].item = item
<1>1. PICK held : held = Holding(u, item)
  OBVIOUS
<1>2. held \in SUBSET Nat /\ held # {}
  BY <1>1 DEF Holding, Inventory
<1>3. Min(held) \in held
  BY <1>2, MinIsLeast
<1> QED
  BY <1>1, <1>3 DEF FirstOf, Holding

LEMMA LaterNat ==
    ASSUME NEW m \in Nat, NEW n \in Nat PROVE Max({m, n}) \in Nat
<1>1. PICK T : T = {m, n}
  OBVIOUS
<1>2. PICK top \in Nat : \A y \in T : y <= top
  BY <1>1
<1>3. T \in SUBSET Nat /\ T # {}
  BY <1>1
<1>4. Max(T) \in T
  BY <1>2, <1>3, LargestNat
<1> QED
  BY <1>1, <1>3, <1>4

(***************************************************************************)
(* A purchase leaves serials apart.                                        *)
(***************************************************************************)
LEMMA AddSound ==
    ASSUME NEW u \in Inventory, Unique(u), NEW item \in Item, NEW t \in Nat,
           NEW v, v = AddToInventory(u, item, t).inventory
    PROVE  v \in Inventory /\ Unique(v)
<1>1. PICK k, serial, use : /\ k = FirstOf(u, item) /\ serial = NextSerial(u)
                            /\ use = Catalog[item].useTime
  OBVIOUS
<1>2. use \in Nat
  BY <1>1, AccountAssumption DEF GameItem
<1>3. CASE Holding(u, item) # {} /\ use > 0
  <2>1. k \in DOMAIN u /\ u[k] \in InventoryItem
    BY <1>1, <1>3, FirstHeld DEF Inventory
  <2>2. u[k].expires \in Nat
    BY <2>1 DEF InventoryItem
  <2>3. Max({u[k].expires, t}) \in Nat
    BY <2>2, LaterNat
  <2>4. PICK n, row : n = Max({u[k].expires, t}) + use /\ row = [u[k] EXCEPT !.expires = n]
    OBVIOUS
  <2>5. row \in InventoryItem /\ row.id = u[k].id
    <3>1. u[k].item = item
      BY <1>1, <1>3, FirstHeld DEF Inventory
    <3> QED
      BY <1>1, <1>2, <1>3, <2>1, <2>3, <2>4, <3>1 DEF InventoryItem
  <2>6. v = [u EXCEPT ![k].expires = Max({@, t}) + use]
    BY <1>1, <1>3 DEF AddToInventory
  <2>7. v = [u EXCEPT ![k] = row]
    BY <2>4, <2>6
  <2> QED
    BY <2>1, <2>5, <2>7, RowChanged
<1>4. CASE Holding(u, item) # {} /\ use = 0 /\ Catalog[item].isMerge
  <2>1. k \in DOMAIN u /\ u[k] \in InventoryItem
    BY <1>1, <1>4, FirstHeld DEF Inventory
  <2>2. PICK n, row : n = u[k].value + 1 /\ row = [u[k] EXCEPT !.value = n]
    OBVIOUS
  <2>3. row \in InventoryItem /\ row.id = u[k].id
    BY <2>1, <2>2 DEF InventoryItem
  <2>4. v = [u EXCEPT ![k].value = @ + 1]
    BY <1>1, <1>4 DEF AddToInventory
  <2>5. v = [u EXCEPT ![k] = row]
    BY <2>2, <2>4
  <2> QED
    BY <2>1, <2>3, <2>5, RowChanged
<1>5. CASE ~ (Holding(u, item) # {} /\ use > 0)
           /\ ~ (Holding(u, item) # {} /\ use = 0 /\ Catalog[item].isMerge)
  <2>1. v = IF serial = 0 THEN u ELSE Append(u, NewItem(serial, item, t))
    BY <1>1, <1>5 DEF AddToInventory
  <2>2. CASE serial = 0
    BY <2>1, <2>2
  <2>3. CASE serial # 0
    <3>1. serial \in Serial \ IDs(u)
      BY <1>1, <2>3, NextSerialFree
    <3>2. PICK row : row = NewItem(serial, item, t)
      OBVIOUS
    <3>3. row \in InventoryItem /\ row.id \notin IDs(u)
      BY <3>1, <3>2, NewItemTyped
    <3> QED
      BY <2>1, <2>3, <3>2, <3>3, FreshAppended
  <2> QED
    BY <2>2, <2>3
<1> QED
  BY <1>3, <1>4, <1>5

(***************************************************************************)
(* So does crafting, which needs what it takes, and spending.              *)
(***************************************************************************)
LEMMA MaterialsTaken ==
    ASSUME NEW u \in Inventory, Unique(u), NEW need, need \in [DOMAIN need -> Nat \ {0}],
           HasMaterials(u, need), NEW v, v = ConsumeMaterialsKept(u, need)
    PROVE  v \in Inventory /\ Unique(v)
<1>1. u \in Seq(InventoryItem) /\ DOMAIN u = 1 .. Len(u) /\ Len(u) \in Nat
  BY DEF Inventory
<1>2. DOMAIN v = DOMAIN u
  BY DEF ConsumeMaterialsKept
<1>3. ASSUME NEW i \in DOMAIN u
      PROVE  v[i] \in InventoryItem /\ v[i].id = u[i].id
  <2>1. PICK row : row = u[i]
    OBVIOUS
  <2>2. row \in InventoryItem
    BY <1>1, <2>1
  <2>3. CASE MaterialAt(u, need, i)
    <3>1. PICK n : n = need[row.item]
      OBVIOUS
    <3>2. row.item \in DOMAIN need /\ i = FirstOf(u, row.item)
      BY <2>1, <2>3 DEF MaterialAt
    <3>3. n \in Nat /\ row.value >= n
      BY <2>1, <3>1, <3>2 DEF HasMaterials
    <3>4. row.value - n \in Nat
      BY <2>2, <3>3 DEF InventoryItem
    <3>5. v[i] = [row EXCEPT !.value = @ - n]
      BY <2>1, <2>3, <3>1 DEF ConsumeMaterialsKept
    <3> QED
      BY <2>1, <2>2, <3>4, <3>5 DEF InventoryItem
  <2>4. CASE ~ MaterialAt(u, need, i)
    <3>1. v[i] = u[i]
      BY <2>4 DEF ConsumeMaterialsKept
    <3> QED
      BY <2>1, <2>2, <3>1
  <2> QED
    BY <2>3, <2>4
<1>4. v = [i \in 1 .. Len(u) |-> v[i]]
  BY <1>1 DEF ConsumeMaterialsKept
<1>5. v \in Inventory
  BY <1>1, <1>2, <1>3, <1>4, SeqDef DEF Inventory
<1>6. Unique(v)
  BY <1>2, <1>3 DEF Unique
<1> QED
  BY <1>5, <1>6

LEMMA ItemsKept ==
    ASSUME NEW u \in Inventory, Unique(u), NEW P \in SUBSET DOMAIN u
    PROVE  Keep(u, P) \in Inventory /\ Unique(Keep(u, P))
<1>1. PICK v : v = Keep(u, P)
  OBVIOUS
<1>2. v \in Seq(InventoryItem) /\ Thinned(v, u)
  BY <1>1, KeepChooses DEF Inventory
<1> QED
  BY <1>1, <1>2, ThinnedUnique DEF Inventory

LEMMA ConsumeSound ==
    ASSUME NEW u \in Inventory, Unique(u), NEW need, need \in [DOMAIN need -> Nat \ {0}],
           HasMaterials(u, need), NEW v, v = ConsumeMaterials(u, need)
    PROVE  v \in Inventory /\ Unique(v)
<1>1. PICK rows : rows = ConsumeMaterialsKept(u, need)
  OBVIOUS
<1>2. rows \in Inventory /\ Unique(rows)
  BY <1>1, MaterialsTaken
<1>3. PICK P : P = {i \in DOMAIN rows : rows[i].value > 0}
  OBVIOUS
<1>4. v = Keep(rows, P) /\ P \in SUBSET DOMAIN rows
  BY <1>1, <1>3 DEF ConsumeMaterials
<1> QED
  BY <1>2, <1>4, ItemsKept

LEMMA SpendSound ==
    ASSUME NEW u \in Inventory, Unique(u), NEW serial \in IDs(u),
           NEW v, v = SpendUnit(u, serial)
    PROVE  v \in Inventory /\ Unique(v)
<1>1. u \in Seq(InventoryItem)
  BY DEF Inventory
<1>2. PICK k, row : k = IndexOf(u, serial) /\ row = u[k]
  OBVIOUS
<1>3. k \in DOMAIN u /\ row \in InventoryItem /\ row.value \in Nat
  <2>1. k \in DOMAIN u
    BY <1>1, <1>2, IndexFound
  <2>2. row \in InventoryItem
    BY <1>1, <1>2, <2>1
  <2> QED
    BY <2>1, <2>2 DEF InventoryItem
<1>4. CASE row.value <= 1
  <2>1. v = Without(u, serial)
    BY <1>2, <1>4 DEF SpendUnit, RowWith
  <2>2. v \in Seq(InventoryItem) /\ Thinned(v, u)
    BY <1>1, <2>1, WithoutThins
  <2> QED
    BY <2>2, ThinnedUnique DEF Inventory
<1>5. CASE ~ (row.value <= 1)
  <2>1. PICK n, less : n = row.value - 1 /\ less = [row EXCEPT !.value = n]
    OBVIOUS
  <2>2. less \in InventoryItem /\ less.id = u[k].id
    BY <1>2, <1>3, <1>5, <2>1 DEF InventoryItem
  <2>3. v = [u EXCEPT ![k].value = @ - 1]
    BY <1>2, <1>5 DEF SpendUnit, RowWith
  <2>4. v = [u EXCEPT ![k] = less]
    BY <1>2, <2>1, <2>3
  <2> QED
    BY <1>3, <2>2, <2>4, RowChanged
<1> QED
  BY <1>4, <1>5

LEMMA ConsumableFound ==
    ASSUME NEW u \in Inventory, NEW function, Consumables(u, function) # {}
    PROVE  FindConsumable(u, function).id \in IDs(u)
<1>1. PICK found : found = Consumables(u, function)
  OBVIOUS
<1>2. found \in SUBSET Nat /\ found # {} /\ found \in SUBSET DOMAIN u
  BY <1>1 DEF Consumables, Inventory
<1>3. Min(found) \in found
  BY <1>2, MinIsLeast
<1> QED
  BY <1>1, <1>2, <1>3 DEF FindConsumable, IDs

-----------------------------------------------------------------------------
(***************************************************************************)
(* What is equipped and what is mounted.                                   *)
(***************************************************************************)
LEMMA EquippedSound ==
    ASSUME NEW l \in Loadout, OneItemEach(l), NEW slot \in Slots, NEW serial \in Serial,
           NEW v, v = Equipped(l, slot, serial)
    PROVE  /\ v \in Loadout /\ OneItemEach(v)
           /\ \E i \in DOMAIN v : v[i] = [slot |-> slot, serial |-> serial]
           /\ \A k \in DOMAIN l : l[k].slot # slot => \E i \in DOMAIN v : v[i] = l[k]
<1>1. PICK P \in SUBSET DOMAIN l : P = {i \in DOMAIN l : l[i].slot # slot}
  OBVIOUS
<1>2. PICK kept, new : kept = Keep(l, P) /\ new = [slot |-> slot, serial |-> serial]
  OBVIOUS
<1>3. /\ kept \in Seq(EquippedItem) /\ Thinned(kept, l)
      /\ \A i \in DOMAIN kept : \E k \in P : kept[i] = l[k]
      /\ \A k \in P : \E i \in DOMAIN kept : kept[i] = l[k]
  <2>1. l \in Seq(EquippedItem)
    BY DEF Loadout
  <2> QED
    BY <1>2, <2>1, KeepChooses
<1>4. new \in EquippedItem /\ new.slot = slot
  BY <1>2 DEF EquippedItem
<1>5. v = Append(kept, new)
  BY <1>1, <1>2 DEF Equipped
<1>6. /\ v \in Seq(EquippedItem)
      /\ Len(v) = Len(kept) + 1
      /\ \A i \in DOMAIN kept : i \in DOMAIN v /\ v[i] = kept[i]
      /\ Len(v) \in DOMAIN v /\ v[Len(v)] = new
  BY <1>3, <1>4, <1>5, AppendKeeps
<1>7. DOMAIN kept = 1 .. Len(kept) /\ DOMAIN v = 1 .. Len(kept) + 1 /\ Len(kept) \in Nat
  BY <1>3, <1>6
<1>8. \A i \in DOMAIN v : (i \in DOMAIN kept /\ v[i] = kept[i]) \/ (i = Len(v) /\ v[i] = new)
  BY <1>6, <1>7
<1>9. OneItemEach(kept) /\ \A i \in DOMAIN kept : kept[i].slot # slot
  BY <1>1, <1>3, ThinnedItems
<1>10. OneItemEach(v)
  BY <1>4, <1>8, <1>9 DEF OneItemEach
<1>11. \A k \in DOMAIN l : l[k].slot # slot => \E i \in DOMAIN v : v[i] = l[k]
  <2> TAKE k \in DOMAIN l
  <2> HAVE l[k].slot # slot
  <2>1. PICK i \in DOMAIN kept : kept[i] = l[k]
    BY <1>1, <1>3
  <2> QED
    BY <1>6, <2>1
<1> QED
  BY <1>2, <1>6, <1>10, <1>11 DEF Loadout

LEMMA AttachedSound ==
    ASSUME NEW a \in Attachments, OnePartEach(a), NEW parent \in Serial, NEW child \in Serial,
           NEW slot \in Slots, NEW v, v = Attached(a, parent, child, slot)
    PROVE  v \in Attachments /\ OnePartEach(v)
<1>1. PICK P \in SUBSET DOMAIN a : P = {i \in DOMAIN a : a[i].parent # parent \/ a[i].slot # slot}
  OBVIOUS
<1>2. PICK kept, new : /\ kept = Keep(a, P)
                       /\ new = [parent |-> parent, child |-> child, slot |-> slot]
  OBVIOUS
<1>3. /\ kept \in Seq(AttachedItem) /\ Thinned(kept, a)
      /\ \A i \in DOMAIN kept : \E k \in P : kept[i] = a[k]
  <2>1. a \in Seq(AttachedItem)
    BY DEF Attachments
  <2> QED
    BY <1>2, <2>1, KeepChooses
<1>4. new \in AttachedItem /\ new.parent = parent /\ new.slot = slot
  BY <1>2 DEF AttachedItem
<1>5. v = Append(kept, new)
  BY <1>1, <1>2 DEF Attached
<1>6. /\ v \in Seq(AttachedItem)
      /\ Len(v) = Len(kept) + 1
      /\ \A i \in DOMAIN kept : i \in DOMAIN v /\ v[i] = kept[i]
      /\ v[Len(v)] = new
  BY <1>3, <1>4, <1>5, AppendKeeps
<1>7. DOMAIN kept = 1 .. Len(kept) /\ DOMAIN v = 1 .. Len(kept) + 1 /\ Len(kept) \in Nat
  BY <1>3, <1>6
<1>8. \A i \in DOMAIN v : (i \in DOMAIN kept /\ v[i] = kept[i]) \/ (i = Len(v) /\ v[i] = new)
  BY <1>6, <1>7
<1>9. OnePartEach(kept) /\ \A i \in DOMAIN kept : kept[i].parent # parent \/ kept[i].slot # slot
  BY <1>1, <1>3, ThinnedParts
<1>10. OnePartEach(v)
  BY <1>4, <1>8, <1>9 DEF OnePartEach
<1> QED
  BY <1>6, <1>10 DEF Attachments

LEMMA PartsKept ==
    ASSUME NEW a \in Attachments, OnePartEach(a), NEW P \in SUBSET DOMAIN a
    PROVE  Keep(a, P) \in Attachments /\ OnePartEach(Keep(a, P))
<1>1. PICK v : v = Keep(a, P)
  OBVIOUS
<1>2. v \in Seq(AttachedItem) /\ Thinned(v, a)
  BY <1>1, KeepChooses DEF Attachments
<1> QED
  BY <1>1, <1>2, ThinnedParts DEF Attachments

LEMMA WornKept ==
    ASSUME NEW l \in Loadout, OneItemEach(l), NEW P \in SUBSET DOMAIN l
    PROVE  Keep(l, P) \in Loadout /\ OneItemEach(Keep(l, P))
<1>1. PICK v : v = Keep(l, P)
  OBVIOUS
<1>2. v \in Seq(EquippedItem) /\ Thinned(v, l)
  BY <1>1, KeepChooses DEF Loadout
<1> QED
  BY <1>1, <1>2, ThinnedItems DEF Loadout

-----------------------------------------------------------------------------
(***************************************************************************)
(* Accounts.                                                               *)
(***************************************************************************)
LEMMA AccountWith ==
    ASSUME NEW p \in SoundPlayer
    PROVE  /\ \A v \in Inventory : Unique(v) => [p EXCEPT !.inventory = v] \in SoundPlayer
           /\ \A v \in Loadout : OneItemEach(v) => [p EXCEPT !.loadout = v] \in SoundPlayer
           /\ \A v \in Attachments : OnePartEach(v) => [p EXCEPT !.attachments = v] \in SoundPlayer
           /\ \A v \in [Wallets -> Nat] : [p EXCEPT !.wallet = v] \in SoundPlayer
<1>1. p \in Player /\ Unique(p.inventory) /\ OneItemEach(p.loadout) /\ OnePartEach(p.attachments)
  BY DEF SoundPlayer
<1>2. ASSUME NEW v \in Inventory, Unique(v) PROVE [p EXCEPT !.inventory = v] \in SoundPlayer
  BY <1>1, <1>2 DEF SoundPlayer, Player
<1>3. ASSUME NEW v \in Loadout, OneItemEach(v) PROVE [p EXCEPT !.loadout = v] \in SoundPlayer
  BY <1>1, <1>3 DEF SoundPlayer, Player
<1>4. ASSUME NEW v \in Attachments, OnePartEach(v)
      PROVE  [p EXCEPT !.attachments = v] \in SoundPlayer
  BY <1>1, <1>4 DEF SoundPlayer, Player
<1>5. ASSUME NEW v \in [Wallets -> Nat] PROVE [p EXCEPT !.wallet = v] \in SoundPlayer
  BY <1>1 DEF SoundPlayer, Player
<1> QED
  BY <1>2, <1>3, <1>4, <1>5

LEMMA PurgedSound ==
    ASSUME NEW p \in SoundPlayer, NEW t \in Nat
    PROVE  Purged(p, t) \in SoundPlayer
<1>1. /\ p \in Player /\ p.inventory \in Inventory /\ p.loadout \in Loadout
      /\ p.attachments \in Attachments /\ p.wallet \in [Wallets -> Nat]
      /\ Unique(p.inventory) /\ OneItemEach(p.loadout) /\ OnePartEach(p.attachments)
  BY DEF SoundPlayer, Player
<1>2. PICK good \in SUBSET DOMAIN p.inventory :
          good = {i \in DOMAIN p.inventory : ~ IsExpired(p.inventory[i], t)}
  OBVIOUS
<1>3. PICK gone : gone = {p.inventory[i].id : i \in DOMAIN p.inventory \ good}
  OBVIOUS
<1>4. PICK mounted \in SUBSET DOMAIN p.attachments :
          mounted = {i \in DOMAIN p.attachments : /\ p.attachments[i].child \notin gone
                                                 /\ p.attachments[i].parent \notin gone}
  OBVIOUS
<1>5. PICK worn \in SUBSET DOMAIN p.loadout :
          worn = {i \in DOMAIN p.loadout : p.loadout[i].serial \notin gone}
  OBVIOUS
<1>6. PICK u, a, l : /\ u = Keep(p.inventory, good)
                     /\ a = Keep(p.attachments, mounted)
                     /\ l = Keep(p.loadout, worn)
  OBVIOUS
<1>7. u \in Inventory /\ Unique(u)
  BY <1>1, <1>6, ItemsKept
<1>8. a \in Attachments /\ OnePartEach(a)
  BY <1>1, <1>6, PartsKept
<1>9. l \in Loadout /\ OneItemEach(l)
  BY <1>1, <1>6, WornKept
<1>10. CASE gone = {}
  <2>1. Purged(p, t) = p
    BY <1>2, <1>3, <1>10 DEF Purged
  <2> QED
    BY <2>1
<1>11. CASE gone # {}
  <2>1. Purged(p, t) = [p EXCEPT !.inventory = u, !.attachments = a, !.loadout = l]
    BY <1>2, <1>3, <1>4, <1>5, <1>6, <1>11 DEF Purged
  <2>2. PICK q1 : q1 = [p EXCEPT !.inventory = u]
    OBVIOUS
  <2>3. PICK q2 : q2 = [q1 EXCEPT !.attachments = a]
    OBVIOUS
  <2>4. PICK q3 : q3 = [q2 EXCEPT !.loadout = l]
    OBVIOUS
  <2>5. q1 \in SoundPlayer
    BY <1>7, <2>2, AccountWith
  <2>6. q2 \in SoundPlayer
    BY <1>8, <2>3, <2>5, AccountWith
  <2>7. q3 \in SoundPlayer
    BY <1>9, <2>4, <2>6, AccountWith
  <2>8. [p EXCEPT !.inventory = u, !.attachments = a, !.loadout = l] = q3
    BY <2>2, <2>3, <2>4
  <2> QED
    BY <2>1, <2>7, <2>8
<1> QED
  BY <1>10, <1>11

(***************************************************************************)
(* LoginBySteam puts a hero on each side, and leaves the other as it is.   *)
(***************************************************************************)
LEMMA OwnRow ==
    ASSUME NEW u \in Inventory, Unique(u), NEW k \in DOMAIN u
    PROVE  u[k].id \in IDs(u) /\ RowWith(u, u[k].id) = u[k]
<1>1. u \in Seq(InventoryItem)
  BY DEF Inventory
<1>2. PICK id : id = u[k].id
  OBVIOUS
<1>3. id \in IDs(u)
  BY <1>2 DEF IDs
<1>4. IndexOf(u, id) \in DOMAIN u /\ u[IndexOf(u, id)].id = id
  BY <1>1, <1>3, IndexFound
<1>5. IndexOf(u, id) = k
  BY <1>2, <1>4 DEF Unique
<1> QED
  BY <1>2, <1>3, <1>5 DEF RowWith

LEMMA HeroSlotsAreSlots == HeroSlots \subseteq Slots
BY DEF Slots

LEMMA CastSound ==
    ASSUME NEW p \in SoundPlayer, NEW slot \in HeroSlots, NEW q, q = Cast(p, slot)
    PROVE  /\ q \in SoundPlayer /\ HasHero(q, slot)
           /\ \A other \in HeroSlots : other # slot /\ HasHero(p, other) => HasHero(q, other)
<1>1. PICK u, l : u = p.inventory /\ l = p.loadout
  OBVIOUS
<1>2. p \in Player /\ u \in Inventory /\ l \in Loadout /\ Unique(u) /\ OneItemEach(l)
  BY <1>1 DEF SoundPlayer, Player
<1>3. PICK heroes \in SUBSET DOMAIN u : heroes = {i \in DOMAIN u : Catalog[u[i].item].slot = slot}
  OBVIOUS
<1>4. PICK fine \in BOOLEAN :
          fine = \E e \in Range(l) : /\ e.slot = slot
                                     /\ e.serial \in IDs(u)
                                     /\ SlotOf(u, e.serial) = slot
  OBVIOUS
<1>5. CASE fine \/ heroes = {}
  <2>1. q = p
    BY <1>1, <1>3, <1>4, <1>5 DEF Cast
  <2>2. HasHero(p, slot)
    BY <1>1, <1>3, <1>4, <1>5 DEF HasHero, Range
  <2> QED
    BY <2>1, <2>2
<1>6. CASE ~ (fine \/ heroes = {})
  <2>1. heroes \in SUBSET Nat /\ heroes # {}
    BY <1>2, <1>6 DEF Inventory
  <2>2. PICK k \in heroes : k = Min(heroes)
    BY <2>1, MinIsLeast
  <2>3. k \in DOMAIN u /\ u[k] \in InventoryItem /\ Catalog[u[k].item].slot = slot
    <3>1. k \in DOMAIN u /\ Catalog[u[k].item].slot = slot
      BY <1>3, <2>2
    <3>2. u[k] \in InventoryItem
      BY <1>2, <3>1 DEF Inventory
    <3> QED
      BY <3>1, <3>2
  <2>4. PICK id : id = u[k].id
    OBVIOUS
  <2>5. id \in Serial /\ id \in IDs(u) /\ SlotOf(u, id) = slot
    BY <1>2, <2>3, <2>4, OwnRow DEF InventoryItem, SlotOf
  <2>6. PICK v : v = Equipped(l, slot, id)
    OBVIOUS
  <2>7. /\ v \in Loadout /\ OneItemEach(v)
        /\ \E i \in DOMAIN v : v[i] = [slot |-> slot, serial |-> id]
        /\ \A j \in DOMAIN l : l[j].slot # slot => \E i \in DOMAIN v : v[i] = l[j]
    BY <1>2, <2>5, <2>6, EquippedSound, HeroSlotsAreSlots
  <2>8. q = [p EXCEPT !.loadout = Equipped(@, slot, id)]
    BY <1>1, <1>3, <1>4, <1>6, <2>2, <2>4 DEF Cast
  <2>9. q = [p EXCEPT !.loadout = v]
    BY <1>1, <2>6, <2>8
  <2>10. q \in SoundPlayer /\ q.inventory = u /\ q.loadout = v
    BY <1>1, <1>2, <2>7, <2>9, AccountWith DEF Player
  <2>11. HasHero(q, slot)
    BY <2>5, <2>7, <2>10 DEF HasHero, Range
  <2>12. ASSUME NEW other \in HeroSlots, other # slot, HasHero(p, other)
         PROVE  HasHero(q, other)
    BY <1>1, <2>7, <2>10, <2>12 DEF HasHero, Range
  <2> QED
    BY <2>10, <2>11, <2>12
<1> QED
  BY <1>5, <1>6

LEMMA WithHeroesReady ==
    ASSUME NEW p \in SoundPlayer
    PROVE  WithHeroes(p) \in SoundPlayer /\ Ready(WithHeroes(p))
<1>1. PICK q : q = Cast(p, "characterATC")
  OBVIOUS
<1>2. PICK r : r = Cast(q, "characterTF")
  OBVIOUS
<1>3. q \in SoundPlayer /\ HasHero(q, "characterATC")
  BY <1>1, CastSound DEF HeroSlots
<1>4. r \in SoundPlayer /\ HasHero(r, "characterTF") /\ HasHero(r, "characterATC")
  BY <1>2, <1>3, CastSound DEF HeroSlots
<1>5. WithHeroes(p) = r
  BY <1>1, <1>2 DEF WithHeroes
<1> QED
  BY <1>4, <1>5 DEF Ready, HeroSlots

LEMMA NewAccountReady ==
    ASSUME NEW t \in Nat
    PROVE  NewAccount(t) \in SoundPlayer /\ Ready(NewAccount(t))
<1>1. PICK u, l : /\ u = [i \in DOMAIN Starter |-> NewItem(i, Starter[i], t)]
                  /\ l = [i \in DOMAIN Starter |->
                            [slot |-> Catalog[Starter[i]].slot, serial |-> i]]
  OBVIOUS
<1>2. PICK p : p = NewAccount(t)
  OBVIOUS
<1>3. p = [wallet |-> Start, inventory |-> u, loadout |-> l, attachments |-> <<>>]
  BY <1>1, <1>2 DEF NewAccount
<1>4. /\ DOMAIN Starter = 1 .. Len(Starter) /\ Len(Starter) \in Nat
      /\ DOMAIN u = DOMAIN Starter /\ DOMAIN l = DOMAIN Starter
  BY <1>1, AccountAssumption
<1>5. ASSUME NEW i \in DOMAIN Starter
      PROVE  /\ i \in Serial /\ Starter[i] \in Item
             /\ u[i] \in InventoryItem /\ u[i].id = i /\ u[i].item = Starter[i]
             /\ l[i] \in EquippedItem /\ l[i].serial = i /\ l[i].slot = Catalog[Starter[i]].slot
  <2>1. i \in Serial /\ Starter[i] \in Item
    BY <1>4, AccountAssumption DEF Serial
  <2>2. u[i] = NewItem(i, Starter[i], t)
    BY <1>1
  <2>3. u[i] \in InventoryItem /\ u[i].id = i /\ u[i].item = Starter[i]
    BY <2>1, <2>2, NewItemTyped DEF NewItem
  <2>4. Catalog[Starter[i]].slot \in Slots
    BY <2>1, AccountAssumption DEF GameItem
  <2> QED
    BY <1>1, <2>1, <2>3, <2>4 DEF EquippedItem
<1>6. u \in Inventory
  <2>1. u = [i \in 1 .. Len(Starter) |-> u[i]]
    BY <1>1, <1>4
  <2> QED
    BY <1>4, <1>5, <2>1, SeqDef DEF Inventory
<1>7. l \in Loadout
  <2>1. l = [i \in 1 .. Len(Starter) |-> l[i]]
    BY <1>1, <1>4
  <2> QED
    BY <1>4, <1>5, <2>1, SeqDef DEF Loadout
<1>8. Unique(u)
  BY <1>4, <1>5 DEF Unique
<1>9. OneItemEach(l)
  BY <1>4, <1>5, AccountAssumption DEF OneItemEach
<1>10. <<>> \in Attachments /\ OnePartEach(<<>>)
  BY DEF Attachments, OnePartEach
<1>11. p \in SoundPlayer
  BY <1>3, <1>6, <1>7, <1>8, <1>9, <1>10, AccountAssumption DEF SoundPlayer, Player
<1>12. ASSUME NEW slot \in HeroSlots PROVE HasHero(p, slot)
  <2>1. SUFFICES ASSUME NEW r \in Range(u), Catalog[r.item].slot = slot
                 PROVE  \E e \in Range(l) : /\ e.slot = slot
                                            /\ e.serial \in IDs(u)
                                            /\ SlotOf(u, e.serial) = slot
    BY <1>3 DEF HasHero
  <2>2. PICK i \in DOMAIN Starter : r = u[i]
    BY <1>4 DEF Range
  <2>3. i \in IDs(u) /\ RowWith(u, i) = u[i]
    BY <1>4, <1>5, <1>6, <1>8, OwnRow
  <2>4. l[i] \in Range(l) /\ l[i].slot = slot /\ l[i].serial = i
    BY <1>4, <1>5, <2>1, <2>2 DEF Range
  <2>5. SlotOf(u, i) = slot
    BY <2>1, <2>2, <2>3 DEF SlotOf
  <2> QED
    BY <2>3, <2>4, <2>5
<1> QED
  BY <1>2, <1>11, <1>12 DEF Ready

LEMMA PriceTyped ==
    ASSUME NEW item \in Item
    PROVE  /\ StorePrice(item).price \in Nat
           /\ StorePrice(item).price # 0 => StorePrice(item).wallet \in Wallets
<1>1. PICK def : def = Catalog[item]
  OBVIOUS
<1>2. def.salePrice \in Nat /\ def.pointPrice \in Nat /\ def.cashPrice \in Nat
  BY <1>1, AccountAssumption DEF GameItem
<1>3. PICK point : point = IF def.salePrice > 0 THEN def.salePrice ELSE def.pointPrice
  OBVIOUS
<1>4. point \in Nat
  BY <1>2, <1>3
<1>5. StorePrice(item) =
        CASE def.cashType # 1 /\ point > 0 -> [wallet |-> "point", price |-> point]
          [] def.cashPrice > 0 /\ (def.cashType = 1 \/ point = 0)
                                           -> [wallet |-> "cash", price |-> def.cashPrice]
          [] OTHER                         -> [wallet |-> "none", price |-> 0]
  BY <1>1, <1>3 DEF StorePrice
<1>6. StorePrice(item) \in {[wallet |-> "point", price |-> point],
                            [wallet |-> "cash", price |-> def.cashPrice],
                            [wallet |-> "none", price |-> 0]}
  BY <1>5
<1> QED
  BY <1>2, <1>4, <1>6 DEF Wallets

-----------------------------------------------------------------------------
(***************************************************************************)
(* What handlers have left to do.                                          *)
(***************************************************************************)
LEMMA CallsMade ==
    /\ \A u \in Inventory, price \in Nat : \A wallet :
          Unique(u) /\ (price # 0 => wallet \in Wallets) => SoundCall(Commit(u, wallet, price))
    /\ \A l \in Loadout : OneItemEach(l) => SoundCall(SaveLoadout(l))
    /\ \A a \in Attachments : OnePartEach(a) => SoundCall(SaveAttachments(a))
    /\ \A p \in SoundPlayer : Ready(p) => SoundCall(Create(p)) /\ ~ NeedsAccount(Create(p))
    /\ SoundCall(FindAgain) /\ ~ NeedsAccount(FindAgain)
    /\ \A p : Ready(p) => SoundCall(Bind(p)) /\ ~ NeedsAccount(Bind(p))
    /\ \A p : SoundCall(BindAsFound(p)) /\ ~ NeedsAccount(BindAsFound(p))
    /\ \A p, change : SoundCall(Answer(p, change)) /\ ~ NeedsAccount(Answer(p, change))
    /\ \A item \in Item : \A weapon : SoundCall(BuyFor(weapon, item))
    /\ \A weapon, serial, change : SoundCall(MountBought(weapon, serial, change))
<1> USE DEF SoundCall, NeedsAccount
<1>1. \A u \in Inventory, price \in Nat : \A wallet :
          Unique(u) /\ (price # 0 => wallet \in Wallets) => SoundCall(Commit(u, wallet, price))
  BY DEF Commit
<1>2. \A l \in Loadout : OneItemEach(l) => SoundCall(SaveLoadout(l))
  BY DEF SaveLoadout
<1>3. \A a \in Attachments : OnePartEach(a) => SoundCall(SaveAttachments(a))
  BY DEF SaveAttachments
<1>4. \A p \in SoundPlayer : Ready(p) => SoundCall(Create(p)) /\ ~ NeedsAccount(Create(p))
  BY DEF Create
<1>5. SoundCall(FindAgain) /\ ~ NeedsAccount(FindAgain)
  BY DEF FindAgain
<1>6. \A p : Ready(p) => SoundCall(Bind(p)) /\ ~ NeedsAccount(Bind(p))
  BY DEF Bind
<1>7. \A p : SoundCall(BindAsFound(p)) /\ ~ NeedsAccount(BindAsFound(p))
  BY DEF BindAsFound
<1>8. \A p, change : SoundCall(Answer(p, change)) /\ ~ NeedsAccount(Answer(p, change))
  BY DEF Answer
<1>9. \A item \in Item : \A weapon : SoundCall(BuyFor(weapon, item))
  BY DEF BuyFor
<1>10. \A weapon, serial, change : SoundCall(MountBought(weapon, serial, change))
  BY DEF MountBought
<1> QED
  BY <1>1, <1>2, <1>3, <1>4, <1>5, <1>6, <1>7, <1>8, <1>9, <1>10

LEMMA NoCalls == \A exists : SoundCalls(<<>>, exists)
BY DEF SoundCalls

LEMMA OneCall ==
    ASSUME NEW exists, NEW w, SoundCall(w), NeedsAccount(w) => exists
    PROVE  SoundCalls(<<w>>, exists)
<1>1. PICK calls : calls = <<w>>
  OBVIOUS
<1>2. DOMAIN calls = {1} /\ calls[1] = w /\ Range(calls) = {w}
  BY <1>1 DEF Range
<1>3. calls \in Seq(Range(calls))
  <2>1. <<w>> \in Seq({w})
    OBVIOUS
  <2> QED
    BY <1>1, <1>2, <2>1
<1> QED
  BY <1>1, <1>2, <1>3 DEF SoundCalls

LEMMA CallsJoined ==
    ASSUME NEW exists, NEW a, NEW b, SoundCalls(a, exists), SoundCalls(b, exists)
    PROVE  SoundCalls(a \o b, exists)
<1>1. PICK S : S = Range(a) \cup Range(b)
  OBVIOUS
<1>2. a \in Seq(S) /\ b \in Seq(S)
  BY <1>1 DEF SoundCalls
<1>3. PICK c : c = a \o b
  OBVIOUS
<1>4. /\ c \in Seq(S)
      /\ Len(c) = Len(a) + Len(b)
      /\ \A i \in 1 .. Len(a) + Len(b) : c[i] = IF i <= Len(a) THEN a[i] ELSE b[i - Len(a)]
  BY <1>2, <1>3, ConcatProperties
<1>5. \A i \in DOMAIN c : \/ i \in DOMAIN a /\ c[i] = a[i]
                          \/ i - Len(a) \in DOMAIN b /\ c[i] = b[i - Len(a)]
  BY <1>2, <1>4
<1>6. c \in Seq(Range(c))
  <2>1. c = [i \in 1 .. Len(c) |-> c[i]] /\ DOMAIN c = 1 .. Len(c) /\ Len(c) \in Nat
    BY <1>4
  <2>2. \A i \in 1 .. Len(c) : c[i] \in Range(c)
    BY <2>1 DEF Range
  <2> QED
    BY <2>1, <2>2, SeqDef
<1> QED
  BY <1>3, <1>5, <1>6 DEF SoundCalls

LEMMA TwoCalls ==
    ASSUME NEW exists, NEW v, SoundCall(v), NeedsAccount(v) => exists,
           NEW w, SoundCall(w), NeedsAccount(w) => exists
    PROVE  SoundCalls(<<v, w>>, exists)
<1>1. PICK calls : calls = <<v, w>>
  OBVIOUS
<1>2. DOMAIN calls = {1, 2} /\ calls[1] = v /\ calls[2] = w
  BY <1>1
<1>3. v \in Range(calls) /\ w \in Range(calls)
  BY <1>2 DEF Range
<1>4. calls \in Seq(Range(calls))
  BY <1>1, <1>3
<1> QED
  BY <1>1, <1>2, <1>4 DEF SoundCalls

LEMMA CallsRest ==
    ASSUME NEW exists, NEW calls, SoundCalls(calls, exists), calls # <<>>
    PROVE  /\ SoundCalls(Tail(calls), exists)
           /\ SoundCall(Head(calls)) /\ (NeedsAccount(Head(calls)) => exists)
<1>1. PICK S : S = Range(calls)
  OBVIOUS
<1>2. calls \in Seq(S)
  BY <1>1 DEF SoundCalls
<1>3. PICK t : t = Tail(calls)
  OBVIOUS
<1>4. /\ t \in Seq(S) /\ Len(t) = Len(calls) - 1 /\ Len(calls) \in Nat \ {0}
      /\ \A i \in 1 .. Len(t) : t[i] = calls[i + 1]
      /\ Head(calls) = calls[1] /\ 1 \in DOMAIN calls
  BY <1>2, <1>3
<1>5. \A i \in DOMAIN t : i + 1 \in DOMAIN calls /\ t[i] = calls[i + 1]
  BY <1>2, <1>4
<1>6. t \in Seq(Range(t))
  <2>1. t = [i \in 1 .. Len(t) |-> t[i]] /\ DOMAIN t = 1 .. Len(t) /\ Len(t) \in Nat
    BY <1>4
  <2>2. \A i \in 1 .. Len(t) : t[i] \in Range(t)
    BY <2>1 DEF Range
  <2> QED
    BY <2>1, <2>2, SeqDef
<1> QED
  BY <1>3, <1>4, <1>5, <1>6 DEF SoundCalls

LEMMA CallsStill ==
    ASSUME NEW before, NEW after, before => after, NEW calls, SoundCalls(calls, before)
    PROVE  SoundCalls(calls, after)
BY DEF SoundCalls

-----------------------------------------------------------------------------
(***************************************************************************)
(* A step that leaves the handler of one session with sound calls.         *)
(***************************************************************************)
LEMMA SoundExists == \A p \in SoundPlayer : p # NoAccount
BY HangarAssumption DEF SoundPlayer

LEMMA Handled ==
    ASSUME HangarInv, NEW s \in Session, NEW calls, todo' = [todo EXCEPT ![s] = calls],
           SoundCalls(calls, Exists'), now' \in Nat,
           account' = account \/ account' \in SoundPlayer
    PROVE  HangarInv'
<1>1. (Exists => Exists') /\ (Exists' => account' \in SoundPlayer)
  BY SoundExists DEF Exists, HangarInv
<1>2. DOMAIN todo' = Session /\ todo'[s] = calls /\ \A x \in Session : x # s => todo'[x] = todo[x]
  BY DEF HangarInv
<1>3. ASSUME NEW x \in Session PROVE SoundCalls(todo'[x], Exists')
  <2>1. CASE x = s
    BY <1>2, <2>1
  <2>2. CASE x # s
    <3>1. SoundCalls(todo[x], Exists)
      BY DEF HangarInv
    <3>2. SoundCalls(todo[x], Exists')
      BY <1>1, <3>1, CallsStill
    <3> QED
      BY <1>2, <2>2, <3>2
  <2> QED
    BY <2>1, <2>2
<1> QED
  BY <1>1, <1>2, <1>3 DEF HangarInv

LEMMA Begun ==
    ASSUME HangarInv, NEW s \in Session, NEW calls, Leaves(s, calls), SoundCalls(calls, Exists)
    PROVE  HangarInv'
<1>1. /\ todo' = [todo EXCEPT ![s] = calls]
      /\ account' = account /\ now' = now
  BY DEF Leaves
<1>2. (Exists <=> Exists') /\ now' \in Nat
  BY <1>1 DEF Exists, HangarInv
<1>3. SoundCalls(calls, Exists')
  BY <1>2, CallsStill
<1> QED
  BY <1>1, <1>2, <1>3, Handled

LEMMA Loaded ==
    ASSUME HangarInv, Exists
    PROVE  /\ account \in SoundPlayer /\ now \in Nat
           /\ account.inventory \in Inventory /\ Unique(account.inventory)
           /\ account.loadout \in Loadout /\ OneItemEach(account.loadout)
           /\ account.attachments \in Attachments /\ OnePartEach(account.attachments)
           /\ account.wallet \in [Wallets -> Nat]
BY DEF HangarInv, SoundPlayer, Player

LEMMA ActsLoaded ==
    ASSUME NEW s, Acts(s) PROVE Exists
BY DEF Acts, Exists

LEMMA OwnedTyped ==
    ASSUME NEW u \in Inventory, NEW serial \in IDs(u)
    PROVE  serial \in Serial /\ SlotOf(u, serial) \in Slots
<1>1. u \in Seq(InventoryItem)
  BY DEF Inventory
<1>2. PICK row : row = RowWith(u, serial)
  OBVIOUS
<1>3. row \in InventoryItem /\ row.id = serial
  BY <1>1, <1>2, IndexFound DEF RowWith
<1>4. row.item \in Item /\ serial \in Serial
  BY <1>3 DEF InventoryItem
<1>5. Catalog[row.item].slot \in Slots
  BY <1>4, AccountAssumption DEF GameItem
<1> QED
  BY <1>2, <1>4, <1>5 DEF SlotOf

-----------------------------------------------------------------------------
(***************************************************************************)
(* What each request leaves to be done.                                    *)
(***************************************************************************)
LEMMA LoginKeeps ==
    ASSUME HangarInv, NEW s \in Session, Login(s) PROVE HangarInv'
<1>1. now \in Nat
  BY DEF HangarInv
<1>2. CASE account = NoAccount
  <2>1. PICK w : w = Create(NewAccount(now))
    OBVIOUS
  <2>2. SoundCall(w) /\ ~ NeedsAccount(w)
    BY <1>1, <2>1, NewAccountReady, CallsMade
  <2>3. SoundCalls(<<w>>, Exists)
    BY <2>2, OneCall
  <2>4. Leaves(s, <<w>>)
    BY <1>2, <2>1 DEF Login
  <2> QED
    BY <2>3, <2>4, Begun
<1>3. CASE account # NoAccount
  <2>1. Exists /\ account \in SoundPlayer
    BY <1>3, Loaded DEF Exists
  <2>2. PICK purged : purged = Purged(account, now)
    OBVIOUS
  <2>3. PICK player : player = WithHeroes(purged)
    OBVIOUS
  <2>4. player \in SoundPlayer /\ Ready(player)
    BY <1>1, <2>1, <2>2, <2>3, PurgedSound, WithHeroesReady
  <2>5. /\ player.inventory \in Inventory /\ Unique(player.inventory)
        /\ player.loadout \in Loadout /\ OneItemEach(player.loadout)
        /\ player.attachments \in Attachments /\ OnePartEach(player.attachments)
    BY <2>4 DEF SoundPlayer, Player
  <2>6. PICK commit, mounts, worn, bind :
            /\ commit = Commit(player.inventory, "none", 0)
            /\ mounts = SaveAttachments(player.attachments)
            /\ worn = SaveLoadout(player.loadout)
            /\ bind = Bind(player)
    OBVIOUS
  <2>7. SoundCall(commit) /\ SoundCall(mounts) /\ SoundCall(worn)
    BY <2>5, <2>6, CallsMade
  <2>8. SoundCall(bind) /\ ~ NeedsAccount(bind)
    BY <2>4, <2>6, CallsMade
  <2>9. PICK a, b : /\ a = IF purged = account THEN <<>> ELSE <<commit, mounts>>
                    /\ b = IF player = account THEN <<>> ELSE <<worn>>
    OBVIOUS
  <2>10. SoundCalls(a, Exists)
    <3>1. SoundCalls(<<commit, mounts>>, Exists) /\ SoundCalls(<<>>, Exists)
      BY <2>1, <2>7, TwoCalls, NoCalls
    <3> QED
      BY <2>9, <3>1
  <2>11. SoundCalls(b, Exists)
    <3>1. SoundCalls(<<worn>>, Exists) /\ SoundCalls(<<>>, Exists)
      BY <2>1, <2>7, OneCall, NoCalls
    <3> QED
      BY <2>9, <3>1
  <2>12. SoundCalls((a \o b) \o <<bind>>, Exists)
    <3>1. SoundCalls(<<bind>>, Exists)
      BY <2>8, OneCall
    <3>2. SoundCalls(a \o b, Exists)
      BY <2>10, <2>11, CallsJoined
    <3> QED
      BY <3>1, <3>2, CallsJoined
  <2>13. Leaves(s, (a \o b) \o <<bind>>)
    BY <1>3, <2>2, <2>3, <2>6, <2>9 DEF Login, LoginCalls
  <2> QED
    BY <2>12, <2>13, Begun
<1> QED
  BY <1>2, <1>3

LEMMA BargainSound ==
    ASSUME HangarInv, Exists, NEW item \in Item
    PROVE  SoundCall(Bargain(item).commit)
<1>1. PICK pay, u : pay = StorePrice(item) /\ u = AddToInventory(account.inventory, item, now).inventory
  OBVIOUS
<1>2. u \in Inventory /\ Unique(u)
  BY <1>1, Loaded, AddSound
<1>3. pay.price \in Nat /\ (pay.price # 0 => pay.wallet \in Wallets)
  BY <1>1, PriceTyped
<1>4. Bargain(item).commit = Commit(u, pay.wallet, pay.price)
  BY <1>1 DEF Bargain
<1> QED
  BY <1>2, <1>3, <1>4, CallsMade

LEMMA BuyKeeps ==
    ASSUME HangarInv, NEW s \in Session, NEW item \in Item, Buy(s, item) PROVE HangarInv'
<1>1. Exists
  BY ActsLoaded DEF Buy
<1>2. PICK v, w : v = Bargain(item).commit /\ w = Answer(Bargain(item).player, Bargain(item).change)
  OBVIOUS
<1>3. SoundCall(v) /\ SoundCall(w) /\ ~ NeedsAccount(w)
  BY <1>1, <1>2, BargainSound, CallsMade
<1>4. SoundCalls(<<v, w>>, Exists)
  BY <1>1, <1>3, TwoCalls
<1>5. Leaves(s, <<v, w>>)
  BY <1>2 DEF Buy
<1> QED
  BY <1>4, <1>5, Begun

LEMMA BuyCustomPartKeeps ==
    ASSUME HangarInv, NEW s \in Session, NEW weapon, NEW item \in Item,
           BuyCustomPart(s, weapon, item)
    PROVE  HangarInv'
<1>1. Exists
  BY ActsLoaded DEF BuyCustomPart
<1>2. PICK w : w = BuyFor(weapon, item)
  OBVIOUS
<1>3. SoundCall(w)
  BY <1>2, CallsMade
<1>4. SoundCalls(<<w>>, Exists)
  BY <1>1, <1>3, OneCall
<1>5. Leaves(s, <<w>>)
  BY <1>2 DEF BuyCustomPart
<1> QED
  BY <1>4, <1>5, Begun

LEMMA CraftKeeps ==
    ASSUME HangarInv, NEW s \in Session, NEW recipe \in Recipes, Craft(s, recipe)
    PROVE  HangarInv'
<1>1. Exists
  BY ActsLoaded DEF Craft
<1>2. PICK left, serial : /\ left = ConsumeMaterials(account.inventory, recipe.need)
                          /\ serial = NextSerial(left)
  OBVIOUS
<1>3. PICK output : output = NewItem(serial, recipe.output, now)
  OBVIOUS
<1>4. PICK made : made = Append(left, output)
  OBVIOUS
<1>5. HasMaterials(account.inventory, recipe.need) /\ serial # 0
  BY <1>2 DEF Craft
<1>6. recipe.output \in Item /\ recipe.price \in Nat /\ recipe.need \in [DOMAIN recipe.need -> Nat \ {0}]
  BY HangarAssumption
<1>7. left \in Inventory /\ Unique(left)
  BY <1>1, <1>2, <1>5, <1>6, Loaded, ConsumeSound
<1>8. serial \in Serial \ IDs(left)
  BY <1>2, <1>5, NextSerialFree
<1>9. output \in InventoryItem /\ output.id \notin IDs(left)
  BY <1>1, <1>3, <1>6, <1>8, Loaded, NewItemTyped
<1>10. made \in Inventory /\ Unique(made)
  BY <1>4, <1>7, <1>9, FreshAppended
<1>11. PICK v : v = Commit(made, "point", recipe.price)
  OBVIOUS
<1>12. SoundCall(v)
  BY <1>6, <1>10, <1>11, CallsMade DEF Wallets
<1>13. PICK player, change : Leaves(s, <<v, Answer(player, change)>>)
  BY <1>2, <1>3, <1>4, <1>11 DEF Craft
<1>14. PICK w : w = Answer(player, change)
  OBVIOUS
<1>15. SoundCall(w) /\ ~ NeedsAccount(w)
  BY <1>14, CallsMade
<1>16. SoundCalls(<<v, w>>, Exists)
  BY <1>1, <1>12, <1>15, TwoCalls
<1>17. Leaves(s, <<v, w>>)
  BY <1>13, <1>14
<1> QED
  BY <1>16, <1>17, Begun

LEMMA SpendKeeps ==
    ASSUME HangarInv, NEW s \in Session, NEW function, SpendConsumable(s, function)
    PROVE  HangarInv'
<1>1. Exists
  BY ActsLoaded DEF SpendConsumable
<1>2. PICK u : u = account.inventory
  OBVIOUS
<1>3. u \in Inventory /\ Unique(u)
  BY <1>1, <1>2, Loaded
<1>4. PICK serial : serial = FindConsumable(u, function).id
  OBVIOUS
<1>5. serial \in IDs(u)
  BY <1>2, <1>3, <1>4, ConsumableFound DEF SpendConsumable
<1>6. PICK left : left = SpendUnit(u, serial)
  OBVIOUS
<1>7. left \in Inventory /\ Unique(left)
  BY <1>3, <1>5, <1>6, SpendSound
<1>8. PICK v : v = Commit(left, "none", 0)
  OBVIOUS
<1>9. SoundCall(v)
  BY <1>7, <1>8, CallsMade
<1>10. PICK player, change : Leaves(s, <<v, Answer(player, change)>>)
  BY <1>2, <1>4, <1>6, <1>8 DEF SpendConsumable
<1>11. PICK w : w = Answer(player, change)
  OBVIOUS
<1>12. SoundCall(w) /\ ~ NeedsAccount(w)
  BY <1>11, CallsMade
<1>13. SoundCalls(<<v, w>>, Exists)
  BY <1>1, <1>9, <1>12, TwoCalls
<1>14. Leaves(s, <<v, w>>)
  BY <1>10, <1>11
<1> QED
  BY <1>13, <1>14, Begun

LEMMA WearSound ==
    ASSUME HangarInv, Exists, NEW l \in Loadout, OneItemEach(l),
           NEW serial, serial \in IDs(account.inventory)
    PROVE  Wear(l, serial) \in Loadout /\ OneItemEach(Wear(l, serial))
<1>1. serial \in Serial /\ SlotOf(account.inventory, serial) \in Slots
  BY Loaded, OwnedTyped
<1>2. PICK v : v = Wear(l, serial)
  OBVIOUS
<1>3. v \in Loadout /\ OneItemEach(v)
  BY <1>1, <1>2, EquippedSound DEF Wear
<1> QED
  BY <1>2, <1>3

LEMMA PutOnKeeps ==
    ASSUME HangarInv, NEW s \in Session, NEW serials, NEW l \in Loadout, OneItemEach(l),
           PutOn(s, serials, l)
    PROVE  HangarInv'
<1>1. Exists
  BY ActsLoaded DEF PutOn
<1>2. PICK v : v = SaveLoadout(l)
  OBVIOUS
<1>3. SoundCall(v)
  BY <1>2, CallsMade
<1>4. PICK player, change : Leaves(s, <<v, Answer(player, change)>>)
  BY <1>2 DEF PutOn
<1>5. PICK w : w = Answer(player, change)
  OBVIOUS
<1>6. SoundCall(w) /\ ~ NeedsAccount(w)
  BY <1>5, CallsMade
<1>7. SoundCalls(<<v, w>>, Exists)
  BY <1>1, <1>3, <1>6, TwoCalls
<1>8. Leaves(s, <<v, w>>)
  BY <1>4, <1>5
<1> QED
  BY <1>7, <1>8, Begun

LEMMA EquipKeeps ==
    ASSUME HangarInv, NEW s \in Session, NEW serial, Equip(s, serial) PROVE HangarInv'
<1>1. Exists
  BY ActsLoaded DEF Equip, PutOn
<1>2. PICK serials : serials = <<serial>>
  OBVIOUS
<1>3. serial \in Range(serials)
  <2>1. 1 \in DOMAIN serials /\ serials[1] = serial
    BY <1>2
  <2> QED
    BY <2>1 DEF Range
<1>4. serial \in IDs(account.inventory)
  BY <1>2, <1>3 DEF Equip, PutOn, Usable
<1>5. PICK l : l = Wear(account.loadout, serial)
  OBVIOUS
<1>6. l \in Loadout /\ OneItemEach(l)
  BY <1>1, <1>4, <1>5, Loaded, WearSound
<1>7. PutOn(s, serials, l)
  BY <1>2, <1>5 DEF Equip
<1> QED
  BY <1>6, <1>7, PutOnKeeps

LEMMA ChangeWeaponsKeeps ==
    ASSUME HangarInv, NEW s \in Session, NEW first, NEW second, ChangeWeapons(s, first, second)
    PROVE  HangarInv'
<1>1. Exists
  BY ActsLoaded DEF ChangeWeapons, PutOn
<1>2. PICK serials : serials = <<first, second>>
  OBVIOUS
<1>3. first \in Range(serials) /\ second \in Range(serials)
  <2>1. 1 \in DOMAIN serials /\ serials[1] = first /\ 2 \in DOMAIN serials /\ serials[2] = second
    BY <1>2
  <2> QED
    BY <2>1 DEF Range
<1>4. first \in IDs(account.inventory) /\ second \in IDs(account.inventory)
  BY <1>2, <1>3 DEF ChangeWeapons, PutOn, Usable
<1>5. PICK k : k = Wear(account.loadout, first)
  OBVIOUS
<1>6. k \in Loadout /\ OneItemEach(k)
  BY <1>1, <1>4, <1>5, Loaded, WearSound
<1>7. PICK l : l = Wear(k, second)
  OBVIOUS
<1>8. l \in Loadout /\ OneItemEach(l)
  BY <1>1, <1>4, <1>6, <1>7, WearSound
<1>9. PutOn(s, serials, l)
  BY <1>2, <1>5, <1>7 DEF ChangeWeapons
<1> QED
  BY <1>8, <1>9, PutOnKeeps

LEMMA AttachCallsSound ==
    ASSUME HangarInv, Exists, NEW parent, NEW child, NEW change,
           NEW calls, calls = AttachCalls(parent, child, change)
    PROVE  SoundCalls(calls, Exists)
<1>1. CASE calls = <<>>
  BY <1>1, NoCalls
<1>2. CASE calls # <<>>
  <2>1. PICK slot : slot = SlotOf(account.inventory, child)
    OBVIOUS
  <2>2. PICK a : a = Attached(account.attachments, parent, child, slot)
    OBVIOUS
  <2>3. /\ Usable(child) /\ parent \in IDs(account.inventory)
        /\ \E player, told : calls = <<SaveAttachments(a), Answer(player, told)>>
    BY <1>2, <2>1, <2>2 DEF AttachCalls
  <2>4. child \in Serial /\ parent \in Serial /\ slot \in Slots
    BY <2>1, <2>3, Loaded, OwnedTyped DEF Usable
  <2>5. a \in Attachments /\ OnePartEach(a)
    BY <2>2, <2>4, Loaded, AttachedSound
  <2>6. PICK v : v = SaveAttachments(a)
    OBVIOUS
  <2>7. SoundCall(v)
    BY <2>5, <2>6, CallsMade
  <2>8. PICK player, told : calls = <<v, Answer(player, told)>>
    BY <2>3, <2>6
  <2>9. PICK w : w = Answer(player, told)
    OBVIOUS
  <2>10. SoundCall(w) /\ ~ NeedsAccount(w)
    BY <2>9, CallsMade
  <2>11. SoundCalls(<<v, w>>, Exists)
    BY <2>7, <2>10, TwoCalls
  <2> QED
    BY <2>8, <2>9, <2>11
<1> QED
  BY <1>1, <1>2

LEMMA AttachKeeps ==
    ASSUME HangarInv, NEW s \in Session, NEW parent, NEW child, Attach(s, parent, child)
    PROVE  HangarInv'
<1>1. Exists
  BY ActsLoaded DEF Attach
<1>2. PICK calls : calls = AttachCalls(parent, child, NoChange)
  OBVIOUS
<1>3. SoundCalls(calls, Exists)
  BY <1>1, <1>2, AttachCallsSound
<1>4. Leaves(s, calls)
  BY <1>2 DEF Attach
<1> QED
  BY <1>3, <1>4, Begun

LEMMA DetachKeeps ==
    ASSUME HangarInv, NEW s \in Session, NEW parent, NEW child, Detach(s, parent, child)
    PROVE  HangarInv'
<1>1. Exists
  BY ActsLoaded DEF Detach
<1>2. PICK a : a = account.attachments
  OBVIOUS
<1>3. a \in Attachments /\ OnePartEach(a)
  BY <1>1, <1>2, Loaded
<1>4. PICK P \in SUBSET DOMAIN a :
          P = {i \in DOMAIN a : a[i].parent # parent \/ a[i].child # child}
  OBVIOUS
<1>5. PICK kept : kept = Keep(a, P)
  OBVIOUS
<1>6. kept \in Attachments /\ OnePartEach(kept)
  BY <1>3, <1>5, PartsKept
<1>7. Detached(account.attachments, parent, child) = kept
  BY <1>2, <1>4, <1>5 DEF Detached
<1>8. PICK v : v = SaveAttachments(kept)
  OBVIOUS
<1>9. SoundCall(v)
  BY <1>6, <1>8, CallsMade
<1>10. PICK player, change : Leaves(s, <<v, Answer(player, change)>>)
  BY <1>7, <1>8 DEF Detach
<1>11. PICK w : w = Answer(player, change)
  OBVIOUS
<1>12. SoundCall(w) /\ ~ NeedsAccount(w)
  BY <1>11, CallsMade
<1>13. SoundCalls(<<v, w>>, Exists)
  BY <1>1, <1>9, <1>12, TwoCalls
<1>14. Leaves(s, <<v, w>>)
  BY <1>10, <1>11
<1> QED
  BY <1>13, <1>14, Begun

-----------------------------------------------------------------------------
(***************************************************************************)
(* The calls, one by one.                                                  *)
(***************************************************************************)
LEMMA HeadSound ==
    ASSUME HangarInv, NEW s \in Session, NEW what, NextCall(s, what)
    PROVE  /\ SoundCalls(Tail(todo[s]), Exists)
           /\ SoundCall(Head(todo[s])) /\ (NeedsAccount(Head(todo[s])) => Exists)
           /\ Head(todo[s]).do = what
<1>1. PICK calls : calls = todo[s]
  OBVIOUS
<1>2. SoundCalls(calls, Exists) /\ calls # <<>> /\ Head(calls).do = what
  BY <1>1 DEF HangarInv, NextCall
<1>3. /\ SoundCalls(Tail(calls), Exists)
      /\ SoundCall(Head(calls)) /\ (NeedsAccount(Head(calls)) => Exists)
  BY <1>2, CallsRest
<1> QED
  BY <1>1, <1>2, <1>3

LEMMA Continued ==
    ASSUME HangarInv, NEW s \in Session, NEW calls, Continue(s, calls), SoundCalls(calls, Exists),
           account' = account \/ account' \in SoundPlayer
    PROVE  HangarInv'
<1>1. todo' = [todo EXCEPT ![s] = calls] /\ now' \in Nat
  BY DEF Continue, HangarInv
<1>2. Exists => Exists'
  BY SoundExists DEF Exists
<1>3. SoundCalls(calls, Exists')
  BY <1>2, CallsStill
<1> QED
  BY <1>1, <1>3, Handled

LEMMA CommittedSound ==
    ASSUME HangarInv, Exists, NEW w, SoundCall(w), w.do = "commit",
           w.price = 0 \/ account.wallet[w.wallet] >= w.price
    PROVE  Committed(w) \in SoundPlayer
<1>1. /\ w.inventory \in Inventory /\ Unique(w.inventory)
      /\ w.price \in Nat /\ (w.price # 0 => w.wallet \in Wallets)
  BY DEF SoundCall
<1>2. PICK money : money = account.wallet
  OBVIOUS
<1>3. money \in [Wallets -> Nat]
  BY <1>2, Loaded
<1>4. PICK rest : rest = IF w.price = 0 THEN money
                         ELSE [money EXCEPT ![w.wallet] = @ - w.price]
  OBVIOUS
<1>5. rest \in [Wallets -> Nat]
  <2>1. CASE w.price = 0
    BY <1>3, <1>4, <2>1
  <2>2. CASE w.price # 0
    <3>1. PICK n : n = money[w.wallet] - w.price
      OBVIOUS
    <3>2. w.wallet \in Wallets /\ money[w.wallet] \in Nat /\ money[w.wallet] >= w.price
      BY <1>1, <1>2, <1>3, <2>2
    <3>3. n \in Nat
      BY <1>1, <3>1, <3>2
    <3>4. rest = [money EXCEPT ![w.wallet] = n]
      BY <1>4, <2>2, <3>1
    <3> QED
      BY <1>3, <3>3, <3>4
  <2> QED
    BY <2>1, <2>2
<1>6. PICK p : p = [account EXCEPT !.inventory = w.inventory]
  OBVIOUS
<1>7. p \in SoundPlayer
  BY <1>1, <1>6, Loaded, AccountWith
<1>8. [p EXCEPT !.wallet = rest] \in SoundPlayer
  BY <1>5, <1>7, AccountWith
<1>9. Committed(w) = [account EXCEPT !.inventory = w.inventory, !.wallet = rest]
  BY <1>2, <1>4 DEF Committed
<1>10. [account EXCEPT !.inventory = w.inventory, !.wallet = rest] = [p EXCEPT !.wallet = rest]
  BY <1>6
<1> QED
  BY <1>8, <1>9, <1>10

LEMMA CommittingKeeps ==
    ASSUME HangarInv, NEW s \in Session, Committing(s) PROVE HangarInv'
<1>1. NextCall(s, "commit")
  BY DEF Committing
<1>2. PICK w : w = Head(todo[s])
  OBVIOUS
<1>3. SoundCall(w) /\ w.do = "commit" /\ SoundCalls(Tail(todo[s]), Exists) /\ Exists
  BY <1>1, <1>2, HeadSound DEF NeedsAccount
<1>4. PICK covered \in BOOLEAN : covered = (w.price = 0 \/ account.wallet[w.wallet] >= w.price)
  OBVIOUS
<1>5. PICK calls : calls = IF covered THEN Tail(todo[s]) ELSE <<>>
  OBVIOUS
<1>6. Continue(s, calls)
  BY <1>2, <1>4, <1>5 DEF Committing
<1>7. SoundCalls(calls, Exists)
  <2>1. SoundCalls(<<>>, Exists)
    BY NoCalls
  <2> QED
    BY <1>3, <1>5, <2>1
<1>8. account' = account \/ account' \in SoundPlayer
  <2>1. account' = IF covered THEN Committed(w) ELSE account
    BY <1>2, <1>4 DEF Committing
  <2> QED
    BY <1>3, <1>4, <2>1, CommittedSound
<1> QED
  BY <1>6, <1>7, <1>8, Continued

LEMMA SavingLoadoutKeeps ==
    ASSUME HangarInv, NEW s \in Session, SavingLoadout(s) PROVE HangarInv'
<1>1. NextCall(s, "saveLoadout")
  BY DEF SavingLoadout
<1>2. PICK w, calls : w = Head(todo[s]) /\ calls = Tail(todo[s])
  OBVIOUS
<1>3. SoundCall(w) /\ w.do = "saveLoadout" /\ SoundCalls(calls, Exists) /\ Exists
  BY <1>1, <1>2, HeadSound DEF NeedsAccount
<1>4. PICK l : l = w.loadout
  OBVIOUS
<1>5. l \in Loadout /\ OneItemEach(l)
  BY <1>3, <1>4 DEF SoundCall
<1>6. account' = [account EXCEPT !.loadout = l]
  BY <1>2, <1>4 DEF SavingLoadout
<1>7. account' \in SoundPlayer
  BY <1>3, <1>5, <1>6, Loaded, AccountWith
<1>8. Continue(s, calls)
  BY <1>2 DEF SavingLoadout
<1> QED
  BY <1>3, <1>7, <1>8, Continued

LEMMA SavingAttachmentsKeeps ==
    ASSUME HangarInv, NEW s \in Session, SavingAttachments(s) PROVE HangarInv'
<1>1. NextCall(s, "saveAttachments")
  BY DEF SavingAttachments
<1>2. PICK w, calls : w = Head(todo[s]) /\ calls = Tail(todo[s])
  OBVIOUS
<1>3. SoundCall(w) /\ w.do = "saveAttachments" /\ SoundCalls(calls, Exists) /\ Exists
  BY <1>1, <1>2, HeadSound DEF NeedsAccount
<1>4. PICK a : a = w.attachments
  OBVIOUS
<1>5. a \in Attachments /\ OnePartEach(a)
  BY <1>3, <1>4 DEF SoundCall
<1>6. account' = [account EXCEPT !.attachments = a]
  BY <1>2, <1>4 DEF SavingAttachments
<1>7. account' \in SoundPlayer
  BY <1>3, <1>5, <1>6, Loaded, AccountWith
<1>8. Continue(s, calls)
  BY <1>2 DEF SavingAttachments
<1> QED
  BY <1>3, <1>7, <1>8, Continued

LEMMA CreatingKeeps ==
    ASSUME HangarInv, NEW s \in Session, Creating(s) PROVE HangarInv'
<1>1. NextCall(s, "create")
  BY DEF Creating
<1>2. PICK p : p = Head(todo[s]).player
  OBVIOUS
<1>3. p \in SoundPlayer /\ Ready(p)
  BY <1>1, <1>2, HeadSound DEF SoundCall
<1>4. account' = account \/ account' \in SoundPlayer
  BY <1>2, <1>3 DEF Creating
<1>5. PICK w : w = IF account = NoAccount THEN Bind(p) ELSE FindAgain
  OBVIOUS
<1>6. SoundCall(w) /\ ~ NeedsAccount(w)
  BY <1>3, <1>5, CallsMade
<1>7. SoundCalls(<<w>>, Exists)
  BY <1>6, OneCall
<1>8. Continue(s, <<w>>)
  BY <1>2, <1>5 DEF Creating
<1> QED
  BY <1>4, <1>7, <1>8, Continued

LEMMA FindingAgainKeeps ==
    ASSUME HangarInv, NEW s \in Session, FindingAgain(s) PROVE HangarInv'
<1>1. PICK w : w = BindAsFound(account)
  OBVIOUS
<1>2. SoundCall(w) /\ ~ NeedsAccount(w)
  BY <1>1, CallsMade
<1>3. SoundCalls(<<w>>, Exists)
  BY <1>2, OneCall
<1>4. Continue(s, <<w>>) /\ account' = account
  BY <1>1 DEF FindingAgain
<1> QED
  BY <1>3, <1>4, Continued

LEMMA BindingKeeps ==
    ASSUME HangarInv, NEW s \in Session, Binding(s) PROVE HangarInv'
<1>1. PICK what : NextCall(s, what)
  BY DEF Binding
<1>2. PICK calls : calls = Tail(todo[s])
  OBVIOUS
<1>3. SoundCalls(calls, Exists)
  BY <1>1, <1>2, HeadSound
<1>4. Continue(s, calls) /\ account' = account
  BY <1>2 DEF Binding
<1> QED
  BY <1>3, <1>4, Continued

LEMMA BuyingForKeeps ==
    ASSUME HangarInv, NEW s \in Session, BuyingFor(s) PROVE HangarInv'
<1>1. NextCall(s, "buyFor")
  BY DEF BuyingFor
<1>2. PICK w : w = Head(todo[s])
  OBVIOUS
<1>3. w.item \in Item /\ Exists
  BY <1>1, <1>2, HeadSound DEF NeedsAccount, SoundCall
<1>4. PICK v, m : /\ v = Bargain(w.item).commit
                  /\ m = MountBought(w.weapon, Bargain(w.item).row.id, Bargain(w.item).change)
  OBVIOUS
<1>5. SoundCall(v) /\ SoundCall(m)
  BY <1>3, <1>4, BargainSound, CallsMade
<1>6. PICK calls : calls = IF MayBuy(w.item) THEN <<v, m>> ELSE <<>>
  OBVIOUS
<1>7. SoundCalls(calls, Exists)
  <2>1. SoundCalls(<<v, m>>, Exists) /\ SoundCalls(<<>>, Exists)
    BY <1>3, <1>5, TwoCalls, NoCalls
  <2> QED
    BY <1>6, <2>1
<1>8. Continue(s, calls) /\ account' = account
  BY <1>2, <1>4, <1>6 DEF BuyingFor
<1> QED
  BY <1>7, <1>8, Continued

LEMMA MountingBoughtKeeps ==
    ASSUME HangarInv, NEW s \in Session, MountingBought(s) PROVE HangarInv'
<1>1. NextCall(s, "mountBought")
  BY DEF MountingBought
<1>2. PICK w : w = Head(todo[s])
  OBVIOUS
<1>3. Exists
  BY <1>1, HeadSound DEF NeedsAccount
<1>4. PICK calls : calls = AttachCalls(w.weapon, w.serial, w.change)
  OBVIOUS
<1>5. SoundCalls(calls, Exists)
  BY <1>3, <1>4, AttachCallsSound
<1>6. Continue(s, calls) /\ account' = account
  BY <1>2, <1>4 DEF MountingBought
<1> QED
  BY <1>5, <1>6, Continued

LEMMA AnsweringKeeps ==
    ASSUME HangarInv, NEW s \in Session, Answering(s) PROVE HangarInv'
<1>1. NextCall(s, "answer")
  BY DEF Answering
<1>2. PICK calls : calls = Tail(todo[s])
  OBVIOUS
<1>3. SoundCalls(calls, Exists)
  BY <1>1, <1>2, HeadSound
<1>4. Continue(s, calls) /\ account' = account
  BY <1>2 DEF Answering
<1> QED
  BY <1>3, <1>4, Continued

(***************************************************************************)
(* A failing call and a crash leave less to do, the others nothing new.    *)
(***************************************************************************)
LEMMA FailKeeps ==
    ASSUME HangarInv, NEW s \in Session, Fail(s) PROVE HangarInv'
<1>1. PICK calls : calls = <<>>
  OBVIOUS
<1>2. /\ todo' = [todo EXCEPT ![s] = calls]
      /\ account' = account /\ now' = now
  BY <1>1 DEF Fail
<1>3. SoundCalls(calls, Exists')
  BY <1>1, NoCalls
<1>4. now' \in Nat
  BY <1>2 DEF HangarInv
<1> QED
  BY <1>2, <1>3, <1>4, Handled

LEMMA CrashKeeps ==
    ASSUME HangarInv, Crash PROVE HangarInv'
<1>1. todo' = [s \in Session |-> <<>>] /\ account' = account /\ now' = now
  BY DEF Crash
<1>2. \A s \in Session : SoundCalls(todo'[s], Exists')
  <2> TAKE s \in Session
  <2>1. todo'[s] = <<>>
    BY <1>1
  <2>2. SoundCalls(<<>>, Exists')
    BY NoCalls
  <2> QED
    BY <2>1, <2>2
<1> QED
  BY <1>1, <1>2 DEF HangarInv, Exists

LEMMA StandingKeeps ==
    ASSUME HangarInv, UNCHANGED <<account, todo>>, now' \in Nat PROVE HangarInv'
BY DEF HangarInv, Exists

LEMMA AsksKeeps ==
    ASSUME HangarInv, NEW s \in Session, Asks(s) PROVE HangarInv'
<1>1. ASSUME NEW item \in Item, Buy(s, item) PROVE HangarInv'
  BY <1>1, BuyKeeps
<1>2. ASSUME NEW recipe \in Recipes, Craft(s, recipe) PROVE HangarInv'
  BY <1>2, CraftKeeps
<1>3. ASSUME NEW function, SpendConsumable(s, function) PROVE HangarInv'
  BY <1>3, SpendKeeps
<1>4. ASSUME NEW serial, Equip(s, serial) PROVE HangarInv'
  BY <1>4, EquipKeeps
<1>5. ASSUME NEW first, NEW second, ChangeWeapons(s, first, second) PROVE HangarInv'
  BY <1>5, ChangeWeaponsKeeps
<1>6. ASSUME NEW parent, NEW child, Attach(s, parent, child) PROVE HangarInv'
  BY <1>6, AttachKeeps
<1>7. ASSUME NEW parent, NEW child, Detach(s, parent, child) PROVE HangarInv'
  BY <1>7, DetachKeeps
<1>8. ASSUME NEW weapon, NEW item \in Item, BuyCustomPart(s, weapon, item) PROVE HangarInv'
  BY <1>8, BuyCustomPartKeeps
<1>9. \/ \E item \in Item : Buy(s, item)
      \/ \E recipe \in Recipes : Craft(s, recipe)
      \/ \E function : SpendConsumable(s, function)
      \/ \E serial : Equip(s, serial)
      \/ \E first, second : ChangeWeapons(s, first, second)
      \/ \E parent, child : Attach(s, parent, child) \/ Detach(s, parent, child)
      \/ \E item \in Item : \E weapon : BuyCustomPart(s, weapon, item)
  BY Zenon DEF Asks
<1> QED
  BY <1>1, <1>2, <1>3, <1>4, <1>5, <1>6, <1>7, <1>8, <1>9

LEMMA HangarInit == Init => HangarInv
<1> SUFFICES ASSUME Init PROVE HangarInv
  OBVIOUS
<1>1. now = 0 /\ account = NoAccount /\ todo = [s \in Session |-> <<>>]
  BY DEF Init
<1>2. \A s \in Session : SoundCalls(todo[s], Exists)
  <2> TAKE s \in Session
  <2>1. todo[s] = <<>>
    BY <1>1
  <2>2. SoundCalls(<<>>, Exists)
    BY NoCalls
  <2> QED
    BY <2>1, <2>2
<1> QED
  BY <1>1, <1>2 DEF HangarInv, Exists

LEMMA HangarNext == HangarInv /\ [Next]_vars => HangarInv'
<1> SUFFICES ASSUME HangarInv, [Next]_vars PROVE HangarInv'
  OBVIOUS
<1>1. ASSUME NEW s \in Session, Login(s) PROVE HangarInv'
  BY <1>1, LoginKeeps
<1>2. ASSUME NEW s \in Session, ItemLogin(s) \/ Drop(s) PROVE HangarInv'
  <2>1. UNCHANGED <<account, todo>> /\ now' \in Nat
    BY <1>2 DEF ItemLogin, Drop, HangarInv
  <2> QED
    BY <2>1, StandingKeeps
<1>3. ASSUME NEW s \in Session, Asks(s) PROVE HangarInv'
  BY <1>3, AsksKeeps
<1>4. ASSUME NEW s \in Session, Proceeds(s) PROVE HangarInv'
  BY <1>4, CommittingKeeps, SavingLoadoutKeeps, SavingAttachmentsKeeps, CreatingKeeps,
     FindingAgainKeeps, BindingKeeps, BuyingForKeeps, MountingBoughtKeeps, AnsweringKeeps
     DEF Proceeds
<1>5. ASSUME NEW s \in Session, Fail(s) PROVE HangarInv'
  BY <1>5, FailKeeps
<1>6. CASE Crash
  BY <1>6, CrashKeeps
<1>7. CASE Tick
  <2>1. UNCHANGED <<account, todo>> /\ now' \in Nat
    BY <1>7 DEF Tick, HangarInv
  <2> QED
    BY <2>1, StandingKeeps
<1>8. CASE UNCHANGED vars
  <2>1. UNCHANGED <<account, todo>> /\ now' \in Nat
    BY <1>8 DEF vars, HangarInv
  <2> QED
    BY <2>1, StandingKeeps
<1> QED
  BY <1>1, <1>2, <1>3, <1>4, <1>5, <1>6, <1>7, <1>8 DEF Next

(***************************************************************************)
(* HangarInv holds always: the account in the database, and whatever any   *)
(* handler has left to save to it, is sound, however requests overlap and  *)
(* wherever they are cut off.                                              *)
(***************************************************************************)
THEOREM HangarInvariant == Spec => []HangarInv
<1>1. Init => HangarInv
  BY HangarInit
<1>2. HangarInv /\ [Next]_vars => HangarInv'
  BY HangarNext
<1> QED
  BY <1>1, <1>2, PTL DEF Spec

(***************************************************************************)
(* WalletSound: Buy and Craft check a balance that another session may be  *)
(* spending; CommitInventory refuses what it no longer covers, and no      *)
(* wallet ever goes below zero.                                            *)
(***************************************************************************)
THEOREM WalletAlwaysSound == Spec => []WalletSound
<1>1. HangarInv => WalletSound
  <2> SUFFICES ASSUME HangarInv, Exists, NEW w \in Wallets PROVE account.wallet[w] >= 0
    BY DEF WalletSound
  <2>1. account.wallet \in [Wallets -> Nat]
    BY Loaded
  <2>2. account.wallet[w] \in Nat
    BY <2>1
  <2> QED
    BY <2>2
<1> QED
  BY <1>1, HangarInvariant, PTL

(***************************************************************************)
(* SerialsUnique: NextSerial gives freed serials out again, and purchases, *)
(* crafting, spending and the purge save whole inventories from copies     *)
(* that may be out of date; no two items ever share a serial.              *)
(***************************************************************************)
THEOREM SerialsAlwaysUnique == Spec => []SerialsUnique
<1>1. HangarInv => SerialsUnique
  BY Loaded DEF SerialsUnique
<1> QED
  BY <1>1, HangarInvariant, PTL

(***************************************************************************)
(* OnePerSlot: however the saves of Equip, ChangeWeapons, Attach, Detach,  *)
(* BuyCustomPart and LoginBySteam fall, no slot holds two items and no     *)
(* slot of a weapon two parts.                                             *)
(***************************************************************************)
THEOREM AlwaysOnePerSlot == Spec => []OnePerSlot
<1>1. HangarInv => OnePerSlot
  BY Loaded DEF OnePerSlot
<1> QED
  BY <1>1, HangarInvariant, PTL

(***************************************************************************)
(* HeroesEquipped: LoginBySteam never binds an account with a hero owned   *)
(* but none equipped on a side, whatever an earlier login was cut off in.  *)
(***************************************************************************)
THEOREM HeroesAlwaysEquipped == Spec => []HeroesEquipped
<1>1. HangarInv => HeroesEquipped
  <2> SUFFICES ASSUME HangarInv, NEW s \in Session, NextCall(s, "bind")
               PROVE  Ready(Head(todo[s]).player)
    BY DEF HeroesEquipped
  <2> QED
    BY HeadSound DEF SoundCall
<1> QED
  BY <1>1, HangarInvariant, PTL

-----------------------------------------------------------------------------
(***************************************************************************)
(* What the changes of an inventory leave of its rows.                     *)
(***************************************************************************)
LEMMA SerialsDiffer ==
    ASSUME NEW u, Unique(u), NEW r \in Range(u), NEW q \in Range(u), r.id = q.id
    PROVE  r = q
BY DEF Range, Unique

LEMMA IDsInRange ==
    ASSUME NEW u PROVE \A id : id \in IDs(u) <=> \E r \in Range(u) : r.id = id
BY DEF IDs, Range

LEMMA AppendRange ==
    ASSUME NEW S, NEW u \in Seq(S), NEW e \in S
    PROVE  Range(Append(u, e)) = Range(u) \cup {e}
<1>1. PICK v : v = Append(u, e)
  OBVIOUS
<1>2. /\ v \in Seq(S)
      /\ Len(v) = Len(u) + 1
      /\ \A i \in DOMAIN u : i \in DOMAIN v /\ v[i] = u[i]
      /\ Len(v) \in DOMAIN v /\ v[Len(v)] = e
  BY <1>1, AppendKeeps
<1>3. DOMAIN u = 1 .. Len(u) /\ DOMAIN v = 1 .. Len(u) + 1 /\ Len(u) \in Nat
  BY <1>2
<1>4. \A i \in DOMAIN v : i \in DOMAIN u \/ i = Len(v)
  BY <1>2, <1>3
<1>5. \A x : x \in Range(v) => x \in Range(u) \cup {e}
  BY <1>2, <1>4 DEF Range
<1>6. \A x : x \in Range(u) \cup {e} => x \in Range(v)
  BY <1>2 DEF Range
<1> QED
  BY <1>1, <1>5, <1>6

LEMMA KeepRange ==
    ASSUME NEW S, NEW u \in Seq(S), NEW P \in SUBSET DOMAIN u
    PROVE  Range(Keep(u, P)) = {u[k] : k \in P}
<1>1. PICK v : v = Keep(u, P)
  OBVIOUS
<1>2. /\ \A i \in DOMAIN v : \E k \in P : v[i] = u[k]
      /\ \A k \in P : \E i \in DOMAIN v : v[i] = u[k]
  BY <1>1, KeepChooses
<1> QED
  BY <1>1, <1>2 DEF Range

\* One row of an inventory gives way to another with its serial.
LEMMA ChangedRange ==
    ASSUME NEW u \in Inventory, Unique(u), NEW k \in DOMAIN u, NEW row, row.id = u[k].id,
           NEW v, v = [u EXCEPT ![k] = row]
    PROVE  \A r : r \in Range(v) <=> r = row \/ (r \in Range(u) /\ r.id # row.id)
<1>1. DOMAIN v = DOMAIN u /\ v[k] = row /\ \A i \in DOMAIN u : i # k => v[i] = u[i]
  OBVIOUS
<1>2. \A i \in DOMAIN u : i # k => u[i].id # row.id
  BY DEF Unique
<1> QED
  BY <1>1, <1>2 DEF Range

\* A purchase changes the row it tells of, or adds it.
LEMMA AddTells ==
    ASSUME NEW u \in Inventory, Unique(u), NEW item \in Item, NEW t \in Nat,
           NEW v, v = AddToInventory(u, item, t).inventory,
           NEW row, row = AddToInventory(u, item, t).row, row.id # 0
    PROVE  /\ \A r : r \in Range(v) <=> r = row \/ (r \in Range(u) /\ r.id # row.id)
           /\ row \in InventoryItem /\ row.item = item
           /\ \A r \in Range(u) : r.id = row.id => r.item = item
           /\ (\A r \in Range(u) : r.value > 0) => row.value > 0
<1>1. PICK k, serial, use : /\ k = FirstOf(u, item) /\ serial = NextSerial(u)
                            /\ use = Catalog[item].useTime
  OBVIOUS
<1>2. use \in Nat
  BY <1>1, AccountAssumption DEF GameItem
<1>3. v \in Inventory /\ Unique(v)
  BY AddSound
<1>4. ASSUME NEW new, Holding(u, item) # {}, v = [u EXCEPT ![k] = new], row = v[k],
             new.id = u[k].id, new.item = u[k].item, u[k].value > 0 => new.value > 0
      PROVE  /\ \A r : r \in Range(v) <=> r = row \/ (r \in Range(u) /\ r.id # row.id)
             /\ row \in InventoryItem /\ row.item = item
             /\ \A r \in Range(u) : r.id = row.id => r.item = item
             /\ (\A r \in Range(u) : r.value > 0) => row.value > 0
  <2>1. k \in DOMAIN u /\ u[k].item = item
    BY <1>1, <1>4, FirstHeld
  <2>2. row = new /\ row.id = u[k].id /\ k \in DOMAIN v
    BY <1>4, <2>1
  <2>3. \A r : r \in Range(v) <=> r = row \/ (r \in Range(u) /\ r.id # row.id)
    <3>1. PICK w : w = [u EXCEPT ![k] = new]
      OBVIOUS
    <3>2. \A r : r \in Range(w) <=> r = new \/ (r \in Range(u) /\ r.id # new.id)
      <4>1. new.id = u[k].id
        BY <1>4
      <4> QED
        BY <2>1, <3>1, <4>1, ChangedRange
    <3> QED
      BY <1>4, <2>2, <3>1, <3>2
  <2>4. row \in InventoryItem
    BY <1>3, <1>4, <2>2 DEF Inventory
  <2>5. u[k] \in Range(u)
    BY <2>1 DEF Range
  <2>6. \A r \in Range(u) : r.id = row.id => r = u[k]
    BY <2>2, <2>5, SerialsDiffer
  <2> QED
    BY <1>4, <2>1, <2>2, <2>3, <2>4, <2>5, <2>6
<1>5. CASE Holding(u, item) # {} /\ use > 0
  <2>1. k \in DOMAIN u /\ u[k] \in InventoryItem
    BY <1>1, <1>5, FirstHeld DEF Inventory
  <2>2. PICK n, new : n = Max({u[k].expires, t}) + use /\ new = [u[k] EXCEPT !.expires = n]
    OBVIOUS
  <2>3. v = [u EXCEPT ![k].expires = Max({@, t}) + use] /\ row = v[k]
    <3>1. PICK w : w = [u EXCEPT ![k].expires = Max({@, t}) + use]
      OBVIOUS
    <3>2. AddToInventory(u, item, t) = [inventory |-> w, row |-> w[k]]
      BY <1>1, <1>5, <3>1 DEF AddToInventory
    <3> QED
      BY <3>1, <3>2
  <2>4. v = [u EXCEPT ![k] = new]
    BY <2>2, <2>3
  <2>5. new.id = u[k].id /\ new.item = u[k].item /\ new.value = u[k].value
    BY <2>1, <2>2 DEF InventoryItem
  <2> QED
    BY <1>4, <1>5, <2>3, <2>4, <2>5
<1>6. CASE Holding(u, item) # {} /\ use = 0 /\ Catalog[item].isMerge
  <2>1. k \in DOMAIN u /\ u[k] \in InventoryItem
    BY <1>1, <1>6, FirstHeld DEF Inventory
  <2>2. PICK n, new : n = u[k].value + 1 /\ new = [u[k] EXCEPT !.value = n]
    OBVIOUS
  <2>3. v = [u EXCEPT ![k].value = @ + 1] /\ row = v[k]
    <3>1. PICK w : w = [u EXCEPT ![k].value = @ + 1]
      OBVIOUS
    <3>2. AddToInventory(u, item, t) = [inventory |-> w, row |-> w[k]]
      BY <1>1, <1>6, <3>1 DEF AddToInventory
    <3> QED
      BY <3>1, <3>2
  <2>4. v = [u EXCEPT ![k] = new]
    BY <2>2, <2>3
  <2>5. new.id = u[k].id /\ new.item = u[k].item /\ (u[k].value > 0 => new.value > 0)
    BY <2>1, <2>2 DEF InventoryItem
  <2> QED
    BY <1>4, <1>6, <2>3, <2>4, <2>5
<1>7. CASE ~ (Holding(u, item) # {} /\ use > 0)
           /\ ~ (Holding(u, item) # {} /\ use = 0 /\ Catalog[item].isMerge)
  <2>1. /\ row = NewItem(serial, item, t)
        /\ v = IF serial = 0 THEN u ELSE Append(u, row)
    BY <1>1, <1>7 DEF AddToInventory
  <2>2. row.id = serial /\ row.item = item /\ row.value = 1
    BY <2>1 DEF NewItem
  <2>3. serial \in Serial \ IDs(u)
    BY <1>1, <2>2, NextSerialFree
  <2>4. row \in InventoryItem
    BY <2>1, <2>3, NewItemTyped
  <2>5. u \in Seq(InventoryItem) /\ v = Append(u, row)
    BY <2>1, <2>2 DEF Inventory
  <2>6. Range(v) = Range(u) \cup {row}
    BY <2>4, <2>5, AppendRange
  <2>7. \A r \in Range(u) : r.id # row.id
    BY <2>2, <2>3, IDsInRange
  <2> QED
    BY <2>2, <2>4, <2>6, <2>7
<1> QED
  BY <1>5, <1>6, <1>7

\* Crafting leaves what it does not take, and nothing that is used up.
LEMMA ConsumeLeaves ==
    ASSUME NEW u \in Inventory, Unique(u), NEW need, need \in [DOMAIN need -> Nat \ {0}],
           HasMaterials(u, need), NEW v, v = ConsumeMaterials(u, need)
    PROVE  /\ \A r \in Range(u) : r.item \notin DOMAIN need /\ r.value > 0 => r \in Range(v)
           /\ \A r \in Range(v) : r.value > 0 /\ r.id \in IDs(u)
<1>1. PICK rows : rows = ConsumeMaterialsKept(u, need)
  OBVIOUS
<1>2. rows \in Seq(InventoryItem)
  BY <1>1, MaterialsTaken DEF Inventory
<1>3. PICK P \in SUBSET DOMAIN rows : P = {i \in DOMAIN rows : rows[i].value > 0}
  OBVIOUS
<1>4. Range(v) = {rows[k] : k \in P}
  BY <1>1, <1>2, <1>3, KeepRange DEF ConsumeMaterials
<1>5. DOMAIN rows = DOMAIN u
  BY <1>1 DEF ConsumeMaterialsKept
<1>6. \A i \in DOMAIN u : u[i].item \notin DOMAIN need => rows[i] = u[i]
  BY <1>1 DEF ConsumeMaterialsKept, MaterialAt
<1>7. \A i \in DOMAIN u : rows[i].id = u[i].id
  <2> TAKE i \in DOMAIN u
  <2>1. u[i] \in InventoryItem
    BY DEF Inventory
  <2>2. rows[i] = [u[i] EXCEPT !.value = @ - need[u[i].item]] \/ rows[i] = u[i]
    BY <1>1 DEF ConsumeMaterialsKept
  <2> QED
    BY <2>1, <2>2 DEF InventoryItem
<1>8. ASSUME NEW r \in Range(u), r.item \notin DOMAIN need, r.value > 0 PROVE r \in Range(v)
  <2>1. PICK i \in DOMAIN u : r = u[i]
    BY DEF Range
  <2>2. rows[i] = r /\ i \in P
    BY <1>3, <1>5, <1>6, <1>8, <2>1
  <2> QED
    BY <1>4, <2>2
<1>9. ASSUME NEW r \in Range(v) PROVE r.value > 0 /\ r.id \in IDs(u)
  BY <1>3, <1>4, <1>5, <1>7 DEF IDs
<1> QED
  BY <1>8, <1>9

\* Spending takes from one row.
LEMMA SpendLeaves ==
    ASSUME NEW u \in Inventory, Unique(u), NEW serial \in IDs(u),
           NEW v, v = SpendUnit(u, serial)
    PROVE  /\ \A r \in Range(u) : r.id # serial => r \in Range(v)
           /\ \A r \in Range(v) : r \in Range(u) \/ (r.id = serial /\ r.value > 0)
<1>1. u \in Seq(InventoryItem)
  BY DEF Inventory
<1>2. PICK k, row : k = IndexOf(u, serial) /\ row = u[k]
  OBVIOUS
<1>3. k \in DOMAIN u /\ row.id = serial /\ row \in InventoryItem /\ row.value \in Nat
  <2>1. k \in DOMAIN u /\ row.id = serial
    BY <1>1, <1>2, IndexFound
  <2>2. row \in InventoryItem
    BY <1>1, <1>2, <2>1
  <2> QED
    BY <2>1, <2>2 DEF InventoryItem
<1>4. CASE row.value <= 1
  <2>1. v = Without(u, serial)
    BY <1>2, <1>4 DEF SpendUnit, RowWith
  <2>2. \A i \in DOMAIN u : u[i].id # serial => \E j \in DOMAIN v : v[j] = u[i]
    BY <1>1, <2>1, WithoutRemoves
  <2>3. Thinned(v, u)
    BY <1>1, <2>1, WithoutThins
  <2>4. \A r \in Range(v) : r \in Range(u)
    BY <2>3 DEF Thinned, Range
  <2> QED
    BY <2>2, <2>4 DEF Range
<1>5. CASE ~ (row.value <= 1)
  <2>1. PICK n, less : n = row.value - 1 /\ less = [row EXCEPT !.value = n]
    OBVIOUS
  <2>2. less.id = serial /\ less.value > 0
    BY <1>3, <1>5, <2>1 DEF InventoryItem
  <2>3. v = [u EXCEPT ![k].value = @ - 1]
    BY <1>2, <1>5 DEF SpendUnit, RowWith
  <2>4. v = [u EXCEPT ![k] = less]
    BY <1>2, <2>1, <2>3
  <2>5. less.id = u[k].id
    BY <1>2, <1>3, <2>2
  <2>6. \A r : r \in Range(v) <=> r = less \/ (r \in Range(u) /\ r.id # less.id)
    BY <1>3, <2>4, <2>5, ChangedRange
  <2> QED
    BY <2>2, <2>6
<1> QED
  BY <1>4, <1>5

-----------------------------------------------------------------------------
(***************************************************************************)
(* What is worn is owned: after each change of an account by itself.       *)
(***************************************************************************)
Carried(u, v) ==
    \A r \in Range(u) :
        r.item \in Wearable /\ r.value > 0 => \E q \in Range(v) : q.id = r.id /\ q.item = r.item

Stocked(u) == \A r \in Range(u) : r.value > 0

LEMMA HoldsCarried ==
    ASSUME NEW u, NEW v, Stocked(u), Carried(u, v)
    PROVE  /\ \A serial : Holds(u, serial) => Holds(v, serial)
           /\ \A serial, slot : HoldsIn(u, serial, slot) => HoldsIn(v, serial, slot)
BY DEF Stocked, Carried, Holds, HoldsIn

LEMMA HoldsInHolds ==
    ASSUME NEW u, NEW serial, NEW slot, HoldsIn(u, serial, slot) PROVE Holds(u, serial)
BY DEF Holds, HoldsIn

LEMMA OwnsCarried ==
    ASSUME NEW p, NEW q, Owns(p), Stocked(q.inventory), Carried(p.inventory, q.inventory),
           q.loadout = p.loadout, q.attachments = p.attachments
    PROVE  Owns(q)
<1>1. Stocked(p.inventory)
  BY DEF Owns, Stocked
<1>2. /\ \A serial : Holds(p.inventory, serial) => Holds(q.inventory, serial)
      /\ \A serial, slot : HoldsIn(p.inventory, serial, slot) => HoldsIn(q.inventory, serial, slot)
  BY <1>1, HoldsCarried
<1> QED
  BY <1>2 DEF Owns, Stocked

\* An item that may be worn, by its row and by its serial.
LEMMA OwnHeld ==
    ASSUME NEW u \in Inventory, Unique(u), NEW r \in Range(u), r.item \in Wearable
    PROVE  HoldsIn(u, r.id, SlotOf(u, r.id))
<1>1. PICK k \in DOMAIN u : r = u[k]
  BY DEF Range
<1>2. RowWith(u, r.id) = r
  BY <1>1, OwnRow
<1> QED
  BY <1>2 DEF HoldsIn, SlotOf

LEMMA RowOwned ==
    ASSUME NEW u \in Inventory, Unique(u), NEW serial \in IDs(u)
    PROVE  RowWith(u, serial) \in Range(u) /\ RowWith(u, serial).id = serial
<1>1. u \in Seq(InventoryItem)
  BY DEF Inventory
<1>2. IndexOf(u, serial) \in DOMAIN u /\ u[IndexOf(u, serial)].id = serial
  BY <1>1, IndexFound
<1> QED
  BY <1>2 DEF RowWith, Range

\* The other way round: the item found by its serial is the one that is held.
LEMMA HeldOwned ==
    ASSUME NEW u \in Inventory, Unique(u), NEW serial, NEW slot, HoldsIn(u, serial, slot)
    PROVE  serial \in IDs(u) /\ SlotOf(u, serial) = slot
<1>1. PICK k \in DOMAIN u : u[k].id = serial /\ Catalog[u[k].item].slot = slot
  BY DEF HoldsIn, Range
<1>2. u[k].id \in IDs(u) /\ RowWith(u, u[k].id) = u[k]
  BY OwnRow
<1> QED
  BY <1>1, <1>2 DEF SlotOf

LEMMA EquippedRange ==
    ASSUME NEW l \in Loadout, NEW slot \in Slots, NEW serial \in Serial,
           NEW v, v = Equipped(l, slot, serial)
    PROVE  \A e : e \in Range(v) <=> \/ e = [slot |-> slot, serial |-> serial]
                                     \/ e \in Range(l) /\ e.slot # slot
<1>1. l \in Seq(EquippedItem)
  BY DEF Loadout
<1>2. PICK P \in SUBSET DOMAIN l : P = {i \in DOMAIN l : l[i].slot # slot}
  OBVIOUS
<1>3. PICK kept, new : kept = Keep(l, P) /\ new = [slot |-> slot, serial |-> serial]
  OBVIOUS
<1>4. Range(kept) = {l[k] : k \in P} /\ kept \in Seq(EquippedItem)
  BY <1>1, <1>3, KeepRange, KeepChooses
<1>5. new \in EquippedItem /\ v = Append(kept, new)
  BY <1>2, <1>3 DEF EquippedItem, Equipped
<1>6. Range(v) = Range(kept) \cup {new}
  BY <1>4, <1>5, AppendRange
<1>7. \A e : e \in Range(kept) <=> e \in Range(l) /\ e.slot # slot
  BY <1>2, <1>4 DEF Range
<1> QED
  BY <1>3, <1>6, <1>7

LEMMA AttachedRange ==
    ASSUME NEW a \in Attachments, NEW parent \in Serial, NEW child \in Serial, NEW slot \in Slots,
           NEW v, v = Attached(a, parent, child, slot)
    PROVE  \A m : m \in Range(v) <=> \/ m = [parent |-> parent, child |-> child, slot |-> slot]
                                     \/ m \in Range(a) /\ (m.parent # parent \/ m.slot # slot)
<1>1. a \in Seq(AttachedItem)
  BY DEF Attachments
<1>2. PICK P \in SUBSET DOMAIN a : P = {i \in DOMAIN a : a[i].parent # parent \/ a[i].slot # slot}
  OBVIOUS
<1>3. PICK kept, new : /\ kept = Keep(a, P)
                       /\ new = [parent |-> parent, child |-> child, slot |-> slot]
  OBVIOUS
<1>4. Range(kept) = {a[k] : k \in P} /\ kept \in Seq(AttachedItem)
  BY <1>1, <1>3, KeepRange, KeepChooses
<1>5. new \in AttachedItem /\ v = Append(kept, new)
  BY <1>2, <1>3 DEF AttachedItem, Attached
<1>6. Range(v) = Range(kept) \cup {new}
  BY <1>4, <1>5, AppendRange
<1>7. \A m : m \in Range(kept) <=> m \in Range(a) /\ (m.parent # parent \/ m.slot # slot)
  BY <1>2, <1>4 DEF Range
<1> QED
  BY <1>3, <1>6, <1>7

LEMMA DetachedRange ==
    ASSUME NEW a \in Attachments, NEW parent, NEW child, NEW v, v = Detached(a, parent, child)
    PROVE  \A m : m \in Range(v) <=> m \in Range(a) /\ (m.parent # parent \/ m.child # child)
<1>1. a \in Seq(AttachedItem)
  BY DEF Attachments
<1>2. PICK P \in SUBSET DOMAIN a : P = {i \in DOMAIN a : a[i].parent # parent \/ a[i].child # child}
  OBVIOUS
<1>3. v = Keep(a, P)
  BY <1>2 DEF Detached
<1>4. Range(v) = {a[k] : k \in P}
  BY <1>1, <1>3, KeepRange
<1> QED
  BY <1>2, <1>4 DEF Range

\* PurgeExpired takes what is worn off with the items.
LEMMA PurgedOwns ==
    ASSUME NEW p \in SoundPlayer, NEW t, Owns(p), NEW q, q = Purged(p, t) PROVE Owns(q)
<1>1. /\ p \in Player /\ p.inventory \in Seq(InventoryItem) /\ p.loadout \in Seq(EquippedItem)
      /\ p.attachments \in Seq(AttachedItem)
  BY DEF SoundPlayer, Player, Inventory, Loadout, Attachments
<1>2. PICK good \in SUBSET DOMAIN p.inventory :
          good = {i \in DOMAIN p.inventory : ~ IsExpired(p.inventory[i], t)}
  OBVIOUS
<1>3. PICK gone : gone = {p.inventory[i].id : i \in DOMAIN p.inventory \ good}
  OBVIOUS
<1>4. PICK mounted \in SUBSET DOMAIN p.attachments :
          mounted = {i \in DOMAIN p.attachments : /\ p.attachments[i].child \notin gone
                                                 /\ p.attachments[i].parent \notin gone}
  OBVIOUS
<1>5. PICK worn \in SUBSET DOMAIN p.loadout :
          worn = {i \in DOMAIN p.loadout : p.loadout[i].serial \notin gone}
  OBVIOUS
<1>6. PICK u, a, l : /\ u = Keep(p.inventory, good)
                     /\ a = Keep(p.attachments, mounted)
                     /\ l = Keep(p.loadout, worn)
  OBVIOUS
<1>7. /\ Range(u) = {p.inventory[k] : k \in good}
      /\ Range(a) = {p.attachments[k] : k \in mounted}
      /\ Range(l) = {p.loadout[k] : k \in worn}
  BY <1>1, <1>6, KeepRange
<1>8. CASE gone = {}
  <2>1. q = p
    BY <1>2, <1>3, <1>8 DEF Purged
  <2> QED
    BY <2>1
<1>9. CASE gone # {}
  <2>1. q = [p EXCEPT !.inventory = u, !.attachments = a, !.loadout = l]
    BY <1>2, <1>3, <1>4, <1>5, <1>6, <1>9 DEF Purged
  <2>2. q.inventory = u /\ q.attachments = a /\ q.loadout = l
    BY <1>1, <2>1 DEF Player
  <2>3. \A r \in Range(p.inventory) : r.id \notin gone => r \in Range(u)
    BY <1>3, <1>7 DEF Range
  <2>4. /\ \A serial : serial \notin gone /\ Holds(p.inventory, serial) => Holds(u, serial)
        /\ \A serial, slot : serial \notin gone /\ HoldsIn(p.inventory, serial, slot)
             => HoldsIn(u, serial, slot)
    BY <2>3 DEF Holds, HoldsIn
  <2>5. \A e \in Range(l) : e \in Range(p.loadout) /\ e.serial \notin gone
    BY <1>5, <1>7 DEF Range
  <2>6. \A m \in Range(a) : m \in Range(p.attachments) /\ m.child \notin gone /\ m.parent \notin gone
    BY <1>4, <1>7 DEF Range
  <2>7. \A r \in Range(u) : r \in Range(p.inventory)
    BY <1>7 DEF Range
  <2> QED
    BY <2>2, <2>4, <2>5, <2>6, <2>7 DEF Owns
<1> QED
  BY <1>8, <1>9

LEMMA CastOwns ==
    ASSUME NEW p \in SoundPlayer, NEW slot \in HeroSlots, Owns(p), NEW q, q = Cast(p, slot)
    PROVE  Owns(q)
<1>1. PICK u, l : u = p.inventory /\ l = p.loadout
  OBVIOUS
<1>2. p \in Player /\ u \in Inventory /\ l \in Loadout /\ Unique(u)
  BY <1>1 DEF SoundPlayer, Player
<1>3. PICK heroes \in SUBSET DOMAIN u : heroes = {i \in DOMAIN u : Catalog[u[i].item].slot = slot}
  OBVIOUS
<1>4. CASE q = p
  BY <1>4
<1>5. CASE q # p
  <2>1. heroes # {} /\ q = [p EXCEPT !.loadout = Equipped(@, slot, u[Min(heroes)].id)]
    BY <1>1, <1>3, <1>5 DEF Cast
  <2>2. heroes \in SUBSET Nat
    BY <1>2 DEF Inventory
  <2>3. PICK k \in heroes : k = Min(heroes)
    BY <2>1, <2>2, MinIsLeast
  <2>4. k \in DOMAIN u /\ u[k] \in InventoryItem /\ Catalog[u[k].item].slot = slot
    <3>1. k \in DOMAIN u /\ Catalog[u[k].item].slot = slot
      BY <1>3, <2>3
    <3>2. u[k] \in InventoryItem
      BY <1>2, <3>1 DEF Inventory
    <3> QED
      BY <3>1, <3>2
  <2>5. u[k].item \in Wearable /\ u[k].id \in Serial
    BY <2>4 DEF Wearable, InventoryItem
  <2>6. HoldsIn(u, u[k].id, slot)
    BY <2>4, <2>5 DEF HoldsIn, Range
  <2>7. PICK v, id : v = Equipped(l, slot, id) /\ id = u[k].id
    OBVIOUS
  <2>8. \A e : e \in Range(v) <=> e = [slot |-> slot, serial |-> id] \/ (e \in Range(l) /\ e.slot # slot)
    BY <1>2, <2>5, <2>7, EquippedRange, HeroSlotsAreSlots
  <2>9. q = [p EXCEPT !.loadout = v]
    BY <1>1, <2>1, <2>3, <2>7
  <2>10. q.inventory = u /\ q.loadout = v /\ q.attachments = p.attachments
    BY <1>1, <1>2, <2>9 DEF Player
  <2>11. \A e \in Range(v) : HoldsIn(u, e.serial, e.slot)
    BY <1>1, <2>6, <2>7, <2>8 DEF Owns
  <2> QED
    BY <1>1, <2>10, <2>11 DEF Owns
<1> QED
  BY <1>4, <1>5

LEMMA WithHeroesOwns ==
    ASSUME NEW p \in SoundPlayer, Owns(p) PROVE Owns(WithHeroes(p))
<1>1. PICK q : q = Cast(p, "characterATC")
  OBVIOUS
<1>2. PICK r : r = Cast(q, "characterTF")
  OBVIOUS
<1>3. q \in SoundPlayer /\ Owns(q)
  BY <1>1, CastSound, CastOwns DEF HeroSlots
<1>4. Owns(r)
  BY <1>2, <1>3, CastOwns DEF HeroSlots
<1>5. WithHeroes(p) = r
  BY <1>1, <1>2 DEF WithHeroes
<1> QED
  BY <1>4, <1>5

LEMMA NewAccountOwns ==
    ASSUME NEW t PROVE Owns(NewAccount(t))
<1>1. PICK u, l : /\ u = [i \in DOMAIN Starter |-> NewItem(i, Starter[i], t)]
                  /\ l = [i \in DOMAIN Starter |->
                            [slot |-> Catalog[Starter[i]].slot, serial |-> i]]
  OBVIOUS
<1>2. NewAccount(t) = [wallet |-> Start, inventory |-> u, loadout |-> l, attachments |-> <<>>]
  BY <1>1 DEF NewAccount
<1>3. \A i \in DOMAIN Starter : Starter[i] \in Wearable
  <2> TAKE i \in DOMAIN Starter
  <2>1. Starter[i] \in Item /\ Starter[i] \in Range(Starter)
    BY AccountAssumption DEF Range
  <2> QED
    BY <2>1 DEF Wearable
<1>4. ASSUME NEW i \in DOMAIN Starter
      PROVE  u[i].id = i /\ u[i].item = Starter[i] /\ u[i].value = 1 /\ u[i] \in Range(u)
  BY <1>1 DEF NewItem, Range
<1>5. \A r \in Range(u) : r.value > 0
  BY <1>1, <1>4 DEF Range
<1>6. ASSUME NEW e \in Range(l) PROVE HoldsIn(u, e.serial, e.slot)
  <2>1. PICK i \in DOMAIN Starter : e = [slot |-> Catalog[Starter[i]].slot, serial |-> i]
    BY <1>1 DEF Range
  <2> QED
    BY <1>3, <1>4, <2>1 DEF HoldsIn
<1>7. Range(<<>>) = {}
  BY DEF Range
<1> QED
  BY <1>2, <1>5, <1>6, <1>7 DEF Owns

-----------------------------------------------------------------------------
(***************************************************************************)
(* The account that there will be: what a call makes of it is what was to  *)
(* come of it.                                                             *)
(***************************************************************************)
IsRecord(p) ==
    p = [wallet |-> p.wallet, inventory |-> p.inventory, loadout |-> p.loadout,
         attachments |-> p.attachments]

LEMMA PlayerRecord == \A p \in SoundPlayer : IsRecord(p)
BY DEF SoundPlayer, Player, IsRecord

LEMMA OutcomeParts ==
    ASSUME NEW p, NEW calls
    PROVE  /\ \A q \in Outcomes(p, calls) :
                /\ IsRecord(q)
                /\ q.wallet \in Or({Wallet(p, w) : w \in Calls(calls, "commit")}, p.wallet)
                /\ q.inventory \in Or({w.inventory : w \in Calls(calls, "commit")}, p.inventory)
                /\ q.loadout \in Or({w.loadout : w \in Calls(calls, "saveLoadout")}, p.loadout)
                /\ q.attachments \in Or({w.attachments : w \in Calls(calls, "saveAttachments")},
                                        p.attachments)
           /\ \A q : /\ IsRecord(q)
                     /\ q.wallet \in Or({Wallet(p, w) : w \in Calls(calls, "commit")}, p.wallet)
                     /\ q.inventory \in Or({w.inventory : w \in Calls(calls, "commit")}, p.inventory)
                     /\ q.loadout \in Or({w.loadout : w \in Calls(calls, "saveLoadout")}, p.loadout)
                     /\ q.attachments \in Or({w.attachments : w \in Calls(calls, "saveAttachments")},
                                             p.attachments)
                     => q \in Outcomes(p, calls)
<1>1. PICK W, I, L, A : /\ W = Or({Wallet(p, w) : w \in Calls(calls, "commit")}, p.wallet)
                        /\ I = Or({w.inventory : w \in Calls(calls, "commit")}, p.inventory)
                        /\ L = Or({w.loadout : w \in Calls(calls, "saveLoadout")}, p.loadout)
                        /\ A = Or({w.attachments : w \in Calls(calls, "saveAttachments")},
                                  p.attachments)
  OBVIOUS
<1>2. Outcomes(p, calls) = [wallet : W, inventory : I, loadout : L, attachments : A]
  BY <1>1 DEF Outcomes
<1>3. \A q \in Outcomes(p, calls) :
         IsRecord(q) /\ q.wallet \in W /\ q.inventory \in I /\ q.loadout \in L /\ q.attachments \in A
  BY <1>2 DEF IsRecord
<1>4. \A q : IsRecord(q) /\ q.wallet \in W /\ q.inventory \in I /\ q.loadout \in L /\ q.attachments \in A
               => q \in Outcomes(p, calls)
  BY <1>2 DEF IsRecord
<1> QED
  BY <1>1, <1>3, <1>4

LEMMA SameRecord ==
    ASSUME NEW p, NEW q, IsRecord(p), IsRecord(q), p.wallet = q.wallet,
           p.inventory = q.inventory, p.loadout = q.loadout, p.attachments = q.attachments
    PROVE  p = q
BY DEF IsRecord

\* Calls that save nothing leave the account as it is.
LEMMA NothingSaved ==
    ASSUME NEW p, IsRecord(p), NEW calls, \A w \in Range(calls) : w.do \notin Saves
    PROVE  \A q : q \in Outcomes(p, calls) <=> q = p
<1>1. Calls(calls, "commit") = {} /\ Calls(calls, "saveLoadout") = {} /\ Calls(calls, "saveAttachments") = {}
  BY DEF Calls, Saves
<1>2. /\ {Wallet(p, v) : v \in {}} = {} /\ {v.inventory : v \in {}} = {}
      /\ {v.loadout : v \in {}} = {} /\ {v.attachments : v \in {}} = {}
  OBVIOUS
<1>3. \A q : q \in Outcomes(p, calls) <=>
               /\ IsRecord(q) /\ q.wallet = p.wallet /\ q.inventory = p.inventory
               /\ q.loadout = p.loadout /\ q.attachments = p.attachments
  BY <1>1, <1>2, OutcomeParts DEF Or
<1> QED
  BY <1>3, SameRecord

\* One save.
LEMMA CommitSaved ==
    ASSUME NEW calls, NEW w \in Range(calls), w.do = "commit",
           \A v \in Range(calls) : v.do \in Saves => v = w, NEW p
    PROVE  \A q \in Outcomes(p, calls) :
              /\ IsRecord(q) /\ q.wallet = Wallet(p, w) /\ q.inventory = w.inventory
              /\ q.loadout = p.loadout /\ q.attachments = p.attachments
<1>1. Calls(calls, "commit") = {w} /\ Calls(calls, "saveLoadout") = {} /\ Calls(calls, "saveAttachments") = {}
  BY DEF Calls, Saves
<1>2. /\ {Wallet(p, v) : v \in {w}} = {Wallet(p, w)}
      /\ {v.inventory : v \in {w}} = {w.inventory}
      /\ {v.loadout : v \in {}} = {} /\ {v.attachments : v \in {}} = {}
  OBVIOUS
<1> QED
  BY <1>1, <1>2, OutcomeParts DEF Or

LEMMA LoadoutSaved ==
    ASSUME NEW calls, NEW w \in Range(calls), w.do = "saveLoadout",
           \A v \in Range(calls) : v.do \in Saves => v = w, NEW p
    PROVE  \A q \in Outcomes(p, calls) :
              /\ IsRecord(q) /\ q.wallet = p.wallet /\ q.inventory = p.inventory
              /\ q.loadout = w.loadout /\ q.attachments = p.attachments
<1>1. Calls(calls, "commit") = {} /\ Calls(calls, "saveLoadout") = {w} /\ Calls(calls, "saveAttachments") = {}
  BY DEF Calls, Saves
<1>2. /\ {v.loadout : v \in {w}} = {w.loadout} /\ {v.attachments : v \in {}} = {}
      /\ {Wallet(p, v) : v \in {}} = {} /\ {v.inventory : v \in {}} = {}
  OBVIOUS
<1> QED
  BY <1>1, <1>2, OutcomeParts DEF Or

LEMMA AttachmentsSaved ==
    ASSUME NEW calls, NEW w \in Range(calls), w.do = "saveAttachments",
           \A v \in Range(calls) : v.do \in Saves => v = w, NEW p
    PROVE  \A q \in Outcomes(p, calls) :
              /\ IsRecord(q) /\ q.wallet = p.wallet /\ q.inventory = p.inventory
              /\ q.loadout = p.loadout /\ q.attachments = w.attachments
<1>1. Calls(calls, "commit") = {} /\ Calls(calls, "saveLoadout") = {} /\ Calls(calls, "saveAttachments") = {w}
  BY DEF Calls, Saves
<1>2. /\ {v.attachments : v \in {w}} = {w.attachments} /\ {v.loadout : v \in {}} = {}
      /\ {Wallet(p, v) : v \in {}} = {} /\ {v.inventory : v \in {}} = {}
  OBVIOUS
<1> QED
  BY <1>1, <1>2, OutcomeParts DEF Or

\* What is left of some calls once the first has been made.
Rest(calls, w, t) ==
    /\ w \in Range(calls) /\ Range(calls) = {w} \cup Range(t)
    /\ w.do # "commit" \/ \A v \in Range(t) : v.do # "commit"

LEMMA RestOf ==
    ASSUME NEW calls, calls \in Seq(Range(calls)), calls # <<>>, Shaped(calls)
    PROVE  /\ Rest(calls, Head(calls), Tail(calls))
           /\ Head(calls).do = calls[1].do
           /\ Tail(calls) \in Seq(Range(calls))
           /\ \A i \in DOMAIN Tail(calls) : i + 1 \in DOMAIN calls /\ Tail(calls)[i] = calls[i + 1]
           /\ Len(Tail(calls)) = Len(calls) - 1
           /\ \A v \in Range(Tail(calls)) :
                 v \in Range(calls) /\ v.do \notin {"create", "findAgain", "commit", "buyFor"}
<1>1. PICK S, t : S = Range(calls) /\ t = Tail(calls)
  OBVIOUS
<1>2. /\ t \in Seq(S) /\ Len(t) = Len(calls) - 1 /\ Len(calls) \in Nat \ {0}
      /\ \A i \in 1 .. Len(t) : t[i] = calls[i + 1]
      /\ Head(calls) = calls[1] /\ 1 \in DOMAIN calls /\ DOMAIN calls = 1 .. Len(calls)
  BY <1>1
<1>3. \A i \in DOMAIN t : i + 1 \in DOMAIN calls /\ t[i] = calls[i + 1] /\ i + 1 # 1
  BY <1>2
<1>4. \A i \in DOMAIN calls : i = 1 \/ (i - 1 \in DOMAIN t /\ t[i - 1] = calls[i])
  BY <1>2
<1>5. \A v \in Range(t) : v \in Range(calls) /\ v.do \notin {"create", "findAgain", "commit", "buyFor"}
  BY <1>3 DEF Range, Shaped
<1>6. Head(calls) \in Range(calls)
  BY <1>2 DEF Range
<1>7. \A v \in Range(calls) : v = Head(calls) \/ v \in Range(t)
  BY <1>2, <1>4 DEF Range
<1> QED
  BY <1>1, <1>2, <1>3, <1>5, <1>6, <1>7 DEF Rest

LEMMA OrShrinks ==
    ASSUME NEW new, NEW old, NEW less, NEW other, less \subseteq new,
           less = {} => other \in Or(new, old)
    PROVE  \A x \in Or(less, other) : x \in Or(new, old)
BY DEF Or

LEMMA RestOutcomes ==
    ASSUME NEW p, NEW q, NEW calls, NEW t, Range(t) \subseteq Range(calls),
           \A v \in Range(t) : v.do # "commit",
           q.wallet \in Or({Wallet(p, v) : v \in Calls(calls, "commit")}, p.wallet),
           q.inventory \in Or({v.inventory : v \in Calls(calls, "commit")}, p.inventory),
           Calls(t, "saveLoadout") = {} =>
              q.loadout \in Or({v.loadout : v \in Calls(calls, "saveLoadout")}, p.loadout),
           Calls(t, "saveAttachments") = {} =>
              q.attachments \in Or({v.attachments : v \in Calls(calls, "saveAttachments")}, p.attachments)
    PROVE  \A x \in Outcomes(q, t) : x \in Outcomes(p, calls)
<1>1. /\ Calls(t, "commit") = {}
      /\ Calls(t, "saveLoadout") \subseteq Calls(calls, "saveLoadout")
      /\ Calls(t, "saveAttachments") \subseteq Calls(calls, "saveAttachments")
  BY DEF Calls
<1>2. /\ {Wallet(q, v) : v \in Calls(t, "commit")} = {}
      /\ {v.inventory : v \in Calls(t, "commit")} = {}
  BY <1>1
<1>3. PICK L, A, l, a : /\ L = {v.loadout : v \in Calls(calls, "saveLoadout")}
                        /\ l = {v.loadout : v \in Calls(t, "saveLoadout")}
                        /\ A = {v.attachments : v \in Calls(calls, "saveAttachments")}
                        /\ a = {v.attachments : v \in Calls(t, "saveAttachments")}
  OBVIOUS
<1>4. l \subseteq L /\ a \subseteq A
  BY <1>1, <1>3
<1>5. (l = {} => Calls(t, "saveLoadout") = {}) /\ (a = {} => Calls(t, "saveAttachments") = {})
  BY <1>3
<1>6. \A x \in Or(l, q.loadout) : x \in Or(L, p.loadout)
  BY <1>3, <1>4, <1>5, OrShrinks
<1>7. \A x \in Or(a, q.attachments) : x \in Or(A, p.attachments)
  BY <1>3, <1>4, <1>5, OrShrinks
<1> TAKE x \in Outcomes(q, t)
<1>8. /\ IsRecord(x) /\ x.wallet = q.wallet /\ x.inventory = q.inventory
      /\ x.loadout \in Or(l, q.loadout) /\ x.attachments \in Or(a, q.attachments)
  BY <1>2, <1>3, OutcomeParts DEF Or
<1> QED
  BY <1>3, <1>6, <1>7, <1>8, OutcomeParts

\* The account as a call leaves it that is made.
Saved(p, w, q) ==
    /\ IsRecord(q)
    /\ q.wallet = IF w.do = "commit" THEN Wallet(p, w) ELSE p.wallet
    /\ q.inventory = IF w.do = "commit" THEN w.inventory ELSE p.inventory
    /\ q.loadout = IF w.do = "saveLoadout" THEN w.loadout ELSE p.loadout
    /\ q.attachments = IF w.do = "saveAttachments" THEN w.attachments ELSE p.attachments

LEMMA SavedRest ==
    ASSUME NEW calls, calls \in Seq(Range(calls)), calls # <<>>, Shaped(calls),
           NEW p, NEW q, Saved(p, Head(calls), q)
    PROVE  \A x \in Outcomes(q, Tail(calls)) : x \in Outcomes(p, calls)
<1>1. PICK w, t : w = Head(calls) /\ t = Tail(calls)
  OBVIOUS
<1>2. /\ w \in Range(calls) /\ Range(calls) = {w} \cup Range(t)
      /\ w.do # "commit" \/ \A v \in Range(t) : v.do # "commit"
      /\ \A v \in Range(t) : v.do # "commit"
  BY <1>1, RestOf DEF Rest
<1>3. Saved(p, w, q)
  BY <1>1
<1>4. q.wallet \in Or({Wallet(p, v) : v \in Calls(calls, "commit")}, p.wallet)
  <2>1. CASE w.do = "commit"
    <3>1. w \in Calls(calls, "commit") /\ q.wallet = Wallet(p, w)
      BY <1>2, <1>3, <2>1 DEF Calls, Saved
    <3>2. q.wallet \in {Wallet(p, v) : v \in Calls(calls, "commit")}
      BY <3>1
    <3> QED
      BY <3>2 DEF Or
  <2>2. CASE w.do # "commit"
    <3>1. Calls(calls, "commit") = {} /\ q.wallet = p.wallet
      BY <1>2, <1>3, <2>2 DEF Calls, Saved
    <3>2. {Wallet(p, v) : v \in Calls(calls, "commit")} = {}
      BY <3>1
    <3> QED
      BY <3>1, <3>2 DEF Or
  <2> QED
    BY <2>1, <2>2
<1>5. q.inventory \in Or({v.inventory : v \in Calls(calls, "commit")}, p.inventory)
  <2>1. CASE w.do = "commit"
    <3>1. w \in Calls(calls, "commit") /\ q.inventory = w.inventory
      BY <1>2, <1>3, <2>1 DEF Calls, Saved
    <3>2. q.inventory \in {v.inventory : v \in Calls(calls, "commit")}
      BY <3>1
    <3> QED
      BY <3>2 DEF Or
  <2>2. CASE w.do # "commit"
    <3>1. Calls(calls, "commit") = {} /\ q.inventory = p.inventory
      BY <1>2, <1>3, <2>2 DEF Calls, Saved
    <3>2. {v.inventory : v \in Calls(calls, "commit")} = {}
      BY <3>1
    <3> QED
      BY <3>1, <3>2 DEF Or
  <2> QED
    BY <2>1, <2>2
<1>6. ASSUME Calls(t, "saveLoadout") = {}
      PROVE  q.loadout \in Or({v.loadout : v \in Calls(calls, "saveLoadout")}, p.loadout)
  <2>1. CASE w.do = "saveLoadout"
    <3>1. w \in Calls(calls, "saveLoadout") /\ q.loadout = w.loadout
      BY <1>2, <1>3, <2>1 DEF Calls, Saved
    <3>2. q.loadout \in {v.loadout : v \in Calls(calls, "saveLoadout")}
      BY <3>1
    <3> QED
      BY <3>2 DEF Or
  <2>2. CASE w.do # "saveLoadout"
    <3>1. Calls(calls, "saveLoadout") = {} /\ q.loadout = p.loadout
      BY <1>2, <1>3, <1>6, <2>2 DEF Calls, Saved
    <3>2. {v.loadout : v \in Calls(calls, "saveLoadout")} = {}
      BY <3>1
    <3> QED
      BY <3>1, <3>2 DEF Or
  <2> QED
    BY <2>1, <2>2
<1>7. ASSUME Calls(t, "saveAttachments") = {}
      PROVE  q.attachments \in Or({v.attachments : v \in Calls(calls, "saveAttachments")},
                                  p.attachments)
  <2>1. CASE w.do = "saveAttachments"
    <3>1. w \in Calls(calls, "saveAttachments") /\ q.attachments = w.attachments
      BY <1>2, <1>3, <2>1 DEF Calls, Saved
    <3>2. q.attachments \in {v.attachments : v \in Calls(calls, "saveAttachments")}
      BY <3>1
    <3> QED
      BY <3>2 DEF Or
  <2>2. CASE w.do # "saveAttachments"
    <3>1. Calls(calls, "saveAttachments") = {} /\ q.attachments = p.attachments
      BY <1>2, <1>3, <1>7, <2>2 DEF Calls, Saved
    <3>2. {v.attachments : v \in Calls(calls, "saveAttachments")} = {}
      BY <3>1
    <3> QED
      BY <3>1, <3>2 DEF Or
  <2> QED
    BY <2>1, <2>2
<1>8. Range(t) \subseteq Range(calls)
  BY <1>2
<1>9. \A x \in Outcomes(q, t) : x \in Outcomes(p, calls)
  BY <1>2, <1>4, <1>5, <1>6, <1>7, <1>8, RestOutcomes
<1> QED
  BY <1>1, <1>9

\* Handlers with one call, and with a save and one thing more.
LEMMA OneShaped ==
    ASSUME NEW w, w.do \notin Saves, NEW calls, calls = <<w>>
    PROVE  Shaped(calls) /\ Range(calls) = {w} /\ calls # <<>>
<1>1. DOMAIN calls = {1} /\ calls[1] = w /\ Len(calls) = 1
  OBVIOUS
<1> QED
  BY <1>1 DEF Shaped, Range, Saves

LEMMA TwoShaped ==
    ASSUME NEW v, NEW w, v.do \in Saves, w.do \in {"answer", "mountBought", "bind", "bindAsFound"},
           NEW calls, calls = <<v, w>>
    PROVE  Shaped(calls) /\ Range(calls) = {v, w} /\ calls # <<>>
<1>1. DOMAIN calls = {1, 2} /\ calls[1] = v /\ calls[2] = w /\ Len(calls) = 2
  OBVIOUS
<1> QED
  BY <1>1 DEF Shaped, Range, Saves

\* A handler that saves nothing next has one thing left.
LEMMA LastCall ==
    ASSUME NEW calls, calls \in Seq(Range(calls)), calls # <<>>, Shaped(calls),
           Head(calls).do \notin Saves
    PROVE  Range(calls) = {Head(calls)} /\ Tail(calls) = <<>>
<1>1. Len(calls) \in Nat \ {0} /\ DOMAIN calls = 1 .. Len(calls) /\ Head(calls) = calls[1]
  OBVIOUS
<1>2. Len(calls) = 1
  BY <1>1 DEF Shaped
<1>3. DOMAIN calls = {1}
  BY <1>1, <1>2
<1>4. Tail(calls) = <<>>
  <2>1. PICK S, t : S = Range(calls) /\ t = Tail(calls)
    OBVIOUS
  <2>2. t \in Seq(S) /\ Len(t) = 0
    BY <1>2, <2>1
  <2>3. t = <<>>
    BY <2>2
  <2> QED
    BY <2>1, <2>3
<1> QED
  BY <1>1, <1>3, <1>4 DEF Range

LEMMA RestShaped ==
    ASSUME NEW calls, calls \in Seq(Range(calls)), calls # <<>>, Shaped(calls)
    PROVE  Shaped(Tail(calls))
<1>1. PICK t : t = Tail(calls)
  OBVIOUS
<1>2. /\ \A i \in DOMAIN t : i + 1 \in DOMAIN calls /\ t[i] = calls[i + 1]
      /\ Len(t) = Len(calls) - 1
      /\ \A v \in Range(t) : v.do \notin {"create", "findAgain", "commit", "buyFor"}
  BY <1>1, RestOf
<1>3. Len(calls) \in Nat /\ \A i \in DOMAIN t : i \in Nat
  BY <1>1
<1>4. Shaped(t)
  <2> SUFFICES ASSUME NEW i \in DOMAIN t
               PROVE  /\ t[i].do \in Saves <=> i # Len(t)
                      /\ t[i].do \notin {"create", "findAgain", "commit", "buyFor"}
    BY Zenon DEF Shaped
  <2>1. t[i].do \in Saves <=> i + 1 # Len(calls)
    BY <1>2 DEF Shaped
  <2>2. i + 1 # Len(calls) <=> i # Len(t)
    BY <1>2, <1>3
  <2>3. t[i] \in Range(t)
    BY DEF Range
  <2> QED
    BY <1>2, <2>1, <2>2, <2>3
<1> QED
  BY <1>1, <1>4

-----------------------------------------------------------------------------
(***************************************************************************)
(* What a handler begins with leaves what is worn owned.                   *)
(***************************************************************************)
LEMMA CallsOf ==
    ASSUME HangarInv, NEW s \in Session
    PROVE  todo[s] \in Seq(Range(todo[s]))
BY DEF HangarInv, SoundCalls

LEMMA AccountRecord == HangarInv /\ Exists => IsRecord(account)
BY Loaded, PlayerRecord

LEMMA OneOwns ==
    ASSUME HangarInv, Exists => Owns(account), NEW w, w.do \notin Saves,
           w.do = "create" => Owns(w.player),
           w.do = "buyFor" => Holds(account.inventory, w.weapon) /\ w.item \in Wearable,
           w.do # "mountBought", NEW calls, calls = <<w>>
    PROVE  WillOwn(calls)
<1>1. Shaped(calls) /\ Range(calls) = {w}
  BY OneShaped
<1>2. Exists => \A p \in Outcomes(account, calls) : p = account
  BY <1>1, AccountRecord, NothingSaved
<1>3. MayBeRefused(calls) => w.do = "buyFor" \/ w.do = "commit"
  BY <1>1 DEF MayBeRefused
<1> QED
  BY <1>1, <1>2, <1>3 DEF WillOwn

LEMMA CommitOwns ==
    ASSUME HangarInv, Exists, Owns(account), NEW v, v.do = "commit",
           Stocked(v.inventory), Carried(account.inventory, v.inventory),
           NEW w, \/ w.do = "answer"
                  \/ /\ w.do = "mountBought"
                     /\ Holds(v.inventory, w.weapon) /\ Holds(v.inventory, w.serial),
           NEW calls, calls = <<v, w>>
    PROVE  WillOwn(calls)
<1>1. Shaped(calls) /\ Range(calls) = {v, w}
  BY TwoShaped DEF Saves
<1>2. ASSUME NEW p \in Outcomes(account, calls)
      PROVE  /\ p.inventory = v.inventory /\ p.loadout = account.loadout
             /\ p.attachments = account.attachments
  <2>1. v \in Range(calls) /\ \A x \in Range(calls) : x.do \in Saves => x = v
    BY <1>1 DEF Saves
  <2> QED
    BY <1>2, <2>1, CommitSaved
<1>3. \A p \in Outcomes(account, calls) : Owns(p)
  BY <1>2, OwnsCarried
<1> QED
  BY <1>1, <1>2, <1>3 DEF WillOwn

LEMMA LoadoutOwns ==
    ASSUME HangarInv, Exists, Owns(account), NEW v, v.do = "saveLoadout",
           \A e \in Range(v.loadout) : HoldsIn(account.inventory, e.serial, e.slot),
           NEW w, w.do = "answer", NEW calls, calls = <<v, w>>
    PROVE  WillOwn(calls)
<1>1. Shaped(calls) /\ Range(calls) = {v, w}
  BY TwoShaped DEF Saves
<1>2. ASSUME NEW p \in Outcomes(account, calls)
      PROVE  /\ p.inventory = account.inventory /\ p.loadout = v.loadout
             /\ p.attachments = account.attachments
  <2>1. v \in Range(calls) /\ \A x \in Range(calls) : x.do \in Saves => x = v
    BY <1>1 DEF Saves
  <2> QED
    BY <1>2, <2>1, LoadoutSaved
<1>3. \A p \in Outcomes(account, calls) : Owns(p)
  BY <1>2 DEF Owns
<1> QED
  BY <1>1, <1>3 DEF WillOwn, MayBeRefused

LEMMA AttachmentsOwn ==
    ASSUME HangarInv, Exists, Owns(account), NEW v, v.do = "saveAttachments",
           \A m \in Range(v.attachments) :
              HoldsIn(account.inventory, m.child, m.slot) /\ Holds(account.inventory, m.parent),
           NEW w, w.do = "answer", NEW calls, calls = <<v, w>>
    PROVE  WillOwn(calls)
<1>1. Shaped(calls) /\ Range(calls) = {v, w}
  BY TwoShaped DEF Saves
<1>2. ASSUME NEW p \in Outcomes(account, calls)
      PROVE  /\ p.inventory = account.inventory /\ p.loadout = account.loadout
             /\ p.attachments = v.attachments
  <2>1. v \in Range(calls) /\ \A x \in Range(calls) : x.do \in Saves => x = v
    BY <1>1 DEF Saves
  <2> QED
    BY <1>2, <2>1, AttachmentsSaved
<1>3. \A p \in Outcomes(account, calls) : Owns(p)
  BY <1>2 DEF Owns
<1> QED
  BY <1>1, <1>3 DEF WillOwn, MayBeRefused

LEMMA OwnedAfter ==
    ASSUME HangarInv, OwnedInv, NEW s \in Session, NEW calls,
           todo' = [todo EXCEPT ![s] = calls], mishaps' \in Nat,
           mishaps' = 0 => /\ Alone(s)
                           /\ calls # <<>> => WillOwn(calls)'
                           /\ calls = <<>> /\ Exists' => Owns(account)'
    PROVE  OwnedInv'
<1>1. SUFFICES ASSUME mishaps' = 0
               PROVE  /\ (Quiet /\ Exists => Owns(account))'
                      /\ \A x \in Session : (todo[x] # <<>> => Alone(x) /\ WillOwn(todo[x]))'
  BY DEF OwnedInv
<1>2. DOMAIN todo = Session
  BY DEF HangarInv
<1>3. todo'[s] = calls /\ \A x \in Session : x # s => todo'[x] = <<>>
  BY <1>1, <1>2 DEF Alone
<1>4. Quiet' => calls = <<>>
  BY <1>3 DEF Quiet
<1>5. (Quiet /\ Exists => Owns(account))'
  BY <1>1, <1>4
<1>6. ASSUME NEW x \in Session, todo'[x] # <<>> PROVE (Alone(x) /\ WillOwn(todo[x]))'
  <2>1. x = s
    BY <1>3, <1>6
  <2>2. Alone(s)'
    BY <1>3 DEF Alone
  <2>3. WillOwn(todo[s])'
    BY <1>1, <1>3, <1>6, <2>1 DEF WillOwn, Exists
  <2> QED
    BY <2>1, <2>2, <2>3
<1> QED
  BY <1>5, <1>6

LEMMA OwnedBegun ==
    ASSUME HangarInv, OwnedInv, NEW s \in Session, NEW calls, Leaves(s, calls),
           (Exists => Owns(account)) => WillOwn(calls)
    PROVE  OwnedInv'
<1>1. /\ todo' = [todo EXCEPT ![s] = calls] /\ account' = account /\ calls # <<>>
      /\ IF Quiet THEN mishaps' = mishaps ELSE mishaps' = mishaps + 1
  BY DEF Leaves, Mishap
<1>2. mishaps \in Nat
  BY DEF OwnedInv
<1>3. mishaps' \in Nat
  BY <1>1, <1>2
<1>4. mishaps' = 0 => Quiet /\ mishaps = 0
  BY <1>1, <1>2
<1>5. mishaps' = 0 => Alone(s) /\ WillOwn(calls)
  BY <1>4 DEF Quiet, Alone, OwnedInv
<1>6. WillOwn(calls) => WillOwn(calls)'
  BY <1>1 DEF WillOwn, Exists
<1> QED
  BY <1>1, <1>3, <1>5, <1>6, OwnedAfter

LEMMA OwnedContinued ==
    ASSUME HangarInv, OwnedInv, NEW s \in Session, todo[s] # <<>>, NEW calls, Continue(s, calls),
           WillOwn(todo[s]) => /\ calls # <<>> => WillOwn(calls)'
                               /\ calls = <<>> /\ Exists' => Owns(account)'
    PROVE  OwnedInv'
<1>1. todo' = [todo EXCEPT ![s] = calls] /\ mishaps' = mishaps
  BY DEF Continue
<1>2. mishaps \in Nat /\ (mishaps = 0 => Alone(s) /\ WillOwn(todo[s]))
  BY DEF OwnedInv
<1> QED
  BY <1>1, <1>2, OwnedAfter

\* Seeing to the heroes touches the loadout only.
LEMMA CastKeeps ==
    ASSUME NEW p \in SoundPlayer, NEW slot, NEW q, q = Cast(p, slot)
    PROVE  q.inventory = p.inventory /\ q.attachments = p.attachments /\ q.wallet = p.wallet
BY DEF Cast, SoundPlayer, Player

LEMMA WithHeroesKeeps ==
    ASSUME NEW p \in SoundPlayer, NEW q, q = WithHeroes(p)
    PROVE  q.inventory = p.inventory /\ q.attachments = p.attachments /\ q.wallet = p.wallet
<1>1. PICK r : r = Cast(p, "characterATC")
  OBVIOUS
<1>2. r \in SoundPlayer
  BY <1>1, CastSound DEF HeroSlots
<1>3. q = Cast(r, "characterTF")
  BY <1>1 DEF WithHeroes
<1> QED
  BY <1>1, <1>2, <1>3, CastKeeps

LEMMA PurgedWallet ==
    ASSUME NEW p \in SoundPlayer, NEW t PROVE Purged(p, t).wallet = p.wallet
BY DEF Purged, SoundPlayer, Player

\* What a login leaves to do.
LEMMA LoginShaped ==
    ASSUME NEW c, c.do = "commit", NEW a, a.do = "saveAttachments", NEW l, l.do = "saveLoadout",
           NEW b, b.do = "bind",
           NEW calls, \/ calls = <<b>> \/ calls = <<l, b>>
                      \/ calls = <<c, a, b>> \/ calls = <<c, a, l, b>>
    PROVE  /\ Shaped(calls)
           /\ b \in Range(calls) /\ Range(calls) \subseteq {c, a, l, b}
           /\ calls \in {<<l, b>>, <<c, a, l, b>>} => l \in Range(calls)
           /\ calls \in {<<c, a, b>>, <<c, a, l, b>>} => c \in Range(calls) /\ a \in Range(calls)
<1>1. CASE calls = <<b>>
  <2>1. DOMAIN calls = {1} /\ calls[1] = b /\ Len(calls) = 1
    BY <1>1
  <2>2. calls \notin {<<l, b>>, <<c, a, l, b>>, <<c, a, b>>}
    BY <1>1
  <2> QED
    BY <2>1, <2>2 DEF Shaped, Range, Saves
<1>2. CASE calls = <<l, b>>
  <2>1. DOMAIN calls = {1, 2} /\ calls[1] = l /\ calls[2] = b /\ Len(calls) = 2
    BY <1>2
  <2>2. calls \notin {<<c, a, l, b>>, <<c, a, b>>}
    BY <1>2
  <2> QED
    BY <2>1, <2>2 DEF Shaped, Range, Saves
<1>3. CASE calls = <<c, a, b>>
  <2>1. DOMAIN calls = {1, 2, 3} /\ calls[1] = c /\ calls[2] = a /\ calls[3] = b /\ Len(calls) = 3
    BY <1>3
  <2>2. calls \notin {<<l, b>>, <<c, a, l, b>>}
    BY <1>3
  <2> QED
    BY <2>1, <2>2 DEF Shaped, Range, Saves
<1>4. CASE calls = <<c, a, l, b>>
  <2>1. /\ DOMAIN calls = {1, 2, 3, 4} /\ Len(calls) = 4
        /\ calls[1] = c /\ calls[2] = a /\ calls[3] = l /\ calls[4] = b
    BY <1>4
  <2> QED
    BY <2>1 DEF Shaped, Range, Saves
<1> QED
  BY <1>1, <1>2, <1>3, <1>4

LEMMA Joined ==
    ASSUME NEW S, NEW u \in Seq(S), NEW b \in S, NEW v, v = u \o <<b>>
    PROVE  /\ v \in Seq(S) /\ Len(v) = Len(u) + 1 /\ v[Len(u) + 1] = b
           /\ \A i \in 1 .. Len(u) : v[i] = u[i]
<1>1. PICK x : x = <<b>>
  OBVIOUS
<1>2. x \in Seq(S) /\ Len(x) = 1 /\ x[1] = b
  BY <1>1
<1>3. v = u \o x
  BY <1>1
<1>4. /\ v \in Seq(S) /\ Len(v) = Len(u) + 1
      /\ \A i \in 1 .. Len(u) + 1 : v[i] = IF i <= Len(u) THEN u[i] ELSE x[i - Len(u)]
  BY <1>2, <1>3
<1>5. Len(u) \in Nat
  OBVIOUS
<1>6. v[Len(u) + 1] = x[1]
  BY <1>4, <1>5
<1>7. \A i \in 1 .. Len(u) : v[i] = u[i]
  BY <1>4, <1>5
<1> QED
  BY <1>2, <1>4, <1>6, <1>7

LEMMA TwoAndOne ==
    ASSUME NEW c, NEW a, NEW l, NEW v, v = <<c, a>> \o <<l>>
    PROVE  v = <<c, a, l>>
<1>1. PICK S, u, w : S = {c, a, l} /\ u = <<c, a>> /\ w = <<c, a, l>>
  OBVIOUS
<1>2. u \in Seq(S) /\ Len(u) = 2 /\ u[1] = c /\ u[2] = a
  BY <1>1
<1>3. v \in Seq(S) /\ Len(v) = 3 /\ v[3] = l /\ \A i \in 1 .. 2 : v[i] = u[i]
  <2>1. l \in S /\ v = u \o <<l>>
    BY <1>1
  <2>2. v \in Seq(S) /\ Len(v) = Len(u) + 1 /\ v[Len(u) + 1] = l /\ \A i \in 1 .. Len(u) : v[i] = u[i]
    BY <1>2, <2>1, Joined
  <2> QED
    BY <1>2, <2>2
<1>4. w \in Seq(S) /\ Len(w) = 3 /\ w[1] = c /\ w[2] = a /\ w[3] = l
  BY <1>1
<1>5. \A i \in 1 .. 3 : v[i] = w[i]
  BY <1>2, <1>3, <1>4
<1>6. v = w
  BY <1>3, <1>4, <1>5
<1> QED
  BY <1>1, <1>6

LEMMA ThreeAndOne ==
    ASSUME NEW c, NEW a, NEW l, NEW b, NEW v, v = <<c, a, l>> \o <<b>>
    PROVE  v = <<c, a, l, b>>
<1>1. PICK S, u, w : S = {c, a, l, b} /\ u = <<c, a, l>> /\ w = <<c, a, l, b>>
  OBVIOUS
<1>2. u \in Seq(S) /\ Len(u) = 3 /\ u[1] = c /\ u[2] = a /\ u[3] = l
  BY <1>1
<1>3. v \in Seq(S) /\ Len(v) = 4 /\ v[4] = b /\ \A i \in 1 .. 3 : v[i] = u[i]
  <2>1. b \in S /\ v = u \o <<b>>
    BY <1>1
  <2>2. v \in Seq(S) /\ Len(v) = Len(u) + 1 /\ v[Len(u) + 1] = b /\ \A i \in 1 .. Len(u) : v[i] = u[i]
    BY <1>2, <2>1, Joined
  <2> QED
    BY <1>2, <2>2
<1>4. w \in Seq(S) /\ Len(w) = 4 /\ w[1] = c /\ w[2] = a /\ w[3] = l /\ w[4] = b
  BY <1>1
<1>5. \A i \in 1 .. 4 : v[i] = w[i]
  BY <1>2, <1>3, <1>4
<1>6. v = w
  BY <1>3, <1>4, <1>5
<1> QED
  BY <1>1, <1>6

LEMMA OneAndOne ==
    ASSUME NEW l, NEW b, NEW v, v = <<l>> \o <<b>>
    PROVE  v = <<l, b>>
<1>1. PICK S, u, w : S = {l, b} /\ u = <<l>> /\ w = <<l, b>>
  OBVIOUS
<1>2. u \in Seq(S) /\ Len(u) = 1 /\ u[1] = l
  BY <1>1
<1>3. v \in Seq(S) /\ Len(v) = 2 /\ v[2] = b /\ \A i \in 1 .. 1 : v[i] = u[i]
  <2>1. b \in S /\ v = u \o <<b>>
    BY <1>1
  <2>2. v \in Seq(S) /\ Len(v) = Len(u) + 1 /\ v[Len(u) + 1] = b /\ \A i \in 1 .. Len(u) : v[i] = u[i]
    BY <1>2, <2>1, Joined
  <2> QED
    BY <1>2, <2>2
<1>4. w \in Seq(S) /\ Len(w) = 2 /\ w[1] = l /\ w[2] = b
  BY <1>1
<1>5. \A i \in 1 .. 2 : v[i] = w[i]
  BY <1>2, <1>3, <1>4
<1>6. v = w
  BY <1>3, <1>4, <1>5
<1> QED
  BY <1>1, <1>6

\* Whichever saves a login needs, it leaves the account as it binds it.
LEMMA LoginOutcome ==
    ASSUME HangarInv, Exists, NEW calls, calls = LoginCalls,
           NEW player, player = WithHeroes(Purged(account, now))
    PROVE  /\ Shaped(calls)
           /\ \A w \in Range(calls) :
                /\ w.do \in {"commit", "saveLoadout", "saveAttachments", "bind"}
                /\ w.do = "commit" => w.price = 0
                /\ w.do = "bind" => w.player = player
           /\ \A p \in Outcomes(account, calls) : p = player
<1>1. PICK purged : purged = Purged(account, now)
  OBVIOUS
<1>2. PICK c, a, l, b : /\ c = Commit(player.inventory, "none", 0)
                        /\ a = SaveAttachments(player.attachments)
                        /\ l = SaveLoadout(player.loadout)
                        /\ b = Bind(player)
  OBVIOUS
<1>3. /\ c.do = "commit" /\ c.price = 0 /\ c.inventory = player.inventory
      /\ a.do = "saveAttachments" /\ a.attachments = player.attachments
      /\ l.do = "saveLoadout" /\ l.loadout = player.loadout
      /\ b.do = "bind" /\ b.player = player
  BY <1>2 DEF Commit, SaveAttachments, SaveLoadout, Bind
<1>4. PICK first, second : /\ first = IF purged = account THEN <<>> ELSE <<c, a>>
                           /\ second = IF player = account THEN <<>> ELSE <<l>>
  OBVIOUS
<1>5. calls = first \o second \o <<b>>
  BY <1>1, <1>2, <1>4 DEF LoginCalls
<1>6. \/ calls = <<b>> /\ purged = account /\ player = account
      \/ calls = <<l, b>> /\ purged = account
      \/ calls = <<c, a, b>> /\ player = account
      \/ calls = <<c, a, l, b>>
  <2>1. PICK S : S = {c, a, l, b}
    OBVIOUS
  <2>2. <<>> \in Seq(S) /\ <<l>> \in Seq(S) /\ <<c, a>> \in Seq(S) /\ <<b>> \in Seq(S)
    BY <2>1
  <2>3. \A x \in Seq(S) : <<>> \o x = x /\ x \o <<>> = x
    OBVIOUS
  <2>4. CASE purged = account /\ player = account
    <3>1. first = <<>> /\ second = <<>>
      BY <1>4, <2>4
    <3>2. first \o second = <<>>
      BY <2>2, <2>3, <3>1
    <3>3. calls = <<b>>
      BY <1>5, <2>2, <2>3, <3>2
    <3> QED
      BY <2>4, <3>3
  <2>5. CASE purged = account /\ player # account
    <3>1. first = <<>> /\ second = <<l>>
      BY <1>4, <2>5
    <3>2. first \o second = <<l>>
      BY <2>2, <2>3, <3>1
    <3>3. calls = <<l, b>>
      BY <1>5, <3>2, OneAndOne
    <3> QED
      BY <2>5, <3>3
  <2>6. CASE purged # account /\ player = account
    <3>1. first = <<c, a>> /\ second = <<>>
      BY <1>4, <2>6
    <3>2. first \o second = <<c, a>>
      BY <2>2, <2>3, <3>1
    <3>3. calls = <<c, a, b>>
      BY <1>5, <3>2, TwoAndOne
    <3> QED
      BY <2>6, <3>3
  <2>7. CASE purged # account /\ player # account
    <3>1. first = <<c, a>> /\ second = <<l>>
      BY <1>4, <2>7
    <3>2. first \o second = <<c, a, l>>
      BY <3>1, TwoAndOne
    <3>3. calls = <<c, a, l, b>>
      BY <1>5, <3>2, ThreeAndOne
    <3> QED
      BY <3>3
  <2> QED
    BY <2>4, <2>5, <2>6, <2>7
<1>7. purged \in SoundPlayer /\ player \in SoundPlayer /\ account \in SoundPlayer
  BY <1>1, Loaded, PurgedSound, WithHeroesReady
<1>8. player.wallet = account.wallet
  BY <1>1, <1>7, WithHeroesKeeps, PurgedWallet
<1>9. purged = account =>
         player.inventory = account.inventory /\ player.attachments = account.attachments
  BY <1>1, <1>7, WithHeroesKeeps
<1>10. /\ Shaped(calls)
       /\ b \in Range(calls) /\ Range(calls) \subseteq {c, a, l, b}
       /\ l \in Range(calls) \/ player = account
       /\ (c \in Range(calls) /\ a \in Range(calls)) \/ player = account \/ purged = account
  BY <1>3, <1>6, LoginShaped
<1>11. \A w \in Range(calls) :
         /\ w.do \in {"commit", "saveLoadout", "saveAttachments", "bind"}
         /\ w.do = "commit" => w.price = 0
         /\ w.do = "bind" => w.player = player
  BY <1>3, <1>10
<1>12. ASSUME NEW p \in Outcomes(account, calls) PROVE p = player
  <2>1. /\ IsRecord(p)
        /\ p.wallet \in Or({Wallet(account, w) : w \in Calls(calls, "commit")}, account.wallet)
        /\ p.inventory \in Or({w.inventory : w \in Calls(calls, "commit")}, account.inventory)
        /\ p.loadout \in Or({w.loadout : w \in Calls(calls, "saveLoadout")}, account.loadout)
        /\ p.attachments \in Or({w.attachments : w \in Calls(calls, "saveAttachments")},
                                account.attachments)
    BY <1>12, OutcomeParts
  <2>2. /\ \A w \in Calls(calls, "commit") : w = c
        /\ \A w \in Calls(calls, "saveLoadout") : w = l
        /\ \A w \in Calls(calls, "saveAttachments") : w = a
    BY <1>3, <1>10 DEF Calls
  <2>3. p.wallet = player.wallet
    <3>1. \A w \in Calls(calls, "commit") : Wallet(account, w) = account.wallet
      BY <1>3, <2>2 DEF Wallet
    <3>2. \A x \in {Wallet(account, w) : w \in Calls(calls, "commit")} : x = account.wallet
      BY <3>1
    <3> QED
      BY <1>8, <2>1, <3>2 DEF Or
  <2>4. p.inventory = player.inventory
    <3>1. CASE c \in Range(calls)
      <4>1. c \in Calls(calls, "commit")
        BY <1>3, <3>1 DEF Calls
      <4>2. {w.inventory : w \in Calls(calls, "commit")} = {c.inventory}
        BY <2>2, <4>1
      <4> QED
        BY <1>3, <2>1, <4>2 DEF Or
    <3>2. CASE c \notin Range(calls)
      <4>1. Calls(calls, "commit") = {}
        BY <2>2, <3>2 DEF Calls
      <4>2. {w.inventory : w \in Calls(calls, "commit")} = {}
        BY <4>1
      <4> QED
        BY <1>9, <1>10, <2>1, <3>2, <4>2 DEF Or
    <3> QED
      BY <3>1, <3>2
  <2>5. p.attachments = player.attachments
    <3>1. CASE a \in Range(calls)
      <4>1. a \in Calls(calls, "saveAttachments")
        BY <1>3, <3>1 DEF Calls
      <4>2. {w.attachments : w \in Calls(calls, "saveAttachments")} = {a.attachments}
        BY <2>2, <4>1
      <4> QED
        BY <1>3, <2>1, <4>2 DEF Or
    <3>2. CASE a \notin Range(calls)
      <4>1. Calls(calls, "saveAttachments") = {}
        BY <2>2, <3>2 DEF Calls
      <4>2. {w.attachments : w \in Calls(calls, "saveAttachments")} = {}
        BY <4>1
      <4> QED
        BY <1>9, <1>10, <2>1, <3>2, <4>2 DEF Or
    <3> QED
      BY <3>1, <3>2
  <2>6. p.loadout = player.loadout
    <3>1. CASE l \in Range(calls)
      <4>1. l \in Calls(calls, "saveLoadout")
        BY <1>3, <3>1 DEF Calls
      <4>2. {w.loadout : w \in Calls(calls, "saveLoadout")} = {l.loadout}
        BY <2>2, <4>1
      <4> QED
        BY <1>3, <2>1, <4>2 DEF Or
    <3>2. CASE l \notin Range(calls)
      <4>1. Calls(calls, "saveLoadout") = {}
        BY <2>2, <3>2 DEF Calls
      <4>2. {w.loadout : w \in Calls(calls, "saveLoadout")} = {}
        BY <4>1
      <4> QED
        BY <1>10, <2>1, <3>2, <4>2 DEF Or
    <3> QED
      BY <3>1, <3>2
  <2> QED
    BY <1>7, <2>1, <2>3, <2>4, <2>5, <2>6, PlayerRecord, SameRecord
<1> QED
  BY <1>10, <1>11, <1>12

LEMMA LoginOwns ==
    ASSUME HangarInv, OwnedInv, NEW s \in Session, Login(s) PROVE OwnedInv'
<1>1. CASE ~ Exists
  <2>1. PICK p : p = NewAccount(now)
    OBVIOUS
  <2>2. PICK w : w = Create(p)
    OBVIOUS
  <2>3. w.do = "create" /\ w.player = p
    BY <2>2 DEF Create
  <2>4. PICK calls : calls = <<w>>
    OBVIOUS
  <2>5. Owns(p)
    BY <2>1, NewAccountOwns
  <2>6. WillOwn(calls)
    BY <1>1, <2>3, <2>4, <2>5, OneOwns DEF Saves
  <2>7. Leaves(s, calls)
    BY <1>1, <2>1, <2>2, <2>4 DEF Login, Exists
  <2> QED
    BY <2>6, <2>7, OwnedBegun
<1>2. CASE Exists
  <2>1. PICK calls : calls = LoginCalls
    OBVIOUS
  <2>2. PICK player : player = WithHeroes(Purged(account, now))
    OBVIOUS
  <2>3. Leaves(s, calls)
    BY <1>2, <2>1 DEF Login, Exists
  <2>4. /\ Shaped(calls)
        /\ \A w \in Range(calls) :
             /\ w.do \in {"commit", "saveLoadout", "saveAttachments", "bind"}
             /\ w.do = "commit" => w.price = 0
        /\ \A p \in Outcomes(account, calls) : p = player
    BY <1>2, <2>1, <2>2, LoginOutcome
  <2>5. Owns(account) => Owns(player)
    <3> SUFFICES ASSUME Owns(account) PROVE Owns(player)
      OBVIOUS
    <3>1. PICK purged : purged = Purged(account, now)
      OBVIOUS
    <3>2. purged \in SoundPlayer /\ Owns(purged)
      BY <1>2, <3>1, Loaded, PurgedSound, PurgedOwns
    <3> QED
      BY <2>2, <3>1, <3>2, WithHeroesOwns
  <2>6. Owns(account) => WillOwn(calls)
    BY <2>4, <2>5 DEF WillOwn, MayBeRefused
  <2> QED
    BY <1>2, <2>3, <2>6, OwnedBegun
<1> QED
  BY <1>1, <1>2

\* A purchase keeps what there is of each item, and gives what it tells of.
LEMMA BargainKeeps ==
    ASSUME HangarInv, Exists, Owns(account), NEW item \in Item, Bargain(item).row.id # 0,
           NEW v, v = Bargain(item).commit
    PROVE  /\ v.do = "commit" /\ Stocked(v.inventory) /\ Carried(account.inventory, v.inventory)
           /\ item \in Wearable => Holds(v.inventory, Bargain(item).row.id)
<1>1. PICK u : u = account.inventory
  OBVIOUS
<1>2. u \in Inventory /\ Unique(u) /\ Stocked(u) /\ now \in Nat
  BY <1>1, Loaded DEF Owns, Stocked
<1>3. PICK added, row : /\ added = AddToInventory(u, item, now).inventory
                        /\ row = AddToInventory(u, item, now).row
  OBVIOUS
<1>4. v.do = "commit" /\ v.inventory = added /\ Bargain(item).row = row
  BY <1>1, <1>3 DEF Bargain, Commit
<1>5. /\ \A r : r \in Range(added) <=> r = row \/ (r \in Range(u) /\ r.id # row.id)
      /\ row.item = item
      /\ \A r \in Range(u) : r.id = row.id => r.item = item
      /\ (\A r \in Range(u) : r.value > 0) => row.value > 0
  BY <1>2, <1>3, <1>4, AddTells
<1>6. Stocked(added)
  BY <1>2, <1>5 DEF Stocked
<1>7. Carried(u, added)
  <2> SUFFICES ASSUME NEW r \in Range(u) PROVE \E q \in Range(added) : q.id = r.id /\ q.item = r.item
    BY DEF Carried
  <2>1. r \in Range(added) \/ r.id = row.id
    BY <1>5
  <2>2. row \in Range(added)
    BY <1>5
  <2> QED
    BY <1>5, <2>1, <2>2
<1>8. item \in Wearable => Holds(added, row.id)
  BY <1>5 DEF Holds
<1> QED
  BY <1>1, <1>4, <1>6, <1>7, <1>8

LEMMA BuyOwns ==
    ASSUME HangarInv, OwnedInv, NEW s \in Session, NEW item \in Item, Buy(s, item) PROVE OwnedInv'
<1>1. Exists
  BY ActsLoaded DEF Buy
<1>2. PICK v, w : v = Bargain(item).commit /\ w = Answer(Bargain(item).player, Bargain(item).change)
  OBVIOUS
<1>3. w.do = "answer" /\ Bargain(item).row.id # 0
  BY <1>2 DEF Answer, Buy, MayBuy
<1>4. PICK calls : calls = <<v, w>>
  OBVIOUS
<1>5. Owns(account) => WillOwn(calls)
  BY <1>1, <1>2, <1>3, <1>4, BargainKeeps, CommitOwns
<1>6. Leaves(s, calls)
  BY <1>2, <1>4 DEF Buy
<1> QED
  BY <1>1, <1>5, <1>6, OwnedBegun

LEMMA FittingWearable ==
    ASSUME NEW weapon, NEW item, <<weapon, item>> \in Fits PROVE item \in Wearable
<1>1. weapon \in Item /\ item \in Item
  BY AccountAssumption
<1> QED
  BY <1>1 DEF Wearable

LEMMA BuyCustomPartOwns ==
    ASSUME HangarInv, OwnedInv, NEW s \in Session, NEW weapon, Holds(account.inventory, weapon),
           NEW item \in Item, BuyCustomPart(s, weapon, item)
    PROVE  OwnedInv'
<1>1. PICK w : w = BuyFor(weapon, item)
  OBVIOUS
<1>2. w.do = "buyFor" /\ w.weapon = weapon /\ w.item = item
  BY <1>1 DEF BuyFor
<1>3. PICK row : row = RowWith(account.inventory, weapon)
  OBVIOUS
<1>4. <<row.item, item>> \in Fits
  BY <1>3 DEF BuyCustomPart
<1>5. item \in Wearable
  BY <1>4, FittingWearable
<1>6. PICK calls : calls = <<w>>
  OBVIOUS
<1>7. (Exists => Owns(account)) => WillOwn(calls)
  BY <1>2, <1>5, <1>6, OneOwns DEF Saves
<1>8. Leaves(s, calls)
  BY <1>1, <1>6 DEF BuyCustomPart
<1> QED
  BY <1>7, <1>8, OwnedBegun

LEMMA CraftOwns ==
    ASSUME NothingWornUsedUp, HangarInv, OwnedInv, NEW s \in Session, NEW recipe \in Recipes,
           Craft(s, recipe)
    PROVE  OwnedInv'
<1>1. Exists
  BY ActsLoaded DEF Craft
<1>2. PICK u, left, serial : /\ u = account.inventory
                             /\ left = ConsumeMaterials(u, recipe.need)
                             /\ serial = NextSerial(left)
  OBVIOUS
<1>3. PICK output : output = NewItem(serial, recipe.output, now)
  OBVIOUS
<1>4. PICK made : made = Append(left, output)
  OBVIOUS
<1>5. HasMaterials(u, recipe.need) /\ serial # 0
  BY <1>2 DEF Craft
<1>6. recipe.output \in Item /\ recipe.need \in [DOMAIN recipe.need -> Nat \ {0}]
  BY HangarAssumption
<1>7. u \in Inventory /\ Unique(u) /\ left \in Inventory /\ Unique(left)
  BY <1>1, <1>2, <1>5, <1>6, Loaded, ConsumeSound
<1>8. /\ \A r \in Range(u) : r.item \notin DOMAIN recipe.need /\ r.value > 0 => r \in Range(left)
      /\ \A r \in Range(left) : r.value > 0 /\ r.id \in IDs(u)
  BY <1>2, <1>5, <1>6, <1>7, ConsumeLeaves
<1>9. output \in InventoryItem /\ output.value = 1
  BY <1>1, <1>2, <1>3, <1>5, <1>6, NextSerialFree, Loaded, NewItemTyped DEF NewItem
<1>10. Range(made) = Range(left) \cup {output}
  BY <1>4, <1>7, <1>9, AppendRange DEF Inventory
<1>11. Stocked(made)
  BY <1>8, <1>9, <1>10 DEF Stocked
<1>12. Carried(u, made)
  BY <1>8, <1>10 DEF Carried, NothingWornUsedUp
<1>13. PICK v : v = Commit(made, "point", recipe.price)
  OBVIOUS
<1>14. v.do = "commit" /\ v.inventory = made
  BY <1>13 DEF Commit
<1>15. PICK player, change : Leaves(s, <<v, Answer(player, change)>>)
  BY <1>2, <1>3, <1>4, <1>13 DEF Craft
<1>16. PICK w, calls : w = Answer(player, change) /\ calls = <<v, w>>
  OBVIOUS
<1>17. w.do = "answer" /\ Leaves(s, calls)
  BY <1>15, <1>16 DEF Answer
<1>18. Owns(account) => WillOwn(calls)
  BY <1>1, <1>2, <1>11, <1>12, <1>14, <1>16, <1>17, CommitOwns
<1> QED
  BY <1>1, <1>17, <1>18, OwnedBegun

LEMMA SpentFound ==
    ASSUME NEW u \in Inventory, NEW function, Consumables(u, function) # {}
    PROVE  /\ FindConsumable(u, function) \in Range(u)
           /\ Catalog[FindConsumable(u, function).item].function = function
<1>1. PICK found : found = Consumables(u, function)
  OBVIOUS
<1>2. found \in SUBSET Nat /\ found # {} /\ found \in SUBSET DOMAIN u
  BY <1>1 DEF Consumables, Inventory
<1>3. PICK k \in found : k = Min(found)
  BY <1>2, MinIsLeast
<1>4. k \in DOMAIN u /\ Catalog[u[k].item].function = function
  BY <1>1, <1>2, <1>3 DEF Consumables
<1> QED
  BY <1>1, <1>3, <1>4 DEF FindConsumable, Range

LEMMA SpendOwns ==
    ASSUME NothingWornUsedUp, HangarInv, OwnedInv, NEW s \in Session, NEW function \in Spent,
           SpendConsumable(s, function)
    PROVE  OwnedInv'
<1>1. Exists
  BY ActsLoaded DEF SpendConsumable
<1>2. PICK u : u = account.inventory
  OBVIOUS
<1>3. u \in Inventory /\ Unique(u)
  BY <1>1, <1>2, Loaded
<1>4. PICK row, serial : row = FindConsumable(u, function) /\ serial = row.id
  OBVIOUS
<1>5. serial \in IDs(u) /\ row \in Range(u) /\ Catalog[row.item].function = function
  BY <1>2, <1>3, <1>4, ConsumableFound, SpentFound DEF SpendConsumable
<1>6. PICK left : left = SpendUnit(u, serial)
  OBVIOUS
<1>7. /\ \A r \in Range(u) : r.id # serial => r \in Range(left)
      /\ \A r \in Range(left) : r \in Range(u) \/ (r.id = serial /\ r.value > 0)
  BY <1>3, <1>5, <1>6, SpendLeaves
<1>8. Owns(account) => Stocked(left)
  BY <1>2, <1>7 DEF Stocked, Owns
<1>9. Carried(u, left)
  <2>1. ASSUME NEW r \in Range(u), r.item \in Wearable PROVE r \in Range(left)
    <3>1. r # row
      BY <1>5, <2>1 DEF NothingWornUsedUp
    <3>2. r.id # serial
      BY <1>3, <1>4, <1>5, <3>1, SerialsDiffer
    <3> QED
      BY <1>7, <3>2
  <2> QED
    BY <2>1 DEF Carried
<1>10. PICK v : v = Commit(left, "none", 0)
  OBVIOUS
<1>11. v.do = "commit" /\ v.inventory = left
  BY <1>10 DEF Commit
<1>12. PICK player, change : Leaves(s, <<v, Answer(player, change)>>)
  BY <1>2, <1>4, <1>6, <1>10 DEF SpendConsumable
<1>13. PICK w, calls : w = Answer(player, change) /\ calls = <<v, w>>
  OBVIOUS
<1>14. w.do = "answer" /\ Leaves(s, calls)
  BY <1>12, <1>13 DEF Answer
<1>15. Owns(account) => WillOwn(calls)
  BY <1>1, <1>2, <1>8, <1>9, <1>11, <1>13, <1>14, CommitOwns
<1> QED
  BY <1>1, <1>14, <1>15, OwnedBegun

\* Equipping an item that is held.
LEMMA WearOwned ==
    ASSUME HangarInv, Exists, NEW l \in Loadout,
           \A e \in Range(l) : HoldsIn(account.inventory, e.serial, e.slot),
           NEW serial \in IDs(account.inventory), Holds(account.inventory, serial),
           NEW v, v = Wear(l, serial)
    PROVE  \A e \in Range(v) : HoldsIn(account.inventory, e.serial, e.slot)
<1>1. PICK u, slot : u = account.inventory /\ slot = SlotOf(account.inventory, serial)
  OBVIOUS
<1>2. u \in Inventory /\ Unique(u) /\ serial \in Serial /\ slot \in Slots
  BY <1>1, Loaded, OwnedTyped
<1>3. HoldsIn(u, serial, slot)
  BY <1>1, <1>2, OwnHeld DEF Holds
<1>4. v = Equipped(l, slot, serial)
  BY <1>1 DEF Wear
<1>5. \A e : e \in Range(v) <=> e = [slot |-> slot, serial |-> serial] \/ (e \in Range(l) /\ e.slot # slot)
  BY <1>2, <1>4, EquippedRange
<1> QED
  BY <1>1, <1>3, <1>5

LEMMA PutOnOwns ==
    ASSUME HangarInv, OwnedInv, NEW s \in Session, NEW serials, NEW l, PutOn(s, serials, l),
           Owns(account) => \A e \in Range(l) : HoldsIn(account.inventory, e.serial, e.slot)
    PROVE  OwnedInv'
<1>1. Exists
  BY ActsLoaded DEF PutOn
<1>2. PICK v : v = SaveLoadout(l)
  OBVIOUS
<1>3. v.do = "saveLoadout" /\ v.loadout = l
  BY <1>2 DEF SaveLoadout
<1>4. PICK player, change : Leaves(s, <<v, Answer(player, change)>>)
  BY <1>2 DEF PutOn
<1>5. PICK w, calls : w = Answer(player, change) /\ calls = <<v, w>>
  OBVIOUS
<1>6. w.do = "answer" /\ Leaves(s, calls)
  BY <1>4, <1>5 DEF Answer
<1>7. Owns(account) => WillOwn(calls)
  BY <1>1, <1>3, <1>5, <1>6, LoadoutOwns
<1> QED
  BY <1>1, <1>6, <1>7, OwnedBegun

LEMMA EquipOwns ==
    ASSUME HangarInv, OwnedInv, NEW s \in Session, NEW serial, Holds(account.inventory, serial),
           Equip(s, serial)
    PROVE  OwnedInv'
<1>1. Exists
  BY ActsLoaded DEF Equip, PutOn
<1>2. PICK serials, l : serials = <<serial>> /\ l = Wear(account.loadout, serial)
  OBVIOUS
<1>3. PutOn(s, serials, l)
  BY <1>2 DEF Equip
<1>4. serial \in IDs(account.inventory)
  BY IDsInRange DEF Holds
<1>5. Owns(account) => \A e \in Range(l) : HoldsIn(account.inventory, e.serial, e.slot)
  BY <1>1, <1>2, <1>4, Loaded, WearOwned DEF Owns
<1> QED
  BY <1>3, <1>5, PutOnOwns

LEMMA ChangeWeaponsOwns ==
    ASSUME HangarInv, OwnedInv, NEW s \in Session, NEW first, Holds(account.inventory, first),
           NEW second, Holds(account.inventory, second), ChangeWeapons(s, first, second)
    PROVE  OwnedInv'
<1>1. Exists
  BY ActsLoaded DEF ChangeWeapons, PutOn
<1>2. PICK serials, k : serials = <<first, second>> /\ k = Wear(account.loadout, first)
  OBVIOUS
<1>3. PICK l : l = Wear(k, second)
  OBVIOUS
<1>4. PutOn(s, serials, l)
  BY <1>2, <1>3 DEF ChangeWeapons
<1>5. first \in IDs(account.inventory) /\ second \in IDs(account.inventory)
  BY IDsInRange DEF Holds
<1>6. k \in Loadout
  BY <1>1, <1>2, <1>5, Loaded, WearSound
<1>7. Owns(account) => \A e \in Range(k) : HoldsIn(account.inventory, e.serial, e.slot)
  BY <1>1, <1>2, <1>5, Loaded, WearOwned DEF Owns
<1>8. Owns(account) => \A e \in Range(l) : HoldsIn(account.inventory, e.serial, e.slot)
  BY <1>1, <1>3, <1>5, <1>6, <1>7, WearOwned
<1> QED
  BY <1>4, <1>8, PutOnOwns

\* What Attach leaves, when it is not refused.
LEMMA AttachMade ==
    ASSUME NEW parent, NEW child, NEW change, NEW calls, calls = AttachCalls(parent, child, change),
           calls # <<>>, NEW slot, slot = SlotOf(account.inventory, child),
           NEW a, a = Attached(account.attachments, parent, child, slot),
           NEW v, v = SaveAttachments(a),
           NEW w, w = Answer([account EXCEPT !.attachments = a],
                             [change EXCEPT !.mount = {[parent |-> parent, child |-> child, slot |-> slot]}])
    PROVE  /\ Usable(child) /\ parent \in IDs(account.inventory) /\ calls = <<v, w>>
           /\ v.do = "saveAttachments" /\ v.attachments = a /\ w.do = "answer"
<1>1. Usable(child) /\ parent \in IDs(account.inventory)
  BY DEF AttachCalls
<1>2. calls = <<v, w>>
  BY DEF AttachCalls
<1>3. v.do = "saveAttachments" /\ v.attachments = a /\ w.do = "answer"
  BY DEF SaveAttachments, Answer
<1> QED
  BY <1>1, <1>2, <1>3

LEMMA AttachCallsOwn ==
    ASSUME HangarInv, Exists, Owns(account), NEW parent, Holds(account.inventory, parent),
           NEW child, Holds(account.inventory, child), NEW change,
           NEW calls, calls = AttachCalls(parent, child, change), calls # <<>>
    PROVE  WillOwn(calls)
<1>1. PICK u, slot : u = account.inventory /\ slot = SlotOf(account.inventory, child)
  OBVIOUS
<1>2. PICK a : a = Attached(account.attachments, parent, child, slot)
  OBVIOUS
<1>3. PICK v, w : /\ v = SaveAttachments(a)
                  /\ w = Answer([account EXCEPT !.attachments = a],
                       [change EXCEPT !.mount = {[parent |-> parent, child |-> child, slot |-> slot]}])
  OBVIOUS
<1>4. /\ Usable(child) /\ parent \in IDs(u) /\ calls = <<v, w>>
      /\ v.do = "saveAttachments" /\ v.attachments = a /\ w.do = "answer"
  BY <1>1, <1>2, <1>3, AttachMade
<1>5. child \in IDs(u)
  BY <1>1, <1>4 DEF Usable
<1>6. /\ u \in Inventory /\ Unique(u) /\ child \in Serial /\ parent \in Serial /\ slot \in Slots
      /\ account.attachments \in Attachments
  BY <1>1, <1>4, <1>5, Loaded, OwnedTyped
<1>7. HoldsIn(u, child, slot)
  BY <1>1, <1>6, OwnHeld DEF Holds
<1>8. \A m : m \in Range(a) <=>
         \/ m = [parent |-> parent, child |-> child, slot |-> slot]
         \/ m \in Range(account.attachments) /\ (m.parent # parent \/ m.slot # slot)
  BY <1>2, <1>6, AttachedRange
<1>9. \A m \in Range(a) : HoldsIn(u, m.child, m.slot) /\ Holds(u, m.parent)
  BY <1>1, <1>7, <1>8 DEF Owns
<1> QED
  BY <1>1, <1>4, <1>9, AttachmentsOwn

LEMMA AttachOwns ==
    ASSUME HangarInv, OwnedInv, NEW s \in Session, NEW parent, Holds(account.inventory, parent),
           NEW child, Holds(account.inventory, child), Attach(s, parent, child)
    PROVE  OwnedInv'
<1>1. Exists
  BY ActsLoaded DEF Attach
<1>2. PICK calls : calls = AttachCalls(parent, child, NoChange)
  OBVIOUS
<1>3. Leaves(s, calls)
  BY <1>2 DEF Attach
<1>4. calls # <<>>
  BY <1>3 DEF Leaves
<1>5. Owns(account) => WillOwn(calls)
  BY <1>1, <1>2, <1>4, AttachCallsOwn
<1> QED
  BY <1>1, <1>3, <1>5, OwnedBegun

LEMMA DetachOwns ==
    ASSUME HangarInv, OwnedInv, NEW s \in Session, NEW parent, NEW child, Detach(s, parent, child)
    PROVE  OwnedInv'
<1>1. Exists
  BY ActsLoaded DEF Detach
<1>2. PICK a : a = Detached(account.attachments, parent, child)
  OBVIOUS
<1>3. \A m : m \in Range(a) <=>
         m \in Range(account.attachments) /\ (m.parent # parent \/ m.child # child)
  BY <1>1, <1>2, Loaded, DetachedRange
<1>4. PICK v : v = SaveAttachments(a)
  OBVIOUS
<1>5. v.do = "saveAttachments" /\ v.attachments = a
  BY <1>4 DEF SaveAttachments
<1>6. PICK player, change : Leaves(s, <<v, Answer(player, change)>>)
  BY <1>2, <1>4 DEF Detach
<1>7. PICK w, calls : w = Answer(player, change) /\ calls = <<v, w>>
  OBVIOUS
<1>8. w.do = "answer" /\ Leaves(s, calls)
  BY <1>6, <1>7 DEF Answer
<1>9. Owns(account) => \A m \in Range(a) :
         HoldsIn(account.inventory, m.child, m.slot) /\ Holds(account.inventory, m.parent)
  BY <1>3 DEF Owns
<1>10. Owns(account) => WillOwn(calls)
  BY <1>1, <1>5, <1>7, <1>8, <1>9, AttachmentsOwn
<1> QED
  BY <1>1, <1>8, <1>10, OwnedBegun

-----------------------------------------------------------------------------
(***************************************************************************)
(* The calls, one by one.                                                  *)
(***************************************************************************)
LEMMA CommittedSaves ==
    ASSUME HangarInv, Exists, NEW w, w.do = "commit", NEW p, p = Committed(w)
    PROVE  Saved(account, w, p)
<1>1. account \in Player
  BY Loaded DEF SoundPlayer
<1>2. PICK money : money = Wallet(account, w)
  OBVIOUS
<1>3. p = [account EXCEPT !.inventory = w.inventory, !.wallet = money]
  BY <1>2 DEF Committed, Wallet
<1>4. /\ p.wallet = money /\ p.inventory = w.inventory
      /\ p.loadout = account.loadout /\ p.attachments = account.attachments /\ IsRecord(p)
  BY <1>1, <1>3 DEF Player, IsRecord
<1> QED
  BY <1>2, <1>4 DEF Saved

LEMMA LoadoutSaves ==
    ASSUME HangarInv, Exists, NEW w, w.do = "saveLoadout",
           NEW p, p = [account EXCEPT !.loadout = w.loadout]
    PROVE  Saved(account, w, p)
<1>1. account \in Player
  BY Loaded DEF SoundPlayer
<1>2. /\ p.wallet = account.wallet /\ p.inventory = account.inventory
      /\ p.loadout = w.loadout /\ p.attachments = account.attachments /\ IsRecord(p)
  BY <1>1 DEF Player, IsRecord
<1> QED
  BY <1>2 DEF Saved

LEMMA AttachmentsSave ==
    ASSUME HangarInv, Exists, NEW w, w.do = "saveAttachments",
           NEW p, p = [account EXCEPT !.attachments = w.attachments]
    PROVE  Saved(account, w, p)
<1>1. account \in Player
  BY Loaded DEF SoundPlayer
<1>2. /\ p.wallet = account.wallet /\ p.inventory = account.inventory
      /\ p.loadout = account.loadout /\ p.attachments = w.attachments /\ IsRecord(p)
  BY <1>1 DEF Player, IsRecord
<1> QED
  BY <1>2 DEF Saved

\* The rest of the calls, once one of them has been made.
LEMMA OwnedGoesOn ==
    ASSUME HangarInv, OwnedInv, NEW s \in Session, todo[s] # <<>>, Exists,
           NEW t, t = Tail(todo[s]), Continue(s, t),
           account' \in SoundPlayer,
           Saved(account, Head(todo[s]), account')
    PROVE  OwnedInv'
<1>1. PICK calls : calls = todo[s]
  OBVIOUS
<1>2. calls \in Seq(Range(calls)) /\ calls # <<>> /\ t = Tail(calls)
  BY <1>1, CallsOf
<1>3. SUFFICES ASSUME WillOwn(calls)
               PROVE  /\ t # <<>> => WillOwn(t)'
                      /\ t = <<>> => Owns(account)'
  BY <1>1, OwnedContinued
<1>4. Shaped(calls)
  BY <1>3 DEF WillOwn
<1>5. PICK p, q : p = account /\ q = account'
  OBVIOUS
<1>6. \A x \in Outcomes(q, t) : x \in Outcomes(p, calls)
  BY <1>1, <1>2, <1>4, <1>5, SavedRest
<1>7. \A x \in Outcomes(q, t) : Owns(x)
  BY <1>3, <1>5, <1>6 DEF WillOwn
<1>8. CASE t # <<>>
  <2>1. Shaped(t)
    BY <1>2, <1>4, RestShaped
  <2>2. \A v \in Range(t) :
           v \in Range(calls) /\ v.do \notin {"create", "findAgain", "commit", "buyFor"}
    BY <1>2, <1>4, RestOf
  <2>3. ~ MayBeRefused(t)
    BY <2>2 DEF MayBeRefused
  <2>4. \A v \in Range(t) : v.do = "mountBought" =>
           \A x \in Outcomes(q, t) : Holds(x.inventory, v.weapon) /\ Holds(x.inventory, v.serial)
    BY <1>3, <1>5, <1>6, <2>2 DEF WillOwn
  <2>5. WillOwn(t)'
    BY <1>5, <1>7, <2>1, <2>2, <2>3, <2>4 DEF WillOwn
  <2> QED
    BY <1>8, <2>5
<1>9. CASE t = <<>>
  <2>1. \A v \in Range(t) : v.do \notin Saves
    BY <1>9 DEF Range
  <2>2. q \in Outcomes(q, t)
    BY <1>5, <2>1, PlayerRecord, NothingSaved
  <2> QED
    BY <1>5, <1>7, <1>9, <2>2
<1> QED
  BY <1>8, <1>9

\* When nothing else is saved, the account is what it will be.
LEMMA OwnsNow ==
    ASSUME HangarInv, Exists, NEW s \in Session, todo[s] # <<>>, WillOwn(todo[s]),
           Head(todo[s]).do \notin Saves
    PROVE  Owns(account) /\ Head(todo[s]) \in Range(todo[s]) /\ Outcomes(account, todo[s]) = {account}
<1>1. PICK calls : calls = todo[s]
  OBVIOUS
<1>2. calls \in Seq(Range(calls)) /\ calls # <<>> /\ Shaped(calls) /\ Head(calls).do \notin Saves
  BY <1>1, CallsOf DEF WillOwn
<1>3. Range(calls) = {Head(calls)}
  BY <1>2, LastCall
<1>4. \A q : q \in Outcomes(account, calls) <=> q = account
  BY <1>2, <1>3, AccountRecord, NothingSaved
<1>5. Owns(account)
  BY <1>1, <1>4 DEF WillOwn
<1> QED
  BY <1>1, <1>3, <1>4, <1>5

LEMMA CommittingOwns ==
    ASSUME HangarInv, OwnedInv, NEW s \in Session, Committing(s) PROVE OwnedInv'
<1>1. NextCall(s, "commit") /\ todo[s] # <<>>
  BY DEF Committing, NextCall
<1>2. PICK w, t : w = Head(todo[s]) /\ t = Tail(todo[s])
  OBVIOUS
<1>3. w.do = "commit" /\ Exists
  BY <1>1, <1>2, HeadSound DEF NeedsAccount
<1>4. CASE w.price = 0 \/ account.wallet[w.wallet] >= w.price
  <2>1. Continue(s, t) /\ account' = Committed(w)
    BY <1>2, <1>4 DEF Committing
  <2>2. Saved(account, w, account')
    BY <1>3, <2>1, CommittedSaves
  <2>3. account' \in SoundPlayer
    BY <1>1, <1>2, <1>3, <1>4, <2>1, HeadSound, CommittedSound
  <2> QED
    BY <1>1, <1>2, <1>3, <2>1, <2>2, <2>3, OwnedGoesOn
<1>5. CASE ~ (w.price = 0 \/ account.wallet[w.wallet] >= w.price)
  <2>1. PICK calls : calls = <<>>
    OBVIOUS
  <2>2. Continue(s, calls) /\ account' = account
    BY <1>2, <1>5, <2>1 DEF Committing
  <2>3. WillOwn(todo[s]) => Owns(account)
    <3>1. Head(todo[s]) \in Range(todo[s])
      BY <1>1, CallsOf DEF Range
    <3>2. MayBeRefused(todo[s])
      BY <1>2, <1>3, <1>5, <3>1 DEF MayBeRefused
    <3> QED
      BY <1>3, <3>2 DEF WillOwn
  <2> QED
    BY <1>1, <2>1, <2>2, <2>3, OwnedContinued
<1> QED
  BY <1>4, <1>5

LEMMA SavingLoadoutOwns ==
    ASSUME HangarInv, OwnedInv, NEW s \in Session, SavingLoadout(s) PROVE OwnedInv'
<1>1. NextCall(s, "saveLoadout") /\ todo[s] # <<>>
  BY DEF SavingLoadout, NextCall
<1>2. PICK w, t : w = Head(todo[s]) /\ t = Tail(todo[s])
  OBVIOUS
<1>3. w.do = "saveLoadout" /\ SoundCall(w) /\ Exists
  BY <1>1, <1>2, HeadSound DEF NeedsAccount
<1>4. Continue(s, t) /\ account' = [account EXCEPT !.loadout = w.loadout]
  BY <1>2 DEF SavingLoadout
<1>5. Saved(account, w, account')
  BY <1>3, <1>4, LoadoutSaves
<1>6. account' \in SoundPlayer
  BY <1>3, <1>4, Loaded, AccountWith DEF SoundCall
<1> QED
  BY <1>1, <1>2, <1>3, <1>4, <1>5, <1>6, OwnedGoesOn

LEMMA SavingAttachmentsOwns ==
    ASSUME HangarInv, OwnedInv, NEW s \in Session, SavingAttachments(s) PROVE OwnedInv'
<1>1. NextCall(s, "saveAttachments") /\ todo[s] # <<>>
  BY DEF SavingAttachments, NextCall
<1>2. PICK w, t : w = Head(todo[s]) /\ t = Tail(todo[s])
  OBVIOUS
<1>3. w.do = "saveAttachments" /\ SoundCall(w) /\ Exists
  BY <1>1, <1>2, HeadSound DEF NeedsAccount
<1>4. Continue(s, t) /\ account' = [account EXCEPT !.attachments = w.attachments]
  BY <1>2 DEF SavingAttachments
<1>5. Saved(account, w, account')
  BY <1>3, <1>4, AttachmentsSave
<1>6. account' \in SoundPlayer
  BY <1>3, <1>4, Loaded, AccountWith DEF SoundCall
<1> QED
  BY <1>1, <1>2, <1>3, <1>4, <1>5, <1>6, OwnedGoesOn

LEMMA CreatingOwns ==
    ASSUME HangarInv, OwnedInv, NEW s \in Session, Creating(s) PROVE OwnedInv'
<1>1. NextCall(s, "create") /\ todo[s] # <<>>
  BY DEF Creating, NextCall
<1>2. PICK v, p : v = Head(todo[s]) /\ p = v.player
  OBVIOUS
<1>3. v.do = "create" /\ v.do \notin Saves
  BY <1>1, <1>2, HeadSound DEF Saves
<1>4. PICK w : w = IF account = NoAccount THEN Bind(p) ELSE FindAgain
  OBVIOUS
<1>5. w.do \in {"bind", "findAgain"}
  BY <1>4 DEF Bind, FindAgain
<1>6. PICK calls : calls = <<w>>
  OBVIOUS
<1>7. Continue(s, calls) /\ account' = IF account = NoAccount THEN p ELSE account
  BY <1>2, <1>4, <1>6 DEF Creating
<1>8. HangarInv'
  BY CreatingKeeps
<1>9. v \in Range(todo[s])
  BY <1>1, <1>2, CallsOf DEF Range
<1>10. WillOwn(todo[s]) => Owns(account)'
  BY <1>1, <1>2, <1>3, <1>7, <1>9, OwnsNow DEF WillOwn, Exists
<1>11. WillOwn(todo[s]) => WillOwn(calls)'
  <2> SUFFICES ASSUME Owns(account)' PROVE WillOwn(calls)'
    BY <1>10
  <2>1. Shaped(calls) /\ Range(calls) = {w}
    BY <1>5, <1>6, OneShaped DEF Saves
  <2>2. PICK q : q = account'
    OBVIOUS
  <2>3. Exists' => IsRecord(q)
    BY <1>8, <2>2, PlayerRecord DEF HangarInv
  <2>4. Exists' => \A x \in Outcomes(q, calls) : x = q
    BY <1>5, <2>1, <2>3, NothingSaved DEF Saves
  <2>5. ~ MayBeRefused(calls)
    BY <1>5, <2>1 DEF MayBeRefused
  <2> QED
    BY <1>5, <2>1, <2>2, <2>4, <2>5 DEF WillOwn
<1>12. calls # <<>>
  BY <1>6
<1> QED
  BY <1>1, <1>7, <1>11, <1>12, OwnedContinued

LEMMA FindingAgainOwns ==
    ASSUME HangarInv, OwnedInv, NEW s \in Session, FindingAgain(s) PROVE OwnedInv'
<1>1. NextCall(s, "findAgain") /\ todo[s] # <<>>
  BY DEF FindingAgain, NextCall
<1>2. PICK w, calls : w = BindAsFound(account) /\ calls = <<w>>
  OBVIOUS
<1>3. Head(todo[s]).do \notin Saves /\ w.do = "bindAsFound"
  BY <1>1, <1>2, HeadSound DEF Saves, BindAsFound
<1>4. Continue(s, calls) /\ account' = account /\ calls # <<>>
  BY <1>2 DEF FindingAgain
<1>5. WillOwn(todo[s]) /\ Exists => Owns(account)
  BY <1>1, <1>3, OwnsNow
<1>6. WillOwn(todo[s]) => WillOwn(calls)
  BY <1>2, <1>3, <1>5, OneOwns DEF Saves
<1>7. WillOwn(calls) => WillOwn(calls)'
  BY <1>4 DEF WillOwn, Exists
<1> QED
  BY <1>1, <1>4, <1>6, <1>7, OwnedContinued

LEMMA BuyingForOwns ==
    ASSUME HangarInv, OwnedInv, NEW s \in Session, BuyingFor(s) PROVE OwnedInv'
<1>1. NextCall(s, "buyFor") /\ todo[s] # <<>>
  BY DEF BuyingFor, NextCall
<1>2. PICK w : w = Head(todo[s])
  OBVIOUS
<1>3. w.do = "buyFor" /\ w.do \notin Saves /\ w.item \in Item /\ Exists
  BY <1>1, <1>2, HeadSound DEF NeedsAccount, SoundCall, Saves
<1>4. PICK v, m : /\ v = Bargain(w.item).commit
                  /\ m = MountBought(w.weapon, Bargain(w.item).row.id, Bargain(w.item).change)
  OBVIOUS
<1>5. PICK calls : calls = IF MayBuy(w.item) THEN <<v, m>> ELSE <<>>
  OBVIOUS
<1>6. Continue(s, calls) /\ account' = account
  BY <1>2, <1>4, <1>5 DEF BuyingFor
<1>7. m.do = "mountBought" /\ m.weapon = w.weapon /\ m.serial = Bargain(w.item).row.id
  BY <1>4 DEF MountBought
<1>8. WillOwn(todo[s]) =>
         Owns(account) /\ Holds(account.inventory, w.weapon) /\ w.item \in Wearable
  BY <1>1, <1>2, <1>3, OwnsNow DEF WillOwn
<1>9. WillOwn(todo[s]) /\ calls # <<>> => WillOwn(calls)
  <2> SUFFICES ASSUME WillOwn(todo[s]), calls # <<>> PROVE WillOwn(calls)
    OBVIOUS
  <2>1. calls = <<v, m>> /\ Bargain(w.item).row.id # 0
    BY <1>5 DEF MayBuy
  <2>2. /\ v.do = "commit" /\ Stocked(v.inventory) /\ Carried(account.inventory, v.inventory)
        /\ Holds(v.inventory, m.serial)
    BY <1>3, <1>4, <1>7, <1>8, <2>1, BargainKeeps
  <2>3. Holds(v.inventory, m.weapon)
    BY <1>7, <1>8, <2>2, HoldsCarried DEF Owns, Stocked
  <2> QED
    BY <1>3, <1>7, <1>8, <2>1, <2>2, <2>3, CommitOwns
<1>10. WillOwn(calls) => WillOwn(calls)'
  BY <1>6 DEF WillOwn, Exists
<1> QED
  BY <1>1, <1>6, <1>8, <1>9, <1>10, OwnedContinued

LEMMA MountingBoughtOwns ==
    ASSUME HangarInv, OwnedInv, NEW s \in Session, MountingBought(s) PROVE OwnedInv'
<1>1. NextCall(s, "mountBought") /\ todo[s] # <<>>
  BY DEF MountingBought, NextCall
<1>2. PICK w, calls : w = Head(todo[s]) /\ calls = AttachCalls(w.weapon, w.serial, w.change)
  OBVIOUS
<1>3. w.do = "mountBought" /\ w.do \notin Saves /\ Exists
  BY <1>1, <1>2, HeadSound DEF NeedsAccount, Saves
<1>4. Continue(s, calls) /\ account' = account
  BY <1>2 DEF MountingBought
<1>5. WillOwn(todo[s]) =>
         /\ Owns(account)
         /\ Holds(account.inventory, w.weapon) /\ Holds(account.inventory, w.serial)
  BY <1>1, <1>2, <1>3, OwnsNow DEF WillOwn
<1>6. WillOwn(todo[s]) /\ calls # <<>> => WillOwn(calls)
  BY <1>2, <1>3, <1>5, AttachCallsOwn
<1>7. WillOwn(calls) => WillOwn(calls)'
  BY <1>4 DEF WillOwn, Exists
<1> QED
  BY <1>1, <1>4, <1>5, <1>6, <1>7, OwnedContinued

\* Binding the account to the session, and the answer.
LEMMA LastOwns ==
    ASSUME HangarInv, OwnedInv, NEW s \in Session, todo[s] # <<>>, Head(todo[s]).do \notin Saves,
           Continue(s, Tail(todo[s])), account' = account
    PROVE  OwnedInv'
<1>1. PICK calls : calls = Tail(todo[s])
  OBVIOUS
<1>2. WillOwn(todo[s]) => calls = <<>>
  BY <1>1, CallsOf, LastCall DEF WillOwn
<1>3. WillOwn(todo[s]) /\ Exists => Owns(account)
  BY OwnsNow
<1> QED
  BY <1>1, <1>2, <1>3, OwnedContinued DEF Exists

LEMMA FailOwns ==
    ASSUME HangarInv, OwnedInv, NEW s \in Session, Fail(s) PROVE OwnedInv'
<1>1. mishaps \in Nat /\ mishaps' = mishaps + 1
  BY DEF Fail, Mishap, OwnedInv
<1>2. mishaps' \in Nat /\ mishaps' # 0
  BY <1>1
<1> QED
  BY <1>2 DEF OwnedInv

LEMMA CrashOwns ==
    ASSUME HangarInv, OwnedInv, Crash PROVE OwnedInv'
<1>1. /\ todo' = [s \in Session |-> <<>>] /\ account' = account
      /\ IF Quiet THEN mishaps' = mishaps ELSE mishaps' = mishaps + 1
  BY DEF Crash, Mishap
<1>2. mishaps \in Nat
  BY DEF OwnedInv
<1>3. mishaps' \in Nat
  BY <1>1, <1>2
<1>4. mishaps' = 0 => Quiet /\ mishaps = 0
  BY <1>1, <1>2
<1>5. mishaps' = 0 /\ Exists => Owns(account)
  BY <1>4 DEF OwnedInv
<1> QED
  BY <1>1, <1>3, <1>5 DEF OwnedInv, Exists

LEMMA StandingOwns ==
    ASSUME OwnedInv, UNCHANGED <<account, todo, mishaps>> PROVE OwnedInv'
<1>1. account' = account /\ todo' = todo /\ mishaps' = mishaps
  OBVIOUS
<1>2. ASSUME mishaps = 0, NEW s \in Session, todo[s] # <<>> PROVE (Alone(s) /\ WillOwn(todo[s]))'
  <2>1. Alone(s) /\ WillOwn(todo[s])
    BY <1>2 DEF OwnedInv
  <2> QED
    BY <1>1, <2>1 DEF Alone, WillOwn, Exists
<1>3. mishaps = 0 => (Quiet /\ Exists => Owns(account))'
  BY <1>1 DEF OwnedInv, Quiet, Exists
<1> QED
  BY <1>1, <1>2, <1>3 DEF OwnedInv

\* Whose serials a client asks with.
LEMMA AskedHeld ==
    ASSUME HangarInv, Exists, NEW items, \A i \in items \cap Item : i \in Wearable,
           NEW serial, \E r \in Range(account.inventory) : r.item \in items /\ r.id = serial
    PROVE  Holds(account.inventory, serial)
<1>1. PICK r \in Range(account.inventory) : r.item \in items /\ r.id = serial
  OBVIOUS
<1>2. r \in InventoryItem
  BY Loaded DEF Inventory, Range
<1>3. r.item \in Item
  BY <1>2 DEF InventoryItem
<1> QED
  BY <1>1, <1>3 DEF Holds

LEMMA AsksOwns ==
    ASSUME NothingWornUsedUp, HangarInv, OwnedInv, NEW s \in Session, Acts(s), Asks(s)
    PROVE  OwnedInv'
<1>1. Exists
  BY ActsLoaded
<1>2. PICK worn, parts : /\ worn = {r.id : r \in {q \in Range(account.inventory) : q.item \in Worn}}
                         /\ parts = {r.id : r \in {q \in Range(account.inventory) : q.item \in Parts}}
  OBVIOUS
<1>3. /\ \A i \in Worn \cap Item : i \in Wearable
      /\ \A i \in Parts \cap Item : i \in Wearable
  BY DEF Wearable
<1>4. \A serial \in worn : Holds(account.inventory, serial)
  <2> TAKE serial \in worn
  <2>1. \E r \in Range(account.inventory) : r.item \in Worn /\ r.id = serial
    BY <1>2
  <2> QED
    BY <1>1, <1>3, <2>1, AskedHeld
<1>5. \A serial \in parts : Holds(account.inventory, serial)
  <2> TAKE serial \in parts
  <2>1. \E r \in Range(account.inventory) : r.item \in Parts /\ r.id = serial
    BY <1>2
  <2> QED
    BY <1>1, <1>3, <2>1, AskedHeld
<1>6. \/ \E item \in Item : Buy(s, item)
      \/ \E recipe \in Recipes : Craft(s, recipe)
      \/ \E function \in Spent : SpendConsumable(s, function)
      \/ \E serial \in worn : Equip(s, serial)
      \/ \E first, second \in worn : ChangeWeapons(s, first, second)
      \/ \E parent \in worn, child \in parts : Attach(s, parent, child) \/ Detach(s, parent, child)
      \/ \E weapon \in worn, item \in Item : BuyCustomPart(s, weapon, item)
  BY <1>2, Zenon DEF Asks
<1>7. ASSUME NEW item \in Item, Buy(s, item) PROVE OwnedInv'
  BY <1>7, BuyOwns
<1>8. ASSUME NEW recipe \in Recipes, Craft(s, recipe) PROVE OwnedInv'
  BY <1>8, CraftOwns
<1>9. ASSUME NEW function \in Spent, SpendConsumable(s, function) PROVE OwnedInv'
  BY <1>9, SpendOwns
<1>10. ASSUME NEW serial \in worn, Equip(s, serial) PROVE OwnedInv'
  BY <1>4, <1>10, EquipOwns
<1>11. ASSUME NEW first \in worn, NEW second \in worn, ChangeWeapons(s, first, second) PROVE OwnedInv'
  BY <1>4, <1>11, ChangeWeaponsOwns
<1>12. ASSUME NEW parent \in worn, NEW child \in parts, Attach(s, parent, child) PROVE OwnedInv'
  BY <1>4, <1>5, <1>12, AttachOwns
<1>13. ASSUME NEW parent, NEW child, Detach(s, parent, child) PROVE OwnedInv'
  BY <1>13, DetachOwns
<1>14. ASSUME NEW weapon \in worn, NEW item \in Item, BuyCustomPart(s, weapon, item) PROVE OwnedInv'
  BY <1>4, <1>14, BuyCustomPartOwns
<1> QED
  BY <1>6, <1>7, <1>8, <1>9, <1>10, <1>11, <1>12, <1>13, <1>14

LEMMA ProceedsOwns ==
    ASSUME HangarInv, OwnedInv, NEW s \in Session, Proceeds(s) PROVE OwnedInv'
<1>1. ASSUME Binding(s) \/ Answering(s) PROVE OwnedInv'
  <2>1. PICK what \in {"bind", "bindAsFound", "answer"} : NextCall(s, what)
    BY <1>1 DEF Binding, Answering
  <2>2. todo[s] # <<>> /\ Head(todo[s]).do \notin Saves
    BY <2>1 DEF NextCall, Saves
  <2>3. Continue(s, Tail(todo[s])) /\ account' = account
    BY <1>1 DEF Binding, Answering
  <2> QED
    BY <2>2, <2>3, LastOwns
<1> QED
  BY <1>1, CommittingOwns, SavingLoadoutOwns, SavingAttachmentsOwns, CreatingOwns,
     FindingAgainOwns, BuyingForOwns, MountingBoughtOwns DEF Proceeds

LEMMA OwnedNext ==
    ASSUME NothingWornUsedUp PROVE HangarInv /\ OwnedInv /\ [Next]_vars => OwnedInv'
<1> SUFFICES ASSUME HangarInv, OwnedInv, [Next]_vars PROVE OwnedInv'
  OBVIOUS
<1>1. ASSUME NEW s \in Session, Login(s) PROVE OwnedInv'
  BY <1>1, LoginOwns
<1>2. ASSUME NEW s \in Session, ItemLogin(s) \/ Drop(s) PROVE OwnedInv'
  <2>1. UNCHANGED <<account, todo, mishaps>>
    BY <1>2 DEF ItemLogin, Drop
  <2> QED
    BY <2>1, StandingOwns
<1>3. ASSUME NEW s \in Session, Acts(s), Asks(s) PROVE OwnedInv'
  BY <1>3, AsksOwns
<1>4. ASSUME NEW s \in Session, Proceeds(s) PROVE OwnedInv'
  BY <1>4, ProceedsOwns
<1>5. ASSUME NEW s \in Session, Fail(s) PROVE OwnedInv'
  BY <1>5, FailOwns
<1>6. CASE Crash
  BY <1>6, CrashOwns
<1>7. CASE Tick \/ UNCHANGED vars
  <2>1. UNCHANGED <<account, todo, mishaps>>
    BY <1>7 DEF Tick, vars
  <2> QED
    BY <2>1, StandingOwns
<1> QED
  BY <1>1, <1>2, <1>3, <1>4, <1>5, <1>6, <1>7 DEF Next

(***************************************************************************)
(* OwnedInv holds always, if no recipe takes and nobody spends what can be *)
(* worn: until requests overlap or are cut off, the account is, once the   *)
(* saves of the one handler at work are through, one that owns what it     *)
(* wears.                                                                  *)
(***************************************************************************)
THEOREM OwnedInvariant ==
    ASSUME NothingWornUsedUp PROVE Spec => []OwnedInv
<1>1. Init => OwnedInv
  <2> SUFFICES ASSUME Init PROVE OwnedInv
    OBVIOUS
  <2>1. mishaps = 0 /\ ~ Exists /\ \A s \in Session : todo[s] = <<>>
    BY DEF Init, Exists
  <2> QED
    BY <2>1 DEF OwnedInv
<1>2. HangarInv /\ OwnedInv /\ [Next]_vars => OwnedInv'
  BY OwnedNext
<1>3. Spec => []HangarInv
  BY HangarInvariant
<1> QED
  BY <1>1, <1>2, <1>3, PTL DEF Spec

(***************************************************************************)
(* WornOwned: NextSerial hands freed serials out again, and purchases,     *)
(* crafting, spending, equipping, mounting and the purge each save a field *)
(* as a whole; still, so long as requests do not overlap and none is cut   *)
(* off, what is equipped or mounted is owned and is of the slot it is in.  *)
(***************************************************************************)
THEOREM WornAlwaysOwned ==
    ASSUME NothingWornUsedUp PROVE Spec => []WornOwned
<1>1. HangarInv /\ OwnedInv => WornOwned
  <2> SUFFICES ASSUME HangarInv, OwnedInv, mishaps = 0, Quiet, Exists
               PROVE  /\ \A e \in Range(account.loadout) :
                            /\ e.serial \in IDs(account.inventory)
                            /\ SlotOf(account.inventory, e.serial) = e.slot
                      /\ \A m \in Range(account.attachments) :
                            /\ m.child \in IDs(account.inventory)
                            /\ SlotOf(account.inventory, m.child) = m.slot
                            /\ m.parent \in IDs(account.inventory)
    BY Zenon DEF WornOwned
  <2>1. Owns(account)
    BY DEF OwnedInv
  <2>2. account.inventory \in Inventory /\ Unique(account.inventory)
    BY Loaded
  <2>3. \A e \in Range(account.loadout) :
           /\ e.serial \in IDs(account.inventory)
           /\ SlotOf(account.inventory, e.serial) = e.slot
    BY <2>1, <2>2, HeldOwned DEF Owns
  <2>4. \A m \in Range(account.attachments) :
           /\ m.child \in IDs(account.inventory)
           /\ SlotOf(account.inventory, m.child) = m.slot
           /\ m.parent \in IDs(account.inventory)
    BY <2>1, <2>2, HeldOwned, IDsInRange DEF Owns, Holds
  <2> QED
    BY <2>3, <2>4
<1>2. Spec => []HangarInv
  BY HangarInvariant
<1>3. Spec => []OwnedInv
  BY OwnedInvariant
<1> QED
  BY <1>1, <1>2, <1>3, PTL

-----------------------------------------------------------------------------
(***************************************************************************)
(* What a client is told of a change makes what it shows the account.      *)
(***************************************************************************)
TellsItems(u, v, gone, items) ==
    \A r : r \in Range(v) <=>
              r \in items \/ (r \in Range(u) /\ r.id \notin gone \cup {q.id : q \in items})

TellsWorn(k, l, equip) ==
    \A e : e \in Range(l) <=>
       \/ e \in Range(k) /\ \A i \in DOMAIN equip : equip[i].slot # e.slot
       \/ \E i \in DOMAIN equip :
             e = equip[i] /\ \A j \in DOMAIN equip : equip[j].slot = equip[i].slot => j <= i

TellsMounts(a, b, unmount, mount) ==
    \A m : m \in Range(b) <=>
       \/ m \in mount
       \/ m \in Range(a) \ unmount /\ \A n \in mount : m.parent # n.parent \/ m.slot # n.slot

TellsWallets(p, q, wallets) ==
    /\ q = [w \in Wallets |-> q[w]]
    /\ \A w \in Wallets : w \notin wallets => q[w] = p[w]

\* Four fields, each by itself.
LEMMA TellsAll ==
    ASSUME NEW shown, NEW p, NEW q, NEW c, shown = Everything(p),
           TellsWallets(p.wallet, q.wallet, c.wallets),
           TellsItems(p.inventory, q.inventory, c.gone, c.items),
           TellsWorn(p.loadout, q.loadout, c.equip),
           TellsMounts(p.attachments, q.attachments, c.unmount, c.mount)
    PROVE  Told(shown, q, c) = Everything(q)
<1>1. /\ shown.wallet = p.wallet /\ shown.items = Range(p.inventory)
      /\ shown.loadout = Range(p.loadout) /\ shown.mounts = Range(p.attachments)
  BY DEF Everything
<1>2. PICK last : last = {i \in DOMAIN c.equip :
                   \A j \in DOMAIN c.equip : c.equip[j].slot = c.equip[i].slot => j <= i}
  OBVIOUS
<1>3. [w \in Wallets |-> IF w \in c.wallets THEN q.wallet[w] ELSE shown.wallet[w]] = q.wallet
  BY <1>1 DEF TellsWallets
<1>4. {r \in shown.items : r.id \notin c.gone \cup {x.id : x \in c.items}} \cup c.items
         = Range(q.inventory)
  BY <1>1 DEF TellsItems
<1>5. {e \in shown.loadout : \A i \in DOMAIN c.equip : c.equip[i].slot # e.slot}
         \cup {c.equip[i] : i \in last} = Range(q.loadout)
  BY <1>1, <1>2 DEF TellsWorn
<1>6. {m \in shown.mounts \ c.unmount :
         \A n \in c.mount : m.parent # n.parent \/ m.slot # n.slot} \cup c.mount
            = Range(q.attachments)
  BY <1>1 DEF TellsMounts
<1> QED
  BY <1>2, <1>3, <1>4, <1>5, <1>6 DEF Told, Everything

LEMMA SameItems ==
    ASSUME NEW u PROVE TellsItems(u, u, {}, {})
BY DEF TellsItems

LEMMA SameWorn ==
    ASSUME NEW l, NEW equip, equip = <<>> PROVE TellsWorn(l, l, equip)
<1>1. DOMAIN equip = {}
  OBVIOUS
<1> QED
  BY <1>1 DEF TellsWorn

LEMMA SameMounts ==
    ASSUME NEW a PROVE TellsMounts(a, a, {}, {})
BY DEF TellsMounts

LEMMA SameWallets ==
    ASSUME NEW p \in [Wallets -> Nat], NEW wallets PROVE TellsWallets(p, p, wallets)
BY DEF TellsWallets

LEMMA PaidWallets ==
    ASSUME NEW p \in [Wallets -> Nat], NEW wallet, NEW n PROVE
           TellsWallets(p, [p EXCEPT ![wallet] = n], {wallet})
BY DEF TellsWallets

\* A purchase.
LEMMA TellsAdded ==
    ASSUME NEW u \in Inventory, Unique(u), NEW item \in Item, NEW t \in Nat,
           NEW v, v = AddToInventory(u, item, t).inventory,
           NEW row, row = AddToInventory(u, item, t).row, row.id # 0
    PROVE  TellsItems(u, v, {}, {row})
<1>1. \A r : r \in Range(v) <=> r = row \/ (r \in Range(u) /\ r.id # row.id)
  BY AddTells
<1>2. {q.id : q \in {row}} = {row.id}
  OBVIOUS
<1> QED
  BY <1>1, <1>2 DEF TellsItems

\* What crafting and spending leave, and what crafting adds.
LEMMA TellsLeft ==
    ASSUME NEW u, Unique(u), NEW left, Unique(left), IDs(left) \subseteq IDs(u),
           NEW new, \A r \in new : r.id \notin IDs(left),
           NEW v, \A r : r \in Range(v) <=> r \in Range(left) \/ r \in new,
           NEW gone, gone = IDs(u) \ IDs(left),
           NEW items, items = new \cup (Range(left) \ Range(u))
    PROVE  TellsItems(u, v, gone, items)
<1>1. ASSUME NEW r \in Range(u), r.id \notin gone, \A q \in items : q.id # r.id
      PROVE  r \in Range(left)
  <2>1. r.id \in IDs(u)
    BY <1>1, IDsInRange
  <2>2. PICK q \in Range(left) : q.id = r.id
    BY <1>1, <2>1, IDsInRange
  <2>3. q \in Range(u)
    BY <1>1, <2>2
  <2> QED
    BY <1>1, <2>2, <2>3, SerialsDiffer
<1>2. ASSUME NEW r \in Range(left), r \in Range(u)
      PROVE  r.id \notin gone /\ \A q \in items : q.id # r.id
  <2>1. r.id \in IDs(left)
    BY <1>2, IDsInRange
  <2>2. ASSUME NEW q \in items, q.id = r.id PROVE FALSE
    <3>1. q \notin new
      BY <2>1, <2>2
    <3>2. q \in Range(left) /\ q \notin Range(u)
      BY <2>2, <3>1
    <3>3. q = r
      BY <1>2, <2>2, <3>2, SerialsDiffer
    <3> QED
      BY <1>2, <3>2, <3>3
  <2> QED
    BY <2>1, <2>2
<1>3. \A r : r \in items => r \in Range(v)
  OBVIOUS
<1>4. \A r \in Range(left) : r \notin Range(u) => r \in items
  OBVIOUS
<1> SUFFICES ASSUME NEW r
             PROVE  r \in Range(v) <=>
                       r \in items \/ (r \in Range(u) /\ r.id \notin gone \cup {q.id : q \in items})
  BY DEF TellsItems
<1>5. r.id \notin {q.id : q \in items} <=> \A q \in items : q.id # r.id
  OBVIOUS
<1>6. r \in Range(v) => r \in items \/ (r \in Range(u) /\ r.id \notin gone \cup {q.id : q \in items})
  <2> SUFFICES ASSUME r \in Range(v), r \notin items PROVE r \in Range(u) /\ r.id \notin gone \cup {q.id : q \in items}
    OBVIOUS
  <2>1. r \in Range(left)
    OBVIOUS
  <2>2. r \in Range(u)
    BY <1>4, <2>1
  <2> QED
    BY <1>2, <1>5, <2>1, <2>2
<1>7. r \in Range(u) /\ r.id \notin gone \cup {q.id : q \in items} => r \in Range(v)
  BY <1>1, <1>5
<1> QED
  BY <1>3, <1>6, <1>7

\* Equipping one item, or one after the other.
LEMMA TellsEquipped ==
    ASSUME NEW k \in Loadout, NEW slot \in Slots, NEW serial \in Serial,
           NEW l, l = Equipped(k, slot, serial),
           NEW equip, equip = <<[slot |-> slot, serial |-> serial]>>
    PROVE  TellsWorn(k, l, equip)
<1>1. PICK e : e = [slot |-> slot, serial |-> serial]
  OBVIOUS
<1>2. DOMAIN equip = {1} /\ equip[1] = e /\ e.slot = slot
  BY <1>1
<1>3. \A x : x \in Range(l) <=> x = e \/ (x \in Range(k) /\ x.slot # slot)
  BY <1>1, EquippedRange
<1> QED
  BY <1>2, <1>3 DEF TellsWorn

LEMMA TellsTwice ==
    ASSUME NEW k \in Loadout, NEW slot \in Slots, NEW serial \in Serial,
           NEW slot2 \in Slots, NEW serial2 \in Serial,
           NEW h \in Loadout, h = Equipped(k, slot, serial), NEW l, l = Equipped(h, slot2, serial2),
           NEW equip, equip = <<[slot |-> slot, serial |-> serial],
                                [slot |-> slot2, serial |-> serial2]>>
    PROVE  TellsWorn(k, l, equip)
<1>1. PICK e, f : e = [slot |-> slot, serial |-> serial] /\ f = [slot |-> slot2, serial |-> serial2]
  OBVIOUS
<1>2. /\ DOMAIN equip = {1, 2} /\ equip[1] = e /\ equip[2] = f
      /\ e.slot = slot /\ f.slot = slot2
  BY <1>1
<1>3. \A x : x \in Range(h) <=> x = e \/ (x \in Range(k) /\ x.slot # slot)
  BY <1>1, EquippedRange
<1>4. \A x : x \in Range(l) <=> x = f \/ (x \in Range(h) /\ x.slot # slot2)
  BY <1>1, EquippedRange
<1>5. \A x : (\E i \in DOMAIN equip :
                x = equip[i] /\ \A j \in DOMAIN equip : equip[j].slot = equip[i].slot => j <= i)
                  <=> x = f \/ (x = e /\ e.slot # slot2)
  BY <1>2
<1>6. \A x : (\A i \in DOMAIN equip : equip[i].slot # x.slot) <=> x.slot # slot /\ x.slot # slot2
  BY <1>2
<1> QED
  BY <1>2, <1>3, <1>4, <1>5, <1>6 DEF TellsWorn

-----------------------------------------------------------------------------
(***************************************************************************)
(* What each request leaves to tell is true of what it leaves to save.     *)
(***************************************************************************)
LEMMA PriceNone ==
    ASSUME NEW item \in Item
    PROVE  \/ StorePrice(item).wallet = "none" /\ StorePrice(item).price = 0
           \/ /\ StorePrice(item).wallet \in Wallets /\ StorePrice(item).wallet # "none"
              /\ StorePrice(item).price \in Nat \ {0}
<1>1. PICK def : def = Catalog[item]
  OBVIOUS
<1>2. def.salePrice \in Nat /\ def.pointPrice \in Nat /\ def.cashPrice \in Nat
  BY <1>1, AccountAssumption DEF GameItem
<1>3. PICK point : point = IF def.salePrice > 0 THEN def.salePrice ELSE def.pointPrice
  OBVIOUS
<1>4. point \in Nat
  BY <1>2, <1>3
<1>5. StorePrice(item) =
        CASE def.cashType # 1 /\ point > 0 -> [wallet |-> "point", price |-> point]
          [] def.cashPrice > 0 /\ (def.cashType = 1 \/ point = 0)
                                           -> [wallet |-> "cash", price |-> def.cashPrice]
          [] OTHER                         -> [wallet |-> "none", price |-> 0]
  BY <1>1, <1>3 DEF StorePrice
<1>6. \/ StorePrice(item) = [wallet |-> "point", price |-> point] /\ point > 0
      \/ StorePrice(item) = [wallet |-> "cash", price |-> def.cashPrice] /\ def.cashPrice > 0
      \/ StorePrice(item) = [wallet |-> "none", price |-> 0]
  BY <1>5
<1> QED
  BY <1>2, <1>4, <1>6 DEF Wallets

LEMMA AnswerAgrees ==
    ASSUME Agrees, Exists, NEW v, v.do \in Saves, NEW w, w.do = "answer",
           NEW calls, calls = <<v, w>>,
           \A p \in Outcomes(account, calls) : p = w.player,
           Told(Everything(account), w.player, w.change) = Everything(w.player)
    PROVE  WillAgree(calls)
<1>1. Shaped(calls) /\ Range(calls) = {v, w} /\ calls # <<>>
  BY TwoShaped
<1>2. view.shown = NoAccount \/ view.shown = Everything(account)
  BY DEF Agrees, Shows
<1>3. WillShow(w.player, w.change)
  BY <1>2 DEF WillShow
<1> QED
  BY <1>1, <1>3 DEF WillAgree, Saves

LEMMA ViewBegun ==
    ASSUME HangarInv, ViewInv, NEW s \in Session, s \in bound, NEW calls, Leaves(s, calls),
           Agrees /\ mishaps = 0 /\ Quiet => WillAgree(calls)
    PROVE  ViewInv'
<1>1. CASE ~ Follows(s)
  BY <1>1 DEF Leaves, ViewInv
<1>2. CASE Follows(s)
  <2>1. /\ view # Unknown /\ view.of = s /\ view' = view /\ bound' = bound /\ account' = account
        /\ todo[s] = <<>> /\ todo' = [todo EXCEPT ![s] = calls]
        /\ IF Quiet THEN mishaps' = mishaps ELSE Mishap
    BY <1>2 DEF Leaves, Follows
  <2>2. /\ mishaps = 0 /\ Alone(s) /\ WillAgree(todo[s])
        /\ view = [of |-> view.of, copy |-> view.copy, shown |-> view.shown]
    BY <2>1 DEF ViewInv
  <2>3. Quiet
    BY <2>1, <2>2 DEF Quiet, Alone
  <2>4. mishaps' = 0
    BY <2>1, <2>2, <2>3
  <2>5. Agrees
    BY <2>1, <2>2 DEF WillAgree
  <2>6. todo'[s] = calls /\ Alone(s)'
    BY <2>1, <2>2 DEF HangarInv, Alone
  <2>7. WillAgree(calls)
    BY <2>2, <2>3, <2>5
  <2>8. WillAgree(todo[s])'
    BY <2>1, <2>6, <2>7 DEF WillAgree, Agrees, Exists, WillShow
  <2> QED
    BY <2>1, <2>2, <2>4, <2>6, <2>8 DEF ViewInv
<1> QED
  BY <1>1, <1>2

\* What a purchase leaves.
Bargained(item, v, player, c) ==
    v = Bargain(item).commit /\ player = Bargain(item).player /\ c = Bargain(item).change

LEMMA BargainMade ==
    ASSUME HangarInv, Exists, NEW item \in Item, Bargain(item).row.id # 0,
           NEW v, NEW player, NEW c, Bargained(item, v, player, c)
    PROVE  /\ v.do = "commit" /\ IsRecord(player)
           /\ player.wallet = Wallet(account, v) /\ player.inventory = v.inventory
           /\ player.loadout = account.loadout /\ player.attachments = account.attachments
           /\ TellsWallets(account.wallet, player.wallet, c.wallets)
           /\ TellsItems(account.inventory, player.inventory, c.gone, c.items)
           /\ c.equip = <<>> /\ c.unmount = {} /\ c.mount = {}
<1>1. /\ account \in Player /\ account.wallet \in [Wallets -> Nat] /\ now \in Nat
      /\ account.inventory \in Inventory /\ Unique(account.inventory)
  BY Loaded DEF SoundPlayer
<1>2. PICK pay, added, row : /\ pay = StorePrice(item)
                             /\ added = AddToInventory(account.inventory, item, now).inventory
                             /\ row = AddToInventory(account.inventory, item, now).row
  OBVIOUS
<1>3. /\ v = Commit(added, pay.wallet, pay.price)
      /\ player = Debit([account EXCEPT !.inventory = added], pay.wallet, pay.price)
      /\ c = [NoChange EXCEPT !.wallets = {pay.wallet} \ {"none"}, !.items = {row}]
      /\ Bargain(item).row = row
  BY <1>2 DEF Bargain, Bargained
<1>4. v.do = "commit" /\ v.inventory = added /\ v.wallet = pay.wallet /\ v.price = pay.price
  BY <1>3 DEF Commit
<1>5. /\ c.wallets = {pay.wallet} \ {"none"} /\ c.items = {row} /\ c.gone = {}
      /\ c.equip = <<>> /\ c.unmount = {} /\ c.mount = {}
  BY <1>3 DEF NoChange
<1>6. PICK p : p = [account EXCEPT !.inventory = added]
  OBVIOUS
<1>7. /\ IsRecord(p) /\ p.wallet = account.wallet /\ p.inventory = added
      /\ p.loadout = account.loadout /\ p.attachments = account.attachments
  BY <1>1, <1>6 DEF Player, IsRecord
<1>8. TellsItems(account.inventory, added, c.gone, c.items)
  <2>1. row.id # 0
    BY <1>3
  <2>2. TellsItems(account.inventory, added, {}, {row})
    BY <1>1, <1>2, <2>1, TellsAdded
  <2> QED
    BY <1>5, <2>2
<1>9. CASE pay.wallet = "none" /\ pay.price = 0
  <2>1. player = p /\ Wallet(account, v) = account.wallet
    BY <1>3, <1>4, <1>6, <1>9 DEF Debit, Wallet
  <2> QED
    BY <1>1, <1>4, <1>5, <1>7, <1>8, <2>1, SameWallets
<1>10. CASE pay.wallet \in Wallets /\ pay.wallet # "none" /\ pay.price \in Nat \ {0}
  <2>1. PICK money : money = [account.wallet EXCEPT ![pay.wallet] = @ - pay.price]
    OBVIOUS
  <2>2. Wallet(account, v) = money
    BY <1>4, <1>10, <2>1 DEF Wallet
  <2>3. player = [p EXCEPT !.wallet[pay.wallet] = @ - pay.price]
    BY <1>3, <1>6, <1>10 DEF Debit
  <2>4. player = [p EXCEPT !.wallet = money]
    BY <1>7, <2>1, <2>3
  <2>5. /\ IsRecord(player) /\ player.wallet = money /\ player.inventory = added
        /\ player.loadout = account.loadout /\ player.attachments = account.attachments
    BY <1>7, <2>4 DEF IsRecord
  <2>6. PICK n : n = account.wallet[pay.wallet] - pay.price
    OBVIOUS
  <2>7. money = [account.wallet EXCEPT ![pay.wallet] = n]
    BY <2>1, <2>6
  <2>8. TellsWallets(account.wallet, money, {pay.wallet})
    BY <1>1, <2>7, PaidWallets
  <2>9. c.wallets = {pay.wallet}
    BY <1>5, <1>10
  <2> QED
    BY <1>4, <1>5, <1>8, <2>2, <2>5, <2>8, <2>9
<1> QED
  BY <1>2, <1>9, <1>10, PriceNone

LEMMA CommitTells ==
    ASSUME NEW v, v.do = "commit", NEW w, w.do \notin Saves, NEW calls, calls = <<v, w>>,
           NEW player, IsRecord(player),
           player.wallet = Wallet(account, v), player.inventory = v.inventory,
           player.loadout = account.loadout, player.attachments = account.attachments
    PROVE  \A p \in Outcomes(account, calls) : p = player
<1>1. v \in Range(calls) /\ \A x \in Range(calls) : x = v \/ x = w
  <2>1. DOMAIN calls = {1, 2} /\ calls[1] = v /\ calls[2] = w
    OBVIOUS
  <2> QED
    BY <2>1 DEF Range
<1>2. \A x \in Range(calls) : x.do \in Saves => x = v
  BY <1>1
<1>3. \A p \in Outcomes(account, calls) :
         /\ IsRecord(p) /\ p.wallet = Wallet(account, v) /\ p.inventory = v.inventory
         /\ p.loadout = account.loadout /\ p.attachments = account.attachments
  BY <1>1, <1>2, CommitSaved
<1> QED
  BY <1>3, SameRecord

LEMMA BuyAgrees ==
    ASSUME HangarInv, ViewInv, NEW s \in Session, NEW item \in Item, Buy(s, item) PROVE ViewInv'
<1>1. Exists /\ s \in bound
  BY ActsLoaded DEF Buy, Acts
<1>2. PICK v, player, c : /\ v = Bargain(item).commit /\ player = Bargain(item).player
                          /\ c = Bargain(item).change
  OBVIOUS
<1>3. Bargain(item).row.id # 0
  BY DEF Buy, MayBuy
<1>4. /\ v.do = "commit" /\ IsRecord(player)
      /\ player.wallet = Wallet(account, v) /\ player.inventory = v.inventory
      /\ player.loadout = account.loadout /\ player.attachments = account.attachments
      /\ TellsWallets(account.wallet, player.wallet, c.wallets)
      /\ TellsItems(account.inventory, player.inventory, c.gone, c.items)
      /\ c.equip = <<>> /\ c.unmount = {} /\ c.mount = {}
  <2>1. Bargained(item, v, player, c)
    BY <1>2 DEF Bargained
  <2> QED
    BY <1>1, <1>3, <2>1, BargainMade
<1>5. PICK w, calls : w = Answer(player, c) /\ calls = <<v, w>>
  OBVIOUS
<1>6. w.do = "answer" /\ w.player = player /\ w.change = c /\ w.do \notin Saves
  BY <1>5 DEF Answer, Saves
<1>7. \A p \in Outcomes(account, calls) : p = player
  BY <1>4, <1>5, <1>6, CommitTells
<1>8. /\ TellsWorn(account.loadout, player.loadout, c.equip)
      /\ TellsMounts(account.attachments, player.attachments, c.unmount, c.mount)
  BY <1>4, SameWorn, SameMounts
<1>9. Told(Everything(account), player, c) = Everything(player)
  BY <1>4, <1>8, TellsAll
<1>10. Agrees => WillAgree(calls)
  BY <1>1, <1>4, <1>5, <1>6, <1>7, <1>9, AnswerAgrees DEF Saves
<1>11. Leaves(s, calls)
  BY <1>2, <1>5 DEF Buy
<1> QED
  BY <1>1, <1>10, <1>11, ViewBegun

LEMMA CraftAgrees ==
    ASSUME HangarInv, ViewInv, NEW s \in Session, NEW recipe \in Recipes, Craft(s, recipe)
    PROVE  ViewInv'
<1>1. Exists /\ s \in bound
  BY ActsLoaded DEF Craft, Acts
<1>2. PICK u, left, serial : /\ u = account.inventory
                             /\ left = ConsumeMaterials(u, recipe.need)
                             /\ serial = NextSerial(left)
  OBVIOUS
<1>3. PICK output : output = NewItem(serial, recipe.output, now)
  OBVIOUS
<1>4. PICK made : made = Append(left, output)
  OBVIOUS
<1>5. HasMaterials(u, recipe.need) /\ serial # 0
  BY <1>2 DEF Craft
<1>6. recipe.output \in Item /\ recipe.price \in Nat /\ recipe.need \in [DOMAIN recipe.need -> Nat \ {0}]
  BY HangarAssumption
<1>7. /\ u \in Inventory /\ Unique(u) /\ left \in Inventory /\ Unique(left)
      /\ account \in Player /\ account.wallet \in [Wallets -> Nat]
  BY <1>1, <1>2, <1>5, <1>6, Loaded, ConsumeSound DEF SoundPlayer
<1>8. \A r \in Range(left) : r.value > 0 /\ r.id \in IDs(u)
  BY <1>2, <1>5, <1>6, <1>7, ConsumeLeaves
<1>9. serial \in Serial \ IDs(left)
  BY <1>2, <1>5, NextSerialFree
<1>10. output \in InventoryItem /\ output.id = serial
  BY <1>1, <1>3, <1>6, <1>9, Loaded, NewItemTyped
<1>11. Range(made) = Range(left) \cup {output}
  BY <1>4, <1>7, <1>10, AppendRange DEF Inventory
<1>12. PICK gone, items : /\ gone = IDs(u) \ IDs(left)
                          /\ items = {output} \cup (Range(left) \ Range(u))
  OBVIOUS
<1>13. TellsItems(u, made, gone, items)
  <2>1. IDs(left) \subseteq IDs(u)
    BY <1>8, IDsInRange
  <2>2. \A r \in {output} : r.id \notin IDs(left)
    BY <1>9, <1>10
  <2>3. \A r : r \in Range(made) <=> r \in Range(left) \/ r \in {output}
    BY <1>11
  <2> QED
    BY <1>7, <1>12, <2>1, <2>2, <2>3, TellsLeft
<1>14. PICK wallets, player, c :
          /\ wallets = IF recipe.price > 0 THEN {"point"} ELSE {}
          /\ player = Debit([account EXCEPT !.inventory = made], "point", recipe.price)
          /\ c = [NoChange EXCEPT !.wallets = wallets, !.gone = gone, !.items = items]
  OBVIOUS
<1>15. /\ c.wallets = wallets /\ c.gone = gone /\ c.items = items
       /\ c.equip = <<>> /\ c.unmount = {} /\ c.mount = {}
  BY <1>14 DEF NoChange
<1>16. PICK v : v = Commit(made, "point", recipe.price)
  OBVIOUS
<1>17. v.do = "commit" /\ v.inventory = made /\ v.wallet = "point" /\ v.price = recipe.price
  BY <1>16 DEF Commit
<1>18. PICK p : p = [account EXCEPT !.inventory = made]
  OBVIOUS
<1>19. /\ IsRecord(p) /\ p.wallet = account.wallet /\ p.inventory = made
       /\ p.loadout = account.loadout /\ p.attachments = account.attachments
  BY <1>7, <1>18 DEF Player, IsRecord
<1>20. PICK n, money : /\ n = account.wallet["point"] - recipe.price
                       /\ money = [account.wallet EXCEPT !["point"] = n]
  OBVIOUS
<1>21. player = [p EXCEPT !.wallet = money]
  <2>1. player = [p EXCEPT !.wallet["point"] = @ - recipe.price]
    BY <1>14, <1>18 DEF Debit
  <2> QED
    BY <1>19, <1>20, <2>1
<1>22. /\ IsRecord(player) /\ player.wallet = money /\ player.inventory = made
       /\ player.loadout = account.loadout /\ player.attachments = account.attachments
  BY <1>19, <1>21 DEF IsRecord
<1>23. recipe.price = 0 => money = account.wallet
  <2> SUFFICES ASSUME recipe.price = 0 PROVE money = account.wallet
    OBVIOUS
  <2>1. "point" \in Wallets /\ account.wallet["point"] \in Nat
    BY <1>7 DEF Wallets
  <2>2. n = account.wallet["point"]
    BY <1>20, <2>1
  <2> QED
    BY <1>7, <1>20, <2>2
<1>24. Wallet(account, v) = money
  <2>1. recipe.price # 0 => Wallet(account, v) = money
    BY <1>17, <1>20 DEF Wallet
  <2> QED
    BY <1>17, <1>23, <2>1 DEF Wallet
<1>25. TellsWallets(account.wallet, money, wallets)
  <2>1. CASE recipe.price = 0
    BY <1>7, <1>23, <2>1, SameWallets
  <2>2. CASE recipe.price # 0
    <3>1. wallets = {"point"}
      BY <1>6, <1>14, <2>2
    <3>2. TellsWallets(account.wallet, money, {"point"})
      BY <1>7, <1>20, PaidWallets
    <3> QED
      BY <3>1, <3>2
  <2> QED
    BY <2>1, <2>2
<1>26. PICK w, calls : w = Answer(player, c) /\ calls = <<v, w>>
  OBVIOUS
<1>27. w.do = "answer" /\ w.player = player /\ w.change = c /\ w.do \notin Saves
  BY <1>26 DEF Answer, Saves
<1>28. \A q \in Outcomes(account, calls) : q = player
  BY <1>17, <1>22, <1>24, <1>26, <1>27, CommitTells
<1>29. /\ TellsWorn(account.loadout, player.loadout, c.equip)
       /\ TellsMounts(account.attachments, player.attachments, c.unmount, c.mount)
  BY <1>15, <1>22, SameWorn, SameMounts
<1>30. Told(Everything(account), player, c) = Everything(player)
  BY <1>2, <1>13, <1>15, <1>22, <1>25, <1>29, TellsAll
<1>31. Agrees => WillAgree(calls)
  BY <1>1, <1>17, <1>26, <1>27, <1>28, <1>30, AnswerAgrees DEF Saves
<1>32. Leaves(s, calls)
  BY <1>2, <1>3, <1>4, <1>12, <1>14, <1>16, <1>26 DEF Craft
<1> QED
  BY <1>1, <1>31, <1>32, ViewBegun

LEMMA SpendAgrees ==
    ASSUME HangarInv, ViewInv, NEW s \in Session, NEW function, SpendConsumable(s, function)
    PROVE  ViewInv'
<1>1. Exists /\ s \in bound
  BY ActsLoaded DEF SpendConsumable, Acts
<1>2. PICK u, row, serial : /\ u = account.inventory
                            /\ row = FindConsumable(u, function)
                            /\ serial = row.id
  OBVIOUS
<1>3. PICK left : left = SpendUnit(u, serial)
  OBVIOUS
<1>4. /\ u \in Inventory /\ Unique(u) /\ account \in Player
      /\ account.wallet \in [Wallets -> Nat]
  BY <1>1, <1>2, Loaded DEF SoundPlayer
<1>5. serial \in IDs(u)
  BY <1>2, <1>4, ConsumableFound DEF SpendConsumable
<1>6. Unique(left)
  BY <1>3, <1>4, <1>5, SpendSound
<1>7. /\ \A r \in Range(u) : r.id # serial => r \in Range(left)
      /\ \A r \in Range(left) : r \in Range(u) \/ (r.id = serial /\ r.value > 0)
  BY <1>3, <1>4, <1>5, SpendLeaves
<1>8. PICK gone, items : gone = {serial} \ IDs(left) /\ items = Range(left) \ Range(u)
  OBVIOUS
<1>9. TellsItems(u, left, gone, items)
  <2>1. \A id : id \in IDs(left) => id \in IDs(u)
    BY <1>5, <1>7, IDsInRange
  <2>2. \A id : id \in IDs(u) /\ id # serial => id \in IDs(left)
    BY <1>7, IDsInRange
  <2>3. gone = IDs(u) \ IDs(left)
    BY <1>5, <1>8, <2>2
  <2>4. items = {} \cup (Range(left) \ Range(u))
    BY <1>8
  <2>5. /\ \A r \in {} : r.id \notin IDs(left)
        /\ \A r : r \in Range(left) <=> r \in Range(left) \/ r \in {}
        /\ IDs(left) \subseteq IDs(u)
    BY <2>1
  <2> QED
    BY <1>4, <1>6, <2>3, <2>4, <2>5, TellsLeft
<1>10. PICK player, c : /\ player = [account EXCEPT !.inventory = left]
                        /\ c = [NoChange EXCEPT !.gone = gone, !.items = items]
  OBVIOUS
<1>11. /\ c.gone = gone /\ c.items = items
       /\ c.wallets = {} /\ c.equip = <<>> /\ c.unmount = {} /\ c.mount = {}
  BY <1>10 DEF NoChange
<1>12. /\ IsRecord(player) /\ player.wallet = account.wallet /\ player.inventory = left
       /\ player.loadout = account.loadout /\ player.attachments = account.attachments
  BY <1>4, <1>10 DEF Player, IsRecord
<1>13. PICK v : v = Commit(left, "none", 0)
  OBVIOUS
<1>14. v.do = "commit" /\ v.inventory = left /\ Wallet(account, v) = account.wallet
  BY <1>13 DEF Commit, Wallet
<1>15. PICK w, calls : w = Answer(player, c) /\ calls = <<v, w>>
  OBVIOUS
<1>16. w.do = "answer" /\ w.player = player /\ w.change = c /\ w.do \notin Saves
  BY <1>15 DEF Answer, Saves
<1>17. \A q \in Outcomes(account, calls) : q = player
  BY <1>12, <1>14, <1>15, <1>16, CommitTells
<1>18. /\ TellsWallets(account.wallet, player.wallet, c.wallets)
       /\ TellsWorn(account.loadout, player.loadout, c.equip)
       /\ TellsMounts(account.attachments, player.attachments, c.unmount, c.mount)
  BY <1>4, <1>11, <1>12, SameWallets, SameWorn, SameMounts
<1>19. Told(Everything(account), player, c) = Everything(player)
  BY <1>2, <1>9, <1>11, <1>12, <1>18, TellsAll
<1>20. Agrees => WillAgree(calls)
  BY <1>1, <1>14, <1>15, <1>16, <1>17, <1>19, AnswerAgrees DEF Saves
<1>21. Leaves(s, calls)
  BY <1>2, <1>3, <1>8, <1>10, <1>13, <1>15 DEF SpendConsumable
<1> QED
  BY <1>1, <1>20, <1>21, ViewBegun

LEMMA PutOnAgrees ==
    ASSUME HangarInv, ViewInv, NEW s \in Session, NEW serials, NEW l, PutOn(s, serials, l),
           NEW equip, equip = [i \in DOMAIN serials |->
                                 [slot |-> SlotOf(account.inventory, serials[i]),
                                  serial |-> serials[i]]],
           TellsWorn(account.loadout, l, equip)
    PROVE  ViewInv'
<1>1. Exists /\ s \in bound
  BY ActsLoaded DEF PutOn, Acts
<1>2. account \in Player /\ account.wallet \in [Wallets -> Nat]
  BY <1>1, Loaded DEF SoundPlayer
<1>3. PICK player, c : /\ player = [account EXCEPT !.loadout = l]
                       /\ c = [NoChange EXCEPT !.equip = equip]
  OBVIOUS
<1>4. c.equip = equip /\ c.wallets = {} /\ c.gone = {} /\ c.items = {} /\ c.unmount = {} /\ c.mount = {}
  BY <1>3 DEF NoChange
<1>5. /\ IsRecord(player) /\ player.wallet = account.wallet /\ player.inventory = account.inventory
      /\ player.loadout = l /\ player.attachments = account.attachments
  BY <1>2, <1>3 DEF Player, IsRecord
<1>6. PICK v, w, calls : v = SaveLoadout(l) /\ w = Answer(player, c) /\ calls = <<v, w>>
  OBVIOUS
<1>7. /\ v.do = "saveLoadout" /\ v.loadout = l
      /\ w.do = "answer" /\ w.player = player /\ w.change = c
  BY <1>6 DEF SaveLoadout, Answer
<1>8. \A q \in Outcomes(account, calls) : q = player
  <2>1. DOMAIN calls = {1, 2} /\ calls[1] = v /\ calls[2] = w
    BY <1>6
  <2>2. v \in Range(calls) /\ \A x \in Range(calls) : x.do \in Saves => x = v
    BY <1>7, <2>1 DEF Range, Saves
  <2>3. \A q \in Outcomes(account, calls) :
           /\ IsRecord(q) /\ q.wallet = account.wallet /\ q.inventory = account.inventory
           /\ q.loadout = v.loadout /\ q.attachments = account.attachments
    BY <1>7, <2>2, LoadoutSaved
  <2> QED
    BY <1>5, <1>7, <2>3, SameRecord
<1>9. /\ TellsWallets(account.wallet, player.wallet, c.wallets)
      /\ TellsItems(account.inventory, player.inventory, c.gone, c.items)
      /\ TellsWorn(account.loadout, player.loadout, c.equip)
      /\ TellsMounts(account.attachments, player.attachments, c.unmount, c.mount)
  BY <1>2, <1>4, <1>5, SameWallets, SameItems, SameMounts
<1>10. Told(Everything(account), player, c) = Everything(player)
  BY <1>9, TellsAll
<1>11. Agrees => WillAgree(calls)
  BY <1>1, <1>6, <1>7, <1>8, <1>10, AnswerAgrees DEF Saves
<1>12. Leaves(s, calls)
  BY <1>3, <1>6 DEF PutOn
<1> QED
  BY <1>1, <1>11, <1>12, ViewBegun

LEMMA EquipAgrees ==
    ASSUME HangarInv, ViewInv, NEW s \in Session, NEW serial, Equip(s, serial) PROVE ViewInv'
<1>1. Exists
  BY ActsLoaded DEF Equip, PutOn
<1>2. PICK serials, l : serials = <<serial>> /\ l = Wear(account.loadout, serial)
  OBVIOUS
<1>3. PutOn(s, serials, l)
  BY <1>2 DEF Equip
<1>4. DOMAIN serials = {1} /\ serials[1] = serial
  BY <1>2
<1>5. serial \in IDs(account.inventory)
  BY <1>3, <1>4 DEF PutOn, Usable, Range
<1>6. PICK slot, equip : /\ slot = SlotOf(account.inventory, serial)
                         /\ equip = [i \in DOMAIN serials |->
                                       [slot |-> SlotOf(account.inventory, serials[i]),
                                        serial |-> serials[i]]]
  OBVIOUS
<1>7. equip = <<[slot |-> slot, serial |-> serial]>>
  BY <1>2, <1>4, <1>6
<1>8. serial \in Serial /\ slot \in Slots /\ account.loadout \in Loadout
  BY <1>1, <1>5, <1>6, Loaded, OwnedTyped
<1>9. l = Equipped(account.loadout, slot, serial)
  BY <1>2, <1>6 DEF Wear
<1>10. TellsWorn(account.loadout, l, equip)
  BY <1>7, <1>8, <1>9, TellsEquipped
<1> QED
  BY <1>3, <1>6, <1>10, PutOnAgrees

LEMMA ChangeWeaponsAgrees ==
    ASSUME HangarInv, ViewInv, NEW s \in Session, NEW first, NEW second,
           ChangeWeapons(s, first, second)
    PROVE  ViewInv'
<1>1. Exists
  BY ActsLoaded DEF ChangeWeapons, PutOn
<1>2. PICK serials, k : serials = <<first, second>> /\ k = Wear(account.loadout, first)
  OBVIOUS
<1>3. PICK l : l = Wear(k, second)
  OBVIOUS
<1>4. PutOn(s, serials, l)
  BY <1>2, <1>3 DEF ChangeWeapons
<1>5. DOMAIN serials = {1, 2} /\ serials[1] = first /\ serials[2] = second
  BY <1>2
<1>6. first \in IDs(account.inventory) /\ second \in IDs(account.inventory)
  BY <1>4, <1>5 DEF PutOn, Usable, Range
<1>7. PICK slot1, slot2, equip : /\ slot1 = SlotOf(account.inventory, first)
                                 /\ slot2 = SlotOf(account.inventory, second)
                                 /\ equip = [i \in DOMAIN serials |->
                                       [slot |-> SlotOf(account.inventory, serials[i]),
                                        serial |-> serials[i]]]
  OBVIOUS
<1>8. equip = <<[slot |-> slot1, serial |-> first], [slot |-> slot2, serial |-> second]>>
  BY <1>2, <1>5, <1>7
<1>9. /\ first \in Serial /\ slot1 \in Slots /\ second \in Serial /\ slot2 \in Slots
      /\ account.loadout \in Loadout /\ k \in Loadout
  BY <1>1, <1>2, <1>6, <1>7, Loaded, OwnedTyped, WearSound
<1>10. k = Equipped(account.loadout, slot1, first) /\ l = Equipped(k, slot2, second)
  BY <1>2, <1>3, <1>7 DEF Wear
<1>11. TellsWorn(account.loadout, l, equip)
  BY <1>8, <1>9, <1>10, TellsTwice
<1> QED
  BY <1>4, <1>7, <1>11, PutOnAgrees

\* Being told that nothing has changed.
LEMMA NothingTold ==
    ASSUME HangarInv, Exists
    PROVE  Told(Everything(account), account, NoChange) = Everything(account)
<1>1. account.wallet \in [Wallets -> Nat]
  BY Loaded
<1>2. PICK c : c = NoChange
  OBVIOUS
<1>3. /\ c.wallets = {} /\ c.gone = {} /\ c.items = {}
      /\ c.equip = <<>> /\ c.unmount = {} /\ c.mount = {}
  BY <1>2 DEF NoChange
<1>4. /\ TellsWallets(account.wallet, account.wallet, c.wallets)
      /\ TellsItems(account.inventory, account.inventory, c.gone, c.items)
      /\ TellsWorn(account.loadout, account.loadout, c.equip)
      /\ TellsMounts(account.attachments, account.attachments, c.unmount, c.mount)
  BY <1>1, <1>3, SameWallets, SameItems, SameWorn, SameMounts
<1> QED
  BY <1>2, <1>4, TellsAll

\* Mounting, told along with what has changed before it.
MountsToo(c, d) ==
    /\ c.mount = {} /\ c.unmount = {} /\ d.unmount = {}
    /\ d.wallets = c.wallets /\ d.items = c.items /\ d.gone = c.gone /\ d.equip = c.equip

OtherMounts(p, q) ==
    q.wallet = p.wallet /\ q.inventory = p.inventory /\ q.loadout = p.loadout

LEMMA ToldMounted ==
    ASSUME NEW shown, NEW p, NEW c, Told(shown, p, c) = Everything(p),
           NEW d, MountsToo(c, d), NEW q, OtherMounts(p, q),
           TellsMounts(p.attachments, q.attachments, d.unmount, d.mount)
    PROVE  Told(shown, q, d) = Everything(q)
<1>1. PICK x, y : x = Told(shown, p, c) /\ y = Told(shown, q, d)
  OBVIOUS
<1>2. y.wallet = x.wallet /\ y.items = x.items /\ y.loadout = x.loadout
  BY <1>1 DEF Told, MountsToo, OtherMounts
<1>3. x.mounts = shown.mounts
  BY <1>1 DEF Told, MountsToo
<1>4. /\ x.wallet = p.wallet /\ x.items = Range(p.inventory)
      /\ x.loadout = Range(p.loadout) /\ x.mounts = Range(p.attachments)
  BY <1>1 DEF Everything
<1>5. y.mounts = {m \in shown.mounts \ d.unmount :
                    \A n \in d.mount : m.parent # n.parent \/ m.slot # n.slot} \cup d.mount
  BY <1>1 DEF Told
<1>6. y.mounts = Range(q.attachments)
  BY <1>3, <1>4, <1>5 DEF TellsMounts
<1>7. y = [wallet |-> y.wallet, items |-> y.items, loadout |-> y.loadout, mounts |-> y.mounts]
  BY <1>1 DEF Told
<1> QED
  BY <1>1, <1>2, <1>4, <1>6, <1>7 DEF Everything, OtherMounts

LEMMA MountingSaved ==
    ASSUME HangarInv, Exists, NEW v, v.do = "saveAttachments", NEW w, w.do = "answer",
           NEW calls, calls = <<v, w>>,
           w.player = [account EXCEPT !.attachments = v.attachments],
           WillShow(w.player, w.change)
    PROVE  WillAgree(calls)
<1>1. Shaped(calls) /\ Range(calls) = {v, w} /\ calls # <<>>
  BY TwoShaped DEF Saves
<1>2. account \in Player
  BY Loaded DEF SoundPlayer
<1>3. PICK player : player = w.player
  OBVIOUS
<1>4. /\ IsRecord(player) /\ player.wallet = account.wallet /\ player.inventory = account.inventory
      /\ player.loadout = account.loadout /\ player.attachments = v.attachments
  BY <1>2, <1>3 DEF Player, IsRecord
<1>5. v \in Range(calls) /\ \A x \in Range(calls) : x.do \in Saves => x = v
  BY <1>1 DEF Saves
<1>6. \A p \in Outcomes(account, calls) :
         /\ IsRecord(p) /\ p.wallet = account.wallet /\ p.inventory = account.inventory
         /\ p.loadout = account.loadout /\ p.attachments = v.attachments
  BY <1>5, AttachmentsSaved
<1>7. \A p \in Outcomes(account, calls) : p = w.player
  BY <1>3, <1>4, <1>6, SameRecord
<1>8. ~ MayBeRefused(calls)
  BY <1>1 DEF MayBeRefused
<1> QED
  BY <1>1, <1>7, <1>8 DEF WillAgree

LEMMA ShowsMounted ==
    ASSUME NEW p, NEW c, WillShow(p, c), NEW d, MountsToo(c, d), NEW q, OtherMounts(p, q),
           TellsMounts(p.attachments, q.attachments, d.unmount, d.mount)
    PROVE  WillShow(q, d)
BY ToldMounted DEF WillShow

LEMMA AttachCallsAgree ==
    ASSUME HangarInv, Exists, NEW parent, NEW child, NEW change, OfPurchase(change),
           WillShow(account, change),
           NEW calls, calls = AttachCalls(parent, child, change), calls # <<>>
    PROVE  WillAgree(calls)
<1>1. PICK u, slot : u = account.inventory /\ slot = SlotOf(account.inventory, child)
  OBVIOUS
<1>2. PICK a, mounted : /\ a = Attached(account.attachments, parent, child, slot)
                        /\ mounted = [parent |-> parent, child |-> child, slot |-> slot]
  OBVIOUS
<1>3. PICK player, d : /\ player = [account EXCEPT !.attachments = a]
                       /\ d = [change EXCEPT !.mount = {mounted}]
  OBVIOUS
<1>4. PICK v, w : v = SaveAttachments(a) /\ w = Answer(player, d)
  OBVIOUS
<1>5. /\ Usable(child) /\ parent \in IDs(u) /\ calls = <<v, w>>
      /\ v.do = "saveAttachments" /\ v.attachments = a /\ w.do = "answer"
  BY <1>1, <1>2, <1>3, <1>4, AttachMade
<1>6. w.player = player /\ w.change = d
  BY <1>4 DEF Answer
<1>7. child \in IDs(u)
  BY <1>1, <1>5 DEF Usable
<1>8. /\ child \in Serial /\ parent \in Serial /\ slot \in Slots
      /\ account \in Player /\ account.attachments \in Attachments
  BY <1>1, <1>5, <1>7, Loaded, OwnedTyped DEF SoundPlayer
<1>9. \A m : m \in Range(a) <=>
         m = mounted \/ (m \in Range(account.attachments) /\ (m.parent # parent \/ m.slot # slot))
  BY <1>2, <1>8, AttachedRange
<1>10. MountsToo(change, d) /\ d.mount = {mounted} /\ d.unmount = {}
  <2>1. change = [NoChange EXCEPT !.wallets = change.wallets, !.items = change.items]
    BY DEF OfPurchase
  <2> QED
    BY <1>3, <2>1 DEF NoChange, MountsToo
<1>11. mounted.parent = parent /\ mounted.slot = slot
  BY <1>2
<1>12. TellsMounts(account.attachments, a, d.unmount, d.mount)
  BY <1>9, <1>10, <1>11 DEF TellsMounts
<1>13. OtherMounts(account, player) /\ player.attachments = a
  BY <1>3, <1>8 DEF Player, OtherMounts
<1>14. TellsMounts(account.attachments, player.attachments, d.unmount, d.mount)
  BY <1>12, <1>13
<1>15. WillShow(player, d)
  BY <1>10, <1>13, <1>14, ShowsMounted
<1>16. /\ w.player = [account EXCEPT !.attachments = v.attachments]
       /\ WillShow(w.player, w.change)
  BY <1>3, <1>5, <1>6, <1>15
<1> QED
  BY <1>5, <1>16, MountingSaved

LEMMA AttachAgrees ==
    ASSUME HangarInv, ViewInv, NEW s \in Session, NEW parent, NEW child, Attach(s, parent, child)
    PROVE  ViewInv'
<1>1. Exists /\ s \in bound
  BY ActsLoaded DEF Attach, Acts
<1>2. PICK calls, c : c = NoChange /\ calls = AttachCalls(parent, child, c)
  OBVIOUS
<1>3. Leaves(s, calls)
  BY <1>2 DEF Attach
<1>4. calls # <<>>
  BY <1>3 DEF Leaves
<1>5. OfPurchase(c)
  BY <1>2 DEF OfPurchase, NoChange
<1>6. Agrees => WillShow(account, c)
  BY <1>1, <1>2, NothingTold DEF Agrees, Shows, WillShow
<1>7. Agrees => WillAgree(calls)
  BY <1>1, <1>2, <1>4, <1>5, <1>6, AttachCallsAgree
<1> QED
  BY <1>1, <1>3, <1>7, ViewBegun

\* What is taken off is told by its slot; it was mounted in that one.
LEMMA DetachAgrees ==
    ASSUME HangarInv, OwnedInv, ViewInv, NEW s \in Session, NEW parent, NEW child,
           Detach(s, parent, child)
    PROVE  ViewInv'
<1>1. Exists /\ s \in bound
  BY ActsLoaded DEF Detach, Acts
<1>2. PICK u, slot : u = account.inventory /\ slot = SlotOf(account.inventory, child)
  OBVIOUS
<1>3. PICK a, mounted : /\ a = Detached(account.attachments, parent, child)
                        /\ mounted = [parent |-> parent, child |-> child, slot |-> slot]
  OBVIOUS
<1>4. PICK player, c : /\ player = [account EXCEPT !.attachments = a]
                       /\ c = [NoChange EXCEPT !.unmount = {mounted}]
  OBVIOUS
<1>5. PICK v, w, calls : v = SaveAttachments(a) /\ w = Answer(player, c) /\ calls = <<v, w>>
  OBVIOUS
<1>6. Leaves(s, calls)
  BY <1>2, <1>3, <1>4, <1>5 DEF Detach
<1>7. /\ v.do = "saveAttachments" /\ v.attachments = a
      /\ w.do = "answer" /\ w.player = player /\ w.change = c
  BY <1>5 DEF SaveAttachments, Answer
<1>8. /\ account \in Player /\ account.attachments \in Attachments /\ account.inventory \in Inventory
      /\ Unique(account.inventory) /\ account.wallet \in [Wallets -> Nat]
  BY <1>1, Loaded DEF SoundPlayer
<1>9. /\ player.wallet = account.wallet /\ player.inventory = account.inventory
      /\ player.loadout = account.loadout /\ player.attachments = a
  BY <1>4, <1>8 DEF Player
<1>10. /\ c.wallets = {} /\ c.gone = {} /\ c.items = {} /\ c.equip = <<>>
       /\ c.unmount = {mounted} /\ c.mount = {}
  BY <1>4 DEF NoChange
<1>11. Agrees /\ mishaps = 0 /\ Quiet => WillAgree(calls)
  <2> SUFFICES ASSUME Agrees, mishaps = 0, Quiet PROVE WillAgree(calls)
    OBVIOUS
  <2>1. \A m \in Range(account.attachments) : HoldsIn(u, m.child, m.slot)
    BY <1>1, <1>2 DEF OwnedInv, Owns
  <2>2. ASSUME NEW m \in Range(account.attachments), m.parent = parent, m.child = child
        PROVE  m = mounted
    <3>1. m \in AttachedItem
      BY <1>8, <2>2 DEF Attachments, Range
    <3>2. m = [parent |-> m.parent, child |-> m.child, slot |-> m.slot]
      BY <3>1 DEF AttachedItem
    <3>3. m.slot = slot
      BY <1>2, <1>8, <2>1, <2>2, HeldOwned
    <3> QED
      BY <1>3, <2>2, <3>2, <3>3
  <2>3. mounted.parent = parent /\ mounted.child = child
    BY <1>3
  <2>4. \A m : m \in Range(a) <=> m \in Range(account.attachments) /\ m # mounted
    BY <1>3, <1>8, <2>2, <2>3, DetachedRange
  <2>5. TellsMounts(account.attachments, a, {mounted}, {})
    BY <2>4 DEF TellsMounts
  <2>6. /\ TellsWallets(account.wallet, player.wallet, c.wallets)
        /\ TellsItems(account.inventory, player.inventory, c.gone, c.items)
        /\ TellsWorn(account.loadout, player.loadout, c.equip)
        /\ TellsMounts(account.attachments, player.attachments, c.unmount, c.mount)
    BY <1>8, <1>9, <1>10, <2>5, SameWallets, SameItems, SameWorn
  <2>7. Told(Everything(account), player, c) = Everything(player)
    BY <2>6, TellsAll
  <2>8. WillShow(w.player, w.change)
    BY <1>7, <2>7 DEF WillShow, Agrees, Shows
  <2>9. w.player = [account EXCEPT !.attachments = v.attachments]
    BY <1>4, <1>7
  <2> QED
    BY <1>1, <1>5, <1>7, <2>8, <2>9, MountingSaved
<1> QED
  BY <1>1, <1>6, <1>11, ViewBegun

LEMMA BuyCustomPartAgrees ==
    ASSUME HangarInv, ViewInv, NEW s \in Session, NEW weapon, NEW item \in Item,
           BuyCustomPart(s, weapon, item)
    PROVE  ViewInv'
<1>1. Exists /\ s \in bound
  BY ActsLoaded DEF BuyCustomPart, Acts
<1>2. PICK w, calls : w = BuyFor(weapon, item) /\ calls = <<w>>
  OBVIOUS
<1>3. w.do = "buyFor" /\ w.weapon = weapon /\ w.item = item /\ w.do \notin Saves
  BY <1>2 DEF BuyFor, Saves
<1>4. PICK u, r : u = account.inventory /\ r = RowWith(account.inventory, weapon)
  OBVIOUS
<1>5. weapon \in IDs(u) /\ <<r.item, item>> \in Fits
  BY <1>4 DEF BuyCustomPart
<1>6. r \in Range(u) /\ r.id = weapon
  BY <1>1, <1>4, <1>5, Loaded, RowOwned
<1>7. Shaped(calls) /\ Range(calls) = {w} /\ calls # <<>>
  BY <1>2, <1>3, OneShaped
<1>8. Agrees => WillAgree(calls)
  BY <1>1, <1>3, <1>4, <1>5, <1>6, <1>7 DEF WillAgree
<1>9. Leaves(s, calls)
  BY <1>2 DEF BuyCustomPart
<1> QED
  BY <1>1, <1>8, <1>9, ViewBegun

-----------------------------------------------------------------------------
(***************************************************************************)
(* Logging in, and the handlers of the session that is followed.           *)
(***************************************************************************)
LEMMA NothingWaits ==
    ASSUME NEW calls, calls = <<>>
    PROVE  Shaped(calls) /\ Range(calls) = {} /\ ~ MayBeRefused(calls) /\ WillBind(calls)
<1>1. DOMAIN calls = {}
  OBVIOUS
<1>2. Shaped(calls) /\ Range(calls) = {}
  BY <1>1 DEF Shaped, Range
<1> QED
  BY <1>2 DEF MayBeRefused, WillBind

LEMMA LoginAgrees ==
    ASSUME HangarInv, ViewInv, NEW s \in Session, Login(s) PROVE ViewInv'
<1>1. PICK calls : calls = IF account = NoAccount THEN <<Create(NewAccount(now))>> ELSE LoginCalls
  OBVIOUS
<1>2. s \notin bound /\ Leaves(s, calls)
  BY <1>1 DEF Login
<1>3. CASE ~ Follows(s)
  BY <1>2, <1>3 DEF Leaves, ViewInv
<1>4. CASE Follows(s)
  <2>1. /\ view # Unknown /\ view.of = s /\ view' = view /\ bound' = bound /\ account' = account
        /\ todo[s] = <<>> /\ todo' = [todo EXCEPT ![s] = calls]
        /\ IF Quiet THEN mishaps' = mishaps ELSE Mishap
    BY <1>2, <1>4 DEF Leaves, Follows
  <2>2. /\ mishaps = 0 /\ Alone(s) /\ view.shown = NoAccount
        /\ view = [of |-> view.of, copy |-> view.copy, shown |-> view.shown]
    BY <1>2, <2>1 DEF ViewInv
  <2>3. Quiet
    BY <2>1, <2>2 DEF Quiet, Alone
  <2>4. mishaps' = 0
    BY <2>1, <2>2, <2>3
  <2>5. todo'[s] = calls /\ Alone(s)'
    BY <2>1, <2>2 DEF HangarInv, Alone
  <2>6. WillBind(calls)
    <3>1. CASE account = NoAccount
      <4>1. PICK w : w = Create(NewAccount(now))
        OBVIOUS
      <4>2. w.do = "create"
        BY <4>1 DEF Create
      <4>3. calls = <<w>>
        BY <1>1, <3>1, <4>1
      <4>4. Shaped(calls) /\ Range(calls) = {w}
        BY <4>2, <4>3, OneShaped DEF Saves
      <4> QED
        BY <4>2, <4>4 DEF WillBind
    <3>2. CASE account # NoAccount
      <4>1. PICK player : player = WithHeroes(Purged(account, now))
        OBVIOUS
      <4>2. calls = LoginCalls /\ Exists
        BY <1>1, <3>2 DEF Exists
      <4>3. /\ Shaped(calls)
            /\ \A w \in Range(calls) :
                 /\ w.do \in {"commit", "saveLoadout", "saveAttachments", "bind"}
                 /\ w.do = "commit" => w.price = 0
                 /\ w.do = "bind" => w.player = player
            /\ \A p \in Outcomes(account, calls) : p = player
        BY <4>1, <4>2, LoginOutcome
      <4> QED
        BY <4>2, <4>3 DEF WillBind
    <3> QED
      BY <3>1, <3>2
  <2>7. WillBind(todo[s])'
    BY <2>1, <2>5, <2>6 DEF WillBind, Exists
  <2> QED
    BY <1>2, <2>1, <2>2, <2>4, <2>5, <2>7 DEF ViewInv
<1> QED
  BY <1>3, <1>4

LEMMA ItemLoginAgrees ==
    ASSUME HangarInv, ViewInv, NEW s \in Session, ItemLogin(s) PROVE ViewInv'
<1>1. /\ s \in bound /\ todo[s] = <<>> /\ view # Unknown /\ view.of = s
      /\ UNCHANGED <<account, now, bound, todo, mishaps>>
      /\ view' = [view EXCEPT !.shown = Everything(view.copy)]
  BY DEF ItemLogin, Follows
<1>2. /\ mishaps = 0 /\ Alone(s) /\ WillAgree(todo[s])
      /\ view = [of |-> view.of, copy |-> view.copy, shown |-> view.shown]
  BY <1>1 DEF ViewInv
<1>3. Agrees
  BY <1>1, <1>2 DEF WillAgree
<1>4. PICK shown : shown = Everything(view.copy)
  OBVIOUS
<1>5. view' = [of |-> view.of, copy |-> view.copy, shown |-> shown]
  BY <1>1, <1>2, <1>4
<1>6. view'.of = s /\ view'.copy = view.copy /\ view'.shown = shown
  BY <1>1, <1>5
<1>7. Agrees'
  BY <1>1, <1>3, <1>4, <1>6 DEF Agrees, Shows
<1>8. todo'[s] = <<>> /\ bound' = bound /\ mishaps' = mishaps
  BY <1>1
<1>9. WillAgree(todo[s])'
  BY <1>7, <1>8, NothingWaits DEF WillAgree
<1>10. Alone(s)'
  BY <1>1, <1>2 DEF Alone
<1> QED
  BY <1>1, <1>2, <1>5, <1>6, <1>8, <1>9, <1>10 DEF ViewInv

LEMMA DropAgrees ==
    ASSUME HangarInv, ViewInv, NEW s \in Session, Drop(s) PROVE ViewInv'
<1>1. /\ s \in bound /\ todo[s] = <<>> /\ bound' = bound \ {s}
      /\ account' = account /\ todo' = todo /\ mishaps' = mishaps
      /\ view' = IF Follows(s) THEN [view EXCEPT !.shown = NoAccount] ELSE view
  BY DEF Drop
<1>2. CASE Follows(s)
  <2>1. view # Unknown /\ view.of = s
    BY <1>2 DEF Follows
  <2>2. mishaps = 0 /\ Alone(s) /\ view = [of |-> view.of, copy |-> view.copy, shown |-> view.shown]
    BY <1>1, <2>1 DEF ViewInv
  <2>3. view' = [of |-> view.of, copy |-> view.copy, shown |-> NoAccount]
    BY <1>1, <1>2, <2>2
  <2>4. view'.of = s /\ view'.copy = view.copy /\ view'.shown = NoAccount
    BY <2>1, <2>3
  <2>5. todo'[s] = <<>> /\ s \notin bound'
    BY <1>1
  <2>6. WillBind(todo[s])'
    BY <2>5, NothingWaits DEF WillBind, Shaped, Range
  <2>7. Alone(s)'
    BY <1>1, <2>2 DEF Alone
  <2> QED
    BY <1>1, <2>1, <2>2, <2>3, <2>4, <2>5, <2>6, <2>7 DEF ViewInv
<1>3. CASE ~ Follows(s)
  <2>1. view = Unknown \/ view.of # s
    BY <1>3 DEF Follows
  <2>2. view' = view /\ (view # Unknown => (view.of \in bound <=> view.of \in bound'))
    BY <1>1, <1>3, <2>1
  <2> SUFFICES ASSUME view # Unknown PROVE ViewInv'
    BY <2>2 DEF ViewInv
  <2>3. PICK x, calls : x = view.of /\ calls = todo[view.of]
    OBVIOUS
  <2>4. todo'[x] = calls /\ view'.of = x
    BY <1>1, <2>2, <2>3
  <2>5. WillAgree(calls) => WillAgree(calls)'
    BY <1>1, <2>2 DEF WillAgree, Agrees, Exists, WillShow
  <2>6. WillBind(calls) => WillBind(calls)'
    BY <1>1, <2>2 DEF WillBind, Exists
  <2>7. Alone(x) => Alone(x)'
    BY <1>1 DEF Alone
  <2> QED
    BY <1>1, <2>2, <2>3, <2>4, <2>5, <2>6, <2>7 DEF ViewInv
<1> QED
  BY <1>2, <1>3

\* A handler has made a call; only that of the session that is followed is at work.
LEMMA ViewContinued ==
    ASSUME HangarInv, ViewInv, NEW s \in Session, todo[s] # <<>>, NEW calls, Continue(s, calls),
           bound' = bound, view' = view,
           view # Unknown /\ s \in bound /\ WillAgree(todo[s]) => WillAgree(calls)',
           WillBind(todo[s]) => WillBind(calls)'
    PROVE  ViewInv'
<1> SUFFICES ASSUME view # Unknown PROVE ViewInv'
  BY DEF ViewInv
<1>1. Alone(view.of) /\ view.of \in Session
  BY DEF ViewInv
<1>2. view.of = s
  BY <1>1 DEF Alone
<1>3. todo' = [todo EXCEPT ![s] = calls] /\ mishaps' = mishaps
  BY DEF Continue
<1>4. todo'[s] = calls /\ Alone(s)'
  BY <1>1, <1>2, <1>3 DEF HangarInv, Alone
<1> QED
  BY <1>1, <1>2, <1>3, <1>4 DEF ViewInv

LEMMA ViewGoesOn ==
    ASSUME HangarInv, ViewInv, NEW s \in Session, todo[s] # <<>>, Exists,
           NEW t, t = Tail(todo[s]), Continue(s, t), bound' = bound, view' = view,
           account' \in SoundPlayer, Head(todo[s]).do \in Saves,
           Saved(account, Head(todo[s]), account')
    PROVE  ViewInv'
<1>1. PICK calls : calls = todo[s]
  OBVIOUS
<1>2. calls \in Seq(Range(calls)) /\ calls # <<>> /\ t = Tail(calls)
  BY <1>1, CallsOf
<1>3. Exists'
  BY SoundExists DEF Exists
<1>4. PICK p, q : p = account /\ q = account'
  OBVIOUS
<1>5. ASSUME Shaped(calls)
      PROVE  /\ Shaped(t) /\ t # <<>> /\ ~ MayBeRefused(t)
             /\ \A v \in Range(t) :
                   v \in Range(calls) /\ v.do \notin {"create", "findAgain", "commit", "buyFor"}
             /\ \A x \in Outcomes(q, t) : x \in Outcomes(p, calls)
  <2>1. Shaped(t)
    BY <1>2, <1>5, RestShaped
  <2>2. \A v \in Range(t) :
           v \in Range(calls) /\ v.do \notin {"create", "findAgain", "commit", "buyFor"}
    BY <1>2, <1>5, RestOf
  <2>3. \A x \in Outcomes(q, t) : x \in Outcomes(p, calls)
    BY <1>1, <1>2, <1>4, <1>5, SavedRest
  <2>4. t # <<>>
    <3>1. calls[1].do \in Saves /\ Len(t) = Len(calls) - 1
      BY <1>1, <1>2, <1>5, RestOf
    <3>2. 1 \in DOMAIN calls /\ Len(calls) \in Nat
      BY <1>2
    <3>3. 1 # Len(calls)
      BY <1>5, <3>1, <3>2 DEF Shaped
    <3>4. Len(t) # 0
      BY <3>1, <3>2, <3>3
    <3> QED
      BY <3>4
  <2>5. ~ MayBeRefused(t)
    BY <2>2 DEF MayBeRefused
  <2> QED
    BY <2>1, <2>2, <2>3, <2>4, <2>5
<1>6. WillAgree(calls) => WillAgree(t)'
  <2> SUFFICES ASSUME WillAgree(calls) PROVE WillAgree(t)'
    OBVIOUS
  <2>1. Shaped(calls)
    BY DEF WillAgree
  <2>2. ASSUME NEW v \in Range(t)
        PROVE  /\ v.do \notin {"create", "findAgain", "bind", "bindAsFound", "buyFor"}
               /\ v.do = "answer" =>
                    \A x \in Outcomes(q, t) : x = v.player /\ WillShow(x, v.change)
               /\ v.do = "mountBought" =>
                    /\ OfPurchase(v.change)
                    /\ \A x \in Outcomes(q, t) :
                          WillShow(x, v.change) /\ MayMount(x, v.weapon, v.serial)
    BY <1>4, <1>5, <2>1, <2>2 DEF WillAgree
  <2>3. \A x, change : WillShow(x, change) => WillShow(x, change)'
    BY DEF WillShow
  <2> QED
    BY <1>3, <1>4, <1>5, <2>1, <2>2, <2>3 DEF WillAgree
<1>7. WillBind(calls) => WillBind(t)'
  <2> SUFFICES ASSUME WillBind(calls) PROVE WillBind(t)'
    OBVIOUS
  <2>1. Shaped(calls)
    BY DEF WillBind
  <2>2. ASSUME NEW v \in Range(t)
        PROVE  /\ v.do \notin {"buyFor", "mountBought", "answer", "commit", "findAgain"}
               /\ v.do \in {"bind", "bindAsFound"} => \A x \in Outcomes(q, t) : x = v.player
    BY <1>4, <1>5, <2>1, <2>2 DEF WillBind
  <2> QED
    BY <1>3, <1>4, <1>5, <2>1, <2>2 DEF WillBind
<1> QED
  BY <1>1, <1>6, <1>7, ViewContinued

\* When nothing else is saved, the account is what it will be.
LEMMA LastOutcome ==
    ASSUME HangarInv, Exists, NEW s \in Session, todo[s] # <<>>, Shaped(todo[s]),
           Head(todo[s]).do \notin Saves
    PROVE  /\ Head(todo[s]) \in Range(todo[s]) /\ Tail(todo[s]) = <<>>
           /\ account \in Outcomes(account, todo[s])
<1>1. PICK calls : calls = todo[s]
  OBVIOUS
<1>2. calls \in Seq(Range(calls)) /\ calls # <<>> /\ Shaped(calls) /\ Head(calls).do \notin Saves
  BY <1>1, CallsOf
<1>3. Range(calls) = {Head(calls)} /\ Tail(calls) = <<>>
  BY <1>2, LastCall
<1>4. \A q : q \in Outcomes(account, calls) <=> q = account
  BY <1>2, <1>3, AccountRecord, NothingSaved
<1> QED
  BY <1>1, <1>3, <1>4

LEMMA HeadWaits ==
    ASSUME HangarInv, NEW s \in Session, todo[s] # <<>>
    PROVE  Head(todo[s]) \in Range(todo[s])
<1>1. PICK calls : calls = todo[s]
  OBVIOUS
<1>2. calls \in Seq(Range(calls)) /\ calls # <<>>
  BY <1>1, CallsOf
<1>3. 1 \in DOMAIN calls /\ Head(calls) = calls[1]
  BY <1>2
<1> QED
  BY <1>1, <1>3 DEF Range

LEMMA CommittingAgrees ==
    ASSUME HangarInv, ViewInv, NEW s \in Session, Committing(s) PROVE ViewInv'
<1>1. NextCall(s, "commit") /\ todo[s] # <<>> /\ bound' = bound /\ view' = view
  BY DEF Committing, NextCall
<1>2. PICK w, t : w = Head(todo[s]) /\ t = Tail(todo[s])
  OBVIOUS
<1>3. w.do = "commit" /\ Exists
  BY <1>1, <1>2, HeadSound DEF NeedsAccount
<1>4. CASE w.price = 0 \/ account.wallet[w.wallet] >= w.price
  <2>1. Continue(s, t) /\ account' = Committed(w)
    BY <1>2, <1>4 DEF Committing
  <2>2. Saved(account, w, account')
    BY <1>3, <2>1, CommittedSaves
  <2>3. account' \in SoundPlayer
    BY <1>1, <1>2, <1>3, <1>4, <2>1, HeadSound, CommittedSound
  <2> QED
    BY <1>1, <1>2, <1>3, <2>1, <2>2, <2>3, ViewGoesOn DEF Saves
<1>5. CASE ~ (w.price = 0 \/ account.wallet[w.wallet] >= w.price)
  <2>1. PICK calls : calls = <<>>
    OBVIOUS
  <2>2. Continue(s, calls) /\ account' = account
    BY <1>2, <1>5, <2>1 DEF Committing
  <2>3. w \in Range(todo[s]) /\ w.price # 0
    BY <1>1, <1>2, <1>5, HeadWaits
  <2>4. ~ WillBind(todo[s])
    BY <1>3, <2>3 DEF WillBind
  <2>5. MayBeRefused(todo[s])
    BY <1>3, <2>3 DEF MayBeRefused
  <2>6. WillAgree(todo[s]) => Agrees'
    BY <1>1, <2>2, <2>5 DEF WillAgree, Agrees
  <2>7. Agrees' => WillAgree(calls)'
    BY <2>1, NothingWaits DEF WillAgree
  <2> QED
    BY <1>1, <2>2, <2>4, <2>6, <2>7, ViewContinued
<1> QED
  BY <1>4, <1>5

LEMMA SavingLoadoutAgrees ==
    ASSUME HangarInv, ViewInv, NEW s \in Session, SavingLoadout(s) PROVE ViewInv'
<1>1. NextCall(s, "saveLoadout") /\ todo[s] # <<>> /\ bound' = bound /\ view' = view
  BY DEF SavingLoadout, NextCall
<1>2. PICK w, t : w = Head(todo[s]) /\ t = Tail(todo[s])
  OBVIOUS
<1>3. w.do = "saveLoadout" /\ SoundCall(w) /\ Exists
  BY <1>1, <1>2, HeadSound DEF NeedsAccount
<1>4. Continue(s, t) /\ account' = [account EXCEPT !.loadout = w.loadout]
  BY <1>2 DEF SavingLoadout
<1>5. Saved(account, w, account')
  BY <1>3, <1>4, LoadoutSaves
<1>6. account' \in SoundPlayer
  BY <1>3, <1>4, Loaded, AccountWith DEF SoundCall
<1> QED
  BY <1>1, <1>2, <1>3, <1>4, <1>5, <1>6, ViewGoesOn DEF Saves

LEMMA SavingAttachmentsAgrees ==
    ASSUME HangarInv, ViewInv, NEW s \in Session, SavingAttachments(s) PROVE ViewInv'
<1>1. NextCall(s, "saveAttachments") /\ todo[s] # <<>> /\ bound' = bound /\ view' = view
  BY DEF SavingAttachments, NextCall
<1>2. PICK w, t : w = Head(todo[s]) /\ t = Tail(todo[s])
  OBVIOUS
<1>3. w.do = "saveAttachments" /\ SoundCall(w) /\ Exists
  BY <1>1, <1>2, HeadSound DEF NeedsAccount
<1>4. Continue(s, t) /\ account' = [account EXCEPT !.attachments = w.attachments]
  BY <1>2 DEF SavingAttachments
<1>5. Saved(account, w, account')
  BY <1>3, <1>4, AttachmentsSave
<1>6. account' \in SoundPlayer
  BY <1>3, <1>4, Loaded, AccountWith DEF SoundCall
<1> QED
  BY <1>1, <1>2, <1>3, <1>4, <1>5, <1>6, ViewGoesOn DEF Saves

LEMMA CreatingAgrees ==
    ASSUME HangarInv, ViewInv, NEW s \in Session, Creating(s) PROVE ViewInv'
<1>1. NextCall(s, "create") /\ todo[s] # <<>> /\ bound' = bound /\ view' = view
  BY DEF Creating, NextCall
<1>2. PICK v, p : v = Head(todo[s]) /\ p = v.player
  OBVIOUS
<1>3. v.do = "create" /\ p \in SoundPlayer /\ v \in Range(todo[s])
  BY <1>1, <1>2, HeadSound, HeadWaits DEF SoundCall
<1>4. PICK w : w = IF account = NoAccount THEN Bind(p) ELSE FindAgain
  OBVIOUS
<1>5. w.do \in {"bind", "findAgain"} /\ (w.do = "bind" => account = NoAccount /\ w.player = p)
  BY <1>4 DEF Bind, FindAgain
<1>6. PICK calls : calls = <<w>>
  OBVIOUS
<1>7. Continue(s, calls) /\ account' = IF account = NoAccount THEN p ELSE account
  BY <1>2, <1>4, <1>6 DEF Creating
<1>8. ~ WillAgree(todo[s])
  BY <1>3 DEF WillAgree
<1>9. Exists'
  BY <1>3, <1>7, SoundExists DEF Exists
<1>10. WillBind(calls)'
  <2>1. Shaped(calls) /\ Range(calls) = {w}
    BY <1>5, <1>6, OneShaped DEF Saves
  <2>2. PICK q : q = account'
    OBVIOUS
  <2>3. w.do = "bind" => q = p /\ \A x \in Outcomes(q, calls) : x = q
    <3> SUFFICES ASSUME w.do = "bind" PROVE q = p /\ \A x \in Outcomes(q, calls) : x = q
      OBVIOUS
    <3>1. q = p
      BY <1>5, <1>7, <2>2
    <3> QED
      BY <1>3, <2>1, <3>1, PlayerRecord, NothingSaved DEF Saves
  <2> QED
    BY <1>5, <1>9, <2>1, <2>2, <2>3 DEF WillBind
<1> QED
  BY <1>1, <1>7, <1>8, <1>10, ViewContinued

LEMMA FindingAgainAgrees ==
    ASSUME HangarInv, ViewInv, NEW s \in Session, FindingAgain(s) PROVE ViewInv'
<1>1. NextCall(s, "findAgain") /\ todo[s] # <<>> /\ bound' = bound /\ view' = view
  BY DEF FindingAgain, NextCall
<1>2. PICK w, calls : w = BindAsFound(account) /\ calls = <<w>>
  OBVIOUS
<1>3. w.do = "bindAsFound" /\ w.player = account /\ w.do \notin Saves
  BY <1>2 DEF BindAsFound, Saves
<1>4. Continue(s, calls) /\ account' = account
  BY <1>2 DEF FindingAgain
<1>5. PICK v : v = Head(todo[s])
  OBVIOUS
<1>6. v.do = "findAgain" /\ v \in Range(todo[s])
  BY <1>1, <1>5, HeadSound, HeadWaits
<1>7. ~ WillAgree(todo[s])
  BY <1>6 DEF WillAgree
<1>8. WillBind(todo[s]) => WillBind(calls)'
  <2> SUFFICES ASSUME WillBind(todo[s]) PROVE WillBind(calls)'
    OBVIOUS
  <2>1. Shaped(calls) /\ Range(calls) = {w}
    BY <1>2, <1>3, OneShaped
  <2>2. Exists
    BY <1>6 DEF WillBind
  <2>3. \A x \in Outcomes(account, calls) : x = account
    BY <1>3, <2>1, <2>2, AccountRecord, NothingSaved
  <2> QED
    BY <1>3, <1>4, <2>1, <2>2, <2>3 DEF WillBind, Exists
<1> QED
  BY <1>1, <1>4, <1>7, <1>8, ViewContinued

\* The session's copy becomes the account.
LEMMA BindingAgrees ==
    ASSUME HangarInv, ViewInv, NEW s \in Session, Binding(s) PROVE ViewInv'
<1>1. PICK w, t : w = Head(todo[s]) /\ t = Tail(todo[s])
  OBVIOUS
<1>2. /\ todo[s] # <<>> /\ w.do \in {"bind", "bindAsFound"} /\ Continue(s, t)
      /\ account' = account /\ bound' = bound \cup {s}
      /\ view' = IF Follows(s) THEN [view EXCEPT !.copy = w.player] ELSE view
  BY <1>1 DEF Binding, NextCall
<1> SUFFICES ASSUME view # Unknown PROVE ViewInv'
  BY <1>2 DEF ViewInv, Follows
<1>3. view.of = s /\ Follows(s)
  BY <1>2 DEF ViewInv, Alone, Follows
<1>4. w \in Range(todo[s])
  BY <1>1, <1>2, HeadWaits
<1>5. s \notin bound
  BY <1>2, <1>3, <1>4 DEF ViewInv, WillAgree
<1>6. /\ mishaps = 0 /\ Alone(s) /\ view.shown = NoAccount /\ WillBind(todo[s])
      /\ view = [of |-> view.of, copy |-> view.copy, shown |-> view.shown]
  BY <1>3, <1>5 DEF ViewInv
<1>7. Exists /\ Shaped(todo[s])
  BY <1>2, <1>4, <1>6 DEF WillBind
<1>8. account \in Outcomes(account, todo[s]) /\ t = <<>>
  <2>1. w.do \notin Saves
    BY <1>2 DEF Saves
  <2> QED
    BY <1>1, <1>2, <1>7, <2>1, LastOutcome
<1>9. w.player = account
  BY <1>2, <1>4, <1>6, <1>8 DEF WillBind
<1>10. view' = [of |-> s, copy |-> account, shown |-> NoAccount]
  BY <1>2, <1>3, <1>6, <1>9
<1>11. todo' = [todo EXCEPT ![s] = t] /\ mishaps' = mishaps
  BY <1>2 DEF Continue
<1>12. todo'[s] = t /\ Alone(s)'
  BY <1>6, <1>11 DEF HangarInv, Alone
<1>13. Agrees'
  BY <1>2, <1>10 DEF Agrees, Shows
<1>14. WillAgree(t)'
  BY <1>8, <1>13, NothingWaits DEF WillAgree
<1>15. view'.of = s /\ view'.copy = account /\ view'.shown = NoAccount /\ s \in bound'
  BY <1>2, <1>10
<1> QED
  BY <1>6, <1>10, <1>11, <1>12, <1>14, <1>15 DEF ViewInv

\* The part that a weapon fits is bought, if it still may be.
LEMMA BuyingForAgrees ==
    ASSUME PartsLast, HangarInv, ViewInv, NEW s \in Session, BuyingFor(s) PROVE ViewInv'
<1>1. NextCall(s, "buyFor") /\ todo[s] # <<>> /\ bound' = bound /\ view' = view
  BY DEF BuyingFor, NextCall
<1>2. PICK w, item : w = Head(todo[s]) /\ item = w.item
  OBVIOUS
<1>3. w.do = "buyFor" /\ item \in Item /\ Exists /\ w \in Range(todo[s])
  <2>1. w.do = "buyFor" /\ SoundCall(w) /\ (NeedsAccount(w) => Exists)
    BY <1>1, <1>2, HeadSound
  <2>2. item \in Item /\ Exists
    BY <1>2, <2>1 DEF NeedsAccount, SoundCall
  <2>3. w \in Range(todo[s])
    BY <1>1, <1>2, HeadWaits
  <2> QED
    BY <2>1, <2>2, <2>3
<1>4. PICK v, player, c, row : /\ v = Bargain(item).commit /\ player = Bargain(item).player
                               /\ c = Bargain(item).change /\ row = Bargain(item).row
  OBVIOUS
<1>5. PICK m : m = MountBought(w.weapon, row.id, c)
  OBVIOUS
<1>6. /\ m.do = "mountBought" /\ m.do \notin Saves
      /\ m.weapon = w.weapon /\ m.serial = row.id /\ m.change = c
  BY <1>5 DEF MountBought, Saves
<1>7. PICK calls : calls = IF MayBuy(item) THEN <<v, m>> ELSE <<>>
  OBVIOUS
<1>8. Continue(s, calls) /\ account' = account
  BY <1>2, <1>4, <1>5, <1>7 DEF BuyingFor
<1>9. ~ WillBind(todo[s])
  BY <1>3 DEF WillBind
<1>10. WillAgree(todo[s]) => Agrees /\ \E r \in Range(account.inventory) :
                                 r.id = w.weapon /\ <<r.item, item>> \in Fits
  BY <1>2, <1>3 DEF WillAgree, MayBeRefused
<1>11. WillAgree(todo[s]) => WillAgree(calls)
  <2> SUFFICES ASSUME WillAgree(todo[s]) PROVE WillAgree(calls)
    OBVIOUS
  <2>1. Agrees
    BY <1>10
  <2>2. CASE ~ MayBuy(item)
    BY <1>7, <2>1, <2>2, NothingWaits DEF WillAgree
  <2>3. CASE MayBuy(item)
    <3>1. calls = <<v, m>> /\ row.id # 0
      BY <1>4, <1>7, <2>3 DEF MayBuy
    <3>2. /\ v.do = "commit" /\ IsRecord(player)
          /\ player.wallet = Wallet(account, v) /\ player.inventory = v.inventory
          /\ player.loadout = account.loadout /\ player.attachments = account.attachments
          /\ TellsWallets(account.wallet, player.wallet, c.wallets)
          /\ TellsItems(account.inventory, player.inventory, c.gone, c.items)
          /\ c.equip = <<>> /\ c.unmount = {} /\ c.mount = {}
      <4>1. Bargained(item, v, player, c)
        BY <1>4 DEF Bargained
      <4>2. Bargain(item).row.id # 0
        BY <1>4, <3>1
      <4> QED
        BY <1>3, <4>1, <4>2, BargainMade
    <3>3. \A p \in Outcomes(account, calls) : p = player
      BY <1>6, <3>1, <3>2, CommitTells
    <3>4. /\ TellsWorn(account.loadout, player.loadout, c.equip)
          /\ TellsMounts(account.attachments, player.attachments, c.unmount, c.mount)
      BY <3>2, SameWorn, SameMounts
    <3>5. Told(Everything(account), player, c) = Everything(player)
      BY <3>2, <3>4, TellsAll
    <3>6. WillShow(player, c)
      BY <2>1, <3>5 DEF WillShow, Agrees, Shows
    <3>7. OfPurchase(c)
      BY <1>4 DEF OfPurchase, Bargain, NoChange
    <3>8. MayMount(player, w.weapon, row.id)
      <4>1. PICK u : u = account.inventory
        OBVIOUS
      <4>2. u \in Inventory /\ Unique(u) /\ now \in Nat
        BY <1>3, <4>1, Loaded
      <4>3. /\ v.inventory = AddToInventory(u, item, now).inventory
            /\ row = AddToInventory(u, item, now).row
        BY <1>4, <4>1 DEF Bargain, Commit
      <4>4. /\ \A x : x \in Range(player.inventory) <=> x = row \/ (x \in Range(u) /\ x.id # row.id)
            /\ row \in InventoryItem /\ row.item = item
            /\ \A x \in Range(u) : x.id = row.id => x.item = item
        BY <1>3, <3>1, <3>2, <4>2, <4>3, AddTells
      <4>5. PICK r \in Range(u) : r.id = w.weapon /\ <<r.item, item>> \in Fits
        BY <1>10, <4>1
      <4>6. Catalog[item].useTime = 0
        BY <4>5 DEF PartsLast
      <4>7. row.expires = 0
        BY <4>4, <4>6 DEF InventoryItem
      <4>8. \E x \in Range(player.inventory) : x.id = w.weapon /\ x.item = r.item
        BY <4>4, <4>5
      <4> QED
        BY <4>4, <4>5, <4>7, <4>8 DEF MayMount
    <3>9. Shaped(calls) /\ Range(calls) = {v, m} /\ calls # <<>>
      BY <1>6, <3>1, <3>2, TwoShaped DEF Saves
    <3> QED
      BY <1>3, <1>6, <2>1, <3>2, <3>3, <3>6, <3>7, <3>8, <3>9 DEF WillAgree
  <2> QED
    BY <2>2, <2>3
<1>12. WillAgree(calls) => WillAgree(calls)'
  BY <1>1, <1>8 DEF WillAgree, Agrees, Exists, WillShow
<1> QED
  BY <1>1, <1>8, <1>9, <1>11, <1>12, ViewContinued

\* The part is there to be mounted: the bought row does not run out.
LEMMA MayBeMounted ==
    ASSUME HangarInv, Exists, NEW weapon, NEW serial, MayMount(account, weapon, serial), NEW change,
           NEW calls, calls = AttachCalls(weapon, serial, change)
    PROVE  calls # <<>>
<1>1. PICK u : u = account.inventory
  OBVIOUS
<1>2. u \in Inventory /\ Unique(u)
  BY <1>1, Loaded
<1>3. PICK r \in Range(u), q \in Range(u) :
         r.id = weapon /\ q.id = serial /\ q.expires = 0 /\ <<r.item, q.item>> \in Fits
  BY <1>1 DEF MayMount
<1>4. weapon \in IDs(u) /\ serial \in IDs(u)
  BY <1>3, IDsInRange
<1>5. RowWith(u, weapon) = r /\ RowWith(u, serial) = q
  <2>1. PICK x, y : x = RowWith(u, weapon) /\ y = RowWith(u, serial)
    OBVIOUS
  <2>2. x \in Range(u) /\ x.id = weapon /\ y \in Range(u) /\ y.id = serial
    BY <1>2, <1>4, <2>1, RowOwned
  <2> QED
    BY <1>2, <1>3, <2>1, <2>2, SerialsDiffer
<1>6. ~ IsExpired(RowWith(u, serial), now)
  BY <1>3, <1>5 DEF IsExpired
<1>7. Usable(serial)
  BY <1>1, <1>4, <1>6 DEF Usable
<1>8. <<RowWith(u, weapon).item, RowWith(u, serial).item>> \in Fits
  BY <1>3, <1>5
<1>9. PICK v, w : calls = <<v, w>>
  BY <1>1, <1>4, <1>7, <1>8 DEF AttachCalls
<1> QED
  BY <1>9

LEMMA MountingBoughtAgrees ==
    ASSUME HangarInv, ViewInv, NEW s \in Session, MountingBought(s) PROVE ViewInv'
<1>1. NextCall(s, "mountBought") /\ todo[s] # <<>> /\ bound' = bound /\ view' = view
  BY DEF MountingBought, NextCall
<1>2. PICK w, calls : w = Head(todo[s]) /\ calls = AttachCalls(w.weapon, w.serial, w.change)
  OBVIOUS
<1>3. w.do = "mountBought" /\ (NeedsAccount(w) => Exists) /\ w \in Range(todo[s])
  BY <1>1, <1>2, HeadSound, HeadWaits
<1>4. w.do \notin Saves /\ Exists
  BY <1>3 DEF NeedsAccount, Saves
<1>5. Continue(s, calls) /\ account' = account
  BY <1>2 DEF MountingBought
<1>6. ~ WillBind(todo[s])
  BY <1>3 DEF WillBind
<1>7. WillAgree(todo[s]) => WillAgree(calls)
  <2> SUFFICES ASSUME WillAgree(todo[s]) PROVE WillAgree(calls)
    OBVIOUS
  <2>1. Shaped(todo[s])
    BY DEF WillAgree
  <2>2. account \in Outcomes(account, todo[s])
    BY <1>1, <1>2, <1>4, <2>1, LastOutcome
  <2>3. /\ OfPurchase(w.change) /\ WillShow(account, w.change)
        /\ MayMount(account, w.weapon, w.serial)
    BY <1>3, <2>2 DEF WillAgree
  <2>4. calls # <<>>
    BY <1>2, <1>4, <2>3, MayBeMounted
  <2> QED
    BY <1>2, <1>4, <2>3, <2>4, AttachCallsAgree
<1>8. WillAgree(calls) => WillAgree(calls)'
  BY <1>1, <1>5 DEF WillAgree, Agrees, Exists, WillShow
<1> QED
  BY <1>1, <1>5, <1>6, <1>7, <1>8, ViewContinued

\* The copy becomes the account, and the client has been told all of it.
LEMMA AnsweringAgrees ==
    ASSUME HangarInv, ViewInv, NEW s \in Session, Answering(s) PROVE ViewInv'
<1>1. PICK w, t : w = Head(todo[s]) /\ t = Tail(todo[s])
  OBVIOUS
<1>2. /\ todo[s] # <<>> /\ w.do = "answer" /\ Continue(s, t)
      /\ account' = account /\ bound' = bound
      /\ view' = IF ~ Follows(s) THEN view
                 ELSE [view EXCEPT !.copy = w.player,
                         !.shown = IF @ = NoAccount THEN @ ELSE Told(@, w.player, w.change)]
  BY <1>1 DEF Answering, NextCall
<1> SUFFICES ASSUME view # Unknown PROVE ViewInv'
  BY <1>2 DEF ViewInv, Follows
<1>3. view.of = s /\ Follows(s)
  BY <1>2 DEF ViewInv, Alone, Follows
<1>4. w \in Range(todo[s])
  BY <1>1, <1>2, HeadWaits
<1>5. s \in bound
  BY <1>2, <1>3, <1>4 DEF ViewInv, WillBind
<1>6. /\ mishaps = 0 /\ Alone(s) /\ WillAgree(todo[s])
      /\ view = [of |-> view.of, copy |-> view.copy, shown |-> view.shown]
  BY <1>3, <1>5 DEF ViewInv
<1>7. Exists /\ Shaped(todo[s]) /\ w.do \notin Saves
  BY <1>2, <1>6 DEF WillAgree, Saves
<1>8. account \in Outcomes(account, todo[s]) /\ t = <<>>
  BY <1>1, <1>2, <1>7, LastOutcome
<1>9. w.player = account /\ WillShow(account, w.change)
  BY <1>2, <1>4, <1>6, <1>8 DEF WillAgree
<1>10. PICK shown : shown = IF view.shown = NoAccount THEN view.shown
                            ELSE Told(view.shown, w.player, w.change)
  OBVIOUS
<1>11. view' = [of |-> s, copy |-> account, shown |-> shown]
  BY <1>2, <1>3, <1>6, <1>9, <1>10
<1>12. view'.of = s /\ view'.copy = account /\ view'.shown = shown
  BY <1>11
<1>13. Shows(shown, account)
  BY <1>9, <1>10 DEF WillShow, Shows
<1>14. Agrees'
  BY <1>2, <1>12, <1>13 DEF Agrees, Shows
<1>15. todo' = [todo EXCEPT ![s] = t] /\ mishaps' = mishaps
  BY <1>2 DEF Continue
<1>16. todo'[s] = t /\ Alone(s)'
  BY <1>6, <1>15 DEF HangarInv, Alone
<1>17. WillAgree(t)'
  BY <1>8, <1>14, NothingWaits DEF WillAgree
<1> QED
  BY <1>2, <1>5, <1>6, <1>11, <1>12, <1>15, <1>16, <1>17 DEF ViewInv

LEMMA CrashAgrees ==
    ASSUME HangarInv, ViewInv, Crash PROVE ViewInv'
<1>1. /\ todo' = [s \in Session |-> <<>>] /\ bound' = {}
      /\ IF Quiet THEN mishaps' = mishaps ELSE Mishap
      /\ view' = IF Quiet /\ view # Unknown THEN [view EXCEPT !.shown = NoAccount] ELSE Unknown
  BY DEF Crash
<1>2. CASE ~ (Quiet /\ view # Unknown)
  BY <1>1, <1>2 DEF ViewInv
<1>3. CASE Quiet /\ view # Unknown
  <2>1. /\ mishaps = 0 /\ view.of \in Session
        /\ view = [of |-> view.of, copy |-> view.copy, shown |-> view.shown]
    BY <1>3 DEF ViewInv
  <2>2. view' = [of |-> view.of, copy |-> view.copy, shown |-> NoAccount]
    BY <1>1, <1>3, <2>1
  <2>3. view'.of = view.of /\ view'.copy = view.copy /\ view'.shown = NoAccount
    BY <2>2
  <2>4. PICK x : x = view.of
    OBVIOUS
  <2>5. todo'[x] = <<>> /\ Alone(x)'
    BY <1>1, <2>1, <2>4 DEF Alone
  <2>6. PICK calls : calls = <<>>
    OBVIOUS
  <2>7. WillBind(calls)'
    BY <2>6, NothingWaits DEF WillBind
  <2> QED
    BY <1>1, <1>3, <2>1, <2>2, <2>3, <2>4, <2>5, <2>6, <2>7 DEF ViewInv
<1> QED
  BY <1>2, <1>3

LEMMA StandingAgrees ==
    ASSUME ViewInv, UNCHANGED <<account, bound, todo, mishaps, view>> PROVE ViewInv'
<1> SUFFICES ASSUME view # Unknown PROVE ViewInv'
  BY DEF ViewInv
<1>1. PICK x, calls : x = view.of /\ calls = todo[view.of]
  OBVIOUS
<1>2. todo'[x] = calls /\ view'.of = x /\ bound' = bound /\ mishaps' = mishaps /\ view' = view
  BY <1>1
<1>3. WillAgree(calls) => WillAgree(calls)'
  BY DEF WillAgree, Agrees, Exists, WillShow
<1>4. WillBind(calls) => WillBind(calls)'
  BY DEF WillBind, Exists
<1>5. Alone(x) => Alone(x)'
  BY DEF Alone
<1> QED
  BY <1>1, <1>2, <1>3, <1>4, <1>5 DEF ViewInv

LEMMA AsksAgrees ==
    ASSUME HangarInv, OwnedInv, ViewInv, NEW s \in Session, Asks(s) PROVE ViewInv'
<1>1. \/ \E item \in Item : Buy(s, item)
      \/ \E recipe \in Recipes : Craft(s, recipe)
      \/ \E function : SpendConsumable(s, function)
      \/ \E serial : Equip(s, serial)
      \/ \E first, second : ChangeWeapons(s, first, second)
      \/ \E parent, child : Attach(s, parent, child) \/ Detach(s, parent, child)
      \/ \E weapon : \E item \in Item : BuyCustomPart(s, weapon, item)
  BY Zenon DEF Asks
<1> QED
  BY <1>1, BuyAgrees, CraftAgrees, SpendAgrees, EquipAgrees, ChangeWeaponsAgrees, AttachAgrees,
     DetachAgrees, BuyCustomPartAgrees

LEMMA ProceedsAgrees ==
    ASSUME PartsLast, HangarInv, ViewInv, NEW s \in Session, Proceeds(s) PROVE ViewInv'
BY CommittingAgrees, SavingLoadoutAgrees, SavingAttachmentsAgrees, CreatingAgrees,
   FindingAgainAgrees, BindingAgrees, BuyingForAgrees, MountingBoughtAgrees, AnsweringAgrees
   DEF Proceeds

LEMMA ViewNext ==
    ASSUME PartsLast PROVE HangarInv /\ OwnedInv /\ ViewInv /\ [Next]_vars => ViewInv'
<1> SUFFICES ASSUME HangarInv, OwnedInv, ViewInv, [Next]_vars PROVE ViewInv'
  OBVIOUS
<1>1. ASSUME NEW s \in Session, Login(s) PROVE ViewInv'
  BY <1>1, LoginAgrees
<1>2. ASSUME NEW s \in Session, ItemLogin(s) PROVE ViewInv'
  BY <1>2, ItemLoginAgrees
<1>3. ASSUME NEW s \in Session, Drop(s) PROVE ViewInv'
  BY <1>3, DropAgrees
<1>4. ASSUME NEW s \in Session, Asks(s) PROVE ViewInv'
  BY <1>4, AsksAgrees
<1>5. ASSUME NEW s \in Session, Proceeds(s) PROVE ViewInv'
  BY <1>5, ProceedsAgrees
<1>6. ASSUME NEW s \in Session, Fail(s) PROVE ViewInv'
  BY <1>6 DEF Fail, ViewInv
<1>7. CASE Crash
  BY <1>7, CrashAgrees
<1>8. CASE Tick \/ UNCHANGED vars
  <2>1. UNCHANGED <<account, bound, todo, mishaps, view>>
    BY <1>8 DEF Tick, vars
  <2> QED
    BY <2>1, StandingAgrees
<1> QED
  BY <1>1, <1>2, <1>3, <1>4, <1>5, <1>6, <1>7, <1>8 DEF Next

(***************************************************************************)
(* ViewInv holds always, if besides no part that fits a weapon is rented:  *)
(* once the calls that its handler has left are made, the session that is  *)
(* followed holds the account as its copy, and its client shows it.        *)
(***************************************************************************)
THEOREM ViewInvariant ==
    ASSUME NothingWornUsedUp, PartsLast PROVE Spec => []ViewInv
<1>1. Init => ViewInv
  <2> SUFFICES ASSUME Init PROVE ViewInv
    OBVIOUS
  <2>1. PICK s \in Session : view = [of |-> s, copy |-> NoAccount, shown |-> NoAccount]
    BY DEF Init
  <2>2. mishaps = 0 /\ bound = {} /\ todo = [x \in Session |-> <<>>]
    BY DEF Init
  <2>3. view.of = s /\ view.copy = NoAccount /\ view.shown = NoAccount
    BY <2>1
  <2>4. PICK calls : calls = <<>>
    OBVIOUS
  <2>5. todo[s] = calls /\ Alone(s)
    BY <2>2, <2>4 DEF Alone
  <2>6. WillBind(calls)
    BY <2>4, NothingWaits
  <2> QED
    BY <2>1, <2>2, <2>3, <2>5, <2>6 DEF ViewInv
<1>2. HangarInv /\ OwnedInv /\ ViewInv /\ [Next]_vars => ViewInv'
  BY ViewNext
<1>3. Spec => []HangarInv
  BY HangarInvariant
<1>4. Spec => []OwnedInv
  BY OwnedInvariant
<1> QED
  BY <1>1, <1>2, <1>3, <1>4, PTL DEF Spec

(***************************************************************************)
(* ViewAgrees: the handlers patch the session's copy and send only what    *)
(* they take to have changed; still, whenever the session that is followed *)
(* has no request in hand, its copy is the account and what its client     *)
(* shows is the account, all of it.                                        *)
(***************************************************************************)
THEOREM ViewAlwaysAgrees ==
    ASSUME NothingWornUsedUp, PartsLast PROVE Spec => []ViewAgrees
<1>1. ViewInv => ViewAgrees
  BY DEF ViewInv, WillAgree, Agrees, Shows, ViewAgrees
<1>2. Spec => []ViewInv
  BY ViewInvariant
<1> QED
  BY <1>1, <1>2, PTL
=============================================================================
