------------------------------- MODULE Account -------------------------------
(***************************************************************************)
(* A player's account as the store, the workshop and the hangar see it     *)
(* (models/player.go, models/inventory.go), and the changes that the       *)
(* player service makes to a copy of it in memory.                         *)
(*                                                                         *)
(* An inventory is a slice of rows; the serial of an item is its row's id. *)
(* The catalog is given: what each item index stands for, which part fits  *)
(* which weapon, and what a recipe takes and makes.                        *)
(***************************************************************************)
EXTENDS Rows

CONSTANTS
    Item,       \* the item indexes
    Catalog,    \* what the catalog says of each of them
    Fits,       \* PartsFor: the pairs <<weapon, part>> that go together
    Starter,    \* StarterItems, in order
    Start,      \* the balances of a new account
    MaxSerial   \* the largest serial NextSerial gives out (65534)

\* The equip slots, by what the code distinguishes: ItemType is one of them.
HeroSlots    == {"characterATC", "characterTF"}
CustomSlots  == {"customPart"}
Slots        == HeroSlots \cup CustomSlots \cup {"weapon", "perk", "other"}

Wallets == {"point", "cash"}

\* A function index of zero is none; a price of zero is no price.
GameItem ==
    [slot : Slots, isSell : BOOLEAN, cashType : {0, 1}, pointPrice : Nat, salePrice : Nat,
     cashPrice : Nat, useTime : Nat, isMerge : BOOLEAN, function : Nat]

ASSUME AccountAssumption ==
    /\ Catalog \in [Item -> GameItem]
    /\ Fits \subseteq Item \X Item
    /\ Starter \in Seq(Item)
    /\ Start \in [Wallets -> Nat]
    /\ MaxSerial \in Nat
    /\ Len(Starter) <= MaxSerial
    /\ \A i, j \in DOMAIN Starter :
          Catalog[Starter[i]].slot = Catalog[Starter[j]].slot => i = j

Serial      == 1 .. MaxSerial

\* Only a rental runs out: the expiry comes from the catalog's use time.
InventoryItem ==
    {r \in [id : Serial, item : Item, value : Nat, expires : Nat] :
        Catalog[r.item].useTime = 0 => r.expires = 0}

EquippedItem  == [slot : Slots, serial : Serial]
AttachedItem  == [parent : Serial, child : Serial, slot : Slots]

Inventory   == Seq(InventoryItem)
Loadout     == Seq(EquippedItem)
Attachments == Seq(AttachedItem)
Player      == [wallet : [Wallets -> Nat], inventory : Inventory, loadout : Loadout,
                attachments : Attachments]

-----------------------------------------------------------------------------
\* Faulty variant: one above the number of items.
NextSerialByCount(inventory) == IF Len(inventory) < MaxSerial THEN Len(inventory) + 1 ELSE 0

\* The lowest serial that is free, zero when there is none.
NextSerial(inventory) ==
    LET free == Serial \ IDs(inventory) IN IF free = {} THEN 0 ELSE Min(free)

\* Whether a rental has run out; no rental runs out at time zero.
IsExpired(row, now) == row.expires # 0 /\ now >= row.expires

ExpiryFor(item, now) == IF Catalog[item].useTime = 0 THEN 0 ELSE now + Catalog[item].useTime

NewItem(serial, item, now) ==
    [id |-> serial, item |-> item, value |-> 1, expires |-> ExpiryFor(item, now)]

SlotOf(inventory, serial) == Catalog[RowWith(inventory, serial).item].slot

Holding(inventory, item) == {i \in DOMAIN inventory : inventory[i].item = item}

\* itemByIndex: the place of the first row of an item.
FirstOf(inventory, item) == Min(Holding(inventory, item))

NewAccount(now) ==
    [wallet      |-> Start,
     inventory   |-> [i \in DOMAIN Starter |-> NewItem(i, Starter[i], now)],
     loadout     |-> [i \in DOMAIN Starter |-> [slot |-> Catalog[Starter[i]].slot, serial |-> i]],
     attachments |-> <<>>]

-----------------------------------------------------------------------------
\* Faulty variant: what is in the slot stays there.
EquipBeside(loadout, slot, serial) == Append(loadout, [slot |-> slot, serial |-> serial])

\* Loadout.Equip: one item per slot.
Equipped(loadout, slot, serial) ==
    Append(Keep(loadout, {i \in DOMAIN loadout : loadout[i].slot # slot}),
           [slot |-> slot, serial |-> serial])

\* Attachments.Attach: one part per slot of a parent.
Attached(attachments, parent, child, slot) ==
    Append(Keep(attachments, {i \in DOMAIN attachments :
                                attachments[i].parent # parent \/ attachments[i].slot # slot}),
           [parent |-> parent, child |-> child, slot |-> slot])

Detached(attachments, parent, child) ==
    Keep(attachments, {i \in DOMAIN attachments :
                         attachments[i].parent # parent \/ attachments[i].child # child})

\* Faulty variant: only the items go.
PurgedItemsOnly(player, now) ==
    [player EXCEPT !.inventory = SelectSeq(@, LAMBDA r : ~ IsExpired(r, now))]

\* PurgeExpired: the items, and whatever is equipped or mounted of them.
Purged(player, now) ==
    LET items   == player.inventory
        mounted == player.attachments
        worn    == player.loadout
        good    == {i \in DOMAIN items : ~ IsExpired(items[i], now)}
        gone    == {items[i].id : i \in DOMAIN items \ good}
    IN  IF gone = {} THEN player
        ELSE [player EXCEPT
                !.inventory   = Keep(items, good),
                !.attachments = Keep(mounted, {i \in DOMAIN mounted :
                                   mounted[i].child \notin gone /\ mounted[i].parent \notin gone}),
                !.loadout     = Keep(worn, {i \in DOMAIN worn : worn[i].serial \notin gone})]

\* LoginBySteam: whoever owns a hero of a side has one equipped.
Cast(player, slot) ==
    LET inventory == player.inventory
        heroes    == {i \in DOMAIN inventory : Catalog[inventory[i].item].slot = slot}
        equipped  == \E e \in Range(player.loadout) :
                        e.slot = slot /\ e.serial \in IDs(inventory)
                        /\ SlotOf(inventory, e.serial) = slot
    IN  IF equipped \/ heroes = {} THEN player
        ELSE [player EXCEPT !.loadout = Equipped(@, slot, inventory[Min(heroes)].id)]

\* Faulty variant: any entry in the slot will do.
WithHeroesByEntry(player) ==
    LET slots == {e.slot : e \in Range(player.loadout)}
    IN  IF "characterATC" \in slots THEN Cast(player, "characterTF")
        ELSE Cast(Cast(player, "characterATC"), "characterTF")

WithHeroes(player) == Cast(Cast(player, "characterATC"), "characterTF")

-----------------------------------------------------------------------------
\* storePrice: the wallet that pays and how much, "none" and zero for nothing.
StorePrice(item) ==
    LET def   == Catalog[item]
        point == IF def.salePrice > 0 THEN def.salePrice ELSE def.pointPrice
    IN  CASE def.cashType # 1 /\ point > 0 -> [wallet |-> "point", price |-> point]
          [] def.cashPrice > 0 /\ (def.cashType = 1 \/ point = 0)
                                           -> [wallet |-> "cash", price |-> def.cashPrice]
          [] OTHER                         -> [wallet |-> "none", price |-> 0]

\* addToInventory: a rental owned already runs longer, a stack grows by one,
\* anything else becomes a row of its own, if a serial is left for it.
AddToInventory(inventory, item, now) ==
    LET def    == Catalog[item]
        i      == FirstOf(inventory, item)
        serial == NextSerial(inventory)
        longer == [inventory EXCEPT ![i].expires = Max({@, now}) + def.useTime]
        taller == [inventory EXCEPT ![i].value = @ + 1]
        row    == NewItem(serial, item, now)
        owned  == Holding(inventory, item) # {}
    IN  CASE owned /\ def.useTime > 0 -> [inventory |-> longer, row |-> longer[i]]
          [] owned /\ def.useTime = 0 /\ def.isMerge
                                      -> [inventory |-> taller, row |-> taller[i]]
          [] OTHER -> [inventory |-> IF serial = 0 THEN inventory ELSE Append(inventory, row),
                       row |-> row]

\* ConsumeMaterials takes from the first row of each material, and from it only.
HasMaterials(inventory, need) ==
    \A m \in DOMAIN need :
        Holding(inventory, m) # {} /\ inventory[FirstOf(inventory, m)].value >= need[m]

MaterialAt(inventory, need, i) ==
    inventory[i].item \in DOMAIN need /\ i = FirstOf(inventory, inventory[i].item)

\* Faulty variant: a stack that is used up is left behind.
ConsumeMaterialsKept(inventory, need) ==
    [i \in DOMAIN inventory |->
        IF MaterialAt(inventory, need, i)
        THEN [inventory[i] EXCEPT !.value = @ - need[inventory[i].item]] ELSE inventory[i]]

\* A row that is left with nothing has been used up.
ConsumeMaterials(inventory, need) ==
    LET rows == ConsumeMaterialsKept(inventory, need)
    IN  Keep(rows, {i \in DOMAIN rows : rows[i].value > 0})

\* FindConsumable, and SpendUnit of what it finds.
Consumables(inventory, function) ==
    {i \in DOMAIN inventory :
        Catalog[inventory[i].item].function = function /\ inventory[i].value > 0}

FindConsumable(inventory, function) == inventory[Min(Consumables(inventory, function))]

SpendUnit(inventory, serial) ==
    IF RowWith(inventory, serial).value <= 1 THEN Without(inventory, serial)
    ELSE [inventory EXCEPT ![IndexOf(inventory, serial)].value = @ - 1]
=============================================================================
