------------------------------- MODULE Hangar -------------------------------
(***************************************************************************)
(* One account in the hands of several sessions: services/                 *)
(* player_service.go, consumables.go, the player repository, and the       *)
(* handlers of proudnet/items.go, profile.go and game_equip.go that change *)
(* it.                                                                     *)
(*                                                                         *)
(* Every operation loads the account, works on the copy, and saves one     *)
(* field of it back as a whole; only the debit of a wallet is conditional  *)
(* in the database.  todo[s] is what the handler of session s has left.    *)
(*                                                                         *)
(* view follows one session: the copy it holds, and the hangar that its    *)
(* client has been told of.  It is given up when another session acts, as  *)
(* the code tells the first one nothing.                                   *)
(***************************************************************************)
EXTENDS Account

CONSTANTS
    Session,     \* the sessions of the account
    Recipes,     \* what the recipes take, make and cost
    Spent,       \* the function indexes that handlers spend
    Worn,        \* the items that a client offers to equip
    Parts,       \* the items that it offers to mount on them
    NoAccount,   \* nothing stored, nothing loaded
    Unknown,     \* not followed
    MaxTime,     \* bound of the clock
    MaxExpiry,   \* bound: no rental is extended beyond
    MaxMounts,   \* bound: how many parts are mounted at once
    MaxMishaps,  \* bound: how often requests overlap or are cut off
    Disruption   \* which of "drop", "fail" and "crash" happen

ASSUME HangarAssumption ==
    /\ NoAccount \notin Player
    /\ \A r \in Recipes :
          /\ r.output \in Item /\ r.price \in Nat
          /\ r.need \in [DOMAIN r.need -> Nat \ {0}]
    /\ MaxTime \in Nat /\ MaxExpiry \in Nat /\ MaxMounts \in Nat /\ MaxMishaps \in Nat
    /\ Disruption \subseteq {"drop", "fail", "crash"}

VARIABLES
    account,  \* the document of the database
    now,      \* the clock
    bound,    \* the sessions that have the account bound to them
    todo,     \* what the handler of each session has left to do
    mishaps,  \* history: how many requests began during others, or were cut off
    view      \* history: the copy and the client of one session

vars == <<account, now, bound, todo, mishaps, view>>

-----------------------------------------------------------------------------
(***************************************************************************)
(* What a client is told: everything, or what an answer says has changed.  *)
(***************************************************************************)
Everything(p) ==
    [wallet |-> p.wallet, items |-> Range(p.inventory),
     loadout |-> Range(p.loadout), mounts |-> Range(p.attachments)]

NoChange ==
    [wallets |-> {}, items |-> {}, gone |-> {}, equip |-> <<>>, mount |-> {}, unmount |-> {}]

\* Of what it is told to equip, what comes last for a slot stays there.
Told(shown, p, c) ==
    LET last == {i \in DOMAIN c.equip :
                   \A j \in DOMAIN c.equip : c.equip[j].slot = c.equip[i].slot => j <= i}
    IN  [wallet  |-> [w \in Wallets |-> IF w \in c.wallets THEN p.wallet[w] ELSE shown.wallet[w]],
         items   |-> {r \in shown.items : r.id \notin c.gone \cup {q.id : q \in c.items}} \cup c.items,
         loadout |-> {e \in shown.loadout : \A i \in DOMAIN c.equip : c.equip[i].slot # e.slot}
                       \cup {c.equip[i] : i \in last},
         mounts  |-> {m \in shown.mounts \ c.unmount :
                        \A n \in c.mount : m.parent # n.parent \/ m.slot # n.slot} \cup c.mount]

-----------------------------------------------------------------------------
\* The calls that a handler has left.
Commit(inventory, wallet, price) ==
    [do |-> "commit", inventory |-> inventory, wallet |-> wallet, price |-> price]
SaveLoadout(loadout)         == [do |-> "saveLoadout", loadout |-> loadout]
SaveAttachments(attachments) == [do |-> "saveAttachments", attachments |-> attachments]
Create(p)                    == [do |-> "create", player |-> p]
FindAgain                    == [do |-> "findAgain"]
Bind(p)                      == [do |-> "bind", player |-> p]
BindAsFound(p)               == [do |-> "bindAsFound", player |-> p]
Answer(p, change)            == [do |-> "answer", player |-> p, change |-> change]
BuyFor(weapon, item)         == [do |-> "buyFor", weapon |-> weapon, item |-> item]
MountBought(weapon, serial, change) ==
    [do |-> "mountBought", weapon |-> weapon, serial |-> serial, change |-> change]

Init ==
    /\ account = NoAccount
    /\ now = 0
    /\ bound = {}
    /\ todo = [s \in Session |-> <<>>]
    /\ mishaps = 0
    /\ \E s \in Session : view = [of |-> s, copy |-> NoAccount, shown |-> NoAccount]

Follows(s) == view # Unknown /\ view.of = s

Mishap == mishaps < MaxMishaps /\ mishaps' = mishaps + 1

Quiet == \A s \in Session : todo[s] = <<>>

\* A handler begins.  Frames of one connection are handled one at a time.
Leaves(s, calls) ==
    /\ todo[s] = <<>>
    /\ calls # <<>>
    /\ todo' = [todo EXCEPT ![s] = calls]
    /\ IF Quiet THEN UNCHANGED mishaps ELSE Mishap
    /\ view' = IF Follows(s) THEN view ELSE Unknown
    /\ UNCHANGED <<account, now, bound>>

\* The account that a handler of a bound session has loaded.
Acts(s) == s \in bound /\ account # NoAccount

-----------------------------------------------------------------------------
(***************************************************************************)
(* LoginBySteam creates the account, or rids it of what has run out and    *)
(* sees to its heroes.  That takes up to three saves.                      *)
(***************************************************************************)
LoginCalls ==
    LET purged == Purged(account, now)
        player == WithHeroes(purged)
    IN  (IF purged = account THEN <<>>
         ELSE <<Commit(player.inventory, "none", 0), SaveAttachments(player.attachments)>>)
        \o (IF player = account THEN <<>> ELSE <<SaveLoadout(player.loadout)>>)
        \o <<Bind(player)>>

Login(s) ==
    /\ s \notin bound
    /\ Leaves(s, IF account = NoAccount THEN <<Create(NewAccount(now))>> ELSE LoginCalls)

\* itemLogin hands over the hangar from the session's copy.
ItemLogin(s) ==
    /\ s \in bound
    /\ todo[s] = <<>>
    /\ Follows(s)
    /\ view' = [view EXCEPT !.shown = Everything(view.copy)]
    /\ UNCHANGED <<account, now, bound, todo, mishaps>>

\* The connection closes; its last handler is through.
Drop(s) ==
    /\ "drop" \in Disruption
    /\ s \in bound
    /\ todo[s] = <<>>
    /\ bound' = bound \ {s}
    /\ view' = IF Follows(s) THEN [view EXCEPT !.shown = NoAccount] ELSE view
    /\ UNCHANGED <<account, now, todo, mishaps>>

-----------------------------------------------------------------------------
Balance(wallet) == IF wallet = "none" THEN 0 ELSE account.wallet[wallet]

Debit(p, wallet, price) ==
    IF wallet = "none" THEN p ELSE [p EXCEPT !.wallet[wallet] = @ - price]

\* What a purchase would save, leave in the copy, and tell.
Bargain(item) ==
    LET pay   == StorePrice(item)
        added == AddToInventory(account.inventory, item, now)
    IN  [commit |-> Commit(added.inventory, pay.wallet, pay.price),
         player |-> Debit([account EXCEPT !.inventory = added.inventory], pay.wallet, pay.price),
         row    |-> added.row,
         change |-> [NoChange EXCEPT !.wallets = {pay.wallet} \ {"none"}, !.items = {added.row}]]

\* Faulty variant: the purchase goes on when no serial is left for the item.
MayBuyWhenFull(item) ==
    LET pay == StorePrice(item)
    IN  Catalog[item].isSell /\ Balance(pay.wallet) >= pay.price

\* Buy, up to CommitInventory: whether it is refused.
MayBuy(item) ==
    LET pay == StorePrice(item)
    IN  Catalog[item].isSell /\ Balance(pay.wallet) >= pay.price /\ Bargain(item).row.id # 0

InTime(item) ==
    \A i \in Holding(account.inventory, item) :
        account.inventory[i].expires + Catalog[item].useTime <= MaxExpiry

Buy(s, item) ==
    /\ Acts(s)
    /\ InTime(item)
    /\ MayBuy(item)
    /\ Leaves(s, <<Bargain(item).commit, Answer(Bargain(item).player, Bargain(item).change)>>)

\* BuyCustomPart checks the weapon, then buys, then mounts: three loads.
BuyCustomPart(s, weapon, item) ==
    /\ Acts(s)
    /\ InTime(item)
    /\ weapon \in IDs(account.inventory)
    /\ <<RowWith(account.inventory, weapon).item, item>> \in Fits
    /\ Len(account.attachments) < MaxMounts
    /\ Leaves(s, <<BuyFor(weapon, item)>>)

Craft(s, recipe) ==
    LET left   == ConsumeMaterials(account.inventory, recipe.need)
        serial == NextSerial(left)
        output == NewItem(serial, recipe.output, now)
        made   == Append(left, output)
        wallet == IF recipe.price > 0 THEN {"point"} ELSE {}
    IN  /\ Acts(s)
        /\ account.wallet["point"] >= recipe.price
        /\ HasMaterials(account.inventory, recipe.need)
        /\ serial # 0
        /\ Leaves(s, <<Commit(made, "point", recipe.price),
             Answer(Debit([account EXCEPT !.inventory = made], "point", recipe.price),
                    [NoChange EXCEPT !.wallets = wallet,
                       !.gone = IDs(account.inventory) \ IDs(left),
                       !.items = {output} \cup (Range(left) \ Range(account.inventory))])>>)

SpendConsumable(s, function) ==
    LET inventory == account.inventory
        row   == FindConsumable(inventory, function)
        left  == SpendUnit(inventory, row.id)
    IN  /\ Acts(s)
        /\ Consumables(inventory, function) # {}
        /\ Leaves(s, <<Commit(left, "none", 0),
             Answer([account EXCEPT !.inventory = left],
                    [NoChange EXCEPT !.gone = {row.id} \ IDs(left),
                                     !.items = Range(left) \ Range(inventory)])>>)

-----------------------------------------------------------------------------
\* Owned and not run out: what may be equipped and mounted.
Usable(serial) ==
    /\ serial \in IDs(account.inventory)
    /\ ~ IsExpired(RowWith(account.inventory, serial), now)

Wear(loadout, serial) == Equipped(loadout, SlotOf(account.inventory, serial), serial)

\* What Equip and ChangeWeapons have in common, serials being what they put on.
PutOn(s, serials, loadout) ==
    /\ Acts(s)
    /\ \A serial \in Range(serials) : Usable(serial)
    /\ Leaves(s, <<SaveLoadout(loadout),
         Answer([account EXCEPT !.loadout = loadout],
                [NoChange EXCEPT !.equip =
                   [i \in DOMAIN serials |-> [slot |-> SlotOf(account.inventory, serials[i]),
                                              serial |-> serials[i]]]])>>)

Equip(s, serial) == PutOn(s, <<serial>>, Wear(account.loadout, serial))

\* The weapon bag has several serials, zeros among them are skipped; two are
\* enough for one to displace the other.
ChangeWeapons(s, first, second) ==
    PutOn(s, <<first, second>>, Wear(Wear(account.loadout, first), second))

\* Attach, up to what it leaves: nothing when it is refused.
AttachCalls(parent, child, change) ==
    LET inventory   == account.inventory
        slot        == SlotOf(inventory, child)
        attachments == Attached(account.attachments, parent, child, slot)
        mounted     == [parent |-> parent, child |-> child, slot |-> slot]
    IN  IF /\ Usable(child)
           /\ parent \in IDs(inventory)
           /\ slot \in CustomSlots =>
                 <<RowWith(inventory, parent).item, RowWith(inventory, child).item>> \in Fits
        THEN <<SaveAttachments(attachments),
               Answer([account EXCEPT !.attachments = attachments],
                      [change EXCEPT !.mount = {mounted}])>>
        ELSE <<>>

Attach(s, parent, child) ==
    /\ Acts(s)
    /\ Len(account.attachments) < MaxMounts
    /\ Leaves(s, AttachCalls(parent, child, NoChange))

Detach(s, parent, child) ==
    LET attachments == Detached(account.attachments, parent, child)
        mounted == [parent |-> parent, child |-> child, slot |-> SlotOf(account.inventory, child)]
    IN  /\ Acts(s)
        /\ child \in IDs(account.inventory)
        /\ Leaves(s, <<SaveAttachments(attachments),
             Answer([account EXCEPT !.attachments = attachments],
                    [NoChange EXCEPT !.unmount = {mounted}])>>)

-----------------------------------------------------------------------------
(***************************************************************************)
(* The calls that are left, one step each.                                 *)
(***************************************************************************)
NextCall(s, what) == todo[s] # <<>> /\ Head(todo[s]).do = what

Continue(s, calls) ==
    todo' = [todo EXCEPT ![s] = calls] /\ UNCHANGED <<now, mishaps>>

Committed(w) ==
    LET wallet == account.wallet
        rest   == IF w.price = 0 THEN wallet ELSE [wallet EXCEPT ![w.wallet] = @ - w.price]
    IN  [account EXCEPT !.inventory = w.inventory, !.wallet = rest]

\* Faulty variant: the debit has no condition of its own.
CommittingUnchecked(s) ==
    LET w == Head(todo[s])
    IN  /\ NextCall(s, "commit")
        /\ account' = Committed(w)
        /\ Continue(s, Tail(todo[s]))
        /\ UNCHANGED <<bound, view>>

\* CommitInventory: refused when the wallet no longer covers the price.
Committing(s) ==
    LET w == Head(todo[s])
        covered == w.price = 0 \/ account.wallet[w.wallet] >= w.price
    IN  /\ NextCall(s, "commit")
        /\ account' = IF covered THEN Committed(w) ELSE account
        /\ Continue(s, IF covered THEN Tail(todo[s]) ELSE <<>>)
        /\ UNCHANGED <<bound, view>>

SavingLoadout(s) ==
    /\ NextCall(s, "saveLoadout")
    /\ account' = [account EXCEPT !.loadout = Head(todo[s]).loadout]
    /\ Continue(s, Tail(todo[s]))
    /\ UNCHANGED <<bound, view>>

SavingAttachments(s) ==
    /\ NextCall(s, "saveAttachments")
    /\ account' = [account EXCEPT !.attachments = Head(todo[s]).attachments]
    /\ Continue(s, Tail(todo[s]))
    /\ UNCHANGED <<bound, view>>

\* ErrAlreadyExists: another login has created the account.
Creating(s) ==
    LET p == Head(todo[s]).player
    IN  /\ NextCall(s, "create")
        /\ account' = IF account = NoAccount THEN p ELSE account
        /\ Continue(s, <<IF account = NoAccount THEN Bind(p) ELSE FindAgain>>)
        /\ UNCHANGED <<bound, view>>

FindingAgain(s) ==
    /\ NextCall(s, "findAgain")
    /\ Continue(s, <<BindAsFound(account)>>)
    /\ UNCHANGED <<account, bound, view>>

Binding(s) ==
    /\ NextCall(s, "bind") \/ NextCall(s, "bindAsFound")
    /\ bound' = bound \cup {s}
    /\ view' = IF Follows(s) THEN [view EXCEPT !.copy = Head(todo[s]).player] ELSE view
    /\ Continue(s, Tail(todo[s]))
    /\ UNCHANGED account

BuyingFor(s) ==
    LET w == Head(todo[s])
        b == Bargain(w.item)
    IN  /\ NextCall(s, "buyFor")
        /\ Continue(s, IF MayBuy(w.item)
                       THEN <<b.commit, MountBought(w.weapon, b.row.id, b.change)>> ELSE <<>>)
        /\ UNCHANGED <<account, bound, view>>

MountingBought(s) ==
    LET w == Head(todo[s])
    IN  /\ NextCall(s, "mountBought")
        /\ Continue(s, AttachCalls(w.weapon, w.serial, w.change))
        /\ UNCHANGED <<account, bound, view>>

\* Faulty variant: the client is told, the session's copy is left as it was.
AnsweringOnly(s) ==
    LET w == Head(todo[s])
    IN  /\ NextCall(s, "answer")
        /\ view' = IF ~ Follows(s) THEN view
                   ELSE [view EXCEPT
                           !.shown = IF @ = NoAccount THEN @ ELSE Told(@, w.player, w.change)]
        /\ Continue(s, Tail(todo[s]))
        /\ UNCHANGED <<account, bound>>

\* updatePlayer, and the messages that tell the client what has changed.
Answering(s) ==
    LET w == Head(todo[s])
    IN  /\ NextCall(s, "answer")
        /\ view' = IF ~ Follows(s) THEN view
                   ELSE [view EXCEPT !.copy = w.player,
                           !.shown = IF @ = NoAccount THEN @ ELSE Told(@, w.player, w.change)]
        /\ Continue(s, Tail(todo[s]))
        /\ UNCHANGED <<account, bound>>

\* A call that fails ends its handler: nothing is undone, nothing follows.
Fail(s) ==
    /\ "fail" \in Disruption
    /\ todo[s] # <<>>
    /\ todo' = [todo EXCEPT ![s] = <<>>]
    /\ Mishap
    /\ view' = Unknown
    /\ UNCHANGED <<account, now, bound>>

\* The process stops: handlers and sessions are gone, the database stays.
Crash ==
    /\ "crash" \in Disruption
    /\ todo' = [s \in Session |-> <<>>]
    /\ bound' = {}
    /\ IF Quiet THEN UNCHANGED mishaps ELSE Mishap
    /\ view' = IF Quiet /\ view # Unknown THEN [view EXCEPT !.shown = NoAccount] ELSE Unknown
    /\ UNCHANGED <<account, now>>

Tick ==
    /\ now < MaxTime
    /\ now' = now + 1
    /\ UNCHANGED <<account, bound, todo, mishaps, view>>

-----------------------------------------------------------------------------
\* What a client asks for; serials that the account does not have are refused.
Asks(s) ==
    LET of(items) == {r.id : r \in {q \in Range(account.inventory) : q.item \in items}}
        worn == of(Worn)
    IN  \/ \E item \in Item : Buy(s, item)
        \/ \E recipe \in Recipes : Craft(s, recipe)
        \/ \E function \in Spent : SpendConsumable(s, function)
        \/ \E serial \in worn : Equip(s, serial)
        \/ \E first, second \in worn : first # second /\ ChangeWeapons(s, first, second)
        \/ \E parent \in worn, child \in of(Parts) :
              Attach(s, parent, child) \/ Detach(s, parent, child)
        \/ \E weapon \in worn, item \in Item : BuyCustomPart(s, weapon, item)

Proceeds(s) ==
    \/ Committing(s) \/ SavingLoadout(s) \/ SavingAttachments(s)
    \/ Creating(s) \/ FindingAgain(s) \/ Binding(s)
    \/ BuyingFor(s) \/ MountingBought(s) \/ Answering(s)

Next ==
    \/ \E s \in Session :
          Login(s) \/ ItemLogin(s) \/ Drop(s) \/ (Acts(s) /\ Asks(s)) \/ Proceeds(s) \/ Fail(s)
    \/ Crash \/ Tick

Spec == Init /\ [][Next]_vars

-----------------------------------------------------------------------------
Exists == account # NoAccount

\* The wallets never go below zero, whatever purchases race for them: Buy and
\* Craft check a balance they have read and rely on CommitInventory to refuse.
WalletSound == Exists => \A w \in Wallets : account.wallet[w] >= 0

\* No two items share a serial.  NextSerial hands a freed serial out again, and
\* inventories are saved whole, from copies that may be out of date.
SerialsUnique == Exists => Unique(account.inventory)

OneItemEach(loadout) ==
    \A i, j \in DOMAIN loadout : loadout[i].slot = loadout[j].slot => i = j

OnePartEach(attachments) ==
    \A i, j \in DOMAIN attachments :
        LET m == attachments[i]
            n == attachments[j]
        IN  m.parent = n.parent /\ m.slot = n.slot => i = j

\* One item per slot, and one part per slot of a weapon, however the saves of
\* Equip, ChangeWeapons, Attach, Detach and LoginBySteam fall.
OnePerSlot == Exists => OneItemEach(account.loadout) /\ OnePartEach(account.attachments)

\* Once its handler is through, the copy that a session keeps for itself is the
\* account, and the client has been told all of it: the handlers send only what
\* they take to have changed.
ViewAgrees ==
    view # Unknown /\ view.of \in bound /\ todo[view.of] = <<>> =>
        /\ view.copy = account
        /\ view.shown # NoAccount => view.shown = Everything(account)

HasHero(p, slot) ==
    (\E r \in Range(p.inventory) : Catalog[r.item].slot = slot) =>
        \E e \in Range(p.loadout) :
           /\ e.slot = slot
           /\ e.serial \in IDs(p.inventory)
           /\ SlotOf(p.inventory, e.serial) = slot

Ready(p) == \A slot \in HeroSlots : HasHero(p, slot)

\* A login binds an account that has a hero equipped on every side it owns one
\* of, also when an earlier login was cut off between its saves.  (One that has
\* lost the race to create the account takes it as it finds it.)
HeroesEquipped ==
    \A s \in Session : NextCall(s, "bind") =>
        Ready(Head(todo[s]).player)

(***************************************************************************)
(* What makes these inductive: what a handler has left to save is sound,   *)
(* whatever copy it was made from, and an account once stored stays.       *)
(***************************************************************************)
SoundPlayer ==
    {p \in Player : Unique(p.inventory) /\ OneItemEach(p.loadout) /\ OnePartEach(p.attachments)}

SoundCall(w) ==
    /\ w.do = "commit" => /\ w.inventory \in Inventory /\ Unique(w.inventory)
                          /\ w.price \in Nat /\ (w.price # 0 => w.wallet \in Wallets)
    /\ w.do = "saveLoadout" => w.loadout \in Loadout /\ OneItemEach(w.loadout)
    /\ w.do = "saveAttachments" => w.attachments \in Attachments /\ OnePartEach(w.attachments)
    /\ w.do = "create" => w.player \in SoundPlayer /\ Ready(w.player)
    /\ w.do = "bind" => Ready(w.player)
    /\ w.do = "buyFor" => w.item \in Item

NeedsAccount(w) ==
    w.do \in {"commit", "saveLoadout", "saveAttachments", "buyFor", "mountBought"}

SoundCalls(calls, exists) ==
    /\ calls \in Seq(Range(calls))
    /\ \A i \in DOMAIN calls : SoundCall(calls[i]) /\ (NeedsAccount(calls[i]) => exists)

HangarInv ==
    /\ now \in Nat
    /\ Exists => account \in SoundPlayer
    /\ DOMAIN todo = Session
    /\ \A s \in Session : SoundCalls(todo[s], Exists)

\* What is equipped or mounted is owned, and is of the slot it is in, though
\* serials are given out again: nothing worn goes but through PurgeExpired.
WornOwned ==
    mishaps = 0 /\ Quiet /\ Exists =>
        LET owned(serial, slot) == /\ serial \in IDs(account.inventory)
                                   /\ SlotOf(account.inventory, serial) = slot
        IN  /\ \A e \in Range(account.loadout) : owned(e.serial, e.slot)
            /\ \A m \in Range(account.attachments) :
                  owned(m.child, m.slot) /\ m.parent \in IDs(account.inventory)

\* What has been paid out of the points has been delivered, and is still there,
\* so long as requests do not overlap: for goods that neither run out nor are
\* used up.  (Requests of two sessions that overlap do lose purchases.)
Lasting == {i \in Item : LET def == Catalog[i]
                         IN  def.isSell /\ def.useTime = 0 /\ ~ def.isMerge /\ def.function = 0}

Worth(row) == IF row.item \in Lasting /\ StorePrice(row.item).wallet = "point"
              THEN StorePrice(row.item).price ELSE 0

GoodsPaid ==
    mishaps = 0 /\ Exists =>
        account.wallet["point"] + FoldLeft(LAMBDA sum, row : sum + Worth(row), 0, account.inventory)
            = Start["point"]

(***************************************************************************)
(* What makes WornOwned and ViewAgrees inductive: between two saves of a   *)
(* handler the account is half written, so they speak of the account that  *)
(* there will be once the calls that wait have been made.                  *)
(***************************************************************************)
Calls(calls, what) == {w \in Range(calls) : w.do = what}

Wallet(p, w) == IF w.price = 0 THEN p.wallet ELSE [p.wallet EXCEPT ![w.wallet] = @ - w.price]

\* What takes the place of something old, if anything does.
Or(new, old) == IF new = {} THEN {old} ELSE new

Outcomes(p, calls) ==
    LET commits == Calls(calls, "commit")
    IN  [wallet      : Or({Wallet(p, w) : w \in commits}, p.wallet),
         inventory   : Or({w.inventory : w \in commits}, p.inventory),
         loadout     : Or({w.loadout : w \in Calls(calls, "saveLoadout")}, p.loadout),
         attachments : Or({w.attachments : w \in Calls(calls, "saveAttachments")}, p.attachments)]

Saves == {"commit", "saveLoadout", "saveAttachments"}

\* A handler saves, and then does one thing more; the inventory is saved first.
Shaped(calls) ==
    \A i \in DOMAIN calls :
        /\ calls[i].do \in Saves <=> i # Len(calls)
        /\ calls[i].do \in {"create", "findAgain", "commit", "buyFor"} => i = 1

MayBeRefused(calls) ==
    \E w \in Range(calls) : w.do = "buyFor" \/ (w.do = "commit" /\ w.price # 0)

\* What may come to be equipped or mounted.
Wearable ==
    {i \in Item : \/ i \in Worn \cup Parts \cup Range(Starter)
                  \/ Catalog[i].slot \in HeroSlots
                  \/ \E weapon \in Item : <<weapon, i>> \in Fits}

\* No recipe takes that, and nobody spends it.  (In the catalog that the server
\* comes with, materials and what has a function are groups of their own.)
NothingWornUsedUp ==
    \A i \in Wearable :
        /\ \A r \in Recipes : i \notin DOMAIN r.need
        /\ Catalog[i].function \notin Spent

Holds(inventory, serial) ==
    \E r \in Range(inventory) : r.id = serial /\ r.item \in Wearable

HoldsIn(inventory, serial, slot) ==
    \E r \in Range(inventory) :
        r.id = serial /\ r.item \in Wearable /\ Catalog[r.item].slot = slot

Owns(p) ==
    /\ \A r \in Range(p.inventory) : r.value > 0
    /\ \A e \in Range(p.loadout) : HoldsIn(p.inventory, e.serial, e.slot)
    /\ \A m \in Range(p.attachments) :
          HoldsIn(p.inventory, m.child, m.slot) /\ Holds(p.inventory, m.parent)

WillOwn(calls) ==
    /\ Shaped(calls)
    /\ Exists => \A p \in Outcomes(account, calls) : Owns(p)
    /\ Exists /\ MayBeRefused(calls) => Owns(account)
    /\ \A w \in Range(calls) :
         /\ w.do = "create" => Owns(w.player)
         /\ w.do = "buyFor" => Holds(account.inventory, w.weapon) /\ w.item \in Wearable
         /\ w.do = "mountBought" =>
              \A p \in Outcomes(account, calls) :
                 Holds(p.inventory, w.weapon) /\ Holds(p.inventory, w.serial)

Alone(s) == \A x \in Session : x # s => todo[x] = <<>>

OwnedInv ==
    /\ mishaps \in Nat
    /\ mishaps = 0 =>
         /\ Quiet /\ Exists => Owns(account)
         /\ \A s \in Session : todo[s] # <<>> => Alone(s) /\ WillOwn(todo[s])

\* A part that fits does not run out before it is mounted.  (None of those in the
\* catalog's PartLinkTable is rented.)
PartsLast == \A fit \in Fits : Catalog[fit[2]].useTime = 0

Shows(shown, p) == shown = NoAccount \/ shown = Everything(p)

Agrees == view.copy = account /\ Shows(view.shown, account)

WillShow(p, change) == view.shown = NoAccount \/ Told(view.shown, p, change) = Everything(p)

MayMount(p, weapon, serial) ==
    \E r, q \in Range(p.inventory) :
        /\ r.id = weapon /\ q.id = serial /\ q.expires = 0
        /\ <<r.item, q.item>> \in Fits

OfPurchase(change) ==
    change = [NoChange EXCEPT !.wallets = change.wallets, !.items = change.items]

\* The calls of the session that is followed, while it is logged in ...
WillAgree(calls) ==
    /\ Shaped(calls)
    /\ calls = <<>> \/ MayBeRefused(calls) => Agrees
    /\ calls # <<>> => Exists
    /\ \A w \in Range(calls) :
         /\ w.do \notin {"create", "findAgain", "bind", "bindAsFound"}
         /\ w.do = "answer" =>
              \A p \in Outcomes(account, calls) : p = w.player /\ WillShow(p, w.change)
         /\ w.do = "buyFor" =>
              \E r \in Range(account.inventory) : r.id = w.weapon /\ <<r.item, w.item>> \in Fits
         /\ w.do = "mountBought" =>
              /\ OfPurchase(w.change)
              /\ \A p \in Outcomes(account, calls) :
                    WillShow(p, w.change) /\ MayMount(p, w.weapon, w.serial)

\* ... and while it logs in.
WillBind(calls) ==
    /\ Shaped(calls)
    /\ \A w \in Range(calls) :
         /\ w.do \notin {"buyFor", "mountBought", "answer"}
         /\ w.do = "commit" => w.price = 0
         /\ w.do = "findAgain" => Exists
         /\ w.do \in {"bind", "bindAsFound"} =>
              Exists /\ \A p \in Outcomes(account, calls) : p = w.player

ViewInv ==
    view # Unknown =>
        /\ mishaps = 0
        /\ view = [of |-> view.of, copy |-> view.copy, shown |-> view.shown]
        /\ view.of \in Session /\ Alone(view.of)
        /\ IF view.of \in bound THEN WillAgree(todo[view.of])
           ELSE view.shown = NoAccount /\ WillBind(todo[view.of])
=============================================================================
