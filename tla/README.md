# The fear-online-server in TLA+

The server (Go, `src/server`) stands in for the original server of an online
shooter. Clients keep a TCP connection to it, speak the ProudNet protocol over
it, and find there an account with an inventory, friends and clans, a lobby of
waiting rooms, and matches. These modules model its own logic: what its
handlers do to the state they share, and in which orders that can happen.

Paths below are relative to `src/server/internal/`.

## 1. The system

### How it runs

`proudnet/server.go` starts one goroutine per connection. That goroutine reads
frames and calls one handler after another, so the handlers of one connection
never overlap, while those of different connections always may. When the
connection ends, the same goroutine runs `releaseSession`. Nothing else starts
goroutines: there are no timers, queues or background jobs. The state that
handlers share is

- in memory, under a mutex per object: the room registry, each room, the
  registry of sessions, each session's data, the tickets and the sessions of
  matches, and the launcher's credentials. A handler takes several of these
  locks in turn and never two at once;
- in MongoDB: one document per account and one per clan. Every repository call
  is atomic for one document. There are no transactions, no version numbers,
  and no lock that lasts longer than a call; services load a document, change
  the copy and write whole slices of it back.

What is hard in this code follows from that: check and act under different
locks, lost updates of slices, operations that span several documents and stop
half way, copies of the account in sessions that go stale, ids that are
reused, and sessions that disappear between any two handlers.

### Components

| Component | State | Operations | Interacts with |
|---|---|---|---|
| Waiting rooms (`proudnet/room.go`, `room_registry.go`) | listed rooms by number, last number; users, cap, leader, round of a room | create, join, leave, drop, ready, list | session data (room, seat id), match, list pushes |
| Clans (`services/clan_*.go`, `proudnet/clan*.go`) | clan document: master, members, applicants, emblem; clan name in account and session | found, apply, cancel, accept, reject, kick, leave, rank, hand over, disband, emblem | accounts, sessions of other players, inventory (emblem item) |
| Friends (`services/friend_service.go`) | friends and requests in both accounts | ask, accept, reject, remove | sessions for presence |
| Inventory, store, wallet (`services/player_service.go`, `consumables.go`, `models/`) | items with serials, loadout, attachments, two currencies | login and purge, buy, craft, spend, equip, attach, detach | sessions, clans, catalog |
| Match (`proudnet/game_*.go`) | tickets, sessions of a match, who has loaded, round, scores | start, redeem, load, begin round, death, time out, leave | rooms, second connection of a player |
| Sessions and sending (`proudnet/session*.go`, `identity.go`, `auth.go`) | sessions by account, session data, encryption counter | bind, unbind, push, send | everything |
| Codec (`proudnet/frame.go`, `varint.go`, `rmi.go`, `string.go`) | none | encode, decode | connections |
| Connection set-up (`handshake.go`, `connect.go`, `crypto.go`) | session key, connect guid | hello, key exchange, connect, heartbeat | sending |
| Chat, channels, acknowledgements (`chat.go`, `clan_chat.go`, `channel.go`, `actions_ack.go`) | channel of a session | say to all, to the clan, to one; join the channel | registry of sessions, sending |
| Catalog, launcher, health check, configuration, logging, client stubs | little or none | | |

What makes each correct:

- **Rooms.** A seat belongs to one session; ids in a room are unique although
  they are reused; no room is overfilled; a listed room carries the number it
  is listed under, also after the 16-bit numbers have gone round; a room that
  empties leaves the list; nobody loses a seat through someone else's exit.
- **Clans.** The rules of rank hold (who may accept, kick, promote, disband,
  leave); account, session copy and roster agree; row ids name one person; one
  master, named by the document; one emblem per clan; the member limit.
- **Friends.** Ids of requests and friends name one person; nobody is asked
  twice by the same person; friendship is mutual; the social screen shows what
  is saved.
- **Inventory.** Money is neither lost nor made; what is paid for is there;
  serials are unique; a serial in the loadout or an attachment names an item
  that is owned; the client shows what is stored.
- **Match.** A ticket leads to the room it was issued for; the match is on for
  everybody once all who joined have loaded; rounds do not go past the limit;
  deaths are credited to whom they belong; only the creator starts a match.
- **Sessions and chat.** Frames reach a client whole and in order, whoever
  sends them; the counter of encrypted messages has no gap; the registry holds
  the sessions that are connected and authenticated, under the account they
  have; a line reaches everybody it is for; no handler is stuck.
- **Codec.** Decoding inverts encoding, wherever the bytes are split.

## 2. Modules

| Module | What it is |
|---|---|
| `Rows` | slices of rows with numeric ids: find, cut out, number the next one |
| `Room` | the users of one room and the methods that change them |
| `Rooms` | the registry, all rooms, and the handlers of all connections, interleaved |
| `Clan` | one clan document and what services do to a copy of it |
| `ClanRules` | abstract: what clan operations do, each as one step on ranks, queues and membership |
| `Clans` | the documents, accounts, sessions and all clan handlers, call by call |
| `Friends` | the friends and requests of all accounts, the handlers call by call, and what the clients have been shown |
| `Account` | one account: items, loadout, attachments, and what services do to a copy of it |
| `Hangar` | that account in the hands of several sessions: login, store, workshop, loadout, and what a client has been shown |
| `Match` | from the waiting room through the match: seats, tickets, match connections, loading, rounds, deaths |
| `Codec` | variable-length integers, frames and envelopes, as functions |
| `Wire` | the goroutines of the connections: reading and handling frames, the handshake, sending, the registry of sessions, credentials, chat |
| `MCRooms`, `MCClans`, `MCFriends`, `MCHangar`, `MCMatch`, `MCWire` | symmetries, a catalog and client scripts for the small instances; the other values are in the `.cfg` files |
| `RowLemmas` | proofs about `Rows` |
| `RoomsProofs` | proofs about `Room` and `Rooms` |
| `ClansProofs` | proofs about `Clan` and `Clans`, requests overlapping |
| `ClansSerialProofs` | proofs about `Clans` with one request at a time, and that it implements `ClanRules` |
| `FriendsProofs` | proofs about `Friends`: ids and requests; friendships and screens while requests come one at a time |
| `HangarProofs` | proofs about `Account` and `Hangar`: wallets, serials, slots and heroes; what is worn is owned, and copy and client agree, while requests come one at a time |
| `MatchProofs` | proofs about `Match`: leaders, tickets, loading, rounds and scores |
| `WireProofs` | proofs about `Codec` and `Wire`: frames read back and sent whole, counters, the registry of sessions |

### Rooms

`registry` and `lastRoom` are the fields of `RoomRegistry`; `number`,
`maxUsers` and `users` those of the `Room` values; `room` and `roomUser` those
of `sessionData`. `pc`, `target`, `team` and `seat` are the program counter and
the local variables of the handler a connection is in. Each stretch of a
handler between two lock acquisitions is one action:

| Handler | Actions |
|---|---|
| `bindPlayer` | `BindPlayer` |
| `createRoom` | `CreateRoom`, `SetSessionRoom`, `CreateEnds` |
| `joinRoom` | `JoinFind`, `JoinNextTeam`, `JoinAddUser` or `JoinFull`, `SetSessionRoom`, `JoinEnds` |
| `leaveRoom` | `LeaveRoom`, `CloseRoom` if that emptied the room, `ForgetRoom` |
| `releaseSession` | `Disconnect` or `DisconnectOutside`, `CloseRoom`, `ForgetRoom` |

`Open` runs under the registry's lock from the first look at a number to the
insertion, so `NextNumber` is an operator and not a loop. When no number is
free the code spins for ever holding the lock; the action is disabled instead,
and this is a hazard without a property. A `Room` value exists from
`CreateRoom` until nothing refers to it, and may then be allocated again.
Joins that are refused for the number or the password change nothing and are
left out. The password, the map, the title and the broadcasts are too. The
leader and the match connection of a player, which shares the room and the
seat of the lobby connection, are in `Match`. Two things the module shows and
no property forbids: joins that overlap may be put in the same team, as
`NextTeam` and `AddUser` take the lock separately, and a join that found its
room before the last user left is seated in a room that is off the list.

### Clans

`clans` is the collection of documents, `account` the clan name in the account
documents, `session` the one in the copy that the player's session carries. A
handler reads the name from its session, loads the document and decides in one
step, named after its service method. What it then has to write is put into
`todo[p]`, computed from the document as loaded, and each call is a step of its
own: `Saving` (`SaveRoster`, `SaveMembers`, `SaveLeadership`, ...: the fields of
the record are the slices written), `Deleting`, `FindingByMark`,
`FindingPlayer`, `SettingClanName`, `SettingSession`, `Binding`. So two
handlers that overlap overwrite each other exactly as whole-slice writes do.

`Fail` ends a handler at any call, as an error of the database does, and undoes
nothing. `Crash` ends all handlers and sessions and keeps the documents.
`Logout` ends a session. `Login` loads the account and binds the copy in two
steps; the store and loadout handlers refresh the copy of an open session in
the same way.

One player stands for one session, and reading the session's clan name and
loading that document are one step. Names are model values, as the code compares them after
trimming; ranks and member ids are the code's numbers. Whether the player owns
the emblem item is left open; it is spent as `SpendConsumable` of `Hangar`
spends it. Kept apart from the properties: texts, levels, points, times.

### ClanRules and the refinement

`ClanRules` says what a member of rank R may do and what follows, with ranks,
queues and membership as sets and functions. `Clans` implements it when
requests do not overlap (`MaxOverlap = 1`): property `ImplementsRules`. The
mapping looks at `ClanAfter` and `AccountAfter`, the documents and accounts
with the writes that wait in `todo` applied; the step that decides a request is then the abstract
step, and the writes are stuttering. That is where a stale clan name in a
session, an id that means two people or a half-cleared account would show. With
overlapping requests the implementation is false, and two runs say what
survives and what does not.

### Friends

`social` holds both lists of each account, `panel` what the social screen of a
player has been told, `todo` what a handler has left to do: `Saving`
(`SaveSocial` writes both lists of one account), `FindingSender`,
`FindingOther` and `FindingInvited` (the second account of an operation is
loaded only after the first is saved), `Telling` (a push to the sessions of an
account) and `Showing` (the lists sent at login). `Request`, `Accept`,
`Reject`, `Delete` and `Invite` are the methods of the service up to their
first write. `Fail` and `Crash` are as in `Clans`. `calm` records that no
requests have overlapped, none was cut off and no id has wrapped to zero;
`MutualFriends`, `TwiceAtMost` and `PanelAgrees` speak of calm behaviours only,
`SocialIDsUnique` and `AskedOnce` of all.

### Account and Hangar

`Account` is `models/player.go`, `models/inventory.go` and the helpers of
`player_service.go` that change a copy in memory: purging, handing out the
starter heroes, adding to the inventory, consuming materials, equipping,
mounting. `Hangar` has the stored `account`, the clock, the sessions that have
the account `bound`, and `todo`. Each operation loads the account, decides, and
leaves its writes: `Committing` (`CommitInventory`: the whole inventory, and
the debit only if the stored balance covers it), `SavingLoadout`,
`SavingAttachments`, `Creating`, `FindingAgain` (when another login created the
account first), `Binding`, `BuyingFor` and `MountingBought` (a part bought for
a weapon is paid first and mounted by a second load and save) and `Answering`
(the session's copy, and what the client is told). `view` follows one session:
its copy and its client's hangar, until another session acts, since the server
tells the first one nothing. `mishaps` counts requests that overlapped or were
cut off; `GoodsPaid` and `WornOwned` are about behaviours with none, the others
about all.

The loops that copy a slice and skip some of it are the operator `Keep` of
`Rows`, which names the places that stay. It is the library's `SelectSeq`
(`MCHangar` has TLC compare the two), which is defined by recursion and so out
of the provers' reach.

What the code leaves to the client is left to constants: `Equip` and `Attach`
do not look whether an item is of a kind that can be equipped, and a stack that
was mounted and is then used up leaves its serial behind; `Worn` and `Parts`
say which items a client offers. Overlapping purchases are lost, one inventory
overwriting the other, and so paid for in vain: a known limit of whole-slice
writes that no property contradicts.

### Match

`users` are the seats, `lobby` the room and seat of a lobby session, `tickets`
the map of `matchTickets` with the counter in `issued`, `conn` the second
connection that each client opens for a match, `joined` and `loaded` the fields
of `matchSessions`, `advert` and `client` what a client has been sent. Creating
a room and leaving one are single steps and rooms stand for their numbers,
since those races are the subject of `Rooms`; joining takes two steps, since a
join may find its room before the last user leaves. `GameStart` lists the
sessions, and `Issue` reads each one's seat when it gets to it. `MatchStart`
redeems and binds, `JoinMatch` enters the match, `LoadComplete` and `TellOn`
are the two halves of `loadComplete`; `BeginRound`, `TimeOut`, `TellRound` and
`TellOver` are those of the round handlers. A dropped match connection gives up
the seat of the lobby session (`MatchDrop`), as `releaseSession` does. The
client is external: it reports loading once, deaths of its own player by places
in its snapshot, and the end of a round it is in.

### Codec and Wire

`Codec` keeps the marker and the length of a frame byte by byte and gives each
field of an envelope one cell, since an envelope is read only when it is whole.
`Group` is the number of values in a varint group; with 128, the code's, the
functions give the bytes that the tests of `varint_test.go` expect.

In `Wire`, `inbox` is what a client will send, and `Read` takes any part of it,
so that frames arrive cut at every place. `todo` holds what is left of the
handler in hand, one item for each message to send. `BeginSend` takes the
mutex of the connection written to, fixes the payload with its counter and
starts the frame; `Write` lets the client take a part or all of the rest;
`WriteFails` is the error once the client has gone. The server breaks off after
an error of a handler ("closing") and the client may leave at any time
("gone"); a connection that has seen both is "lost". A push looks up the
sessions of an account (`LookUpSessions`) and writes to each, any of which may
have gone meanwhile. `bindPlayer` replaces the session's state and then binds
it, in two steps (`Identified`, `Bind`). `Release` merges `releaseSession` and
`Close`, between which nothing looks at the connection. Scripts stand for the
clients; a call of the database that fails is a request refused or dropped.

## 3. Runs

| Run | Instance | What it shows |
|---|---|---|
| `rooms_seats` | 3 connections, 1 room of 2 seats, seat ids up to 3 | `TypeOK`, `SeatIDsUnique`, `CapacityRespected`, `HoldsOwnSeat`, the inductive `RoomsInv`, and `EmptyRoomsClose` under fairness |
| `rooms_registry` | 2 connections, 2 rooms, 2 numbers, 16 seats, seat ids up to 3 | `RegistryAgrees`, `EmptyRoomHasCloser`, `OnlyOwnSeatGivenUp`, `ListedRoomNotReplaced` |
| `clans_apart` | 2 players, 2 clans, 2 emblems, one request at a time, logouts | `MembershipAgrees`, `RepaintUnique`, `ImplementsRules` |
| `clans_faults` | 3 players, 1 clan, failing calls, logouts, crashes | `RowIDsDistinct`, `LeaderNamed` |
| `clans_races` | 3 players, 1 clan of 2 members, requests overlap in pairs | `AtMostOneMaster`, `ClanNotOverfull`, the inductive `ClansInv` |
| `clans_accepted` | 2 players, 2 clans | finding: `OneClanPerPlayer` is violated |
| `clans_handover` | 2 players, overlapping | finding: `MasterLeavesLast` is violated |
| `friends` | 2 players, ids up to 3, requests overlap, logouts, failing calls, crashes | `SocialIDsUnique`, `AskedOnce`; for calm behaviours `MutualFriends`, `TwiceAtMost`, `PanelAgrees` |
| `hangar` | 2 sessions, 5 items, 3 serials, up to two mishaps | `WalletSound`, `SerialsUnique`, `OnePerSlot`, `HeroesEquipped`; `ViewAgrees` while one session acts; without mishaps `WornOwned`, `GoodsPaid` |
| `match` | 2 players, 2 rooms, 2 match connections, tickets 0 and 1, one departure | `TicketsLeadBack`, `LeaderIsCreator`, `AllLoadedHear`, `ScoresCredited`, `RoundsKept` |
| `match_alone` | 2 players, 1 room | finding: `StartsTogether` is violated |
| `wire` | 2 connections, 3 pairs of scripts, reads and writes of 3 cells or all, one client goes | `FramesWhole`, `CountersInOrder`, `RegistryMirrors`, `LinesReachAll`, and `HandlersEnd` under fairness |

Every property is one that some plausible slip in the code breaks: the
"faulty variants" beside the definitions are such slips, and with one of them
in place the run finds the property violated.

### Bounds

- `MaxSeatID`: nobody starts a join that could be given a larger id. Three ids
  with two seats are enough for an id to be given out, freed, and given to
  someone else while its first holder still remembers it. The code's `uint32`
  would take four thousand million joins of a room that never empties.
- `MaxNumber`: 2 in `rooms_registry`, so the numbers go round at once and the
  counter meets numbers that are still in use.
- `RequestedMax`: the max-users byte of a create request: 2, so that rooms fill
  up, or 0, which `parseCreate` reads as 16.
- Three connections: a creator, a joiner, and one that comes between two steps
  of the others. The proofs remove this bound, and the ones above.
- `MaxGivenID`: nobody applies to a clan once one of its ids is as large. Three
  or four, so that ids are handed out again after members leave.
- `MaxOverlap`: how many requests are under way at once; two in `clans_races`,
  as a lost update takes two.
- `Capacity`: two or three instead of fifty, so that clans fill up.
- `AskedRanks`: position bytes a client may send, assignable and not.
- `Disruption`: which of logout, failing call and crash a run includes.
- `Followed` (`friends`): whose screen is kept; one player's, the other's
  mirrors it. `MaxRows`: two rows, a request and a friend, are where ids are
  shared out between the lists; `MaxSocialID` 3, so that ids wrap to zero.
- `MaxSerial` 3 with three things to own fills the inventory, where `NextSerial`
  gives zero. `MaxTime`, `MaxExpiry`: a rental runs out, and may be extended
  once. `MaxMishaps`: two, since a lost update takes two requests and a cut.
- `MaxTicket` 1, so that tickets come round after two; `MaxIssued` 3, one more.
  `MaxLeaves` 1; with 2 the same properties hold on 6.8 million states.
- `Group` 4 and `MaxFrame` 9: frames of up to nine cells have lengths of one
  and of two bytes, with and without the extra group that keeps the sign bit
  clear. `Counts` 4: the counter goes round within a script. `Pieces`: three
  cells end inside the marker, the length or the payload. `MaxDrops` 1.

`SYMMETRY` is used only in runs whose properties are invariants or action
properties, and for refinement, whose mapping treats players and names alike;
the run with a liveness property uses none.

### Fairness

`FairSpec` of `Rooms` gives each connection weak fairness of `HandlerStep`: a
goroutine that can run does run, and no lock is held for ever. Starting a
handler is up to the client and gets no fairness, nor does dropping the
connection. `EmptyRoomsClose` rests on this alone.

`Fairness` of `Wire` is weak fairness of each goroutine's work and of the
server's part of a write: a goroutine that is not waiting for a mutex goes on,
and the client at the other end takes in what is written to it or goes away.
Clients send, and leave, as they like. The assumption about clients is needed:
the code sets no write deadline, so a client that stays connected and never
reads holds up whoever pushes to it, and then everyone who waits for that
mutex. The other modules state no liveness property and assume no fairness.

### Disagreements between code and documentation

- `server/docs/CLAN_EVENT_FLOW_RESEARCH.md:180` says the accept command must
  recheck that the applicant has no clan. Neither it nor the founding of a clan
  does, and a player ends up in two (`clans_accepted`).
- `PROGRESS.md:87` says a master cannot leave while members remain. The rank is
  checked on a copy, and a handover saved in between is overwritten
  (`clans_handover`).
- `PROGRESS.md:107` says a match starts only after all players enter. Whether
  all have loaded is asked of those who have joined so far, so a player who
  loads before the other's match connection arrives starts alone
  (`match_alone`).

## 4. Proofs

`RowLemmas` proves, for slices of any length whose rows have a natural number
as their id, that the next id is fresh, that appending under it keeps ids
unique, that the first row with an id is found, and that cutting it out removes
that row and keeps the others in order. A cut and `Keep` leave some of the
rows, each at most once (`Thinned`), so what no two rows share before they do
not share after; and a counter that wraps tells apart as many numbers as its
width (`ModApart`).

`RoomsProofs` proves for any number of connections, rooms, room numbers and
seats, from `RoomsAssumption` alone (`NoRoom` is no room, there is a room
number, the bytes are natural numbers):

| Theorem | Statement |
|---|---|
| `RoomsInvariant` | `Spec => []RoomsInv` |
| `TypeCorrect`, `SeatIDsStayUnique`, `CapacityKept`, `OwnSeatHeld`, `RegistryAlwaysAgrees`, `NoRoomStranded` | the invariants the runs check |
| `NumbersNotStolen`, `SeatsOnlyGivenUp` | the action properties `ListedRoomNotReplaced` and `OnlyOwnSeatGivenUp` |

The argument. `HoldsOwnSeat`, the property that matters to every later request
of a session, speaks of sessions between handlers and is not inductive.
`SessionsConsistent` carries it through them: while a handler looks for another
room the old seat is held (`Looking`); a joiner holds the seat that `AddUser`
returned before its session says so (`Seated`); and a creator is the *first*
user of its room until it has read `Users[0].ID` (`Created`), which is why that
read is right although others may have joined. `SeatIDsUnique` is needed to
preserve all three: when a session gives up its seat the row that goes is its
own, since no other row has that id. `RegistryAgrees` makes `Close(room.Number)`
take off the room that was emptied and so keeps `EmptyRoomHasCloser`. One lemma
per action proves that it preserves `RoomsInv`, and `NextInv` joins them.

`ClansProofs` proves, for any number of players, clans, overlapping requests,
failing calls, logouts and crashes, from `ClanAssumption` and
`ClansAssumption`:

| Theorem | Statement |
|---|---|
| `ClansInvariant` | `Spec => []ClansInv` |
| `OneMaster`, `LimitKept` | the invariants `AtMostOneMaster` and `ClanNotOverfull` |
| `TypeCorrect` | `Spec => []TypeOK` |

The argument. A save replaces a whole slice, so whatever is saved was sound
when it was made, and it stays so however late it lands: `ClansInv` demands the
same of the rosters waiting in `todo` as of those in the documents, and not
that they agree. What has to be shown is that each service makes a sound
roster out of a sound one. "One master" alone is not enough for `ChangeMaster`,
which demotes the first row with the actor's id: overlapping requests can give
one id to two members, and if the master's row were the second of them another
row would be demoted and two masters left. So `SoundRoster` says that a master
is the first row with its id. Cutting rows out and appending plain members keep
that, and the successor `SetRank` finds is again the first with its id. That
there is at least one master, or that ids are distinct, is *not* invariant when
requests overlap.

`ClansSerialProofs` proves, for any number of players, clans, members, emblems
and ranks asked for, what holds when requests are served one at a time
(`MaxOverlap = 1`) and no id wraps to zero (`MaxGivenID <= MaxRowID`: nobody
applies once the clan has given out 65535):

| Theorem | Statement |
|---|---|
| `SerialInvariant` | `Spec => []SerialInv` |
| `RowIDsAlwaysDistinct`, `LeaderAlwaysNamed` | the invariants `RowIDsDistinct` and `LeaderNamed` |
| `RepaintAlwaysUnique` | the action property `RepaintUnique` |
| `CalmInvariant`, `MembershipAlwaysAgrees` | `Spec => []CalmInv`, and the invariant `MembershipAgrees` |
| `ClansImplementRules` | `Spec => ImplementsRules` |

Both hypotheses are needed, and the code guarantees neither: two requests that
overlap overwrite each other's slices (`clans_handover` shows one way), and
`nextApplicantID` wraps. The first three results allow failing calls, logouts
and crashes. `CalmInv` and the two that rest on it allow logouts only
(`Disruption \subseteq {"logout"}`), since a call that fails between the roster
and the account leaves the two in disagreement. TLC checked `SerialInv` and
`CalmInv` on the instance of `ClansApart.cfg` before they were proved.

The argument. Between two calls of a handler the documents are half written,
so `SerialInv` says of every document that it is good as it is saved, and of
the one write that waits (`OneWrite`) that it makes a good document of the one
that is there when it lands (`GoodWaiting`); nobody else writes meanwhile
(`Alone`). A good document has distinct ids in and across its slices, nobody in
two rows, nobody both a member and an applicant, and the master's rank in the
row the master field names and in no other. Nobody in two rows is what makes
"the row of p" and "the row with p's id" the same row. For `RepaintUnique`, an
emblem that waits to be saved either waits behind the look for its wearers or
is worn by nobody (`LooksFirst`); a founding that could put it on meanwhile
would overlap.

`CalmInv` adds what holds while handlers are not cut off. It speaks of
`ClanAfter` and `AccountAfter`, which the calls of a handler do not change, so
that between two calls the invariant is kept by not moving: the clan that an
account will name lists the player, and a session names that clan or the call
that says so is on its way (`CopiesFollow`). The look for an emblem's wearers
is the only call that may drop the ones behind it, and no roster and no name is
among those (`LooksOnly`).

The refinement follows, action by action: `ActorHolds` turns `actorClan`'s look
at the session and the roster into the abstract guard, since the session agrees
with the account; each service's lemma (`AcceptRules`, `KickRules`, ...) gives
the abstract step from what the saved slice does to the ranks; and a call of a
handler, a login, a logout or a new emblem changes no roster and no name
(`RosterStays`). The limit of `Accept` needs that a clan has no more people
than rows.

`FriendsProofs` proves, for any number of accounts, overlapping requests,
failing calls, logouts and crashes and any width of the ids, from
`FriendsAssumption` and `OfflineAssumption` (being offline is no screen):

| Theorem | Statement |
|---|---|
| `FriendsInvariant` | `Spec => []FriendsInv` |
| `SocialIDsAlwaysUnique`, `AlwaysAskedOnce` | the invariants `SocialIDsUnique` and `AskedOnce` |
| `FriendsTypeCorrect` | `Spec => []TypeOK` |

The argument is that of the clans: both lists of an account are saved together,
so whatever was sound when it was made stays so however late it is saved.
`Kept(p)` are the lists that are sound for p: ids distinct but for the wrapped
zero, no two requests from one player and none from p itself. `FriendsInv` says
that every account's lists are in it and every list that waits in a `todo`.
For a handler that has yet to load the other account, `SoundCall` demands it of
what *will* be saved, `Befriend(copy, row)`, since the copy alone still lacks
the row. The id must come from both lists at once: the friend's row that
`Befriend` adds keeps the request's id, which no other row of that copy has.

The same module proves what holds while requests are served one at a time, none
is cut off and no id wraps to zero (`calm`):

| Theorem | Statement |
|---|---|
| `CalmInvariant` | `Spec => []CalmInv` |
| `AlwaysMutualFriends`, `AlwaysTwiceAtMost`, `PanelsAlwaysAgree` | the invariants `MutualFriends`, `TwiceAtMost`, `PanelAgrees` |

An acceptance saves one account, then looks up the other and saves that, so in
between the two lists disagree. `CalmInv` therefore speaks of `After`: what the
accounts hold once the handler at work has made its calls. No call of a handler
changes that, so only the first step of each operation has to be shown to make
accounts that are `Settled`: friends mutual, nobody their own friend, and at
most two rows between two players. `ScreenDue` says the same of the screens:
what a player has been shown is what the accounts will hold, or the one push
that makes it so is still to come. `InOrder` is the order of the calls, saves
before pushes, that both rest on. The lemmas on `Times` and `Range` say how
often a player is in a list that grew by a row or lost one. Ids are
distinct only while none is zero, and a row is removed by its id, which is why
`calm` ends when zero is given out.

`HangarProofs` proves, for any catalog, any number of sessions, any bounds and
any disruption, from `AccountAssumption` and `HangarAssumption`:

| Theorem | Statement |
|---|---|
| `HangarInvariant` | `Spec => []HangarInv` |
| `WalletAlwaysSound`, `SerialsAlwaysUnique`, `AlwaysOnePerSlot`, `HeroesAlwaysEquipped` | the invariants `WalletSound`, `SerialsUnique`, `OnePerSlot`, `HeroesEquipped` |

The argument. Inventory, loadout and attachments are each saved as a whole,
from copies that may be out of date, so none of them may be asked to agree with
another; each has to be sound by itself. `HangarInv` says so of the account and
of everything that waits to be saved (`SoundCalls`), and that whoever has
something to save has an account to save it to. A purchase appends under a
serial that is free *in the copy it is saved with*; a purge, crafting and
spending leave some of the rows. Only the wallet is not replaced: the debit is
taken from the stored balance, and only if that covers it. `HeroesEquipped`
rests on `CastSound`: equipping a hero on one side leaves the other side's
entry alone, and a serial found in a sound inventory means one item.

What parts of an account have to agree on holds while requests do not overlap
and are not cut off:

| Theorem | Statement |
|---|---|
| `OwnedInvariant`, `WornAlwaysOwned` | `NothingWornUsedUp` implies `Spec => []OwnedInv`, and `WornOwned` |
| `ViewInvariant`, `ViewAlwaysAgrees` | with `PartsLast` as well, `Spec => []ViewInv`, and `ViewAgrees` |

The two hypotheses are about the catalog and are not enforced by the code.
`NothingWornUsedUp`: no recipe takes, and no operation spends, an item that may
be equipped or mounted. `PartsLast`: a part that fits a weapon is not rented.
The catalog that the server comes with satisfies them: the materials of
`Recipe.csv` and the items with a function are of groups that are not equipped,
and no part of `PartLinkTable` has a use time. Without the first, crafting
leaves the serial of what it used up in the loadout. Without the second, a part
that was bought for a weapon could run out before it is mounted; the mounting is
then refused and the client never hears of the purchase. The instance of
`Hangar.cfg` satisfies them too, and TLC checked `OwnedInv` and `ViewInv` on it
before they were proved.

The argument. Between the saves of a handler the inventory is new and the
loadout old. `Outcomes` are the accounts there may be once the waiting saves
are made (a refused debit makes none of them, and nothing has been saved by
then); making one of them leaves no other outcomes than there were, so
`OwnedInv` asks of the outcomes that what is worn is owned (`Owns`), and only
the first step of each operation can put that at risk. There the lemmas say
that what can be worn is carried over by each change of the inventory
(`Carried`): purging removes from loadout and attachments the serials it
removes, and crafting and spending touch other items. `ViewInv` says of the
session that is followed that the copy in its last call, `answer` or `bind`, is
the only outcome there is (`WillAgree`, `WillBind`), and that what the client
will be told makes of its hangar what that account holds. A handler whose debit
may still be refused has changed nothing yet, so that a refusal leaves account,
copy and client in agreement.

`MatchProofs` proves, for any number of players, rooms and match connections,
any width of the ticket counter and any number of rounds, from
`MatchAssumption`:

| Theorem | Statement |
|---|---|
| `LeaderInvariant`, `LeaderAlwaysCreator` | `Spec => []LeaderInv`, and the invariant `LeaderIsCreator` |
| `MatchTypeCorrect`, `LoadInvariant` | `Spec => []MatchTyped`, `Spec => []LoadInv` |
| `AllLoadedAlwaysHear`, `RoundsAlwaysKept`, `TicketsAlwaysLeadBack`, `ScoresAlwaysCredited` | the invariants `AllLoadedHear`, `RoundsKept`, `TicketsLeadBack`, `ScoresCredited` |

The leader's id is that of the first seat of an empty room, and ids are given
out again, so `LeaderIsCreator` rests on when a room is empty:
giving up the last seat closes it in the same step, hence a listed room always
has somebody in it and a newcomer's id is larger than one. `LeaderInv` adds that
a room somebody sits in, or is about to join, has been created; otherwise its
creation could find others there who hold the leader's id. Nothing is said of
rooms that are closed: there a late join does become the leader, as the
comment on `LeaderIsCreator` says.

`MatchTyped` keeps the types the other arguments need, and that a connection
not in use has told its client nothing. For `AllLoadedHear`, `LoadInv` says
that whoever is in a match is bound to its room and entered before it loaded,
and `WillHear` that once all have loaded, either all have been told or one of
them still has `tellOn` to do: the last to load sees that it is the last,
whatever order they load in. A departure breaks this, and `deserted` rooms are
exempt. For `RoundsKept`, `RoundInv` bounds the round of the room and of each
pending announcement, and says that a pending end of the game means the last
round, which no later report undoes. For `TicketsLeadBack`, a ticket is its
number of issue modulo the width of the counter, so two tickets issued less
than a width apart differ (`ModApart`) and the entry of one is not overwritten
before the other's turn has come round. For `ScoresCredited`, the places in a
client's snapshot and the ids of the seats coincide as long as nobody has left
(`Settled`), so that naming the killer by place and recording the death by id
mean the same player. The invariants were checked by TLC on the instance of
`Match.cfg` before they were proved, as those of `Friends` and `Hangar` were on
theirs.

`WireProofs` proves, for any number of connections and accounts and whatever
the clients send, from `WireAssumption`, `CodecAssumption` (a frame may be no
longer than a length of five varint groups can say) and `ScriptsAssumption`
(what clients write are numbers):

| Theorem | Statement |
|---|---|
| `WireInvariant` | `Spec => []WireInv` |
| `RegistryAlwaysMirrors` | the invariant `RegistryMirrors` |
| `FrameReadBack` | every beginning of a frame that `EncodeFrame` makes is kept by `ParseFrames` as it is, and the whole is read as its payload |
| `SendInvariant` | `Spec => []SendInv` |
| `FramesAlwaysWhole`, `CountersAlwaysInOrder` | the invariants `FramesWhole`, `CountersInOrder` |

The argument. The registry and the session's own account change in different
steps, the one when the login handler identifies the session and the other when
its goroutine binds it, and a client may go away in between. What keeps them
together is that one goroutine does all of it: `WireInv` says that a session
waiting to be bound has work and sends nothing yet, that a goroutine without
work sends nothing, and that a connection that has ended has no work. So
nothing is bound after the session was released. `QuietStep` settles every
step that leaves the accounts alone; binding and releasing are proved in full.

`FrameReadBack` rests on the varint lemmas: the groups of a length are fewer
than six, all but the last carry the continuation mark, and decoding adds up
what encoding took apart. As induction theorems are out of reach, the proofs by
induction on the number of groups are by the least counterexample
(`LeastNat`). `SendInv` then adds to `WireInv` that a mutex
is held by the one that is writing (`Exclusive`); that a client still there
lacks nothing but the rest of the frame in hand, so that what it has and that
rest make one frame (`Delivered`, `UnderWay`); and that the counter is the
number of encrypted messages given out (`Counted`). Since a counter is drawn and
its message put in line under one mutex, the messages arrive in the order of
their counters. The attempt found the model wrong in one place: a connection
whose client had left before a handler failed was taken to be still written to;
it is "lost" now, as in the code.

Only model-checked: `EmptyRoomsClose` and `HandlersEnd`, which are liveness and
so beyond the prover; `GoodsPaid`, which adds up what an inventory is worth, so
that a proof would be an induction over its rows, and which holds only for goods
that recipes neither make nor take; and `LinesReachAll`. That each line is heard
once holds only where the scripts say each line once, and a session that changes
its account and back while a line goes round is missed, so it is a property
of what the clients of the instance do. The bounds of the specifications
(`MaxSeatID`, `MaxGivenID`, `MaxOverlap`, `MaxIssued`, `MaxKills`, `MaxLeaves`
and the like) are part of what the theorems speak of, as arbitrary constants;
only the proofs of `ClansSerialProofs` use them beyond their types.

## 5. What could be added

- A run of `Clans` with a small `MaxRowID`, where `nextApplicantID` wraps to
  zero and stays there.
- The ready states and loading percentages of a room, for a property about what
  its clients show.

## 6. Not modelled, and why

RSA, AES and the padding inside them are library calls; `Wire` keeps what
depends on them, the key being there or not and the length of a message.
Strings and the layout of the rows sent to clients (`string.go`, `payloads.go`,
the `append...` functions) are not a matter of state. The catalog is read once
from files and taken as constants. Renaming (`SetName`) writes one field that
nothing else here reads. Levels and experience are stored and
never changed, so that the level limit of an item makes it sold or not.
Loading percentages, respawns, hits and weapon changes of a match are relayed
as they come. A room with `RoundLimit` 0 plays rounds without end and is left
out. The launcher's pages, health check, configuration, logging and database
connection are input and output; the client stubs are not part of the server.

Known and not forbidden by any property, since nothing in the repository
promises otherwise: a match in which somebody dropped or left while loading is
never announced to those who wait; a credential keeps the copy of the account
it was issued with, and a session that redeems it starts from that copy; scores
and rounds of a room are not reset between its matches.
