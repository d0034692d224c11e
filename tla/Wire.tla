--------------------------------- MODULE Wire ---------------------------------
(***************************************************************************)
(* The connections of the lobby server and what is sent over them: reading *)
(* and handling frames (proudnet/server.go), the handshake, the sending    *)
(* mutex and the encryption counter (session.go), who is online            *)
(* (session_registry.go), credentials (identity.go), the login handlers    *)
(* (auth.go, channel.go) and the chat (chat.go).                           *)
(*                                                                         *)
(* Each connection has a goroutine of its own.  todo[c] is what it has     *)
(* left to do for the frame in hand, and a frame goes out in pieces, so    *)
(* that two goroutines may be sending to one connection.  inbox[c] is all  *)
(* that the client sends; it may be read as late as one likes.  Accounts,  *)
(* tokens and lines of chat are numbers, since they travel in messages.    *)
(***************************************************************************)
EXTENDS Codec

CONSTANTS
    Connection,  \* the accepted connections
    Account,     \* the accounts, numbered from 1
    Token,       \* the 16-byte connect guids, as numbers
    Mates,       \* the members of the clan that the chat knows of
    Nobody,      \* nobody holds the mutex
    Scripts,     \* external: what the clients at the connections may send
    Pieces,      \* how much a read or a write may come to, short of everything
    Counts,      \* the width of encryptCount (65536)
    MaxDrops     \* bound: how many clients go away

ASSUME WireAssumption ==
    /\ Account \subseteq Nat \ {0}
    /\ Token \subseteq Nat \ {0}
    /\ Mates \subseteq Account
    /\ Nobody \notin Connection
    /\ Counts \in Nat \ {0}
    /\ Pieces \subseteq Nat \ {0}
    /\ MaxDrops \in Nat

VARIABLES
    status,     \* "open", "gone" when the client is, "closing" after an error,
                \* "lost" after both, "closed"
    inbox,      \* what is still to be read
    pending,    \* the part of a frame that has been read
    frames,     \* the frames read and not handled
    todo,       \* what the goroutine has left to do
    binding,    \* whether it is between setting Session.State and binding the session
    writing,    \* the frame it is sending: to whom, and what is left of it
    lock,       \* sendMu: the connection whose goroutine holds it
    key,        \* established, and with it sessionKey
    count,      \* encryptCount
    guid,       \* connectGUID, zero when there is none
    player,     \* Session.State: the account, zero when there is none
    channel,    \* Session.State: the channel
    byAccount,  \* SessionRegistry.bySteamID
    bySession,  \* SessionRegistry.bySessionID, zero when there is none
    tokens,     \* Credentials.byToken
    got,        \* external: the payloads that each client has received
    part,       \* external: the part of a frame it has received besides
    sent,       \* history: the payloads given to each connection, in order
    due,        \* history: who was online when a line was said to all
    drops       \* history: how many clients have gone away

reading  == <<inbox, pending, frames>>
crypto   == <<key, count>>
identity == <<guid, player, channel, tokens>>
registry == <<byAccount, bySession>>
client   == <<got, part>>
vars == <<status, reading, todo, binding, writing, lock, crypto, identity, registry, client, sent, due, drops>>

NotWriting == [to |-> Nobody, rest |-> <<>>]

\* What a client writes that sends these payloads.
Stream(payloads) ==
    FlattenSeq([i \in DOMAIN payloads |-> EncodeFrame(Reliable, payloads[i])])

ASSUME ScriptsAssumption ==
    \A script \in Scripts : \A c \in Connection : Stream(script[c]) \in Seq(Nat)

Init ==
    /\ \E script \in Scripts : inbox = [c \in Connection |-> Stream(script[c])]
    /\ status = [c \in Connection |-> "open"]
    /\ pending = [c \in Connection |-> <<>>]
    /\ frames = [c \in Connection |-> <<>>]
    /\ todo = [c \in Connection |-> <<>>]
    /\ binding = [c \in Connection |-> FALSE]
    /\ writing = [c \in Connection |-> NotWriting]
    /\ lock = [c \in Connection |-> Nobody]
    /\ key = [c \in Connection |-> FALSE]
    /\ count = [c \in Connection |-> 0]
    /\ guid = [c \in Connection |-> 0]
    /\ player = [c \in Connection |-> 0]
    /\ channel = [c \in Connection |-> 0]
    /\ byAccount = [a \in Account |-> {}]
    /\ bySession = [c \in Connection |-> 0]
    /\ tokens = [t \in Token |-> 0]
    /\ got = [c \in Connection |-> <<>>]
    /\ part = [c \in Connection |-> <<>>]
    /\ sent = [c \in Connection |-> <<>>]
    /\ due = {}
    /\ drops = 0

-----------------------------------------------------------------------------
(***************************************************************************)
(* Reading.  A goroutine reads again once every frame it has read is done  *)
(* with.                                                                   *)
(***************************************************************************)
Idle(c) == todo[c] = <<>> /\ frames[c] = <<>>

Amounts(all) == {n \in Pieces : n < all} \cup {all}

\* The loop of handleConnection ends with an error.
Breaks(c) == status' = [status EXCEPT ![c] = IF @ = "open" THEN "closing" ELSE "lost"]

Read(c) ==
    /\ status[c] \in {"open", "gone"} /\ Idle(c)
    /\ inbox[c] # <<>>
    /\ \E n \in Amounts(Len(inbox[c])) :
         LET parsed == ParseFrames(pending[c] \o SubSeq(inbox[c], 1, n))
         IN /\ inbox' = [inbox EXCEPT ![c] = SubSeq(@, n + 1, Len(@))]
            /\ frames' = [frames EXCEPT ![c] = IF parsed.malformed THEN <<>> ELSE parsed.frames]
            /\ pending' = [pending EXCEPT ![c] = parsed.remaining]
            /\ IF parsed.malformed THEN Breaks(c) ELSE UNCHANGED status
    /\ UNCHANGED <<todo, binding, writing, lock, crypto, identity, registry, client, sent, due, drops>>

\* The client goes away: from here on writes fail, and so may reads.
Drop(c) ==
    /\ status[c] \in {"open", "closing"}
    /\ drops < MaxDrops
    /\ status' = [status EXCEPT ![c] = IF @ = "open" THEN "gone" ELSE "lost"]
    /\ drops' = drops + 1
    /\ UNCHANGED <<reading, todo, binding, writing, lock, crypto, identity, registry, client, sent, due>>

\* SessionRegistry.removeLocked, and Unbind of a session that may not be bound.
Unbound(c) ==
    /\ bySession' = [bySession EXCEPT ![c] = 0]
    /\ byAccount' = [a \in Account |-> byAccount[a] \ {c}]

\* The end of handleConnection: releaseSession, then Close.
Release(c) ==
    /\ \/ status[c] = "gone" /\ Idle(c)
       \/ status[c] \in {"closing", "lost"} /\ todo[c] = <<>>
    /\ status' = [status EXCEPT ![c] = "closed"]
    /\ inbox' = [inbox EXCEPT ![c] = <<>>]
    /\ pending' = [pending EXCEPT ![c] = <<>>]
    /\ frames' = [frames EXCEPT ![c] = <<>>]
    /\ Unbound(c)
    /\ UNCHANGED <<todo, binding, writing, lock, crypto, identity, client, sent, due, drops>>

-----------------------------------------------------------------------------
(***************************************************************************)
(* What a goroutine has to do: send to its own connection ("reply" ends    *)
(* the connection when it fails, "send" the handler), look up who is online,   *)
(* push to accounts, and write to the sessions of one account.             *)
(***************************************************************************)
Reply(payload)     == [op |-> "reply", what |-> payload, to |-> {}]
Plain(id, body)    == [op |-> "send", what |-> [id |-> id, body |-> body], to |-> {}]
Encrypted(id, body) == [op |-> "encrypt", what |-> [id |-> id, body |-> body], to |-> {}]
Both(id)           == <<Encrypted(id, <<>>), Plain(id, <<>>)>>
ToAll(line)        == [op |-> "all", what |-> line, to |-> {}]
Push(accounts, line) == [op |-> "push", what |-> line, to |-> accounts]
Tell(sessions, line) == [op |-> "tell", what |-> line, to |-> sessions]

Now(c) == Head(todo[c])

\* The goroutine turns to its next thing to do, which is of this kind.
Turns(c, ops) ==
    /\ todo[c] # <<>> /\ ~binding[c] /\ writing[c] = NotWriting
    /\ Now(c).op \in ops

\* The message ids, shortened: a request's, its answer's and its refusal's.
ID == [auth |-> 2, launcher |-> 3, create |-> 4, check |-> 5, list |-> 6, join |-> 7,
       all |-> 8, clan |-> 9, user |-> 10, open |-> 11,
       sendList |-> 12, notify |-> 13]

Requests == ID.auth .. ID.open
Answer(id) == 20 + id
Refusal(id) == 40 + id

Notify(line) == [id |-> ID.notify, body |-> <<line>>]

-----------------------------------------------------------------------------
(***************************************************************************)
(* Handling a frame: the handshake (handleFrame) ...                       *)
(***************************************************************************)
Ready(c) == status[c] \in {"open", "gone"} /\ todo[c] = <<>> /\ frames[c] # <<>>
InHand(c) == Head(frames[c])
NextFrame(c) == frames' = [frames EXCEPT ![c] = Tail(@)]
Do(c, what) == todo' = [todo EXCEPT ![c] = what]

Hello == 50
CryptoSetup == 6
Connect == 8
Heartbeat == 28
ConnectionParams == <<5, 0>>
ServerAuthSuccess == <<7>>
ServerConnectOK == 11

\* The types of frames that are handled, and whether one has what follows its type.
FrameTypes == {Hello, CryptoSetup, Connect, Heartbeat, EnvelopePlain, EnvelopeEncrypted}
HasFields(frame) == Len(frame) > 1
IsClientHello(frame) == FrameType(frame) = Hello /\ HasFields(frame)

HandleHello(c) ==
    /\ Ready(c) /\ IsClientHello(InHand(c))
    /\ NextFrame(c) /\ Do(c, <<Reply(ConnectionParams)>>)
    /\ UNCHANGED <<status, inbox, pending, binding, writing, lock, crypto, identity, registry, client, sent, due, drops>>

HandleCryptoSetup(c) ==
    /\ Ready(c) /\ FrameType(InHand(c)) = CryptoSetup /\ HasFields(InHand(c))
    /\ NextFrame(c) /\ Do(c, <<Reply(ServerAuthSuccess)>>)
    /\ key' = [key EXCEPT ![c] = TRUE]
    /\ UNCHANGED <<status, inbox, pending, binding, writing, lock, count, identity, registry, client, sent, due, drops>>

HandleConnect(c) ==
    /\ Ready(c) /\ FrameType(InHand(c)) = Connect /\ HasFields(InHand(c))
    /\ NextFrame(c) /\ Do(c, <<Reply(<<ServerConnectOK, InHand(c)[2]>>)>>)
    /\ guid' = [guid EXCEPT ![c] = InHand(c)[2]]
    /\ UNCHANGED <<status, inbox, pending, binding, writing, lock, crypto, player, channel, tokens,
                   registry, client, sent, due, drops>>

HandleHeartbeat(c) ==
    /\ Ready(c) /\ FrameType(InHand(c)) = Heartbeat
    /\ NextFrame(c) /\ Do(c, <<Reply(InHand(c))>>)
    /\ UNCHANGED <<status, inbox, pending, binding, writing, lock, crypto, identity, registry, client, sent, due, drops>>

\* A key exchange, a connect or an encrypted message that cannot be read ends the
\* connection.
Unreadable(c) ==
    \/ FrameType(InHand(c)) \in {CryptoSetup, Connect} /\ ~HasFields(InHand(c))
    \/ FrameType(InHand(c)) = EnvelopeEncrypted /\ (~key[c] \/ ~DecodeEncrypted(InHand(c)).ok)

HandleUnreadable(c) ==
    /\ Ready(c) /\ Unreadable(c)
    /\ Breaks(c)
    /\ UNCHANGED <<reading, todo, binding, writing, lock, crypto, identity, registry, client, sent, due, drops>>

-----------------------------------------------------------------------------
(***************************************************************************)
(* ... and the messages (dispatch).  A handler that fails has only been    *)
(* cut short: its error is logged.                                         *)
(***************************************************************************)
Request(c) ==
    IF FrameType(InHand(c)) = EnvelopeEncrypted THEN DecodeEncrypted(InHand(c))
    ELSE DecodePlain(InHand(c))

Dispatch(c, ids) ==
    /\ Ready(c)
    /\ \/ FrameType(InHand(c)) = EnvelopePlain
       \/ FrameType(InHand(c)) = EnvelopeEncrypted /\ key[c]
    /\ Request(c).ok /\ Request(c).id \in ids
    /\ NextFrame(c)

\* What is not a frame or a message that the server knows is passed over.
HandleUnknown(c) ==
    /\ Ready(c) /\ ~Unreadable(c)
    /\ IF FrameType(InHand(c)) \in {EnvelopePlain, EnvelopeEncrypted}
       THEN ~Request(c).ok \/ Request(c).id \notin Requests
       ELSE \/ FrameType(InHand(c)) \notin FrameTypes
            \/ FrameType(InHand(c)) = Hello /\ ~IsClientHello(InHand(c))
    /\ NextFrame(c)
    /\ UNCHANGED <<status, inbox, pending, todo, binding, writing, lock, crypto, identity, registry,
                   client, sent, due, drops>>

Argument(c) == Request(c).body[1]

\* bindPlayer puts a fresh state on the session before it is bound.
Identified(c, a, answers) ==
    /\ player' = [player EXCEPT ![c] = a]
    /\ channel' = [channel EXCEPT ![c] = 0]
    /\ binding' = [binding EXCEPT ![c] = TRUE]
    /\ Do(c, answers \o <<Plain(ID.sendList, <<>>)>>)

\* The account cannot be loaded, or the token is unknown.
HandleAuth(c) ==
    /\ Dispatch(c, {ID.auth})
    /\ \/ Identified(c, Argument(c), Both(Answer(ID.auth)) \o Both(Answer(ID.launcher)))
       \/ UNCHANGED <<todo, binding, player, channel>>
    /\ UNCHANGED <<status, inbox, pending, writing, lock, crypto, guid, tokens, registry,
                   client, sent, due, drops>>

HandleCheckCredential(c) ==
    /\ Dispatch(c, {ID.check})
    /\ LET a == tokens[Argument(c)]
       IN IF a = 0 THEN UNCHANGED <<todo, binding, player, channel>>
          ELSE Identified(c, a, <<Plain(Answer(ID.check), <<>>)>>)
    /\ UNCHANGED <<status, inbox, pending, writing, lock, crypto, guid, tokens, registry,
                   client, sent, due, drops>>

HandleCreateCredential(c) ==
    /\ Dispatch(c, {ID.create})
    /\ IF player[c] = 0 \/ guid[c] = 0 THEN UNCHANGED <<todo, tokens>>
       ELSE /\ tokens' = [tokens EXCEPT ![guid[c]] = player[c]]
            /\ Do(c, <<Plain(Answer(ID.create), <<guid[c]>>)>>)
    /\ UNCHANGED <<status, inbox, pending, binding, writing, lock, crypto, guid, player, channel, registry,
                   client, sent, due, drops>>

\* joinChannel puts the session on the one channel there is.
HandleChannelJoin(c) ==
    /\ Dispatch(c, {ID.join})
    /\ channel' = IF player[c] = 0 THEN channel ELSE [channel EXCEPT ![c] = 1]
    /\ Do(c, <<Plain(Answer(ID.join), <<1>>)>>)
    /\ UNCHANGED <<status, inbox, pending, binding, writing, lock, crypto, guid, player, tokens, registry,
                   client, sent, due, drops>>

\* The requests that are only answered: aeriaLauncher, requestChannelList and
\* the acknowledgements of actions_ack.go.
Answers(id) ==
    CASE id = ID.launcher -> Both(Answer(id))
      [] id = ID.list     -> <<Plain(Answer(id), <<>>), Plain(ID.sendList, <<>>)>>
      [] id = ID.open     -> <<Plain(Answer(id), <<>>)>>

HandleAnswered(c) ==
    /\ Dispatch(c, {ID.launcher, ID.list, ID.open})
    /\ Do(c, Answers(Request(c).id))
    /\ UNCHANGED <<status, inbox, pending, binding, writing, lock, crypto, identity, registry, client, sent, due, drops>>

Refuse(c, id) == Do(c, <<Plain(Refusal(id), <<0>>)>>)

\* Chat.all and Chat.clan; the clan may not be found.
HandleChat(c) ==
    /\ Dispatch(c, {ID.all, ID.clan})
    /\ LET id == Request(c).id
       IN \/ /\ player[c] = 0 \/ id = ID.clan
             /\ Refuse(c, id)
          \/ /\ player[c] # 0 /\ id = ID.all
             /\ Do(c, <<Plain(Answer(id), <<>>), ToAll(Argument(c))>>)
          \/ /\ player[c] \in Mates /\ id = ID.clan
             /\ Do(c, <<Plain(Answer(id), <<>>), Push(Mates, Argument(c))>>)
    /\ UNCHANGED <<status, inbox, pending, binding, writing, lock, crypto, identity, registry, client, sent, due, drops>>

\* Chat.whisper: to an account, if it is found and online.
HandleWhisper(c) ==
    /\ Dispatch(c, {ID.user})
    /\ LET to   == Request(c).body[1]
           line == Request(c).body[2]
       IN \/ player[c] = 0 /\ UNCHANGED todo
          \/ player[c] # 0 /\ Refuse(c, ID.user)
          \/ /\ player[c] # 0 /\ to \in Account /\ byAccount[to] # {}
             /\ Do(c, <<Plain(Answer(ID.user), <<>>), Push({to}, line), Plain(ID.notify, <<line>>)>>)
    /\ UNCHANGED <<status, inbox, pending, binding, writing, lock, crypto, identity, registry, client, sent, due, drops>>

-----------------------------------------------------------------------------
(***************************************************************************)
(* Binding and looking up sessions.                                        *)
(***************************************************************************)
Then(c) == todo' = [todo EXCEPT ![c] = Tail(@)]
Instead(c, item) == todo' = [todo EXCEPT ![c] = <<item>> \o Tail(@)]

\* Faulty variant: the session stays with the account it was bound to.
BoundBeside(c, a) ==
    /\ bySession' = [bySession EXCEPT ![c] = a]
    /\ byAccount' = [byAccount EXCEPT ![a] = @ \cup {c}]

\* SessionRegistry.Bind
Bound(c, a) ==
    /\ bySession' = [bySession EXCEPT ![c] = a]
    /\ byAccount' = [b \in Account |-> IF b = a THEN byAccount[b] \cup {c} ELSE byAccount[b] \ {c}]

Bind(c) ==
    /\ binding[c]
    /\ Bound(c, player[c])
    /\ binding' = [binding EXCEPT ![c] = FALSE]
    /\ UNCHANGED <<status, reading, todo, writing, lock, crypto, identity, client, sent, due, drops>>

Online == {a \in Account : byAccount[a] # {}}

LookUpOnline(c) ==
    /\ Turns(c, {"all"})
    /\ Instead(c, Push(Online, Now(c).what))
    /\ due' = due \cup {[from |-> c, line |-> Now(c).what, to |-> d, as |-> bySession[d]] :
                          d \in UNION {byAccount[a] : a \in Account}}
    /\ UNCHANGED <<status, reading, binding, writing, lock, crypto, identity, registry, client, sent, drops>>

\* SessionRegistry.SendPlain takes the account's sessions, in any order.
LookUpSessions(c) ==
    /\ Turns(c, {"push"})
    /\ IF Now(c).to = {} THEN Then(c)
       ELSE \E a \in Now(c).to :
              todo' = [todo EXCEPT ![c] =
                         <<Tell(byAccount[a], Now(c).what), Push(Now(c).to \ {a}, Now(c).what)>> \o Tail(@)]
    /\ UNCHANGED <<status, reading, binding, writing, lock, crypto, identity, registry, client, sent, due, drops>>

ToldAll(c) ==
    /\ Turns(c, {"tell"}) /\ Now(c).to = {}
    /\ Then(c)
    /\ UNCHANGED <<status, reading, binding, writing, lock, crypto, identity, registry, client, sent, due, drops>>

-----------------------------------------------------------------------------
(***************************************************************************)
(* Sending.                                                                *)
(***************************************************************************)
\* Faulty variant: the sending mutex is not taken.
FreeAlways(d) == TRUE

\* sendMu.Lock
Free(d) == lock[d] = Nobody

\* Faulty variant: every frame advances the counter.
CountsAll(op) == op \in {"encrypt", "send"}

CountsUp(op) == op = "encrypt"

Payload(op, what, d) ==
    CASE op = "reply"           -> what
      [] op = "encrypt"         -> EncodeEncrypted(count[d], what)
      [] op = "send"            -> EncodePlain(what)
      [] op = "tell"            -> EncodePlain(Notify(what))

\* SendEncrypted without a session key fails, and with it the handler.
NoKey(c) ==
    /\ Turns(c, {"encrypt"}) /\ ~key[c]
    /\ Free(c)
    /\ Do(c, <<>>)
    /\ UNCHANGED <<status, reading, binding, writing, lock, crypto, identity, registry, client, sent, due, drops>>

Receivers(c) == IF Now(c).op = "tell" THEN Now(c).to ELSE {c}

BeginSend(c) ==
    /\ Turns(c, {"reply", "send", "encrypt", "tell"})
    /\ Now(c).op = "encrypt" => key[c]
    /\ \E d \in Receivers(c) :
         /\ Free(d)
         /\ lock' = [lock EXCEPT ![d] = c]
         /\ LET payload == Payload(Now(c).op, Now(c).what, d)
            IN /\ writing' = [writing EXCEPT ![c] = [to |-> d, rest |-> EncodeFrame(Reliable, payload)]]
               /\ sent' = [sent EXCEPT ![d] = Append(@, payload)]
         /\ count' = IF CountsUp(Now(c).op) THEN [count EXCEPT ![d] = (@ + 1) % Counts] ELSE count
    /\ UNCHANGED <<status, reading, todo, binding, key, identity, registry, client, due, drops>>

\* What is left to do once d has been written to.
Onwards(c, d) ==
    IF Now(c).op = "tell" THEN Instead(c, Tell(Now(c).to \ {d}, Now(c).what)) ELSE Then(c)

Unlock(d) == lock' = [lock EXCEPT ![d] = Nobody]

\* The client takes in what is written to it, and reads frames as the server does.
Receive(d, cells) ==
    LET parsed == ParseFrames(part[d] \o cells)
    IN /\ got' = [got EXCEPT ![d] = @ \o parsed.frames]
       /\ part' = [part EXCEPT ![d] = parsed.remaining]

\* conn.Write takes n cells of the frame in hand.
Written(c, n) ==
    LET d == writing[c].to
        rest == writing[c].rest
    IN /\ status[d] \in {"open", "closing"}
       /\ IF n < Len(rest)
          THEN /\ writing' = [writing EXCEPT ![c].rest = SubSeq(rest, n + 1, Len(rest))]
               /\ UNCHANGED <<lock, todo>>
          ELSE /\ writing' = [writing EXCEPT ![c] = NotWriting]
               /\ Unlock(d) /\ Onwards(c, d)
       /\ UNCHANGED <<status, reading, binding, crypto, identity, registry, sent, due, drops>>

Write(c) ==
    /\ writing[c] # NotWriting
    /\ \E n \in Amounts(Len(writing[c].rest)) :
         Written(c, n) /\ Receive(writing[c].to, SubSeq(writing[c].rest, 1, n))

\* Faulty variant: the error path keeps the mutex.
FailedLocked(c, d) ==
    /\ UNCHANGED lock
    /\ IF Now(c).op = "tell" THEN Onwards(c, d) ELSE Do(c, <<>>)

\* Faulty variant: the first failure ends the push.
FailedFirst(c, d) == Unlock(d) /\ Do(c, <<>>)

\* An error ends the handler, but a push goes on to the other sessions.
Failed(c, d) ==
    /\ Unlock(d)
    /\ IF Now(c).op = "tell" THEN Onwards(c, d) ELSE Do(c, <<>>)

WriteFails(c) ==
    LET d == writing[c].to
    IN /\ writing[c] # NotWriting
       /\ status[d] \in {"gone", "lost", "closed"}
       /\ writing' = [writing EXCEPT ![c] = NotWriting]
       /\ Failed(c, d)
       /\ IF Now(c).op = "reply" THEN Breaks(c) ELSE UNCHANGED status
    /\ UNCHANGED <<reading, binding, crypto, identity, registry, client, sent, due, drops>>

-----------------------------------------------------------------------------
Handle(c) ==
    \/ HandleHello(c) \/ HandleCryptoSetup(c) \/ HandleConnect(c) \/ HandleHeartbeat(c)
    \/ HandleUnreadable(c) \/ HandleUnknown(c)
    \/ HandleAuth(c) \/ HandleCheckCredential(c) \/ HandleCreateCredential(c)
    \/ HandleChannelJoin(c) \/ HandleAnswered(c) \/ HandleChat(c) \/ HandleWhisper(c)

Work(c) ==
    \/ Bind(c) \/ LookUpOnline(c) \/ LookUpSessions(c) \/ ToldAll(c)
    \/ NoKey(c) \/ BeginSend(c) \/ WriteFails(c)

Serve(c) == Read(c) \/ Handle(c) \/ Work(c) \/ Write(c) \/ Release(c)

Next == \E c \in Connection : Serve(c) \/ Drop(c)

\* A goroutine that is not waiting for a mutex goes on with the frame in hand,
\* and the client at each connection takes in what is written to it or goes away.
\* The server's part of a write is enabled exactly when the write is.
WriteOn(c) ==
    writing[c] # NotWriting /\ \E n \in Amounts(Len(writing[c].rest)) : Written(c, n)

Fairness == \A c \in Connection : WF_<<todo, binding, writing>>(Work(c) \/ WriteOn(c))

Spec == Init /\ [][Next]_vars /\ Fairness

-----------------------------------------------------------------------------
(***************************************************************************)
(* Properties.                                                             *)
(***************************************************************************)
\* Whatever the goroutines that send to a connection do, what its client has
\* received reads as the payloads given to it, in the order in which the mutex
\* was taken and each whole, with at most the last still under way (session.go,
\* SendPlain: pushes cannot interleave bytes).
FramesWhole ==
    \A c \in Connection :
        /\ IsPrefix(got[c], sent[c])
        /\ lock[c] = Nobody /\ status[c] = "open" => got[c] = sent[c] /\ part[c] = <<>>

EncryptedAmong(payloads, places) ==
    {i \in places : FrameType(payloads[i]) = EnvelopeEncrypted}

\* The encrypted messages that a client receives carry 0, 1, 2 and so on modulo
\* the counter's width, with no gap and no repetition, however they mix with
\* plain ones and with what other goroutines push (session.go, SendEncrypted).
CountersInOrder ==
    \A c \in Connection : \A i \in EncryptedAmong(got[c], DOMAIN got[c]) :
        DecodeEncrypted(got[c][i]).count =
            Cardinality(EncryptedAmong(got[c], 1 .. i - 1)) % Counts

\* The two maps of the registry say the same, and say what the session's state
\* says but for a session about to be bound; a connection that has ended is in
\* neither (session_registry.go, Bind and Unbind; identity.go, bindPlayer).
RegistryMirrors ==
    \A c \in Connection :
        /\ \A a \in Account : c \in byAccount[a] <=> bySession[c] = a
        /\ bySession[c] = player[c] \/ binding[c] \/ status[c] = "closed"
        /\ status[c] = "closed" => bySession[c] = 0

\* What makes RegistryMirrors inductive: a session waits to be bound only while
\* its goroutine has work and sends nothing, a goroutine without work sends
\* nothing either, and one whose connection has ended has no work.
OfConnections(f) == f = [c \in Connection |-> f[c]]

WireInv ==
    /\ status \in [Connection -> {"open", "gone", "closing", "lost", "closed"}]
    /\ binding \in [Connection -> BOOLEAN]
    /\ OfConnections(todo) /\ OfConnections(writing)
    /\ OfConnections(player) /\ OfConnections(bySession)
    /\ byAccount \in [Account -> SUBSET Connection]
    /\ RegistryMirrors
    /\ \A c \in Connection :
         /\ status[c] = "closed" => todo[c] = <<>>
         /\ todo[c] = <<>> => ~binding[c] /\ writing[c] = NotWriting
         /\ binding[c] => writing[c] = NotWriting

\* What makes FramesWhole and CountersInOrder inductive: whoever holds the mutex
\* of a connection is the one that writes to it; a client that is there has all
\* that it was given but the rest of the frame in hand; and the counter counts
\* the encrypted messages given out.
IsPayload(p) == p \in Seq(Range(p)) /\ Len(p) <= MaxFrame

SoundItem(w) ==
    /\ w.op = "reply" => IsPayload(w.what) /\ FrameType(w.what) # EnvelopeEncrypted
    /\ w.op \in {"send", "encrypt"} =>
          w.what.body \in Seq(Range(w.what.body)) /\ Len(w.what.body) <= 1
    /\ w.op = "encrypt" => w.what.body = <<>>
    /\ w.op = "push" => w.to \subseteq Account
    /\ w.op = "tell" => w.to \subseteq Connection

SoundItems(items) ==
    items \in Seq(Range(items)) /\ \A i \in DOMAIN items : SoundItem(items[i])

Typed ==
    /\ lock \in [Connection -> Connection \cup {Nobody}]
    /\ inbox \in [Connection -> Seq(Nat)]
    /\ pending \in [Connection -> Seq(Nat)]
    /\ frames \in [Connection -> Seq({p \in Seq(Nat) : Len(p) <= MaxFrame})]
    /\ OfConnections(count) /\ OfConnections(got) /\ OfConnections(part) /\ OfConnections(sent)
    /\ \A c \in Connection :
          /\ SoundItems(todo[c])
          /\ writing[c] # NotWriting =>
                /\ writing[c].to \in Connection
                /\ writing[c] = [to |-> writing[c].to, rest |-> writing[c].rest]
          /\ sent[c] \in Seq(Range(sent[c]))
          /\ got[c] \in Seq(Range(got[c]))

Exclusive ==
    \A c, d \in Connection :
        lock[d] = c <=> writing[c] # NotWriting /\ writing[c].to = d

Reached(d) == \A i \in DOMAIN got[d] : i \in DOMAIN sent[d] /\ got[d][i] = sent[d][i]

UnderWay(d, rest) ==
    \E payload \in Range(sent[d]) :
        /\ IsPayload(payload)
        /\ sent[d] = Append(got[d], payload)
        /\ LET frame == EncodeFrame(Reliable, payload)
           IN \E n \in 0 .. Len(frame) - 1 :
                 part[d] = SubSeq(frame, 1, n) /\ rest = SubSeq(frame, n + 1, Len(frame))

Delivered ==
    \A d \in Connection :
        /\ Reached(d)
        /\ status[d] \in {"open", "closing"} =>
              /\ lock[d] = Nobody => got[d] = sent[d] /\ part[d] = <<>>
              /\ \A c \in Connection : lock[d] = c => UnderWay(d, writing[c].rest)

Counted ==
    \A d \in Connection :
        /\ count[d] = Cardinality(EncryptedAmong(sent[d], DOMAIN sent[d])) % Counts
        /\ \A i \in EncryptedAmong(sent[d], DOMAIN sent[d]) :
              DecodeEncrypted(sent[d][i]).count =
                  Cardinality(EncryptedAmong(sent[d], 1 .. i - 1)) % Counts

SendInv == WireInv /\ Typed /\ Exclusive /\ Delivered /\ Counted

Heard(c, line) ==
    Cardinality({i \in DOMAIN got[c] : got[c][i] = EncodePlain(Notify(line))})

\* A line said to all is received exactly once by each session that was online
\* when it was, still is when the handler is done, and has not changed its
\* account meanwhile, even when other sessions have gone (chat.go, all;
\* session_registry.go, SendPlain).
LinesReachAll ==
    \A m \in due :
        /\ todo[m.from] = <<>>
        /\ status[m.to] = "open" /\ bySession[m.to] = m.as
        => Heard(m.to, m.line) = 1

\* A goroutine with a frame in hand gets to the end of it, whoever else goes
\* away while it sends or holds a mutex that it waits for (session.go, the
\* deferred unlocks).
HandlersEnd == \A c \in Connection : todo[c] # <<>> ~> todo[c] = <<>>
=============================================================================
