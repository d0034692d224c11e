-------------------------------- MODULE MCWire --------------------------------
(***************************************************************************)
(* Small instances of Wire: what the clients at two connections send.      *)
(***************************************************************************)
EXTENDS Wire

CONSTANTS c1, c2

Hi == <<<<CryptoSetup, 1>>, <<Connect, 1>>>>
Asks(id, body) == EncodePlain([id |-> id, body |-> body])
AsksSecretly(id, body) == EncodeEncrypted(0, [id |-> id, body |-> body])

Pair(first, second) == [c \in {c1, c2} |-> IF c = c1 THEN first ELSE second]

MCScripts ==
  { \* The login connection issues a credential that the lobby connection redeems; one
    \* talks to the clan, the other to all before it sends what cannot be read.
    Pair(Hi \o <<Asks(ID.auth, <<1>>), Asks(ID.create, <<>>), AsksSecretly(ID.clan, <<1>>)>>,
         <<<<CryptoSetup, 1>>, Asks(ID.check, <<1>>), Asks(ID.join, <<>>), Asks(ID.all, <<2>>),
           <<Connect>>>>),
    \* One session changes its account while the other whispers to it.
    Pair(Hi \o <<Asks(ID.auth, <<1>>), Asks(ID.create, <<>>), Asks(ID.user, <<2, 3>>)>>,
         <<Asks(ID.auth, <<2>>), Asks(ID.check, <<1>>), Asks(ID.all, <<2>>)>>),
    \* The rest of the requests, and messages that come too early.
    Pair(<<<<Hello, 15>>, <<Hello>>, <<Heartbeat, 9>>, Asks(ID.user, <<2, 3>>), Asks(ID.create, <<>>),
           AsksSecretly(ID.list, <<>>)>>,
         <<<<CryptoSetup, 1>>, Asks(ID.clan, <<1>>), Asks(ID.open, <<>>), AsksSecretly(ID.list, <<>>),
           Asks(ID.notify, <<1>>), Asks(ID.launcher, <<>>), <<Connect>>>>) }
=============================================================================
