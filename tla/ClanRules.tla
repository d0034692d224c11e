------------------------------ MODULE ClanRules ------------------------------
(***************************************************************************)
(* What the clan service promises, as if every operation were one step:    *)
(* who may do what to whom in a clan, and which clan an account belongs    *)
(* to.  Clans implements it as long as one request at a time is served.    *)
(***************************************************************************)
EXTENDS Naturals, FiniteSets

CONSTANTS
    Player, Name, NoName,
    Capacity,   \* members a clan may have
    Ranks,      \* what a member may be, among it these three
    Master, Manager, Member

\* No rank is zero.
None == 0

VARIABLES
    founded,  \* the clans there are
    rank,     \* the rank of every player in every clan, None outside
    queue,    \* the players that have applied to a clan
    belongs   \* the clan an account belongs to

rules == <<founded, rank, queue, belongs>>

Enrolled(c) == {p \in Player : rank[c][p] # None}

Nobody == [p \in Player |-> None]

Init ==
    /\ founded = {}
    /\ rank = [c \in Name |-> Nobody]
    /\ queue = [c \in Name |-> {}]
    /\ belongs = [p \in Player |-> NoName]

\* a acts for the clan it belongs to, and holds one of these ranks there.
Holds(a, c, ranks) == belongs[a] = c /\ rank[c][a] \in ranks

-----------------------------------------------------------------------------
\* Nothing keeps a member of another clan from founding one.
Create(p, c) ==
    /\ c \notin founded
    /\ founded' = founded \cup {c}
    /\ rank' = [rank EXCEPT ![c] = [Nobody EXCEPT ![p] = Master]]
    /\ queue' = [queue EXCEPT ![c] = {}]
    /\ belongs' = [belongs EXCEPT ![p] = c]

Apply(p, c) ==
    /\ c \in founded
    /\ belongs[p] = NoName
    /\ rank[c][p] = None
    /\ queue' = [queue EXCEPT ![c] = @ \cup {p}]
    /\ UNCHANGED <<founded, rank, belongs>>

Withdraw(p, c) ==
    /\ p \in queue[c]
    /\ queue' = [queue EXCEPT ![c] = @ \ {p}]
    /\ UNCHANGED <<founded, rank, belongs>>

Accept(a, p, c) ==
    /\ Holds(a, c, {Master, Manager})
    /\ p \in queue[c]
    /\ Cardinality(Enrolled(c)) < Capacity
    /\ rank' = [rank EXCEPT ![c][p] = Member]
    /\ queue' = [queue EXCEPT ![c] = @ \ {p}]
    /\ belongs' = [belongs EXCEPT ![p] = c]
    /\ UNCHANGED founded

Reject(a, p, c) == Holds(a, c, {Master, Manager}) /\ Withdraw(p, c)

Strike(p, c) ==
    /\ rank' = [rank EXCEPT ![c][p] = None]
    /\ belongs' = [belongs EXCEPT ![p] = NoName]
    /\ UNCHANGED <<founded, queue>>

\* A master kicks anybody else, a manager only the ranks below.
Kick(a, p, c) ==
    /\ p # a
    /\ \/ Holds(a, c, {Master}) /\ rank[c][p] \notin {None, Master}
       \/ Holds(a, c, {Manager}) /\ rank[c][p] \notin {None, Master, Manager}
    /\ Strike(p, c)

\* A master leaves nobody behind.
Leave(p, c) ==
    /\ Holds(p, c, Ranks)
    /\ rank[c][p] = Master => Enrolled(c) = {p}
    /\ Strike(p, c)

Position(a, p, c, r) ==
    /\ Holds(a, c, {Master})
    /\ p \in Enrolled(c) \ {a}
    /\ r \in Ranks \ {Master}
    /\ rank' = [rank EXCEPT ![c][p] = r]
    /\ UNCHANGED <<founded, queue, belongs>>

HandOver(a, p, c) ==
    /\ Holds(a, c, {Master})
    /\ p \in Enrolled(c) \ {a}
    /\ rank' = [rank EXCEPT ![c][p] = Master, ![c][a] = Manager]
    /\ UNCHANGED <<founded, queue, belongs>>

Disband(a, c) ==
    /\ Holds(a, c, {Master})
    /\ founded' = founded \ {c}
    /\ rank' = [rank EXCEPT ![c] = Nobody]
    /\ queue' = [queue EXCEPT ![c] = {}]
    /\ belongs' = [p \in Player |-> IF p \in Enrolled(c) THEN NoName ELSE belongs[p]]

\* What a, a member of c, does to p.
Acts(a, p, c) ==
    \/ Accept(a, p, c)
    \/ Reject(a, p, c)
    \/ Kick(a, p, c)
    \/ HandOver(a, p, c)
    \/ \E r \in Ranks : Position(a, p, c, r)

Next ==
    \E a \in Player, c \in Name :
        \/ Create(a, c)
        \/ Apply(a, c)
        \/ Withdraw(a, c)
        \/ Leave(a, c)
        \/ Disband(a, c)
        \/ belongs[a] = c /\ \E p \in Player : Acts(a, p, c)

Spec == Init /\ [][Next]_rules
=============================================================================
