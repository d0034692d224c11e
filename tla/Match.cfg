\* Two players, two rooms, two match connections.
SPECIFICATION Spec
CONSTANTS
    Player = {p1, p2}
    Connection = {c1, c2}
    Room = {r1, r2}
    NoRoom = NoRoom
    Nobody = Nobody
    RoundLimit = 2
    MaxTicket = 1
    MaxIssued = 3
    MaxSeatID = 3
    MaxKills = 1
    MaxLeaves = 1
SYMMETRY Symmetry
INVARIANT TicketsLeadBack
 
INVARIANT AllLoadedHear
INVARIANT ScoresCredited
INVARIANT RoundsKept
CHECK_DEADLOCK FALSE
