\* Two players and one room: whether a match waits for both.
SPECIFICATION Spec
CONSTANTS
    Player = {p1, p2}
    Connection = {c1, c2}
    Room = {r1}
    NoRoom = NoRoom
    Nobody = Nobody
    RoundLimit = 2
    MaxTicket = 1
    MaxIssued = 3
    MaxSeatID = 3
    MaxKills = 1
    MaxLeaves = 1
CHECK_DEADLOCK FALSE
PROPERTY StartsTogether
