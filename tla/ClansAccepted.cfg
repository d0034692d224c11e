\* Two players and two clans, one request at a time.
SPECIFICATION Spec
CONSTANTS
    Player = {p1,p2}
    Mark = {m1}
    Capacity = 2
    MaxRowID = 65535
    Name = {c1,c2}
    NoName = NoName
    NoClan = NoClan
    Offline = Offline
    AskedRanks = {2}
    MaxOverlap = 1
    MaxGivenID = 3
    Disruption = {}
INVARIANT OneClanPerPlayer
