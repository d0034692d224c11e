\* Three players and one clan, one request at a time, anything may fail.
SPECIFICATION Spec
CONSTANTS
    Player = {p1,p2,p3}
    Mark = {m1}
    Capacity = 2
    MaxRowID = 65535
    Name = {c1}
    NoName = NoName
    NoClan = NoClan
    Offline = Offline
    AskedRanks = {0, 1, 2, 9}
    MaxOverlap = 1
    MaxGivenID = 4
    Disruption = {"logout", "fail", "crash"}
SYMMETRY Symmetry
INVARIANT RowIDsDistinct
INVARIANT LeaderNamed
