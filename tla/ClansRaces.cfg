\* Three players, requests overlapping in pairs.
SPECIFICATION Spec
CONSTANTS
    Player = {p1,p2,p3}
    Mark = {m1}
    Capacity = 2
    MaxRowID = 65535
    Name = {c1}
    NoName = NoName
    NoClan = NoClan
    Offline = Offline
    AskedRanks = {1, 2}
    MaxOverlap = 2
    MaxGivenID = 2
    Disruption = {}
SYMMETRY Symmetry
INVARIANT AtMostOneMaster
INVARIANT ClanNotOverfull
INVARIANT ClansInv
