\* Two players and a clan, requests overlapping.
SPECIFICATION Spec
CONSTANTS
    Player = {p1,p2}
    Mark = {m1}
    Capacity = 2
    MaxRowID = 65535
    Name = {c1}
    NoName = NoName
    NoClan = NoClan
    Offline = Offline
    AskedRanks = {2}
    MaxOverlap = 2
    MaxGivenID = 3
    Disruption = {}
PROPERTY MasterLeavesLast
