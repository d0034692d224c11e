\* Two connections, two accounts; reads and writes of three cells or all.
SPECIFICATION Spec
CONSTANTS
    c1 = c1
    c2 = c2
    Connection = {c1, c2}
    Account = {1, 2}
    Token = {1}
    Mates = {1}
    Nobody = Nobody
    Scripts <- MCScripts
    Pieces = {3}
    Counts = 4
    MaxDrops = 1
    Group = 4
    MaxFrame = 9
    Block = 4
INVARIANT FramesWhole
INVARIANT CountersInOrder
 
INVARIANT LinesReachAll
PROPERTY HandlersEnd
CHECK_DEADLOCK FALSE
