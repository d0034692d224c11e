\* Two connections, two rooms, two numbers that go round.
SPECIFICATION Spec
CONSTANTS
    Session = {s1, s2}
    Object = {o1, o2}
    NoRoom = NoRoom
    MaxNumber = 2
    RequestedMax = {0}
    MaxSeatID = 3
SYMMETRY Symmetry
INVARIANT RegistryAgrees
INVARIANT EmptyRoomHasCloser
 
PROPERTY ListedRoomNotReplaced
