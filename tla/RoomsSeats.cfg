\* Three connections and one room of two users: every race for its seats.
SPECIFICATION FairSpec
CONSTANTS
    Session = {s1, s2, s3}
    Object = {o1}
    NoRoom = NoRoom
    MaxNumber = 1
    RequestedMax = {2}
    MaxSeatID = 3
INVARIANT TypeOK
INVARIANT SeatIDsUnique
INVARIANT CapacityRespected
 
 
PROPERTY EmptyRoomsClose
