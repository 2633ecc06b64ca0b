CONSTANTS
    Clients = {c1, c2}
    Workers = {w1}
    Schedulings = {TRUE, FALSE}
    MaxEvents = 3
    MaxMessages = 2
SPECIFICATION FairSpec
CHECK_DEADLOCK FALSE
INVARIANTS
    NothingLost
    NoDuplicates
    ResponseFirst
    EventsInOrder
PROPERTIES
    EverythingSent
