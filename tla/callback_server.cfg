\* Two worker threads that stop, two starts, two events.
SPECIFICATION FairSpec
CONSTANTS
    stop1 = stop1
    stop2 = stop2
    NoServer = NoServer
    Stops <- TwoStops
    MaxStarts = 2
    MaxEvents = 2
INVARIANTS
    TypeOK
    StartLeavesListener
    NoServerForgotten
    OnlyContentionRaises
    EventsInOrder
    NeverToAnEarlierSession
PROPERTIES
    StopReturns
CHECK_DEADLOCK FALSE
