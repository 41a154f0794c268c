SPECIFICATION FairSpec
CONSTANTS
    Tickets <- ThreeTickets
    Streams = {s1}
    MinAmount = 2
    UpTo = {1}
    Stakes = {3, 6}
    InOrder = FALSE
    SyncConcurrently = FALSE
    StoreMayFail = TRUE
    MaxEpoch = 2
    MaxGen = 1
    MaxRestarts = 1
INVARIANT NoTicketLost
PROPERTY StreamsTerminate
CHECK_DEADLOCK FALSE
