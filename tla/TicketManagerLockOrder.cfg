SPECIFICATION Spec
CONSTANTS
    Tickets <- ThreeTickets
    Streams = {s1}
    MinAmount = 2
    UpTo = {1}
    Stakes = {9}
    InOrder = TRUE
    SyncConcurrently = TRUE
    StoreMayFail = FALSE
    MaxEpoch = 2
    MaxGen = 2
    MaxRestarts = 0
INVARIANT NoCircularWait
CHECK_DEADLOCK FALSE
