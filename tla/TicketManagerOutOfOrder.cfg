SPECIFICATION Spec
CONSTANTS
    Tickets <- FourTickets
    Streams = {s1}
    MinAmount = 2
    UpTo = {1}
    Stakes = {9}
    InOrder = FALSE
    SyncConcurrently = FALSE
    StoreMayFail = FALSE
    MaxEpoch = 2
    MaxGen = 1
    MaxRestarts = 0
INVARIANT AnsweredIsHeadOrGone
CHECK_DEADLOCK FALSE
