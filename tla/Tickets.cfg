SPECIFICATION AnySpec
CONSTANTS
    Tickets <- FourTickets
    Streams = {s1, s2}
    MinAmount = 2
    UpTo = {1, 2}
    Stakes = {3, 6}
    InOrder = TRUE
    SyncConcurrently = FALSE
    StoreMayFail = FALSE
    MaxEpoch = 2
    MaxGen = 1
    MaxRestarts = 1
    StoreChannels = {q1}
    StoreTickets <- TicketsToStore
    IndexSpan = 2
    StoredValues = {7}
    NoTable = NoTable
    Corrupt = Corrupt
    MaxCalls = 7
    MaxHeaps = 2
INVARIANT UnrealizedValueExact
INVARIANT ValueAccounted
INVARIANT AnsweredIsHeadOrGone
INVARIANT InvalidOnlyIfSpent
INVARIANT OneStream
INVARIANT StoresAgree
INVARIANT FailuresLoseNoTicket
PROPERTY SyncLeavesRedeemable
PROPERTY ImplementsLedger
SYMMETRY StreamsSymmetry
CHECK_DEADLOCK FALSE
