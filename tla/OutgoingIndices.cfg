SPECIFICATION Spec
CONSTANTS
    Channels = {ch}
    Callers = {c1, c2}
    Savers = {s1}
    MAX_TICKET_INDEX = 4
    Price = 1
    Balance = 1
    PathPositions = {1, 2}
    InvWinProbs = {1}
    QuiescentSaves = TRUE
    MaxEpoch = 2
    MaxGen = 1
    CounterCap = 3
    MaxRestarts = 1
SYMMETRY CallersSymmetry
VIEW WithoutStored0
INVARIANTS
    NoIndexIssuedTwice
    IndexNotBelowChannel
    SavedIndicesAreDurable
PROPERTIES
    ImplementsAllocator
CONSTRAINT ReopenedIsSmall
CHECK_DEADLOCK FALSE
