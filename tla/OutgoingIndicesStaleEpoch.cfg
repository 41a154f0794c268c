SPECIFICATION Spec
CONSTANTS
    Channels = {ch}
    Callers = {c1, c2}
    Savers = {s1}
    MAX_TICKET_INDEX = 1
    Price = 1
    Balance = 1
    PathPositions = {1, 2}
    InvWinProbs = {1}
    QuiescentSaves = FALSE
    MaxEpoch = 2
    MaxGen = 1
    CounterCap = 2
    MaxRestarts = 0
SYMMETRY CallersSymmetry
INVARIANTS
    NeverReturnedAgain
CHECK_DEADLOCK FALSE
