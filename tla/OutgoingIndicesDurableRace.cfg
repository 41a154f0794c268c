SPECIFICATION Spec
CONSTANTS
    Channels = {ch}
    Callers = {c1, c2}
    Savers = {s1}
    MAX_TICKET_INDEX = 2
    Price = 1
    Balance = 1
    PathPositions = {1, 2}
    InvWinProbs = {1}
    QuiescentSaves = FALSE
    MaxEpoch = 1
    MaxGen = 0
    CounterCap = 2
    MaxRestarts = 1
SYMMETRY CallersSymmetry
INVARIANTS
    SavedIndicesAreDurable
CHECK_DEADLOCK FALSE
