SPECIFICATION Spec
CONSTANTS
    Signers = {own}
    Own = own
    Actions = {fresh, a1}
    Fresh = fresh
    SharedKeys = FALSE
    MayForget = FALSE
    MaxNonce = 3
    MaxQueue = 1
    MaxDrops = 0
INVARIANT RetriesLeaveNoGap
CHECK_DEADLOCK FALSE
