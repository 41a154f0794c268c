SPECIFICATION FairSpec
CONSTANTS
    Signers = {safe}
    Own = own
    Actions = {fresh, a1}
    Fresh = fresh
    SharedKeys = TRUE
    MayForget = TRUE
    MaxNonce = 3
    MaxQueue = 1
    MaxDrops = 1
INVARIANT NoNonceSkipped
PROPERTY BroadcastInOrder
PROPERTY GapsAreFilled
CHECK_DEADLOCK FALSE
