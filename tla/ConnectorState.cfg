SPECIFICATION Spec
CONSTANTS
    Ids = {i1, i2}
    Keys = {k1, k2}
    Addrs = {a1, a2}
    None = None
    Absent = Absent
    MaxUpdates = 3
    MaxLoads = 1
    Incoming = {in}
    Outgoing = {out}
    Foreign = {}
    NoEntry = NoEntry
    NotCached = NotCached
    MaxChanges = 3
    MaxBalance = 1
    Prices = {1, 2}
    Probabilities = {1, 2}
    DefaultProbability = 2
    MaxParamChanges = 3
    NoParams = NoParams
    Entries = {e1, e2}
    Types = {t1}
    Fees = {f1, f2}
    MaxTime = 1
    MaxWrites = 3
    Nothing = Nothing
    Topics = {i1, i2, in, out, "ticket_price", "win_prob"}
    Untold = Untold
    Capacity = 1
    Users = {u1, u2}
    SafeIds = {s1, s2}
    Multiaddrs = {m1, m2}
    StartBalance = 2
    MaxTxs = 2
    Registrations <- KnownRegistrations
    Nobody = Nobody
INVARIANTS
    CachesMatchBackend
    ConsumersAreUpToDate
    ValuesAreKnown
    SuppressionIsExact
    OperationsAreSound
PROPERTY WatchedChannelCloses
CHECK_DEADLOCK FALSE
