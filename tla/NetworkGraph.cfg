SPECIFICATION Spec
CONSTANTS
    me = me
    k1 = k1
    k2 = k2
    k3 = k3
    GraphKeys = {me, k1, k2, k3}
    Starts <- MCStarts
    Encode <- MCEncode
    PathIdLen = 5
    MIN_LOOPBACK_HOPS = 2
    MAX_LOOPBACK_HOPS = 3
    MaxRtt = 9
    Rtts = {Missing, 1, 7, 10}
    MaxOps = 3
    Unit = 120
    SURB_BUCKETS = 3
    SURB_RECENT_SLICES = 1
    Decay <- MCDecay
    Latencies = {3}
    Traffic <- MCTraffic
    MaxSlices = 4
    MaxRecords = 4
    Missing = Missing
    Vertices = {s, a, b, c}
    Source = s
    Costs = {0, 1}
    Budget = 1
    MaxCostly = 2
    Lengths = {3}
    Peers = {p, q}
    Unprobed = Unprobed
    ShuffleTtl = 2
    ProbeConnectedOnly = TRUE
    MaxStaleness = 3
    MaxTicks = 5
    Ips <- MCIps
    Blocks <- MCBlocks
    Numeric = {"1", "2"}
    NotDns = {"*", "1/8"}
    PortNumbers = {1, 2}
    Wild = Wild
    Invalid = Invalid
    Unset = Unset
    MAX_QUOTA = 9
    Configs <- MCConfigs
    Targets <- MCTargets
    Hosts <- MCHosts
    SERVICE_ID_LOOPBACK = 0
    MaxRetries = 1
    MaxDnsChanges = 1
    ChannelRoom = 1
    Scripts <- MCScripts
INVARIANTS
    GraphIsConsistent
    ReportsAreAttributedRight
    DirectionsAgree
    ScoresFollowEvidence
    SearchIsExact
    ProbesAreFair
    SessionsFollowTheRules
    LoopbackNeverStuck
    LoopbackEchoesAll
CHECK_DEADLOCK FALSE
