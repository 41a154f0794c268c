SPECIFICATION MCSpec
CONSTANTS
    Peers = {a, b}
    Me = me
    AllowPrivate = FALSE
    Streams = {s}
    Announcements <- MCAnnouncements
    MaxAnnouncements = 2
    MaxConnections = 2
    Feeds = {g1, g2}
    SyncTolerance = 90
    MaxTotal = 1
    MaxAttempts = 2
    Reports = {"Live", "Stalled", "Ended"}
INVARIANTS
    OneLiveTask
    PeersAreFollowed
    StreamsEndWithConnection
PROPERTIES
    KnownPeersAreDialed
    AnnouncementsAreRead
    ImplementsLifecycle
    HealthFollowsFeeds
CHECK_DEADLOCK FALSE
