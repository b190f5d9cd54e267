SPECIFICATION FairSpec
CONSTANTS
    Writer = {w1, w2}
    Clearer = {c1}
    Projector = drainer
    Nobody = nobody
    Imsi <- MCImsi
    Event <- MCEvent
    ImsiOf <- MCImsiOf
    UpdatedAt <- MCUpdatedAt
    BatchSize = 2
    MaxChunk = 2
    MaxFaults = 1
INVARIANTS
    AcknowledgedIsProjected
    ReadLatestHasHistory
    WriteLatestIsNewest
    OneRowPerEvent
    CountedAtMostOnce
    SettledViewsAgree
PROPERTIES
    NoResurrection
    ReadSideNeverGoesBack
    FeedSpec
    EveryWriteReachesReadSide
    QueuedClearRuns
