SPECIFICATION FairSpec
CONSTANTS
    g1 = g1
    k1 = k1
    c1 = c1
    c2 = c2
    wecom = wecom
    None = None
    NoChannel = NoChannel
    Notes = {k1}
    GlobalNotes = {}
    IntervalNotes = {}
    TickKeyed = {}
    Channels = {}
    Platforms = {wecom}
    Rank <- MCRank
    MaxTime = 1
    Gap = 1
    Occurs = 1
    StatPeriod = 1
    RetryAfter = 1
    BatchLimit = 1
    Disturbances = {"platform", "retry", "test", "save", "start", "slow stop", "keeper", "store", "keys", "reconfigure", "crash"}
    Final = {"platform", "retry", "test", "keeper", "store", "keys", "reconfigure", "crash"}
    MaxDisturbances = 2
PROPERTIES PendingDrains DueIsDelivered ManagementReturns
