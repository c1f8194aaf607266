SPECIFICATION Spec
CONSTANTS
    g1 = g1
    k1 = k1
    c1 = c1
    c2 = c2
    wecom = wecom
    None = None
    NoChannel = NoChannel
    Notes = {k1}
    GlobalNotes = {}
    IntervalNotes = {k1}
    TickKeyed = {k1}
    Channels = {}
    Platforms = {wecom}
    Rank <- MCRank
    MaxTime = 1
    Gap = 1
    Occurs = 1
    StatPeriod = 1
    RetryAfter = 1
    BatchLimit = 10
    Disturbances = {}
    Final = {}
    MaxDisturbances = 0
INVARIANT CallIsDue
