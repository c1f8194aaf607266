SPECIFICATION Spec
CONSTANTS
    g1 = g1
    k1 = k1
    c1 = c1
    c2 = c2
    wecom = wecom
    None = None
    NoChannel = NoChannel
    Notes = {g1}
    GlobalNotes = {g1}
    IntervalNotes = {}
    TickKeyed = {}
    Channels = {c1}
    Platforms = {wecom}
    Rank <- MCRank
    MaxTime = 2
    Gap = 1
    Occurs = 1
    StatPeriod = 1
    RetryAfter = 1
    BatchLimit = 10
    Disturbances = {"platform"}
    Final = {}
    MaxDisturbances = 1
INVARIANT BackoffRespected
