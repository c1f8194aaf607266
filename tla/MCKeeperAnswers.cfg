CONSTANTS
    k1 = k1
    k2 = k2
    r1 = r1
    r2 = r2
    Blank = Blank
    Broken = Broken
    None = None
    Keepers <- MCKeeper1
    Readers <- MCReaders
    CacheFor = 1
    Cooldown = 1
    Deadline = 0
    Disturbances <- MCTroubles
    MaxDisturbances = 2
SPECIFICATION FairSpec
PROPERTY EveryRequestIsAnswered
