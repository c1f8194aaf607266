CONSTANTS
    MaxBuffer = 9
    MaxFaults = 2
    Streams <- MCStreams
SPECIFICATION FairStreamSpec
INVARIANTS
    Conserved
    CleanCloseIsComplete
    ChunkingIndependent
    HostClosedOnce
    PluginTold
    NamesRestored
PROPERTY EveryStreamEnds
CHECK_DEADLOCK FALSE
