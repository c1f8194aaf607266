CONSTANTS
    k1 = k1
    k2 = k2
    r1 = r1
    r2 = r2
    Blank = Blank
    Broken = Broken
    None = None
    Keepers <- MCKeepers
    Readers <- MCReaders
    CacheFor = 3
    Cooldown = 1
    Deadline = 1
    Disturbances <- MCTroubles
    MaxDisturbances = 2
SYMMETRY Symmetry
SPECIFICATION Spec
INVARIANTS
    ReadYourRename
    Freshness
    ServiceIsCurrent
PROPERTY NoForeignAnswer
