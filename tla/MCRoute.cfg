CONSTANTS
    NoKey = NoKey
    IntSpan = 1000
    mapped = mapped
    channel = channel
    r1 = r1
    r2 = r2
    Requests = {r1, r2}
    Shapes <- MCShapes
    Sources <- MCSources
    Auths = {1, 2, 3}
    MaxEdits = 1
    MaxOthers = 1
SYMMETRY Symmetry
SPECIFICATION GateSpec
INVARIANTS
    TargetHolds
    AnswerNamesRequest
    ExecutorFollowsRoute
    AccessHolds
    EvenShare
CHECK_DEADLOCK FALSE
