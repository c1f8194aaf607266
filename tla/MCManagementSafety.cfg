SPECIFICATION Spec
CONSTANTS
    f1 = f1
    f2 = f2
    d1 = d1
    a1 = a1
    a2 = a2
    Host = Host
    Free = Free
    None = None
    Files = {f1, f2}
    DefaultFile = f1
    Dirs = {d1}
    Dir <- MCDir
    Admins = {a1, a2}
    MaxDay = 1
    MaxOps = 2
    Disturbances = {"journal", "write", "keeper", "rename", "tamper", "crash"}
    MaxDisturbances = 2
SYMMETRY MCSymmetry
INVARIANTS TypeOK AckedEditsKept LiveIsOnDisk EffectIsReported ReportIsTrue AnswerMatchesJournal
PROPERTY KeyLayerKept
