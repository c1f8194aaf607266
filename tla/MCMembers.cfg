CONSTANTS
    ding = ding
    wecom = wecom
    feishu = feishu
    r1 = r1
    r2 = r2
    Creds = {ding, wecom, feishu}
    KindOf <- MCKind
    Directory <- MCDirectory
    Requests = {r1, r2}
    MaxAgain = 1
    MaxServices = 1
    MaxRequests = 9
    MaxMembers = 2
    NameBatch = 1
    MaxFaults = 1
SPECIFICATION FairMemberSpec
INVARIANTS
    WholeDirectory
    FlightsAreLed
PROPERTY EveryRequestIsAnswered
CHECK_DEADLOCK FALSE
