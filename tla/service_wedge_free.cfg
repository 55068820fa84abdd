CONSTANTS
    t1 = t1  t2 = t2  t3 = t3  u1 = u1  u2 = u2  w1 = w1  w2 = w2
    NoUrl = NoUrl  NoTask = NoTask
    TaskInfos <- ThreeTasks
    Urls <- OneUrl
    Workers <- TwoWorkers
    Length = 2
    Bytes <- FullReads
    Hazards = {"duplicate", "full"}
    MaxKills = 1
SPECIFICATION Spec
INVARIANT NoWedgedTask
PROPERTY LivesAsPromised
SYMMETRY Symmetry
CHECK_DEADLOCK FALSE
