CONSTANTS
    t1 = t1  t2 = t2  t3 = t3  u1 = u1  u2 = u2  w1 = w1  w2 = w2
    NoUrl = NoUrl  NoTask = NoTask
    TaskInfos <- TwoTasks
    Urls <- OneUrl
    Workers <- OneWorker
    Length = 2
    Bytes <- FullReads
    Hazards = {"duplicate"}
    MaxKills = 0
SPECIFICATION ManagerFairSpec
PROPERTY WaitingIsHandedOver
CHECK_DEADLOCK FALSE
