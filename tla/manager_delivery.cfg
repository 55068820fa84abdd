CONSTANTS
    t1 = t1  t2 = t2  t3 = t3  u1 = u1  u2 = u2  w1 = w1  w2 = w2
    NoUrl = NoUrl  NoTask = NoTask
    TaskInfos <- TwoTasks
    Urls <- TwoUrls
    Workers <- OneWorker
    Length = 2
    Bytes <- FullReads
    Hazards = {"pause"}
    MaxKills = 0
SPECIFICATION ManagerFairSpec
INVARIANT SemaphoreFree
PROPERTIES WaitingIsHandedOver StartedDownloadArrives
CHECK_DEADLOCK FALSE
