CONSTANTS
    l1 = l1
    l2 = l2
    l3 = l3
    k1 = k1
    k2 = k2
    k1bob = k1bob
    u1 = u1
    w1 = w1
    w2 = w2
    r1 = r1
    Logs = {l1, l2, l3}
    Keys = {k1, k2, k1bob}
    Registered = {k1, k2}
    LogKey <- KeyOfLog
    Users = {u1}
    Owner <- OwnerOfKey
    Limit <- LimitOfTier
    FirstTier = "FREE"
    Workers = {w1, w2}
    Routes = {r1}
    Batch = 2
    StreamCap = 2
    FaultKinds = {"redis", "postgres", "crash"}
    MaxFaults = 1

SPECIFICATION FairSpec

INVARIANTS
    TypeOK
    BilledAsRecorded
    FlagFollowsPostgres

PROPERTIES
    AckedMeansRecorded
    EveryLogIsRecorded
