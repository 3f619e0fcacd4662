CONSTANTS
    r1 = r1
    r2 = r2
    r3 = r3
    vk1 = vk1
    vk2 = vk2
    h = h
    None = None
    Local = Local
    Requests = {r1, r2, r3}
    VirtualKey <- TwoTenants
    PayloadHash <- OnePayload
    LockTTL = 2
    RespTTL = 1
    FaultKinds = {"redis", "disconnect", "crash"}
    MaxFaults = 1

SPECIFICATION FairSpec

INVARIANTS
    TypeOK
    SingleFlightWithinLease
    FollowerOutwaitsLeader
    CoalescedAnswerIsGenuine

PROPERTIES
    LockIsNeverStolen
    ImplementsPromise
    EveryRequestIsAnswered
    LocksAreFreedInTheEnd
