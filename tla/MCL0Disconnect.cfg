CONSTANTS
    r1 = r1
    r2 = r2
    r3 = r3
    vk1 = vk1
    vk2 = vk2
    h = h
    None = None
    Local = Local
    Requests = {r1, r2, r3}
    VirtualKey <- OneTenant
    PayloadHash <- OnePayload
    LockTTL = 2
    RespTTL = 1
    FaultKinds = {"disconnect"}
    MaxFaults = 1

SPECIFICATION Spec

INVARIANT FinishedMeansUnlocked
