CONSTANTS
    c1 = c1
    c2 = c2
    c3 = c3
    p = p
    q = q
    NoHash = NoHash
    None = None
    Calls = {c1, c2, c3}
    HookHash <- SameHook
    SentHash <- SamePayload
    Bypass = {}
    KillSwitch = {}
    ZeroLog = {c1}
    Threshold = 3
    Window = 2
    KeyTTL = 3
    MaxTime = 2
    MaxInFlight = 3
    MaxFaults = 0

SPECIFICATION Spec

INVARIANT ZeroLogStoresNoLoopResponse
