CONSTANTS
    c1 = c1
    c2 = c2
    c3 = c3
    p = p
    q = q
    NoHash = NoHash
    None = None
    Calls = {c1, c2, c3}
    HookHash <- SameHook
    SentHash <- LastRewritten
    Bypass = {c3}
    KillSwitch = {c3}
    ZeroLog = {}
    Threshold = 3
    Window = 2
    KeyTTL = 2
    MaxTime = 2
    MaxInFlight = 2
    MaxFaults = 1

SYMMETRY Symmetry

SPECIFICATION Spec

INVARIANTS
    TypeOK
    WindowIsRemembered
    BlockedOnlyForARepeat
    ReusedResponseIsGenuine

PROPERTIES
    RunawayIsStopped
