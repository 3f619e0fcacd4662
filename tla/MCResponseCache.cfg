CONSTANTS
    p = p
    q = q
    t = t
    a = a
    A = A
    b = b
    r1 = r1
    r2 = r2
    Requests = {r1, r2}
    Tenants = {a, A, b}
    Callers = {a}
    Tag <- AsAsked
    Tags <- AsIndexed
    Scopes <- OneKey
    Payloads = {p, q, t}
    Near <- NearPairs
    ToolPayloads = {t}
    AgeLimits = {1}
    NoLimit = NoLimit
    Ttls = {0, 2, 3}
    None = None
    LeftOver <- Before
    MaxTime = 3
    Pause = 2
    MaxArrivals = 2
SPECIFICATION Spec
SYMMETRY Alike
CHECK_DEADLOCK FALSE
INVARIANTS TypeOK CachedAnswerIsGenuine PurgeForgets OnlyALostExpireStays
