CONSTANTS
    r1 = r1
    a = a
    A = A
    b = b
    read = read
    Read = Read
    c1 = c1
    c2 = c2
    None = None
    Requests = {r1}
    Kinds <- SomeKinds
    Tenants = {a, A, b}
    VirtualKey <- AllOfA
    Calls = {c1, c2}
    Tool <- Tools
    Near <- Similar
    Tag <- AsAsked
    Tags <- AsIndexed
    Entries <- Brought
    Asks = {{c1}, {c1, c2}}
    MaxRetries = 1
    MaxRounds = 2

SPECIFICATION FairSpec

INVARIANTS
    TypeOK
    AnswerIsTheLast
    ExchangesInOrder
    ResultsAreTheTenants

PROPERTY EveryRequestIsAnswered
