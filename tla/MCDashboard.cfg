CONSTANTS
    None = None
    SettingsKeys = {"k1", "k2"}
    Tiers = {"FREE", "PRO"}
    UserTier = "PRO"
    MaxOps = 3
    MaxFaults = 1
    Providers = {"openai", "ollama", "custom"}
    PickerCalls = 2
    Tools = {"bash", "edit"}
    ModalCalls = 2
    MaxEdits = 2
    Keys = {"k1", "k2"}
    MaxRows = 2
    Cap = 2
    PageLen = 1
    Tabs = {"t1", "t2"}
    MaxStarts = 2
    MaxTurns = 1
    Agents = {"agent"}
    Sessions = {"s"}
    Models = {"m1", "m2"}
    PageSize = 1
    Window = 2
    Clicks = 2
    Texts = {"x", "y"}
    MaxLen = 3
    MaxWords = 2
    MaxSends = 2
    PanelKeys = {"k1", "k2", "local"}
    LocalKeys = {"local"}
    PanelCalls = 3
    Pages = {"p1", "p2"}
    MaxLoads = 2
    ContentTurns = 3
    Queries = {"all", "q"}
    MaxPages = 2
    MaxLists = 3
    Levels = {"L1"}
    LogRows = 3
    LogCap = 2
    Take = 1
    LogTurns = 2
    Alerts = {"r1"}
    MaxChanges = 2
SPECIFICATION FairSpec
INVARIANTS
    TypeOK
    ShownIsCurrent
    FeedbackIsHonest
    RecordingIsTagged
    EveryRowOnce
    DiffLosesNothing
    AnswersFindTheirPlace
PROPERTY ViewsCatchUp
CHECK_DEADLOCK FALSE
