SPECIFICATION Spec
CONSTANTS
    RowScopes = {"here"}
    RowSets = {}
    Nearness = {0, 1, 2}
    HotWeight = 2
    LeastFetch = 2
    RrfK = 2
    Remembered = {1, 2, 3, 4, 5, 6}
    Lore <- MCLore
    OwnChat = "own"
    Marks = {1, 2}
    Bar = 2
    SectionBudget = 5
    MaxForced = 1
    MaxNorms = 1
    MaxTales = 1
    Facts = {f}
    MaxFacts = 1
    MaxItems = 1
    MaxSaves = 1
    MaxMishaps = 1
    alert = alert
    article = article
    Alerts = {alert}
    Contents = {article}
    Story <- Stories
    DailyMax = 2
    ContextMax = 0
    Skills = {"explore", "watch"}
    Servers = {"feeds"}
    RequiresMcp <- Requirement
    Allowed = {"read-only", "write", "external-side-effect"}
    DriftSteps = 2
    RecentCap = 2
    PromptCap = 1
    MaxRuns = 0
    MaxTicks = 2
    MaxDeaths = 0
    CallBatches <- MCCallBatches
    ExitTools <- MCExitTools
    MaxSteps = 4
    RecentRounds = 2
    MaxJobs = 0
    PageLines = 2
    PageBytes = 5
    NumberBytes = 1
    LineSizes = {1, 3, 5, 6}
    MaxLines = 3
    TextChars = {"x", "y", "r", "n"}
    MaxText = 0
    Olds <- MCOlds
    News <- MCNews
    Qualities = 3
    Paths = {"p"}
    FileContents <- MCContents
    Replacements <- MCReplacements
    MaxCheckpoints = 0
    MaxBreaks = 2
    MaxBorn = 0
    MaxSessionSaves = 0
    MaxBreaksOfSaves = 0
    MaxDashboard = 0
    Chains <- MCChains
    Talk = 1
    MaxContext = 1
    LastSeq = 0
    Terms = {}
    MaxPage = 1
    PoolCallers = {"tick", "poll"}
    MaxClients = 1
    MaxPoolCalls = 0
    MaxEnds = 0
    SourceLists <- MCSourceLists
    FeedEvents <- MCFeedEvents
    ServerNames = {"a", "b"}
    ServerTools = {"t", "u"}
    Operators = {"turn", "job"}
    MaxStarts = 1
    MaxFaults = 1
    MaxOperations = 0
    TraceForms <- MCTraceForms
    TraceSessions = {"x"}
    Streams = {"s"}
    TraceQueueMax = 1
    StreamQueueMax = 1
    MaxTraces = 0
    MaxStreams = 1
    MaxTraceFaults = 1
    MessageLimit = 12
    PreviewOverhead = 5
    ThinkingCap = 5
    ThinkingMin = 2
    CutLimits = {2, 3}
    MaxChars = 0
    MaxRows = 0
    TurnForms <- MCTurnForms
    DeltaSize = 7
    GrowthMin = 8
    StreamStep = 7
    SendAttempts = 2
    MaxTurns = 1
    MaxApiFaults = 0
    PostForms <- MCPostForms
    AllowedUsers = {"ann", "ben"}
    NamedUsers = {"ann", "ben", "eve"}
    SeenMax = 1
    MaxPosts = 0
    MaxRepeats = 0
    MaxRestarts = 0
    MaxAttempts = 3
    BaseDelay = 2
    MaxDelay = 3
    Jitter = 1
    TryTimeout = 3
    Budgets = {0}
    MaxDrip = 1
    MaxAppFaults = 0
INVARIANT SilencedWasTold
CHECK_DEADLOCK FALSE
