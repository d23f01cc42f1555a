SPECIFICATION Spec
CONSTANTS
    RowScopes = {"here"}
    RowSets <- MCRowSets
    Nearness = {0, 1, 2}
    HotWeight = 2
    LeastFetch = 2
    RrfK = 2
    Remembered = {1, 2, 3, 4, 5, 6}
    Lore <- MCLore
    OwnChat = "own"
    Marks = {1, 2}
    Bar = 2
    SectionBudget = 5
    MaxForced = 1
    MaxNorms = 1
    MaxTales = 1
    Facts = {f, g}
    MaxFacts = 2
    MaxItems = 3
    MaxSaves = 3
    MaxMishaps = 1
    alert = alert
    article = article
    Alerts = {alert}
    Contents = {article}
    Story <- Stories
    DailyMax = 1
    ContextMax = 1
    Skills = {"explore", "watch"}
    Servers = {"feeds"}
    RequiresMcp <- Requirement
    Allowed = {"read-only", "write", "external-side-effect"}
    DriftSteps = 2
    RecentCap = 2
    PromptCap = 1
    MaxRuns = 3
    MaxTicks = 2
    MaxDeaths = 1
    CallBatches <- MCCallBatches
    ExitTools <- MCExitTools
    MaxSteps = 4
    RecentRounds = 2
    MaxJobs = 2
    PageLines = 2
    PageBytes = 5
    NumberBytes = 1
    LineSizes = {1, 3, 5, 6}
    MaxLines = 3
    TextChars = {"x", "y", "r", "n"}
    MaxText = 4
    Olds <- MCOlds
    News <- MCNews
    Qualities = 3
    Paths = {"p"}
    FileContents <- MCContents
    Replacements <- MCReplacements
    MaxCheckpoints = 3
    MaxBreaks = 2
    MaxBorn = 3
    MaxSessionSaves = 3
    MaxBreaksOfSaves = 1
    MaxDashboard = 1
    Chains <- MCChains
    Talk = 4
    MaxContext = 2
    LastSeq = 3
    Terms = {"u", "v"}
    MaxPage = 2
    PoolCallers = {"tick", "poll"}
    MaxClients = 2
    MaxPoolCalls = 3
    MaxEnds = 1
    SourceLists <- MCSourceLists
    FeedEvents <- MCFeedEvents
    ServerNames = {"a", "b"}
    ServerTools = {"t", "u"}
    Operators = {"turn", "job"}
    MaxStarts = 3
    MaxFaults = 1
    MaxOperations = 3
    TraceForms <- MCTraceForms
    TraceSessions = {"x"}
    Streams = {"s"}
    TraceQueueMax = 1
    StreamQueueMax = 1
    MaxTraces = 3
    MaxStreams = 1
    MaxTraceFaults = 1
    MessageLimit = 12
    PreviewOverhead = 5
    ThinkingCap = 5
    ThinkingMin = 2
    CutLimits = {2, 3}
    MaxChars = 5
    MaxRows = 5
    TurnForms <- MCTurnForms
    DeltaSize = 7
    GrowthMin = 8
    StreamStep = 7
    SendAttempts = 2
    MaxTurns = 2
    MaxApiFaults = 1
    PostForms <- MCPostForms
    AllowedUsers = {"ann", "ben"}
    NamedUsers = {"ann", "ben", "eve"}
    SeenMax = 1
    MaxPosts = 3
    MaxRepeats = 1
    MaxRestarts = 1
    MaxAttempts = 3
    BaseDelay = 2
    MaxDelay = 3
    Jitter = 1
    TryTimeout = 3
    Budgets = {0, 4, 9}
    MaxDrip = 1
    MaxAppFaults = 2
INVARIANTS
    SafetyTypeOK
    RefMeansRow
    MessageOnce
    EventOnce
    QuotaHolds
    RunsAreSound
    FilesAreSound
    SessionsAreWhole
    ReadingsAreFaithful
    RecallIsFaithful
    McpIsSound
    TracesStayKept
    ChannelsAreFaithful
    EndsAreOrderly
PROPERTIES
    SavedIsFound
    FactsAreSpared
CHECK_DEADLOCK FALSE
