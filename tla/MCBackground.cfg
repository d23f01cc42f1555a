SPECIFICATION Spec
CONSTANTS
    Commands = {a, b}
    Chats = {x, y}
    Jobs = {j, k}
    Slots = 1
    MaxAsked = 2
    MaxFailures = 3
    t = t
    s = s
    u = u
    m = m
    Builtin = {t, s}
    Mcp = {u}
    Manager = m
    Denied = {s}
    Batches <- MCBatches
    Capacity = 2
    MaxIterations = 3
    Plans = 2
    MaxRetries = 1
    MaxTurns = 2
    PeerJobs = {t1, t2}
    MaxPeers = 3
    MaxPeerFaults = 1
INVARIANTS
    BackgroundTypeOK
    LiveIsReachable
    PeerTasksAreSound
    RepliesInOrder
    LoadedAreRecent
PROPERTIES
    TimedTaskEnds
    JobsAreTold
    NoThirdRun
    TurnsEnd
CHECK_DEADLOCK FALSE
