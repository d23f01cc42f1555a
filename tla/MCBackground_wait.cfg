SPECIFICATION Spec
CONSTANTS
    Commands = {a}
    Chats = {x}
    Jobs = {j}
    Slots = 1
    MaxAsked = 1
    MaxFailures = 3
    t = t
    s = s
    u = u
    m = m
    Builtin = {t, s}
    Mcp = {u}
    Manager = m
    Denied = {s}
    Batches <- MCBatches
    Capacity = 2
    MaxIterations = 1
    Plans = 1
    MaxRetries = 1
    MaxTurns = 0
    PeerJobs = {t1}
    MaxPeers = 1
    MaxPeerFaults = 0
INVARIANT WaitReturns
CHECK_DEADLOCK FALSE
