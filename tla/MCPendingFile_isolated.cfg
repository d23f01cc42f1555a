SPECIFICATION PendingSpec
CONSTANTS
    Facts = {f1, f2}
    MaxAppends = 2
    MaxKills = 0
INVARIANT SnapshotIsolated
