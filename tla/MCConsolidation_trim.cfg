SPECIFICATION Spec
CONSTANTS
    Keep = 1
    MinNew = 1
    MaxMessages = 4
    MaxWaiters = 1
    MaxTrims = 1
INVARIANT MarkedAlwaysArchived
