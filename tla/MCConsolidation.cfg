SPECIFICATION Spec
CONSTANTS
    Keep = 1
    MinNew = 1
    MaxMessages = 3
    MaxWaiters = 1
    MaxTrims = 1
INVARIANTS
    TypeOK
    ArchiveIsWhole
    TailIsKept
PROPERTIES
    RunsComplete
