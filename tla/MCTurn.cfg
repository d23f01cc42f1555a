SPECIFICATION TurnSpec
CONSTANTS
    a = a
    b = b
    Chats = {a, b}
    JobChats = {b}
    MaxMessages = 3
    MaxCompletions = 1
    Sessions = {a}
    MaxTurns = 3
INVARIANTS
    TurnTypeOK
    TurnsAreAccounted
    InterruptIsUncommitted
    IngestedInOrder
PROPERTIES
    EverythingDrains
CHECK_DEADLOCK FALSE
