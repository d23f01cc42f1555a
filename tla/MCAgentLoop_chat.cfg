SPECIFICATION Spec
CONSTANTS
    a = a
    b = b
    Chats = {a, b}
    JobChats = {b}
    MaxMessages = 1
    MaxCompletions = 0
INVARIANT ToolsSeeOwnChat
CHECK_DEADLOCK FALSE
