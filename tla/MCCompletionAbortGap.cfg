SPECIFICATION Spec
CONSTANTS
    Users = {u1}
    Chats = {c1}
    Requests = {r1, r2}
    None = None
    HistoryLimit = 3
    MaxDeltas = 1
    MaxTools = 1
CHECK_DEADLOCK FALSE
INVARIANT
    AbortedTextIsKept
