SPECIFICATION SeededFairSpec
CONSTANTS
    Users = {u1, u2}
    Chats = {c1}
    Requests = {r0, r1}
    First = r0
    Author = u1
    Thread = c1
    None = None
    HistoryLimit = 4
    MaxDeltas = 3
    MaxTools = 3
CHECK_DEADLOCK FALSE
PROPERTIES
    Responds
