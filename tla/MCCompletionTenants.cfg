SPECIFICATION Spec
CONSTANTS
    Users = {u1, u2}
    Chats = {c1, c2}
    Requests = {r1, r2}
    None = None
    HistoryLimit = 2
    MaxDeltas = 1
    MaxTools = 0
SYMMETRY FullSymmetry
CHECK_DEADLOCK FALSE
INVARIANTS
    TenantsIsolated
    RejectedLeavesNoTrace
    AnsweredOnce
PROPERTIES
    ImplementsConversation
