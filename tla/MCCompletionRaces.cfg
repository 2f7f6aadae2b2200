SPECIFICATION SeededSpec
CONSTANTS
    Users = {u1}
    Chats = {c1}
    Requests = {r0, r1, r2}
    First = r0
    Author = u1
    Thread = c1
    None = None
    HistoryLimit = 4
    MaxDeltas = 2
    MaxTools = 1
SYMMETRY RivalSymmetry
CHECK_DEADLOCK FALSE
INVARIANTS
    DoneIsDurable
    StreamedTextIsKept
    PromptSurvives
    EveryAnswerHasItsPrompt
    ContextPrecedesPrompt
    HeartbeatStops
PROPERTIES
    OnlyStaleAnswersVanish
