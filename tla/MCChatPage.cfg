SPECIFICATION Spec
CONSTANTS
    Chats = {c0, c1, c2}
    Runs = {r0, r1, r2}
    FirstChat = c0
    Earlier = r0
    PageLimit = 4
    None = None
SYMMETRY PageSymmetry
CHECK_DEADLOCK FALSE
INVARIANTS
    OneChatOnThePage
    QuestionStaysShown
    AnswersAreNotMixed
    PageIsHistory
