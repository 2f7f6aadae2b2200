SPECIFICATION Spec
CONSTANTS
    FlagNames = {"AI_TOOLS_ENABLED", "TOOL_CALCULATOR_ENABLED"}
    Raws = {}
    MaxRules = 3
    FieldValues = {"u2", "u3", "boss", "user", "admin"}
    Absent = Absent
    NoContext = NoContext
    BucketFor <- Bucket
    FLAG_LIST <- FlagList
    TOOL_FLAGS = {"TOOL_CALCULATOR_ENABLED"}
    AI_TOOLS_MASTER = "AI_TOOLS_ENABLED"
    Percentages = {50}
    Roles = {"admin"}
    Accounts <- Newest
    Stored <- Overrides1
    Registered = {"u2", "boss"}
    Self = "boss"
    PAGE_SIZE = 1
    Nothing = Nothing
    MaxClicks = 3
    MaxEdits = 2
    MaxVisits = 1
    MaxForeign = 1
CHECK_DEADLOCK FALSE
INVARIANTS
    PanelIsCurrent
    UsersAreListed
PROPERTY OverridesTouchOneUser
CONSTRAINT FewSteps
