SPECIFICATION Spec
CONSTANTS
    s1 = s1
    s2 = s2
    c1 = c1
    c2 = c2
    absent = absent
    noContext = noContext
    None = None
    Absent = absent
    NoContext = noContext
    Servers = {s1, s2}
    Calls = {c1, c2}
    MaxRules = 3
    MaxEdits = 1
    FlagNames <- MCFlagNames
    Raws <- MCRaws
    FieldValues <- MCFieldValues
    BucketFor <- MCBucketFor
    FileSources <- MCFileSources
    Contexts <- MCContexts
SYMMETRY FlagSymmetry
CHECK_DEADLOCK FALSE
INVARIANTS
    ServesASnapshot
    BadgeMeansOverride
    ServedValuesAreLegal
    OnlyARivalHidesAWrite
PROPERTY
    ReloadsMoveForward
