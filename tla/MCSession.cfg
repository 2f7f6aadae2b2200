SPECIFICATION Spec
CONSTANTS
    Users = {u1, u2}
    Emails = {a, b}
    Calls = {e1, c1, c2}
    Earlier = {e1}
    Regraded = {}
    None = None
    MaxRequests = 1
SYMMETRY SessionSymmetry
CHECK_DEADLOCK FALSE
INVARIANTS
    UserIsTheTokens
    FlagsAreTheSessions
PROPERTY
    SessionEndsForAReason
