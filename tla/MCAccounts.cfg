SPECIFICATION AccountsSpec
CONSTANTS
    Users = {u1, u2, u3}
    Emails = {a, b}
    Calls = {e1, e2, c1, c2}
    Earlier = {e1, e2}
    Regraded = {u1, u2, u3}
    None = None
SYMMETRY AccountSymmetry
CHECK_DEADLOCK FALSE
INVARIANTS
    OneAccountPerAddress
    ClaimsAreCurrent
PROPERTY
    LastAdminStays
