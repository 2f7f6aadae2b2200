SPECIFICATION Spec
CONSTANTS
    r1 = r1
    r2 = r2
    r3 = r3
    s1 = s1
    a = a
    web = web
    None = None
    Reqs = {r1, r2, r3}
    Servers = {s1}
    Callers = {a}
    Clients = {web}
    Routes <- MCRoutes
    Stores = {"memory", "redis"}
    PublicLimit = 1
    FlagLimit = 2
    Window = 2
    StaleFactor = 1
    MaxBuckets = 1
    MaxTime = 3
    MaxFaults = 1
SYMMETRY MCSymmetry
INVARIANTS BudgetHolds RefusalIsEarned WaitingIsEnough CountersExpire
CHECK_DEADLOCK FALSE
