SPECIFICATION Spec
CONSTANTS
    MaxChats = 4
    Existing = 2
    Limits = {1, 2}
    MaxActs = 2
    MaxForeign = 1
    MaxVisits = 1
    MaxMore = 2
CHECK_DEADLOCK FALSE
INVARIANTS
    SidebarIsTheList
    NoGhosts
CONSTRAINT FewChanges
