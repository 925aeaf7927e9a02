SPECIFICATION Spec
CONSTANTS
    c1 = c1
    c2 = c2
    c3 = c3
    Calls = {c1, c2, c3}
    Scopes = {s1, s2}
    Configs <- Coalesced
    Tracked = TRUE
    HasRedis = FALSE
    Parent <- NoParents
    MaxVersion = 1
    None = None
    Error = Error
SYMMETRY Symmetry
INVARIANTS
    FollowersAreCounted
    CoalescedRunIsShared
PROPERTIES
    MemoIsStable
CHECK_DEADLOCK FALSE
