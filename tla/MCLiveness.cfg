SPECIFICATION LiveSpec
CONSTANTS
    c1 = c1
    c2 = c2
    c3 = c3
    Calls = {c1, c2}
    Scopes = {s1}
    Configs <- AllLayers
    Tracked = FALSE
    HasRedis = TRUE
    Parent <- Reentrant
    MaxVersion = 1
    None = None
    Error = Error
    j1 = j1
    j2 = j2
    Keys = {k1, k2}
    shadowMaxInFlight = 1
PROPERTIES
    EveryCallSettles
    EveryJobEnds
CHECK_DEADLOCK FALSE
