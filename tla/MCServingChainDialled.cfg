SPECIFICATION Spec
CONSTANTS
    c1 = c1
    c2 = c2
    c3 = c3
    Calls = {c1, c2}
    Scopes = {s1, s2}
    Configs <- Dialled
    Tracked = TRUE
    HasRedis = TRUE
    Parent <- NoParents
    MaxVersion = 1
    None = None
    Error = Error
SYMMETRY Symmetry
PROPERTIES
    TrackedLocalIsValidated
CHECK_DEADLOCK FALSE
