SPECIFICATION Spec
CONSTANTS
    None = None
    Nowhere = Nowhere
    Calls = {a1, a2, a3}
    MaxClock = 2
    Buffers = {0, 1}
    Prefixes = {p1, p2}
    MaxEvents = 1
    MaxForeign = 1
    RegionIds = {r1, r2, r3}
    Callers = {c1, c2}
SYMMETRY Symmetry
INVARIANTS
    SettledFencesAreSeen
    RetryProposesTheSame
    RegistryIsExact
    MemoStaysInItsRequest
CHECK_DEADLOCK FALSE
