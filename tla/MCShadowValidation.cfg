SPECIFICATION Spec
CONSTANTS
    j1 = j1
    j2 = j2
    j3 = j3
    k1 = k1
    k2 = k2
    Jobs = {j1, j2, j3}
    Keys = {k1, k2}
    keyOf <- KeyOf
    shadowMaxInFlight = 1
    MaxVersion = 1
    None = None
SYMMETRY Symmetry
INVARIANTS
    SlotsBoundWork
PROPERTIES
    NoFillAfterDeadline
    MismatchIsConfirmed
CHECK_DEADLOCK FALSE
