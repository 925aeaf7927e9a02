SPECIFICATION Spec
CONSTANTS
    Ops = {o1, o2}
    Invalidators = {i1}
    FutureBuffers = {1}
    Ahead = 0
    Behind = 0
    Dmax = 1
    freshAgeMs = 1
    maximumAgeMs = 2
    MAX_TRACKED_REDIS_VALUE_TTL_MS = 1
    WATERMARK_TTL_MARGIN_MS = 0
    InitialValues <- EmptyValue
    InitialWatermarks <- EmptyWatermark
    MaxTime = 4
    MaxVersion = 1
SYMMETRY Symmetry
INVARIANTS
    InvalidatedNeverReadable
    ServedAfterFence
    WatermarkOutlivesStaleFrames
PROPERTIES
    HitsAreBoundedInAge
CHECK_DEADLOCK FALSE
