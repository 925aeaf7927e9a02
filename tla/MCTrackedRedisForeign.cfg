SPECIFICATION Spec
CONSTANTS
    Ops = {o1}
    Invalidators = {i1}
    FutureBuffers = {3}
    Ahead = 1
    Behind = 1
    Dmax = 1
    freshAgeMs = 1
    maximumAgeMs = 2
    MAX_TRACKED_REDIS_VALUE_TTL_MS = 2
    WATERMARK_TTL_MARGIN_MS = 1
    InitialValues <- ForeignValues
    InitialWatermarks <- ForeignWatermarks
    MaxTime = 8
    MaxVersion = 1
SYMMETRY Symmetry
PROPERTIES
    SkippedRefillsAreFenced
    WatermarkOnlyAdvances
CHECK_DEADLOCK FALSE
