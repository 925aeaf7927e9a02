SPECIFICATION MCSpec
CONSTANTS
    Bytes = {0, 1, 2, 3}
    Payloads <- AllPayloads
    Thresholds = {1, 3}
    MAX_DECOMPRESSED_BYTES = 4
    Stamps = {1, 2}
    ForeignFrames <- Foreign
    zstdCompressSync <- Compress
    zstdDecompressSync <- Decompress
    Null = Null
    Failure = Failure
    Undefined = Undefined
    Malformed = Malformed
    ConfigError = ConfigError
    Absent = Absent
    Defaults <- Variants
    Overlays <- Variants
    MaxCacheTtlSec = 3
    MaxTimerDelayMs = 5
    Sample <- KeySample
    CodeUnits <- Units
    Configs <- ConstructorArguments
    Options <- CachedOptions
    CacheKeys <- SelectedKeys
    MaxKeys = 2
    NoInstance = NoInstance
    NullValue = NullValue
    UndefinedValue = UndefinedValue
    MAX_TIMER_DELAY_MS = 5
    Omitted = Omitted
    NoHook = NoHook
    None = None
    Keys = {k1, k2, k3}
    Values = {v1, v2}
    MaxSizes = {0, 1, 2}
    TtlSecs = {1, 2}
    MsPerSec = 2
    TicksPerMs = 2
    MaxTime = 5
SYMMETRY Symmetry
INVARIANTS
    ReadsAreExact
    HitsAreExact
    OverlayPrevails
    NamesAreExact
    WarningIsExact
CHECK_DEADLOCK FALSE
