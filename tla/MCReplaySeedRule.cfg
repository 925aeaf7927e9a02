SPECIFICATION MCSpec
CONSTANTS
    Profiles = {p1, p2}
    Null = Null
    NoInputs = NoInputs
    RefusedInput = RefusedInput
    Sampled = {"s1", "s2", "s3"}
    Regressions = {"r1"}
    Corpora <- Generations
    Actions = {"read", "write"}
    RuleSets <- Classifiers
    Required = {"served", "fixture"}
    Seeds = {1, 2}
    GatedMinimum = 2
    FreshSeedSigma = 2
    MaxEdits = 3
INVARIANTS
    SeedDecidesTheRule
CHECK_DEADLOCK FALSE
