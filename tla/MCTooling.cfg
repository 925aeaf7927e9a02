SPECIFICATION MCSpec
CONSTANTS
    Catalog <- TwoMutants
    Named <- Selections
    Counts = {2}
    None = None
    Languages = {"ts", "go", "rust"}
    Environments = {1}
    MaxStarts <- Measurements
    MaxEdits = 1
    Pending = Pending
    LaneOrder <- OneLane
    Processes = {p1, p2}
    Targets = {"ts", "formal"}
    Cases = {c1, c2}
    NoFile = NoFile
    MaxRuns = 2
    MaxTreeEdits = 1
    Ports <- BothPorts
    Seeds = {s1, s2}
    Own = s1
    Profiles = {p1}
    MaxSourceEdits = 1
    MaxReplays = 1
    Null = Null
    p1 = p1
    p2 = p2
    c1 = c1
    c2 = c2
    s1 = s1
    s2 = s2
INVARIANTS
    CompleteReportIsEvidence
    CreditNeedsEvidence
    CompletionIsCurrent
    VerdictIsEarned
    CampaignIsEvidence
    PassesAreOfTheTree
CHECK_DEADLOCK FALSE
