SPECIFICATION Spec
CONSTANTS
    Headroom = 1
    Rounding = 4
    SeedLimit = 3
    Step = 2
    MinGain = 1
    Limit = 20
    Settings = {0, 12}
    Unknown = 8
    Needs = {9, 18}
    Surplus = 2
    ProbePrompt = 10
    ProbeReply = 3
    Tests = {t1}
    Names = {"x"}
    ProbeTexts <- MCProbeTexts
    None = None
    Targets = 2
    CallsPerTarget = 2
    MaxRequests = 4
    MaxDrifts = 1
INVARIANTS
    QualifiedForRole
    RefusalIsTrue
    RetryIsLonger
PROPERTIES
    SendsAreAllowed
CHECK_DEADLOCK FALSE
