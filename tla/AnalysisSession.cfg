\* Three start attempts, two setup commands, two probes.
SPECIFICATION FairSpec
CONSTANTS
    Sessions = {s1, s2, s3}
    Setups = {u1, u2}
    Probes = {p1, p2}
    NoSession = NoSession
INVARIANTS
    WorkHoldsLease
PROPERTIES
    PanelFreedOnlyWhenIdle
    LockRefinement
    CancelledRunsEnd
    PanelReturns
