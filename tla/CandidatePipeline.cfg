\* Three candidates, two tests; the failure limit and the candidate budget
\* can each be the one that ends the call.
SPECIFICATION FairSpec
CONSTANTS
    Codes = {c1, c2, c3}
    NoCode = NoCode
    Tests = {t1, t2}
    FailureLimit = 4
    MaxAttempts = 3
INVARIANTS
    NothingPassedIsLost
    StopsAtLimit
PROPERTIES
    CallEnds
    GateRefinement
CHECK_DEADLOCK FALSE
