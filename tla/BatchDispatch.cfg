\* Three targets and a limit of two failures: targets before, at and behind the
\* limit, blocked ones among them.
SPECIFICATION FairSpec
CONSTANTS
    N = 3
    BatchFailureLimit = 2
INVARIANTS
    NothingIsOverclaimed
    EveryTargetIsAccountedFor
    LimitIsExact
PROPERTIES
    BatchEnds
CHECK_DEADLOCK FALSE
