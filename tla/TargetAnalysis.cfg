\* Two recoverable failures, one edit or deletion of the target or of a
\* dependency at any await, one cancellation, one deadline.
SPECIFICATION FairSpec
CONSTANTS
    FailureLimit = 2
    MaxEdits = 1
INVARIANTS
    ReportIsTrue
    WorkerIsOver
PROPERTIES
    PublishedIsCurrent
    StoppedRunsEnd
CHECK_DEADLOCK FALSE
