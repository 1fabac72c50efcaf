\* Three requests: one that works, one that leaves the chain while it waits,
\* one behind both.
SPECIFICATION FairQueue
CONSTANTS
    Requests = {r1, r2, r3}
    NoRequest = NoRequest
    MaxAttempts = 3
PROPERTIES
    NoSendAfterStop
    SerialRefinement
    AllSettle
CHECK_DEADLOCK FALSE
