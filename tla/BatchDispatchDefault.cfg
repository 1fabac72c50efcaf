\* The default policy: batchFailureLimit 0.
SPECIFICATION Spec
CONSTANTS
    N = 2
    BatchFailureLimit = 0
PROPERTIES
    FailureStopsTheBatch
CHECK_DEADLOCK FALSE
