\* What ARCHITECTURE.md says of a Bug Fixer reply of unusable format.
SPECIFICATION Spec
CONSTANTS
    Codes = {c1, c2}
    NoCode = NoCode
    Tests = {t1}
    FailureLimit = 3
    MaxAttempts = 3
PROPERTIES
    FormatFailureGoesToWriter
CHECK_DEADLOCK FALSE
