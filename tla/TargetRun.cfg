\* Three candidates, two mutants of which both must be killed, one line to
\* cover, and whether the tests reach the target at all: a round can close a gap, open
\* another one, and roll back.  A branch is judged as a line is; there is none.
SPECIFICATION FairSpec
CONSTANTS
    Codes = {c1, c2, c3}
    NoCode = NoCode
    Mutants = {m1, m2}
    Lines = {line}
    Branches = {}
    NotExecuted = NotExecuted
    NoFocus = NoFocus
    Required = 2
    MaxLoops = 4
    FailureLimit = 4
    NoImprovementLimit = 2
INVARIANTS
    FocusIsOpen
    JournalIsOneStory
    StatusIsTrue
PROPERTIES
    RunEnds
    BaselineRefinement
CHECK_DEADLOCK FALSE
