SPECIFICATION FairRound
CONSTANTS
    m1 = m1
    m2 = m2
    m3 = m3
    NoCode = NoCode
    Methods <- MCMethods
    Codes <- MCCodes
    Starts <- MCStarts
    Tried <- MCTried
    Replies <- MCReplies
    Qualified = {"reviewer", "bug-fixer"}
    Parts = 2
    FailureLimit = 3
    MaxRequests = 5
INVARIANTS
    OnlyValidatedLeaves
    FeedbackIsTrue
    CorrectionsStayNarrow
    CheckpointsAreKept
PROPERTIES
    RoundEnds
CHECK_DEADLOCK FALSE
