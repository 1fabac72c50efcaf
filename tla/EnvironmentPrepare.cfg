\* Two interpreters, two modules, three packages; the requirements change once.
SPECIFICATION FairPrepare
CONSTANTS
    py1 = py1
    py2 = py2
    m1 = m1
    m2 = m2
    other = other
    None = None
    Pythons = {py1, py2}
    Candidates <- MCCandidates
    Found <- MCFound
    Mapped <- MCMapped
    Modules = {m1, m2}
    Odd = {}
    Names = {m1, m2, other}
    Unsafe = {}
    V = 2
    MaxCandidates = 3
    MaxRevisions = 2
    MaxAttempts = 2
    MaxEdits = 1
PROPERTIES
    InstallsAreConfirmed
    SavedIsReady
    PreparationEnds
CHECK_DEADLOCK FALSE
