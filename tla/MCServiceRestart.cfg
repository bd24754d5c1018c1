SPECIFICATION FairSpec
CONSTANTS
    r1 = r1
    r2 = r2
    Runs <- MCRuns
    MaxStarts = 2
INVARIANTS
    TypeOK
    ApprovalIsSpent
    PassMeansRestarted
PROPERTY Terminates
CHECK_DEADLOCK FALSE
