SPECIFICATION Spec
CONSTANTS
    Objects <- MCObjects
    Kind <- MCKind
    Profile <- MCProfile
    Accounts <- MCAccounts
    Sessions = {1, 2}
    Modes <- MCModes
    Needs <- MCNeeds
    Pins <- MCPins
    MaxRuns <- MCRuns
    MaxDrift <- MCDrift
INVARIANTS
    TypeOK
    SuccessMeansConverged
    ApprovedChangesOnly
    AppliedOnce
    LaterKeepsEarlier
    NoDoubleCreation
CHECK_DEADLOCK FALSE
