SPECIFICATION Spec
CONSTANTS
    Objects <- ApplyObjects
    Action <- MCAction
    Plan <- ApplyPlan
    Needs <- MCNeeds
    Pins <- MCPins
    MaxFaults = 2
    MaxDrift = 1
INVARIANTS
    TypeOK
    AppliedIsVerified
    Accounted
    RestoredUnlessReported
    RollbackUnobstructed
    NeedsHold
    FaultFreeApplies
PROPERTIES
    Advances
CHECK_DEADLOCK FALSE
