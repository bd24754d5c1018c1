SPECIFICATION Spec
CONSTANTS
    Objects <- UnitObjects
    Action <- MCAction
    Plan <- UnitPlan
    Needs <- MCNeeds
    Pins <- MCPins
    MaxFaults = 1
    MaxDrift = 0
INVARIANTS
    UnitsGetEnabled
CHECK_DEADLOCK FALSE
