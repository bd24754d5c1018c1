SPECIFICATION FairSpec
CONSTANTS
    Objects <- UpgradeObjects
    Action <- MCAction
    Plan <- UpgradePlan
    Needs <- MCNeeds
    Pins <- MCPins
    MaxFaults = 2
    MaxDrift = 0
PROPERTIES
    PromiseKept
    Terminates
CHECK_DEADLOCK FALSE
