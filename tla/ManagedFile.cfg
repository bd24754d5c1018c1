SPECIFICATION Spec
CONSTANT MaxRuns = 2
INVARIANTS
    TypeOK
    TargetWhole
    OriginalRecoverable
    RestoredIsOriginal
    CommittedIsDurable
    NoOrphans
CHECK_DEADLOCK FALSE
