SPECIFICATION Spec
CONSTANTS
  MaxChanges = 1
  Pids = {1, 2, 3}
  MaxFileLines = 4
INVARIANT MissingUnitIsInformational
CHECK_DEADLOCK FALSE
