SPECIFICATION Spec
CONSTANTS
  MaxChanges = 1
  Pids = {1, 2, 3}
  MaxFileLines = 4
INVARIANT MalformedIsAnswered
CHECK_DEADLOCK FALSE
