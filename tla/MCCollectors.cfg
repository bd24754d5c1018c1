SPECIFICATION Spec
CONSTANTS
  MaxChanges = 2
  Pids = {1, 2, 3}
  MaxFileLines = 4
CHECK_DEADLOCK FALSE
INVARIANTS
  TypeOK
  NothingLost
  NothingInvented
  PassIsEarned
  StatusIsWorst
  SecretsMasked
