SPECIFICATION WatchSpec
CONSTANTS
  paused = paused
  enabled = enabled
  State <- MCState
  MaxChanges = 5
CHECK_DEADLOCK FALSE
INVARIANTS
  WatchTypeOK
  WindowFollows
PROPERTIES
  CatchesUp
