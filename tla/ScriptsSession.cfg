CONSTANTS
  MaxUpdates = 3
  MaxSessions = 2
SPECIFICATION Spec
INVARIANT SessionKeepsVersion
CHECK_DEADLOCK FALSE
