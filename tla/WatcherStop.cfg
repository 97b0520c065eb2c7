CONSTANTS
  Dirs = {d1}
  InitialDirs = {d1}
  MaxReloads = 1
  MaxChanges = 1
  MaxFailures = 1
SPECIFICATION FairSpec
PROPERTY StopReturns
CHECK_DEADLOCK FALSE
