CONSTANTS
  Requests = {r1}
  QuitCallers = {}
  InitTimeout = "finite"
  NewTimeouts = {}
  ReloadSocket = FALSE
  MaxReloads = 0
  NoOne = NoOne
SPECIFICATION FairSpec
PROPERTY QuitStopsServer
CHECK_DEADLOCK FALSE
