CONSTANTS
  Requests = {r1, r2}
  QuitCallers = {"client"}
  InitTimeout = "finite"
  NewTimeouts = {"finite", "max"}
  ReloadSocket = TRUE
  MaxReloads = 1
  NoOne = NoOne
SPECIFICATION FairSpec
INVARIANTS
  TimerTracksRequests
  QuitsAreSafe
PROPERTIES
  QuitStopsUndisturbedServer
  ReloadServesNewSocket
CHECK_DEADLOCK FALSE
