SPECIFICATION AdwatchdSpec
CONSTANTS
  Dirs = {d1, d2}
  InitialDirs = {d1}
  MaxReloads = 2
  MaxChanges = 2
  MaxFailures = 1
  Procs = {0, 1, 2}
  Paths = {"default", "other"}
  NoPath = "no"
  Values = {"a", "gone"}
  Exists = {"a"}
  Default = "default"
  MaxSubmits = 2
  MaxInputs = 2
  MaxCommands = 2
INVARIANTS
  LoopsAreSound
  FormIsSound
  SuccessIsInstalled
PROPERTIES
  CallsReturnUnlessHung
  ChangesAreBumped
CHECK_DEADLOCK FALSE
