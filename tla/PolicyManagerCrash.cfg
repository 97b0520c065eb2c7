CONSTANTS
  Procs = {p1}
  Users = {}
  Computer = Computer
  FreeManagers = {Dconf}
  ProManagers = {mount}
  Dconf = Dconf
  Gdm = Gdm
  WithAssets = {}
  BadTemplate = {}
  BadProTemplate = {}
  UserTemplate = {}
  CanBeOffline = TRUE
  MaxVersion = 1
  MaxCalls = 2
  MaxFailures = 0
  MaxCrashes = 1
  NoOne = NoOne
SPECIFICATION Spec
INVARIANT CacheReadIsSavedPolicies
CHECK_DEADLOCK FALSE
