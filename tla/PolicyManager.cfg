CONSTANTS
  Procs = {p1, p2}
  Users = {u1}
  Computer = Computer
  FreeManagers = {Dconf}
  ProManagers = {mount}
  Dconf = Dconf
  Gdm = Gdm
  WithAssets = {1}
  BadTemplate = {3}
  BadProTemplate = {1}
  UserTemplate = {2}
  CanBeOffline = TRUE
  MaxVersion = 3
  MaxCalls = 3
  MaxFailures = 1
  MaxCrashes = 1
  NoOne = NoOne
SPECIFICATION Spec
SYMMETRY Symmetry
INVARIANTS
  CacheIsSound
  BadTemplateNeverApplied
  UpdatesCanProceed
PROPERTIES
  GdmAfterMachineDconf
  UndisturbedReadIsSavedPolicies
  ImplementsObjectUpdates
CHECK_DEADLOCK FALSE
