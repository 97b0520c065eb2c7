CONSTANTS
  Procs = {p1, p2}
  Gpos = {g1}
  Assets = Assets
  MaxVersion = 2
  MaxCalls = 3
  MaxFailures = 1
  MaxCrashes = 1
  NoOne = NoOne
  Paths = {f1, f2}
  NoPath = NoPath
  MaxClock = 5
  MaxGroups = 3
  MaxToken = 2
  Types = {dconf, scripts}
  Keys = {1, 2}
  MaxEntries = 4
SPECIFICATION ADSpec
SYMMETRY Symmetry
INVARIANTS
  GPOsAreFreshAndWhole
  ArchiveIsSound
  LocksAreSound
  RulesAreMeant
  MergeIsReference
PROPERTY CopyIsCurrentUndisturbed
CHECK_DEADLOCK FALSE
