CONSTANTS
  AppArmorPolicies <- MCAppArmorPolicies
  DconfPolicies <- MCDconfPolicies
  MountPolicies <- MCMountPolicies
  PrivilegePolicies <- MCPrivilegePolicies
  CertificatePolicies <- MCCertificatePolicies
  SystemRules <- MCSystemRules
  UserPolicies = {1, 2}
  MaxUpdates = 3
  MaxSessions = 2
  Files = {"f", "g"}
  Users = {u1, u2}
  NoUser = NoUser
  MaxApplies = 4
  MaxFaults = 1
  Machine = Machine
  NoFile = NoFile
  NoEntry = NoEntry
  NoReturn = NoReturn
  CAs = {c1, c2}
  BadValue = BadValue
SPECIFICATION ManagersSpec
INVARIANTS
  IInv
  UnracedSessionKeepsVersion
  ReadyMeansComplete
  OlderScriptsAreGone
  ProfilesAreConsistent
  AppliedIsCompiled
  MountsAreInForce
  SudoAndPolkitAgree
  EnrollmentFollowsPolicy
CHECK_DEADLOCK FALSE
