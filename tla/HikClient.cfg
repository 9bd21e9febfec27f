SPECIFICATION FairSpec
CONSTANTS
  d1 = d1
  d2 = d2
  d3 = d3
  DevIds = {d1, d2, d3}
  Devices <- MCDevices
  UserIds = {0, 1, 2}
  SdkThreads = {t1, t2}
INVARIANTS
  SessionsAccounted
  RegisteredAreArmed
  Attribution
  NullDeviceOnlyWhileRegistering
  LogoutLeavesInProgress
PROPERTIES
  EveryDeviceGetsItsTurn
