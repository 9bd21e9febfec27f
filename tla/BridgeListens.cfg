SPECIFICATION Spec
CONSTANTS
  DevIds = {1, 2, 3}
  DeviceSettings <- MCSettings
  UserIds = {0, 1}
  SdkThreads = {t1}
  LoopThread = loop
  NoMessage = NoMessage
  MaxReports <- MCOneReport
INVARIANT
  Listens
\* The handler may wait for ever for the lock that its own thread holds.
CHECK_DEADLOCK FALSE
