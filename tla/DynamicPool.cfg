CONSTANTS
  a = a
  b = b
  Agents = {a, b}
  Versions <- MCVersions
  RemoteVersions <- MCRemoteVersions
  MaxEdits = 2
  MaxCalls = 3
SPECIFICATION Spec
INVARIANTS RefreshMirrors DisableSticks RollbackHolds
CHECK_DEADLOCK FALSE
