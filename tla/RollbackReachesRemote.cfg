CONSTANTS
  a = a
  b = b
  Agents = {a}
  Versions <- MCVersions
  RemoteVersions <- MCRemoteVersions
  MaxEdits = 0
  MaxCalls = 2
SPECIFICATION Spec
INVARIANT RollbackReachesRemote
CHECK_DEADLOCK FALSE
