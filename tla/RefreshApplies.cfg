CONSTANTS
  a = a
  b = b
  Agents = {a}
  Versions <- MCVersions
  RemoteVersions <- MCRemoteVersions
  MaxEdits = 2
  MaxCalls = 3
SPECIFICATION Spec
INVARIANT RefreshApplies
CHECK_DEADLOCK FALSE
