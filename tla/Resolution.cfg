CONSTANTS
  t1 = t1
  t2 = t2
  s1 = s1
  s2 = s2
  c1 = c1
  c2 = c2
  Agents = {a1, a2}
  Tools = {t1, t2}
  Servers = {s1, s2}
  Capabilities = {c1, c2}
  AgentRows <- MCAgentRows
  ToolRows <- MCToolRows
  Catalogues <- MCCatalogues
  Wanted <- MCWanted
  Authorized <- MCAuthorized
  Builtin = Builtin
  MaxEdits <- MCMaxEdits
SPECIFICATION FairSpec
INVARIANTS PoolExact ProviderExact DiscoveryMirrors
PROPERTIES OperationEnds
CHECK_DEADLOCK FALSE
