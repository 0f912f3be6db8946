CONSTANTS
  sql_injection = sql_injection
  broken_authz = broken_authz
  web = web
  api = api
  home = home
  search = search
  items = items
  Kinds <- MCKinds
  Controlled <- MCControlled
  Realizable <- MCRealizable
  NodeOrder <- MCNodeOrder
  Services <- MCServices
  Pages <- MCPages
  Exposes <- MCExposes
  Affects <- MCAffects
  Modes = {"off", "vuln", "novel"}
  MaxCalls = 3
SPECIFICATION StagedSpec
INVARIANTS ShipsVerified SnapshotTells GatedStaysWinnable
CHECK_DEADLOCK FALSE
