SPECIFICATION BackingsSpec
CONSTANTS
  r1 = r1
  r2 = r2
  d1 = d1
  None = None
  Runtimes <- MCRuntimes
  Dirs <- OneDir
  Files <- OnlyResult
  Outputs <- AllOutputs
  Container = TRUE
  MaxRequests = 2
  MaxEpisodes = 2
  web = web
  db = db
  auth = auth
  Public = web
  Internals <- DbThenAuth
  MaxBoots = 2
  MaxPlays = 3
INVARIANTS
  NoEventSkipped
  CheckpointsLive
  EveryContainerTracked
  GradesOwnLines
PROPERTIES
  CallsReturn
CHECK_DEADLOCK FALSE
