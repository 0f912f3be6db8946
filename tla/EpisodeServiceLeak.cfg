SPECIFICATION Spec
CONSTANTS
  e1 = e1
  e2 = e2
  e3 = e3
  web = web
  api = api
  shell = shell
  r1 = r1
  r2 = r2
  None = None
  EpisodeIds <- MCEpisodeIds
  Snapshots <- MCSnapshots
  Poolable <- MCPoolable
  Runtimes <- MCRuntimes
  WarmCapacity = 1
  MaxCheckpoints = 0
  Faults <- NoFaults
SYMMETRY Symmetry
INVARIANT NoRuntimeLeaks
CHECK_DEADLOCK FALSE
