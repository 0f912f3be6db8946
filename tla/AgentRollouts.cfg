SPECIFICATION FairSpec
CONSTANTS
  Rollouts = 3
  MaxConcurrency = 2
  MaxTurns = 2
  Faults = {"start", "bind", "sample", "shell", "reward", "close"}
INVARIANTS
  ShellsStayHome
PROPERTIES
  GatherSettles
