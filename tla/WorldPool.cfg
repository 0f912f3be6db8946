SPECIFICATION PoolSpec
CONSTANTS
  Worlds <- MCWorlds
  Difficulty <- MCDifficulty
  Family <- MCFamily
  Seeds <- MCSeeds
  MaxSize = 3
  Groups = 2
  EvolveTop = 1
  MixPercent = 30
  MaxPriority = 4
  Scores = {0, 2, 4}
INVARIANTS
  EasyTail
PROPERTIES
  EasiestKept
