SPECIFICATION FairSpec
CONSTANTS
  MaxEpisodes = 2
  MaxRequests = 1
INVARIANTS
  EventsOnce
  NoForeignEvents
  GradedAlone
  NothingLeftBehind
  BrokenSaidOnce
PROPERTIES
  StopReturns
CHECK_DEADLOCK FALSE
