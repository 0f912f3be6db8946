CONSTANTS
  Recorders = {"agent", "tick"}
  RunClients = {"page"}
  ReaderClients = {"remote"}
  BufferSize = 2
  History = 1
  MaxEvents = 2
SPECIFICATION Spec
INVARIANTS UniqueIds StreamUnbroken ReaderFollowsLog
PROPERTIES StreamsEnd
CHECK_DEADLOCK FALSE
