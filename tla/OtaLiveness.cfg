SPECIFICATION Spec
CONSTANTS
  w1 = w1
  w2 = w2
  Workers = {w1, w2}
  BufCap = 4
  GateFloor = 2
  MaxSdu = 1
  FlashChunk = 1
  FwSize = 6
  IdleMax = 3
  MaxSessions = 1
  MaxChans = 1
  MaxFaults = 2
  Faults = {"begin", "write", "power", "channel", "audio", "appabort", "pool_worker"}
INVARIANTS
  NoOverflow
  CreditAccounted
PROPERTIES
  SessionEnds
  TimeoutIsPeersFault
  BoardHearsEnd
\* The App may fall silent for ever.
CHECK_DEADLOCK FALSE
