SPECIFICATION Spec
CONSTANTS
  w1 = w1
  w2 = w2
  Workers = {w1, w2}
  BufCap = 4
  GateFloor = 2
  MaxSdu = 1
  FlashChunk = 1
  FwSize = 3
  IdleMax = 1
  MaxSessions = 1
  MaxChans = 1
  MaxFaults = 1
  Faults = {"appabort"}
SYMMETRY WorkerSymmetry
INVARIANTS
  ChannelReopens
\* The App may fall silent for ever.
CHECK_DEADLOCK FALSE
