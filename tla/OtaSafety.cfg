SPECIFICATION Spec
CONSTANTS
  w1 = w1
  w2 = w2
  Workers = {w1, w2}
  BufCap = 4
  GateFloor = 2
  MaxSdu = 1
  FlashChunk = 1
  FwSize = 2
  IdleMax = 1
  MaxSessions = 2
  MaxChans = 2
  MaxFaults = 1
  Faults = {"task", "begin", "write", "image", "bootsel", "power", "link", "channel", "audio", "appabort", "boardabort", "pool_worker"}
SYMMETRY WorkerSymmetry
INVARIANTS
  OneOwner
  BootableImage
  OneVerdict
PROPERTIES
  InstallsAtomically
\* The App may fall silent for ever.
CHECK_DEADLOCK FALSE
