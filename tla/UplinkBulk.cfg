SPECIFICATION Spec
CONSTANTS
  Kind = "audio"
  QueueCap = 2
  MaxWrite = 2
  Attempts = 3
  Window = 1
  MaxTransfers = 2
  MaxUnits = 4
  MaxFaults = 2
  Faults = {"notify", "pool", "channel", "link", "task"}
INVARIANTS
  NoGap
  WholeMeansWhole
  Attributable
PROPERTIES
  TransferEnds
\* The board may stop using the stream.
CHECK_DEADLOCK FALSE
