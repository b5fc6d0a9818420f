SPECIFICATION VoiceSpec
CONSTANTS
  Builds = {"c3", "std"}
  Cap = 3
  Packet = 2
  Retries = 1
  MaxSaid = 5
  MaxOpens = 2
  MaxDrops = 2
INVARIANTS
  NumbersTellLoss
  WholeUnlessError
PROPERTIES
  SessionEnds
\* The application may open no more sessions, within the bound.
CHECK_DEADLOCK FALSE
