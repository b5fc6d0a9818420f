SPECIFICATION Spec
CONSTANTS
  BoardCap = 24
  DeclaredCap = 24
  Metered = TRUE
  ProdPause = 3
  ProdResume = 1
  NearlyDry = 1
  TickEvery = 1
  FlipRepeats = 0
  Reassert = 2
  BlockLen = 2
  DefaultCodec = "adpcm"
  Codecs = {"adpcm"}
  MaxSdu = 3
  Window = 1
  Rate = 4
  BackToBack = TRUE
  MaxTurns = 2
  MaxFaults = 1
  Faults = {"loss", "link", "timer"}
INVARIANTS
  Intelligible
PROPERTIES
  DecisionArrives
