SPECIFICATION Spec
CONSTANTS
  BoardCap = 22
  DeclaredCap = 22
  Metered = FALSE
  ProdPause = 5
  ProdResume = 1
  NearlyDry = 1
  TickEvery = 2
  FlipRepeats = 2
  Reassert = 6
  BlockLen = 2
  DefaultCodec = "adpcm"
  Codecs = {"adpcm", "pcm"}
  MaxSdu = 2
  Window = 2
  Rate = 3
  BackToBack = FALSE
  MaxTurns = 2
  MaxFaults = 1
  Faults = {"cut", "loss", "link"}
INVARIANTS
  NothingDropped
  EstimateClose
