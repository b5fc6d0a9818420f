SPECIFICATION Spec
CONSTANTS
  Kinds = {"platform", "offer"}
  MaxRetries = 1
  TxDepth = 4
  RxDepth = 1
  MaxCalls = 2
  MaxConns = 2
  MaxPackets = 1
  MaxBreaks = 1
INVARIANTS
  TypeOK
  LinkHonest
  GrantDiscipline
  FlagsTellTruth
PROPERTIES
  KeepsPromise
  LeavingEnds
\* The board may call no more, within the bounds.
CHECK_DEADLOCK FALSE
