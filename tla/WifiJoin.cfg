SPECIFICATION Spec
CONSTANTS
  Nets = {"a", "b"}
  Window = 3
  FailLimit = 2
  MaxQueued = 3
  MaxRequests = 3
INVARIANTS
  NeverStranded
PROPERTIES
  WindowEnds
  PortalCloses
\* A portal nobody uses may stand for ever.
CHECK_DEADLOCK FALSE
