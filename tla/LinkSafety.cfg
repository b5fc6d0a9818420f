SPECIFICATION Spec
CONSTANTS
  phone1 = phone1
  phone2 = phone2
  none = none
  Peers = {phone1, phone2}
  NoPeer = none
  Chunks = 2
  MaxPending = 1
  MaxConns = 2
  MaxRequests = 2
  MaxFaults = 1
  Calls = {"changed", "forget", "stop"}
  MaxCalls = 1
INVARIANTS
  ReplyToAsker
  AppServed
PROPERTIES
  OneOwner
SYMMETRY MCSymmetry
\* No more connections within the bound, or stopped.
CHECK_DEADLOCK FALSE
