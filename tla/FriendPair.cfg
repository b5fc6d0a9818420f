SPECIFICATION Spec
CONSTANTS
  Devices = {"a", "b"}
  Draws <- MCDraws
  None = "none"
  Limit = 1
  MaxAir = 2
  MaxGreets = 1
  MaxCommands = 2
INVARIANTS
  MutualConsent
  SameSession
  GreetedOnce
PROPERTIES
  ConsentConnects
  HalfOpenEnds
\* All off, within the bound of commands.
CHECK_DEADLOCK FALSE
