SPECIFICATION Spec
CONSTANTS
  MaxEvents = 3
INVARIANTS
  PauseMeansQuiet
  RefusalIsCurrent
PROPERTIES
  Recovers
\* A session that was stopped may stay so.
CHECK_DEADLOCK FALSE
