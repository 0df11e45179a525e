SPECIFICATION Spec
CONSTANTS
  MaxRuns = 3
  MaxStrays = 1
INVARIANTS
  PageWaitsForSomething
  CardIsLatest
CHECK_DEADLOCK FALSE
