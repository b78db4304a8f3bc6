SPECIFICATION Spec
CONSTANTS
  Names = {n1, n2}
  None = None
  MaxMade = 3
  MaxCalls = 4
  MaxFaults = 2
  MaxForeign = 1
INVARIANTS RetriesAreAsked OnlyOwnOrConfirmed StageIsTrue
CHECK_DEADLOCK FALSE
