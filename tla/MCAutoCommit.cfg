SPECIFICATION Spec
CONSTANTS
  Groups <- MCGroups
  None = None
  Torn = Torn
  FaultKinds = {"crash", "error", "hook", "chain"}
  MaxFaults = 2
  MaxForeign = 2
  MaxAttempts = 3
INVARIANTS IndexFollowsHead OutcomeIsTrue
PROPERTIES ForeignWorkIsKept RecoveryCompletes
CHECK_DEADLOCK FALSE
