SPECIFICATION Spec
CONSTANTS
  c1 = c1
  c2 = c2
  c3 = c3
  e1 = e1
  e2 = e2
  None = None
  Calls <- ThreeCalls
  Endpoints <- TwoEndpoints
  Refs = {"branch", "tag"}
  Branch = "branch"
  MaxForeign = 1
  MaxChanges = 1
  MaxFaults = 1
SYMMETRY Symmetry
INVARIANTS OneRun ResultIsTrue
PROPERTIES ForeignIsKept
CHECK_DEADLOCK FALSE
