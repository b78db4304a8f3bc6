SPECIFICATION Spec
CONSTANTS
  t1 = t1
  t2 = t2
  b1 = b1
  b2 = b2
  None = None
  Base = Base
  Tasks <- TwoTasks
  Names <- TwoNames
  Windows = {w1}
  MaxStarts = 2
  MaxSaves = 2
  MaxFaults = 1
  MaxForeign = 1
SYMMETRY Symmetry
INVARIANT StartedIsFound
PROPERTIES WorkIsProtected
CHECK_DEADLOCK FALSE
