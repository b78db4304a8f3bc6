SPECIFICATION Spec
CONSTANTS
  s1 = s1
  s2 = s2
  c1 = c1
  c2 = c2
  main = main
  target = target
  None = None
  Sessions <- OneSession
  Changes = {c1, c2}
  Branches = {main, target}
  MaxForeign = 1
  MaxPlans = 2
  MaxFaults = 1
  QuietRemoval = TRUE
SYMMETRY Symmetry
INVARIANTS NothingLost ParkedIsListed OutcomeIsTrue
PROPERTIES NoBlindReapply DropsOnlyRestored
