SPECIFICATION RunFairSpec
CONSTANTS
  r1 = r1
  r2 = r2
  r3 = r3
  NoRun = NoRun
  Runs <- ThreeRuns
  Repositories = {"a", "b"}
  Steps = 2
  HeldStreams = {}
  MaxRefused = 1
INVARIANTS OneWorkflow AliveIsBusy
PROPERTY StopCompletes
CHECK_DEADLOCK FALSE
