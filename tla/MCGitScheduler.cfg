SPECIFICATION Spec
CONSTANTS
  NoJob = NoJob
  Jobs = {j1, j2, j3, j4}
  Keys = {k1, k2}
  CallKinds = {"write", "interactive", "polling", "background", "preflight", "network", "network-read", "background-fetch"}
  RunResults = {"value", "error", "aborted"}
  MaxConcurrentReads = 2
  MaxBackgroundReads = 1
SYMMETRY Symmetry
INVARIANTS
  TypeOK
  WriteRunsAlone
  OnePlace
  CoalescedIsLive
  NoStall
  AcceptedJobsAreKept
PROPERTIES
  ImplementsLock
