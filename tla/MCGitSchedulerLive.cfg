SPECIFICATION FairSpec
CONSTANTS
  NoJob = NoJob
  Jobs = {j1, j2, j3}
  Keys = {k1}
  CallKinds = {"write", "interactive", "network-read", "background-fetch"}
  RunResults = {"value"}
  MaxConcurrentReads = 2
  MaxBackgroundReads = 1
PROPERTIES
  ShutdownCompletes
  WritesAreServed
  RemoteReadsAreServed
