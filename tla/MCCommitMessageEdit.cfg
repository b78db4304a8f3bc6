SPECIFICATION FairSpec
CONSTANTS
  e1 = e1
  e2 = e2
  None = None
  Edits <- TwoEdits
  FaultKinds = {"error", "crash", "partial"}
  MaxFaults = 2
  MaxCommits = 1
INVARIANTS BackupMeansPublished OutcomeIsTrue
PROPERTIES ImplementsAtomicEdit NoLatePublication ForeignLocksAreKept RecoveryCompletes
