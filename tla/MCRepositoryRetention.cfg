SPECIFICATION Spec
CONSTANTS
  r1 = r1
  r2 = r2
  Repos <- OneRepo
  None = None
  MissingPeriod = 2
  ObservedDays = 2
  ReturnPeriod = 2
  MaxDay = 3
  MaxFaults = 1
PROPERTIES TakenOutIsAbandoned MetadataOutlivesReturn
CHECK_DEADLOCK FALSE
