SPECIFICATION FairSpec
CONSTANTS
  None = None
  Procs <- MCProcs
  p1 = p1
  p2 = p2
  MaxBytes = 3
  BackupCount = 2
  MaxRecordBytes = 2
  Sizes = {1, 2, 3}
  ShortWrites = TRUE
  MaxRecords = 4
  MaxFaults = 2
INVARIANTS
  FilesBounded
  FailuresCounted
PROPERTIES
  NewestKept
  OldestLostFirst
  AcknowledgedIsComplete
  ExportReturns
CHECK_DEADLOCK FALSE
