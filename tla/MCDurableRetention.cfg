\* Automatic retention and store-prune by age and count beside the callers.
SPECIFICATION OpeningSpec
CONSTANTS
  None = None
  p1 = p1
  p2 = p2
  Procs <- MCProcs
  Sessions <- MCSessions
  Requests <- MCRequests
  Redact <- MCRedact
  AutoPolicy <- MCDefaultPolicy
  ManualPolicies <- MCManualPolicies
  Interval = 1
  MaxClock = 4
  StartClock = 3
  Databases <- MCDatabases
  Timestamp <- MCTimestamp
  MaxCalls = 4
  MaxFaults = 1
  HistoryLimit = 2
  ForbiddenTools = {}
  ForbiddenCommands = {}
  ScopeConfigured = FALSE
  AllowedPaths = {}
  ValidationCommands <- MCValidationCommands
  RepeatThreshold = 2
  FailureThreshold = 2
  OscillationCycles = 2
SYMMETRY Symmetry
INVARIANTS
  NoOrphans
  SuffixKept
  MarkMeansPruned
PROPERTIES
  DecisionFinal
  MigrationLosesNothing
CHECK_DEADLOCK FALSE
