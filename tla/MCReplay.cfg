\* An export at any moment of two hook processes' calls.
SPECIFICATION ReplaySpec
CONSTANTS
  ExportedSession = "s1"
  ExportLimit = 2
  None = None
  p1 = p1
  p2 = p2
  Procs <- MCProcs
  Sessions <- MCSessions
  Requests <- MCRequests
  Redact <- MCRedact
  AutoPolicy = None
  ManualPolicies <- MCNoPolicies
  Interval = 1
  MaxClock = 0
  MaxCalls = 3
  MaxFaults = 1
  HistoryLimit = 1
  ForbiddenTools = {}
  ForbiddenCommands = {}
  ScopeConfigured = FALSE
  AllowedPaths = {}
  ValidationCommands <- MCValidationCommands
  RepeatThreshold = 2
  FailureThreshold = 2
  OscillationCycles = 2
SYMMETRY Symmetry
INVARIANTS
  ExportReplaysExactly
  OrderlyTelemetryReplays
CHECK_DEADLOCK FALSE
