\* Two processes, retries and crashes; no retention, no supplied sequences.
SPECIFICATION Spec
CONSTANTS
  None = None
  p1 = p1
  p2 = p2
  Procs <- MCProcs
  Sessions <- MCTwoSessions
  Requests <- MCTwoSessionRequests
  Redact <- MCRedact
  AutoPolicy = None
  ManualPolicies <- MCNoPolicies
  Interval = 1
  MaxClock = 0
  MaxCalls = 5
  MaxFaults = 1
  HistoryLimit = 2
  ForbiddenTools = {}
  ForbiddenCommands = {}
  ScopeConfigured = FALSE
  AllowedPaths = {}
  ValidationCommands <- MCValidationCommands
  RepeatThreshold = 2
  FailureThreshold = 2
  OscillationCycles = 2
SYMMETRY Symmetry
INVARIANTS
  TypeOK
  VerdictsFollowPrefix
  AnswersAreDurable
  NoSpuriousConflict
PROPERTIES
  ImplementsLog
CHECK_DEADLOCK FALSE
