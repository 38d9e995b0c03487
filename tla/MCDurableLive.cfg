\* Liveness of a call, with supplied sequences after a fault.
SPECIFICATION FairSpec
CONSTANTS
  None = None
  p1 = p1
  p2 = p2
  Procs <- MCProcs
  Sessions <- MCSessions
  Requests <- MCLateRequests
  Redact <- MCRedact
  AutoPolicy = None
  ManualPolicies <- MCNoPolicies
  Interval = 1
  MaxClock = 1
  MaxCalls = 4
  MaxFaults = 1
  HistoryLimit = 2
  ForbiddenTools = {}
  ForbiddenCommands = {}
  ScopeConfigured = FALSE
  AllowedPaths = {}
  ValidationCommands <- MCValidationCommands
  RepeatThreshold = 2
  FailureThreshold = 2
  OscillationCycles = 2
INVARIANTS
  SequencesReserved
  AnswersAgree
PROPERTIES
  EveryCallAnswered
CHECK_DEADLOCK FALSE
