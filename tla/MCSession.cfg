SPECIFICATION Spec
CONSTANTS
  None = None
  a = a
  b = b
  Slots = {a}
  ToolCalls <- MCCalls
  Platform = "codex"
  MaxFailures = 1
  ForbiddenTools = {}
  ForbiddenCommands <- MCForbiddenCommands
  ScopeConfigured = TRUE
  AllowedPaths <- MCAllowedPaths
  ValidationCommands <- MCValidationCommands
  RepeatThreshold = 2
  FailureThreshold = 2
  OscillationCycles = 2
  HistoryLimit = 6
INVARIANTS
  ForbiddenNeverRuns
  AcceptedStopIsValidated
PROPERTIES
  HeldForAReason
  StopFollowsStatus
