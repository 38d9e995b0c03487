SPECIFICATION Spec
CONSTANTS
  None = None
  a = a
  b = b
  Slots <- MCSlots
  ToolCalls <- MCWorkCalls
  Platform = "codex"
  MaxFailures = 0
  ForbiddenTools = {}
  ForbiddenCommands <- MCForbiddenCommands
  ScopeConfigured = TRUE
  AllowedPaths <- MCAllowedPaths
  ValidationCommands <- MCValidationCommands
  RepeatThreshold = 3
  FailureThreshold = 3
  OscillationCycles = 2
  HistoryLimit = 8
SYMMETRY Symmetry
INVARIANTS
  AcceptedStopIsValidated
