SPECIFICATION ProgressSpec
CONSTANTS
  None = None
  Slots = {a}
  ToolCalls <- MCCalls
  Platform = "codex"
  MaxFailures = 0
  ForbiddenTools = {}
  ForbiddenCommands = {}
  ScopeConfigured = FALSE
  AllowedPaths = {}
  ValidationCommands <- MCValidationCommands
  RepeatThreshold = 2
  FailureThreshold = 2
  OscillationCycles = 2
  HistoryLimit = 6
PROPERTIES
  DemandCanBeMet
