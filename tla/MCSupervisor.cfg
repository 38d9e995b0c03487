\* One session, two actors, a window of four events out of five.
SPECIFICATION Spec
CONSTANTS
  None = None
  Sessions <- MCSessions
  Bodies <- MCBodies
  ExplicitSequences <- MCExplicitSequences
  ForbiddenTools = {}
  ForbiddenCommands <- MCForbiddenCommands
  ScopeConfigured = TRUE
  AllowedPaths <- MCAllowedPaths
  ValidationCommands <- MCValidationCommands
  RepeatThreshold = 2
  FailureThreshold = 2
  OscillationCycles = 2
  HistoryLimit = 4
  MaxEvents = 5
INVARIANTS
  TypeOK
  StopsAreJudgedRight
  LoopsAreReal
CHECK_DEADLOCK FALSE
