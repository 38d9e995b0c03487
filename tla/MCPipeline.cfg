SPECIFICATION Spec
CONSTANTS
  None = None
  CommandLength = 4
  Families <- MCFamilies
  Scores = {75, 95}
  MaxEvidence = 3
  OwnSessions = {"s2"}
  RedactValue <- Redacted
  Redactions <- CountRedacted
  KeyTokens <- MCKeyTokens
  SensitiveKeys <- MCSensitiveKeys
  SecretNames <- MCSecretNames
  Secrets <- MCSecrets
  RepoRoot <- MCRepoRoot
  AllowedPatterns <- MCAllowedPatterns
  ForbiddenWords = {"remove"}
  ScopeRoots <- MCScopeRoots
  ForbiddenTools = {}
  ForbiddenCommands <- MCForbiddenCommands
  ScopeConfigured = TRUE
  AllowedPaths = {"allowed"}
  ValidationCommands <- MCValidationCommands
  RepeatThreshold = 5
  FailureThreshold = 5
  OscillationCycles = 3
  HistoryLimit = 500
INVARIANTS
  AlwaysRenderable
  StrongEvidencePrevents
  ValidationIsReal
  ScopeIsRespected
  RedactionIsFaithful
PROPERTIES
  MoreEvidenceNeverWeakens
CHECK_DEADLOCK FALSE
