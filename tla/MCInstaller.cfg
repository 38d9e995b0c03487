SPECIFICATION Spec
CONSTANTS
  None = None
  Platforms = {"claude-code"}
  Events = {"Stop", "PreToolUse"}
  OtherEvents = {"Notification"}
  Damages <- MCAllDamages
  MaxCommands = 3
  MaxEdits = 2
  MaxCrashes = 1
INVARIANTS
  TypeOK
  ModeWasAskedFor
PROPERTIES
  InstallRepairs
  ConfiguredHookCanRun
  NothingOfTheUserIsLost
CHECK_DEADLOCK FALSE
