SPECIFICATION Spec
CONSTANTS
  None = None
  Platforms = {"codex", "claude-code"}
  Events = {"Stop"}
  OtherEvents = {"Notification"}
  Damages = {}
  MaxCommands = 2
  MaxEdits = 0
  MaxCrashes = 0
PROPERTIES
  ConfiguredHookCanRun
CHECK_DEADLOCK FALSE
