SPECIFICATION Spec
CONSTANTS
  Files <- SomeFiles
  Commands <- SomeCommands
  Others <- SomeOthers
  Long <- SomeLong
  Configs <- SomeConfigs
INVARIANTS
  ScriptDoesWhatConfigSays
  OnlyEmptyCommandPanics
  KnownModulesAccepted
CHECK_DEADLOCK FALSE
