CONSTANTS
  Configs <- TimestampConfigs
  Faults = FALSE
  MaxOpens = 1
  MaxRestarts = 0
  MaxQueued = 1
  MaxTokens = 1
  MaxLine = 2
SPECIFICATION Spec
INVARIANTS HardwareTimestamps
CHECK_DEADLOCK FALSE
