CONSTANTS
  Configs <- ReopenConfigs
  Faults = FALSE
  MaxOpens = 1
  MaxRestarts = 1
  MaxQueued = 1
  MaxTokens = 1
  MaxLine = 2
SPECIFICATION FairSpec
PROPERTIES ReopensAfterRestart
CHECK_DEADLOCK FALSE
