CONSTANTS
  Configs <- AllConfigs
  Faults = TRUE
  MaxOpens = 2
  MaxRestarts = 1
  MaxQueued = 1
  MaxTokens = 1
  MaxLine = 2
SPECIFICATION PartsSpec
INVARIANTS TypeOK ClosedIsQuiet StrictOpenIsInMode ConfirmedCloseHolds
CHECK_DEADLOCK FALSE
PROPERTIES CloseReturns ReopensWithTraffic
