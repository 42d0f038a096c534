CONSTANTS
  Callers <- Both
  Codes <- OpenCodes
  CodesAfter <- OpenSends
  CAN4VSCP_MAX_RESPONSEMSG = 2
  LateReplies = FALSE
  Losses = TRUE
  Traffic = FALSE
  SeqMod = 4
  MaxCalls = 5
  MaxLine = 2
SPECIFICATION Spec
INVARIANTS TrueMeansExecuted
CHECK_DEADLOCK FALSE
