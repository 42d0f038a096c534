CONSTANTS
  w1 = w1
  w2 = w2
  Writers <- OneWriter
  CAN4VSCP_MAX_SNDMSG = 1
  WaitForAck = TRUE
  BlockingWrites = TRUE
  LateReplies = FALSE
  Losses = FALSE
  SeqMod = 3
  MaxMessages = 6
  MaxLine = 1
  MaxSessions = 1
SPECIFICATION Spec
INVARIANTS BlockingKeepsLimit
CHECK_DEADLOCK FALSE
