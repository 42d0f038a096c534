CONSTANTS
  w1 = w1
  w2 = w2
  Writers <- OneWriter
  CAN4VSCP_MAX_SNDMSG = 0
  WaitForAck = TRUE
  BlockingWrites = TRUE
  LateReplies = TRUE
  Losses = TRUE
  SeqMod = 5
  MaxMessages = 2
  MaxLine = 2
  MaxSessions = 2
SPECIFICATION Spec
INVARIANTS TypeOK InProgressIsQueued RemovesOnlyDelivered StaleTokensBounded
PROPERTIES ImplementsOutbox
CHECK_DEADLOCK FALSE
