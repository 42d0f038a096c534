CONSTANTS
  w1 = w1
  w2 = w2
  Writers <- TwoWriters
  CAN4VSCP_MAX_SNDMSG = 0
  WaitForAck = FALSE
  BlockingWrites = FALSE
  LateReplies = FALSE
  Losses = TRUE
  SeqMod = 2
  MaxMessages = 2
  MaxLine = 1
  MaxSessions = 2
SPECIFICATION BothSpec
INVARIANTS OvershootBounded
PROPERTIES AtMostOnce AckEventuallyDone AckBlockedWriterWakes
CHECK_DEADLOCK FALSE
