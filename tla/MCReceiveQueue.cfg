CONSTANTS
  r1 = r1
  r2 = r2
  Readers <- TwoReaders
  CAN4VSCP_MAX_RCVMSG = 2
  Interrupts = TRUE
  Timeouts = TRUE
  MaxArrivals = 4
  MaxBatch = 2
  MaxSessions = 2
SPECIFICATION BothSpec
INVARIANTS TypeOK NoLostWakeup ReceiveListBounded NoStaleTokens InOrder
INVARIANTS SoleReaderAlwaysFinds
PROPERTIES SoleReaderGetsOn
CHECK_DEADLOCK FALSE
