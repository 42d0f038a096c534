CONSTANTS
  Frames <- FewFrames
  Settings <- FewSettings
  CAN4VSCP_MAX_RCVMSG = 2
  MaxFrames = 3
SPECIFICATION Spec
INVARIANT TimestampAsSent
CHECK_DEADLOCK FALSE
