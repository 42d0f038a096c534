CONSTANTS
  Frames <- FewFrames
  Settings <- FewSettings
  CAN4VSCP_MAX_RCVMSG = 2
  MaxFrames = 3
SPECIFICATION FairSpec
INVARIANTS TypeOK Accounted ListedAsSent AnsweredOnce StatisticsFollow
PROPERTIES FilterAsTabled FrameIsHandled
CHECK_DEADLOCK FALSE
