CONSTANTS
  t1 = t1
  t2 = t2
  Threads <- TwoThreads
  Frames <- FewFrames
  Bytes <- FewBytes
  DLE = 16
  STX = 2
  ETX = 3
  Crc <- Checksum
  BufferSize = 8
  MaxFrames = 3
  MaxFaults = 2
  Callers <- Alone
  Codes <- OpenCodes
  CodesAfter <- AloneSends
  CAN4VSCP_MAX_RESPONSEMSG = 2
  LateReplies = TRUE
  Losses = TRUE
  Traffic = TRUE
  SeqMod = 2
  MaxCalls = 3
  MaxLine = 2
SPECIFICATION LineSpec
INVARIANTS TypeOK BuffersHold CommandTypeOK SoleCallerIsAnswered
PROPERTIES ImplementsFrameLine ImplementsService
CHECK_DEADLOCK FALSE
