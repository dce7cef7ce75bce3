SPECIFICATION FairSpec
CONSTANTS
  w1 = w1
  w2 = w2
  s1 = s1
  c1 = c1
  NoReq = NoReq
  WReqs <- TwoWrites
  SReqs <- OneShutdown
  CReqs <- OneConnect
  Lens <- LensWithEmpty
  ConnectResults <- UsualConnect
  SndBuf = 1
  PeerBytes = 2
  BufLen = 2
  CloseOnError = TRUE
INVARIANTS BytesAccounted WriteWakeup AssertsHold
PROPERTIES ShutdownWaits ImplementsContract Answered
CHECK_DEADLOCK FALSE
