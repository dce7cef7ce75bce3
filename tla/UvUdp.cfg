SPECIFICATION FairSpec
CONSTANTS
  r1 = r1
  r2 = r2
  r3 = r3
  NoReq = NoReq
  Reqs <- ThreeReqs
  Mute <- OneMute
  RcvBuf = 1
INVARIANTS WatchersExact
PROPERTIES RecvStops ImplementsContract Answered
CHECK_DEADLOCK FALSE
