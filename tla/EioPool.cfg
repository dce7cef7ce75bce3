SPECIFICATION FairSpec
CONSTANTS
  r1 = r1
  r2 = r2
  w1 = w1
  w2 = w2
  NoReq = NoReq
  Reqs <- TwoReqs
  Workers <- TwoWorkers
  Wanted = 2
  MaxPoll = 2
  CreateMayFail = TRUE
  MaxLeaked = 1
INVARIANTS PoolExact ThreadsServe
PROPERTIES ImplementsContract WorkAnswered LoopServed
