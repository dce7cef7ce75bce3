SPECIFICATION FairSpec
CONSTANTS
  a1 = a1
  a2 = a2
  t1 = t1
  Loop = Loop
  Asyncs <- TwoAsyncs
  Threads <- OneThread
  StoreBuffers <- Both
  BufLen = 2
INVARIANTS AtLeastOnceInOrder FlagNotStuck ArrayConsistent
PROPERTIES Answered KeepsContract
