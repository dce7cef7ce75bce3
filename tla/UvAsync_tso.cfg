SPECIFICATION Spec
CONSTANTS
  a1 = a1
  a2 = a2
  t1 = t1
  Loop = Loop
  Asyncs <- OneAsync
  Threads <- OneThread
  StoreBuffers <- Tso
  BufLen = 2
INVARIANTS AtLeastOnce
