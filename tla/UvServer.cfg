SPECIFICATION FairSpec
CONSTANTS
  k1 = k1
  k2 = k2
  k3 = k3
  c1 = c1
  c2 = c2
  f1 = f1
  f2 = f2
  f3 = f3
  NoFd = NoFd
  Kinds <- AnyKind
  Conns <- ThreeConns
  Clients <- TwoClients
  Fds <- ThreeFds
  OpenMayFail = TRUE
  AcceptErrors <- AnyError
INVARIANTS AcceptWakeup ServerAsserts DescriptorsExact
PROPERTIES EachAccepted
