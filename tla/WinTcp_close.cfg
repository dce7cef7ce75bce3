SPECIFICATION Spec
CONSTANTS
  WReqs = {w1}
  AReqs = {a1}
  FirstA = a1
  ReadReq = read
  ConnReq = conn
  ShutReq = shut
  Worlds <- ClosesEarly
PROPERTIES CloseAnswered
