SPECIFICATION Spec
CONSTANTS
  WReqs = {w1, w2}
  AReqs = {a1, a2}
  FirstA = a1
  ReadReq = read
  ConnReq = conn
  ShutReq = shut
  Worlds <- Careful
INVARIANTS ReqsCounted AcceptsOn
PROPERTIES ImplementsContract Answered
