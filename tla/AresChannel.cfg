SPECIFICATION AresFairSpec
CONSTANTS
  q1 = q1
  q2 = q2
  q3 = q3
  Queries = {q1, q2, q3}
  NServers = 2
  Programs <- Small
  NoQuery = NoQuery
INVARIANTS QueriesFiled
PROPERTIES KeepsPromise Answered
CHECK_DEADLOCK FALSE
