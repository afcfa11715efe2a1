\* One Web UI process: concurrent requests, one broker.
SPECIFICATION FairSpec
CONSTANTS
  r1 = r1
  r2 = r2
  c1 = c1
  c2 = c2
  p1 = p1
  NoFile = NoFile
  Requests = {r1, r2}
  Calls = {c1, c2}
  Processes = {p1}
  SharedBroker = {p1}
  ProcessOf <- OneProcess
  Timeout = 1
  MaxSecond = 1
  MaxCount = 1
INVARIANTS
  ReleasedByItsOwnApproval
  SoleDecisionCounts
  FalseMeansClosed
PROPERTIES
  ImplementsContract
