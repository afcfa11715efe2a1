\* One process that builds a broker per request: ids repeat within a second.
SPECIFICATION Spec
CONSTANTS
  r1 = r1
  r2 = r2
  c1 = c1
  c2 = c2
  p1 = p1
  NoFile = NoFile
  Requests = {r1, r2}
  Calls = {c1, c2}
  Processes = {p1}
  SharedBroker = {}
  ProcessOf <- OneProcess
  Timeout = 1
  MaxSecond = 1
  MaxCount = 0
INVARIANTS
  ReleasedByItsOwnApproval
