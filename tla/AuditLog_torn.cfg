\* Two writers, two events; a coordinate may be of characters of several bytes.
SPECIFICATION AuditSpec
CONSTANTS
  Writers = {w1, w2}
  Coordinates = {plain, accented}
  Wide = {accented}
  MaxEvents = 2
  MaxClock = 0
  DayLength = 1
INVARIANTS
  ReadIsTolerant
CHECK_DEADLOCK FALSE
