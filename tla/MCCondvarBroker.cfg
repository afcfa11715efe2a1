\* Three requesters, enough ids for all of them.  Threads run; the deadline need
\* not pass.
SPECIFICATION ScheduledSpec
CONSTANTS
  Requests = {r1, r2, r3}
  MaxId = 3
INVARIANTS
  OutcomeIsTheAnswer
  NoLostWakeup
PROPERTIES
  ImplementsContract
  CallsReturn
