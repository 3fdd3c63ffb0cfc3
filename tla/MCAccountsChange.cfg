SPECIFICATION SessionSpec
CONSTANTS
  Users = {u1}
  Requests = {r1, r2}
  MaxEpoch = 2
  MaxSessions = 2
  MaxLinks = 1
  Gone = Gone
INVARIANT EverySessionEnds
CHECK_DEADLOCK FALSE
