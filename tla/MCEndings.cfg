SPECIFICATION EndingsSpec
CONSTANTS
  Requests = {r1, r2}
  Viewers = {v1}
  ClientKeys = {k1}
  Window = 2
  Pending = Pending
  Absent = Absent
  Forever = Forever
  w1 = w1
  w2 = w2
  Words = {w1, w2}
  TagOf <- OneLearned
  MinAhead = 1
  MaxAhead = 2
  Day = 3
  Owners = {o1}
  Tabs = {x1}
  Idle = 1
  MaxClock = 2
  MaxSessions = 2
  MaxAttempts <- FewerAnswers
  Gone = Gone
  Members = {u1}
  Anons = {a1}
  Purgers = {p1}
  Pruners = {d1}
  MaxFailures = 1
  MaxWrites = 2
  Nobody = Nobody
INVARIANT CompletedIsComplete
PROPERTIES PendingEnds FirstEndStands IdleSessionsEnd DueIsErased
CHECK_DEADLOCK FALSE
