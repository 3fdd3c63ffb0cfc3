SPECIFICATION RequestsSpec
CONSTANTS
  w1 = w1
  Words = {w1}
  TagOf <- OneLearned
  MinAhead = 1
  MaxAhead = 2
  Day = 3
  Owners = {o1}
  Tabs = {x1, x2}
  Idle = 1
  MaxClock = 0
  MaxSessions = 2
  MaxAttempts <- FourAnswers
  Gone = Gone
  Requests = {r1, r2, r3}
  Viewers = {v1, v2}
  ClientKeys = {k1}
  Window = 2
  Pending = Pending
  Absent = Absent
  Forever = Forever
  Posts = {q1, q2, q3, q4}
  Limit = 2
  RateWindow = 3
  MaxDelay = 1
  MaxTick = 5
  JobNames = {j1, j2}
  RetiredNames = {o2}
  Tickets = {t1, t2}
  JobAttempts = 3
  MaxStalled = 1
  NoName = NoName
  NoTicket = NoTicket
SYMMETRY TabSymmetry
INVARIANTS RequestsTypeOK TurnsInOrder EveryAnswerCounts OnceAWindow ReplaysOwnResult LimitHolds GivenUpIsReported
CHECK_DEADLOCK FALSE
