SPECIFICATION MergeSpec
CONSTANTS
  Words = {w1}
  TagOf <- AllSaved
  MinAhead = 1
  MaxAhead = 2
  Day = 3
  User = User
  Anon = Anon
  Owners = {User, Anon}
  Tabs = {x1, x2}
  Idle = 1
  MaxClock = 0
  MaxSessions = 2
  MaxAttempts <- TwoAnswers
  Gone = Gone
INVARIANT ReplayIsWhole
