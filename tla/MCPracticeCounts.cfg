SPECIFICATION Spec
CONSTANTS
  w1 = w1
  w2 = w2
  Words = {w1}
  TagOf <- OneLearned
  MinAhead = 1
  MaxAhead = 2
  Day = 3
  Owners = {o1}
  Tabs = {x1, x2}
  Idle = 1
  MaxClock = 0
  MaxSessions = 2
  MaxAttempts <- TwoAnswers
  Gone = Gone
SYMMETRY TabSymmetry
INVARIANT EndsWithItsCounts
