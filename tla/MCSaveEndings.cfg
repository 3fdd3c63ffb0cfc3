SPECIFICATION EndingsSpec
CONSTANTS
  t1 = t1
  u1 = u1
  u2 = u2
  l2 = l2
  r2 = r2
  job = job
  Unbound = Unbound
  Users = {u1, u2}
  Anons = {a1}
  Targets = {t1}
  Catalogue = {t1}
  Requests = {r1, r2}
  Links = {l1, l2}
  Reconcilers = {job}
  Offered <- TwoCommands
  MaxClock = 1
  Attempts = 2
INVARIANTS RowExplained
PROPERTIES EveryRequestAnswered DriftEnds
CHECK_DEADLOCK FALSE
