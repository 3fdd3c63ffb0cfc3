SPECIFICATION Spec
CONSTANTS
  t1 = t1
  Unbound = Unbound
  Users = {u1}
  Anons = {a1}
  Targets = {t1}
  Catalogue = {t1}
  Requests = {r1, r2}
  Links = {l1}
  Reconcilers = {}
  Offered <- ThreeCommands
  MaxClock = 0
  Attempts = 2
SYMMETRY RequestSymmetry
INVARIANTS NoDrift
