SPECIFICATION AccountsSpec
CONSTANTS
  Users = {u1}
  Requests = {r1, r2}
  MaxEpoch = 2
  MaxSessions = 2
  MaxLinks = 2
  Gone = Gone
  e1 = e1
  Emails = {e1, e2}
  Names = {n1, n2}
  c1 = c1
  Callers = {c1, c2}
  MaxAccounts = 2
  MaxTokens = 3
  None = None
  b1 = b1
  b2 = b2
  t1 = t1
  t2 = t2
  t3 = t3
  Browsers = {b1, b2}
  Tabs = {t1, t2, t3}
  BrowserOf <- TwoInOne
  MaxSubs = 1
  GoogleEmail <- OneAddress
  MaxFlows = 2
  Members = {m1}
  Anons = {a1}
  Purgers = {p1}
  Pruners = {d1}
  MaxFailures = 1
  MaxWrites = 3
  Nobody = Nobody
SYMMETRY Symmetry
INVARIANTS AccountsTypeOK SignedInWithCurrentPassword OldLinksAreClosed AddressWasProven AdmittedWhoWasMet NoDeleteIsRefused
PROPERTIES DeadSessionsStayDead SignUpsAreNotLost ErasedWhole
CHECK_DEADLOCK FALSE
