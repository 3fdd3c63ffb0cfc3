SPECIFICATION ReservationSpec
CONSTANTS
  Requests = {r1, r2}
  Viewers = {v1}
  ClientKeys = {k1}
  Window = 2
  Pending = Pending
  Absent = Absent
  Forever = Forever
CHECK_DEADLOCK FALSE
INVARIANTS CompletedExpires
