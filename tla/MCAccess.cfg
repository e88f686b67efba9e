SPECIFICATION Spec
CONSTANTS
  Students = {s1}
  Orders = {o1}
  Buyer <- BuyerOf
  Requests = {q1, q2}
  Staff = {m1, m2}
  Windows <- OpenThenExpired
  Processes = {p1}
  Readers = {r1}
  Deciders = {d1, d2}
  Payments = {t1}
  MaxBusy = 2
  LastTime = 1
SYMMETRY Symmetry
CHECK_DEADLOCK FALSE
INVARIANTS
  OnlyItsSourceEndsAGrant
  OneGrantPerKey
  ExecutedTookEffect
  SerialCacheIsFresh
