SPECIFICATION Spec
CONSTANTS
  Events <- DisputedEvents
  Unsigned <- UnsignedPayment
  Unreadable = {}
  Deliveries = {d1, d2}
  Operators = {o1}
  Nobody = nobody
  LastTime = 3
SYMMETRY Symmetry
CHECK_DEADLOCK FALSE
INVARIANTS
  OneBuyer
  PaidIsServed
  UnboundIsQueued
  GrantedMeansPaid
  AcceptedIsRecorded
