SPECIFICATION DeliverySpec
CONSTANTS
  Changes = {"paid"}
  Clients = {"prod", "staging"}
  Listed <- MCListed
  Malformed <- MCMalformed
  Runs = {p1, p2}
  Backoff <- MCBackoff
  StaleAfter = 1
  Batch = 1
  MaxRun = 1
  MaxDeaths = 1
  NoLock = nolock
  Scopes = {"signin", "save"}
  Rule <- MCRule
  Instances = {i1, i2}
  Requests = {r1, r2}
  MaxWindow = 3
  MaxHits = 6
  MaxFailures = 1
  Events <- MCEvents
  Unsigned <- MCUnsigned
  Unreadable <- MCUnreadable
  Deliveries = {d1}
  Operators = {}
  Nobody = nobody
  LastTime = 4
CHECK_DEADLOCK FALSE
INVARIANTS
  NoRowIsLost
  AdmissionIsBounded
  StatusIsNewest
PROPERTIES
  EveryEventSettles
