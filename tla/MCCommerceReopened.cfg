SPECIFICATION Spec
CONSTANTS
  Events <- CancelledEvents
  Unsigned = {}
  Unreadable = {}
  Deliveries = {d1, d2}
  Operators = {}
  Nobody = nobody
  LastTime = 2
SYMMETRY Symmetry
CHECK_DEADLOCK FALSE
INVARIANT
  TerminalIsFinal
