SPECIFICATION PlayerSpec
CONSTANTS
  Tabs = {t1}
  Questions = {q1}
  Options = {A, B}
  NoOption = nooption
  Closed = closed
  MaxChoices = 3
  MaxPages = 2
CHECK_DEADLOCK FALSE
INVARIANTS
  NeverLooksSaved
