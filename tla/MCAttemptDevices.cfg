SPECIFICATION Spec
CONSTANTS
  Slots = {s1, s2}
  Devices = {d1, d2}
  Instances = {q1}
  Mutations = {m1}
  Choices = {a}
  Null = none
  Duration = 1
  Grace = 1
  TTL = 1
  ExamClose = 1
  MaxTime = 2
  MaxTokens = 3
  MaxExpected = 0
SYMMETRY Symmetry
CHECK_DEADLOCK FALSE
INVARIANTS
  DeadlinesHold
PROPERTIES
  LeaseLostToWhoSawIt
