SPECIFICATION Spec
CONSTANTS
  Slots = {s1, s2}
  Devices = {d1}
  Instances = {q1}
  Mutations = {m1, m2}
  Choices = {a}
  Null = none
  Duration = 1
  Grace = 0
  TTL = 2
  ExamClose = 1
  MaxTime = 1
  MaxTokens = 1
  MaxExpected = 1
SYMMETRY Symmetry
CHECK_DEADLOCK FALSE
PROPERTY
  FrozenAfterSubmit
