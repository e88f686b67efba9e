SPECIFICATION Spec
CONSTANTS
  q1 = q1
  q2 = q2
  s1 = s1
  p1 = p1
  k1 = k1
  f1 = f1
  b1 = b1
  Questions = {q1, q2}
  Stimuli = {s1}
  Policies = {p1}
  Blueprints = {k1}
  Forms = {f1}
  Batches = {b1}
  TypeOf <- Choice
  Staff = {a1, a2}
  Requests = {r1, r2}
  Texts = {t1}
  Codes = {A}
  Sections = {tiu}
  Structures <- TwoStructures
  Items <- Placed
  WindowSets <- ThreeWindowSets
  Scenes <- ThreeScenes
  None = None
SYMMETRY Symmetry
CHECK_DEADLOCK FALSE
INVARIANTS
  RestsOnReviewed
  HistoryMatchesStatus
  ApprovedIsComplete
  ReleasesInOrder
