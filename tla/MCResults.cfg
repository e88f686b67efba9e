SPECIFICATION ResultsSpec
CONSTANTS
  a1 = a1
  a2 = a2
  a3 = a3
  p1 = p1
  p2 = p2
  c1 = c1
  c2 = c2
  c3 = c3
  Attempts = {a1, a2, a3}
  Cases = {c1, c2, c3}
  Staff = {u1, u2}
  Policies = {p1, p2}
  Pinned = p1
  Deciders = {s1, s2}
  NoCase = none
  MaxDecisions = 4
  Generators = {g1, g2}
  TotalScore <- MCTotalScore
  SubmittedAt <- MCSubmittedAt
  MaxSnapshots = 2
SYMMETRY Symmetry
CHECK_DEADLOCK FALSE
INVARIANTS
  OneCurrentResult
  CorrectsWhatWasSeen
  ExecutedHasVersion
  RanksCountWhoIsAhead
  EntriesTraceToResults
