SPECIFICATION ServicesSpec
CONSTANTS
  Browsers = {b1, b2}
  Accounts = {a1, a2}
  Handles = {h1}
  States = {st1, st2}
  Codes = {c1, c2}
  Users = {u1, u2}
  Sessions = {ss1, ss2}
  Calls = {ca1, ca2}
  CodeTtl = 1
  PendingTtl = 1
  StateTtl = 2
  SessionTtl = 2
  MaxSkew = 1
  MaxTime = 2
  MaxInputs = 5
  None = none
  People = {p1, p2}
  Kinds <- MCKinds
  Objects = {o1}
  MakerOf <- MCMakerOf
  Staffing = {"tutor_writer", "moderator_reviewer"}
  Desks = {d1, d2}
  LastMoment = 5
  Programs = {g1, g2}
  Numbers = {1, 2}
  Tracks = {t1}
  Stages = {s1}
  Modules = {m1}
  Placements = {x1, x2}
  Resources = {k1}
  Learners = {l1}
  Staff = {f1}
  Pages = {pg1, pg2}
  MaxSteps = 7
  NoRow = norow
  Assets = {as1}
  Rules <- MCRules
  LiveSessions = {ls1, ls2}
  Length = 1
  Before = 0
  After = 0
  References = {rf1}
  Askers = {r1, r2}
  Ttl = 2
  LastTick = 2
  MaxAsked = 5
  Tabs = {tb1, tb2}
  Questions = {q1}
  Options = {A, B}
  NoOption = nooption
  Closed = closed
  MaxChoices = 3
  MaxPages = 3
CHECK_DEADLOCK FALSE
INVARIANTS
  CodeSignsInOnce
  OneUserPerSubject
  ActsUnderARole
  ShownOneVersion
  HandedOutUnderAccess
  ShownWasSaved
