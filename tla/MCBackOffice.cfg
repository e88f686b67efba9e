SPECIFICATION BackOfficeSpec
CONSTANTS
  Uploads = {"whole", "retyped", "reworded", "blank"}
  Workbook <- MCWorkbook
  QuestionCodes = {"q1", "q2"}
  PassageCodes = {"p"}
  Importers = {r1, r2}
  MaxQuestions = 2
  MaxOptions = 4
  MaxVersions = 2
  MaxBegun = 4
  NoImage = NoImage
  NoPassage = NoPassage
  NoJob = NoJob
  NoWeight = NoWeight
  Structure <- MCStructure
  Papers <- MCPapers
  Rules <- MCRules
  Replies <- MCReplies
  MaxResults = 2
  MaxSaves = 2
  NoScorer = NoScorer
  NoValue = NoValue
  NoReply = NoReply
  Nobody = Nobody
  Skus = {"1", "2"}
  Codes = {"a", "b", "a_b", "oa", "ob"}
  Components = {"c", "b_c"}
  Targets = {"program", "batch"}
  PolicyCode <- MCPolicyCode
  Catalogues <- MCCatalogues
  Loads = {l1, l2}
  LastDay = 1
  MaxChanges = 5
  NoOffer = none
  Orders = {1, 2, 3}
  Policy <- MCPolicy
  Unmapped = {1}
  Queried = {"batch"}
  Endings = {"cancelled", "chargeback"}
  Tasks = {t1, t2}
  FinalDay = 2
  MaxRequests = 4
  MaxCases = 3
  NoDate = nodate
CHECK_DEADLOCK FALSE
INVARIANTS
  ImportIsWhole
  ReviewExplainsScore
  CatalogueIsWhole
  DriftCheckVouches
  AlarmIsReal
PROPERTIES
  ApprovedQuestionIsKept
