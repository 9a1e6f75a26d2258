SPECIFICATION BackSpec
CONSTANTS
  Records <- TheRecords
  Images <- TheImages
  MaxUnusable = 1
  MaxImages = 2
  Editors = {e1, e2}
  OutDirs = {d1, d2}
  Renders = {r1, r2}
  MaxArtifacts = 1
  MaxVersions = 2
  MaxApprovals = 1
  Sections <- ThePlan
  Variants = {v1, v2}
  Projections = {1, 4}
  CeilingUsd = 3
  MaxOperations = 2
  RowKinds <- TheRows
  ProspectServices = 5
  MaxRows = 4
  MaxSelected = 2
  c1 = c1
  c2 = c2
  Desks = {k1}
  Competitors = {c1, c2}
  SelectedFor <- SelectedByInput
  MaxAgeDays = 1
  LastDay = 1
  MaxProspectCaptures = 1
  MaxCaptures = 2
  MaxInvalid = 1
  MaxPackages = 2
  MaxLetters = 1
  PatternKinds <- ThePatterns
  FindingKinds <- TheFindings
  MaxPatterns = 2
  MaxFindings = 2
  Operators = {e1, e2}
  Prospects <- OneProspect
  CandidateFiles <- OneFile
  Answers <- TheAnswers
  Configurations <- TheConfigurations
  Requests <- TheRequests
  FactKinds <- TheEmailFacts
  MaxRequests = 2
  MaxCredits = 2
  MaxTotalRequests = 2
  MaxTotalCredits = 3
  MaxTargets = 1
  MaxCommands = 2
  MaxPages = 3
  Crawled <- TheCrawled
  Practices <- TwoPractices
  Sites <- TheSites
  Replies <- TheReplies
  Orders <- TheOrders
  Contacts <- TheContacts
  StoredFiles <- TheFiles
  HardCap = 2
  MaxLlmCalls = 4
  MaxDiscoveries = 3
  MaxSiteChanges = 1
INVARIANTS
  PageSound
  StoreSound
  LoopSound
  SelectionSound
  EvidenceSound
  EnrichedSound
  ContactSound
  DiscoverySound
PROPERTIES
  PackageDecisionsStand
  PersonalIsKept
SYMMETRY BackSymmetric
CHECK_DEADLOCK FALSE
