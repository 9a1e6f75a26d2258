\* The tools of the desk, one at a time.
SPECIFICATION DeskSpec
CONSTANTS
  Testers = {e1, e2}
  Inboxes = {i1, i2}
  MaxTests = 2
  MaxTestCommands = 5
  Mailbox <- TheMailbox
  TrackedLists <- TheTracked
  ReconcileOptions <- TheOptions
  Skew = 1
  Window = 3
  Syncers = {e1, e2}
  SheetTabs <- OneTab
  RowIds = {1, 2}
  CampaignOfRow <- TwoCampaigns
  MaxVersion = 1
  MaxSyncs = 2
  Authors = {e1, e2}
  Places <- ThePlaces
  Copies <- TheCopies
  Reviews <- TheReviews
  InputVersions <- TheInputs
  CallCosts = {0, 2}
  WorstCase = 2
  CostCap = 4
  MaxCalls = 2
  MaxRows = 2
  MaxAuthorings = 2
  Operators = {e1, e2}
  EvidenceIds = {1, 2, 3, 4, 5, 6}
  Evidence <- TheEvidence
  RunIsAware <- TheRuns
  Mails <- TheMails
  MaxAge = 2
  MaxDay = 2
  MaxApprovals = 3
  Collectors = {e1, e2}
  Candidates <- TheCandidates
  SearchPages <- ThePages
  NearMeters = 2
  DedupLimit = 2
  MaxLeads = 2
  MaxPages = 1
  MaxCollects = 2
  Prospectors = {e1, e2}
  Nearby <- TheNearby
  DetailAnswers = {"SYSTEMIC_FAILURE", "WEBSITE_INVALID"}
  VerifierAnswers <- TheAnswers
  Blocklists = {{9}}
  TargetQualified = 1
  MaxDetails = 3
  MaxWebsiteVerifications = 3
  CacheDays = 0
  MaxProspects = 2
  MaxDate = 1
INVARIANTS
  SmokeSound
  FindingsSound
  DeskSound
SYMMETRY DeskSymmetric
CHECK_DEADLOCK FALSE
