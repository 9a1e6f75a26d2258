SPECIFICATION PipelineSpec
CONSTANTS
  Leads = {l1}
  Sessions = {w1, w2}
  Sites = {s1, s2}
  BaseViability = 55
  RatingViability = 45
  MaxIntakeEvents = 1
  CallCosts = {2}
  WorstCaseCost = 2
  MaxCostPerLead = 5
  MaxCallsPerLead = 3
  MaxCallsPerRun = 2
  MaxGeneratorAttempts = 2
  MaxReviewerAttempts = 1
  MaxAudits = 2
  MaxAuditEvents = 1
INVARIANTS
  IntakeSound
  AuditSound
PROPERTIES ManualDomainKept EachAuditDecidesOnce
SYMMETRY Symmetric
CHECK_DEADLOCK FALSE
