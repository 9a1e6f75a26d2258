\* An interactive and a scheduled sender retry one schedule within the life of their approvals.
SPECIFICATION Spec
CONSTANTS
  Leads = {l1}
  Schedules = {s1}
  Attempts = {a1, a2}
  rcptA = rcptA
  rcptB = rcptB
  p1 = p1
  p2 = p2
  Senders = {p1, p2}
  Operators = {o1}
  Recipients = {rcptA}
  DraftRecipient <- OneRecipient
  SenderSource <- TwoLineages
  Scopes = {}
  DailyCap = 2
  MaxLate = 1
  ConfirmationTtl = 1
  ReadinessTtl = 2
  DayLength = 2
  MaxTime = 1
  MaxReadiness = 2
  Nobody = Nobody
SYMMETRY Symmetry
PROPERTY FreshReadinessAfterFailure
CHECK_DEADLOCK FALSE
