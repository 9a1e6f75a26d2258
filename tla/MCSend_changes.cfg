\* Two senders of one lineage and their retries while approvals, confirmations, schedules and the suppression list change.
SPECIFICATION Spec
CONSTANTS
  Leads = {l1}
  Schedules = {s1}
  Attempts = {a1, a2}
  rcptA = rcptA
  rcptB = rcptB
  p1 = p1
  p2 = p2
  Senders = {p1, p2}
  Operators = {o1}
  Recipients = {rcptA}
  DraftRecipient <- OneRecipient
  SenderSource <- OneLineage
  Scopes = {"domain"}
  DailyCap = 2
  MaxLate = 1
  ConfirmationTtl = 0
  ReadinessTtl = 2
  DayLength = 2
  MaxTime = 1
  MaxReadiness = 2
  Nobody = Nobody
SYMMETRY SenderSymmetry
INVARIANT AtMostOneDeliveryPerSchedule
INVARIANT OutcomeCanBeRecorded
PROPERTY SendsOnce
PROPERTY RetryIsApprovedAfresh
CHECK_DEADLOCK FALSE
