\* Two senders of one lineage and an operator racing on one draft under a cap of one, while its contact address changes or midnight passes.
SPECIFICATION Spec
CONSTRAINT AddressesOrMidnight
CONSTANTS
  Leads = {l1}
  Schedules = {s1, s2}
  Attempts = {a1, a2}
  rcptA = rcptA
  rcptB = rcptB
  p1 = p1
  p2 = p2
  Senders = {p1, p2}
  Operators = {o1}
  Recipients = {rcptA, rcptB}
  DraftRecipient <- OneRecipient
  SenderSource <- OneLineage
  Scopes = {}
  DailyCap = 1
  MaxLate = 0
  ConfirmationTtl = 0
  ReadinessTtl = 1
  DayLength = 1
  MaxTime = 1
  MaxReadiness = 1
  Nobody = Nobody
SYMMETRY SenderSymmetry
INVARIANT TypeOK
INVARIANT DeliveryStaysRecorded
INVARIANT LeadStatusIsTrue
INVARIANT CallsMatchTheDraftRecipient
INVARIANT ReservationsPerDayWithinCap
CHECK_DEADLOCK FALSE
