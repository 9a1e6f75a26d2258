\* Two workers on the e-mails of one lead, one draft a day of two ticks, whose contact address may change.
SPECIFICATION Spec
CONSTANTS
  Leads = {l1}
  Writers = {w1}
  MaxEmails = 2
  MaxSteps = 1
  Nobody = Nobody
  Recipients = {rcptA, rcptB}
  Workers = {d1, d2}
  Runs = {g1, g2, g3}
  MaxPerDay = 1
  MinInterval = 1
  DayLength = 2
  MaxTime = 1
SYMMETRY Symmetry
INVARIANT TypeOK
INVARIANT OneDraftPerFingerprint
INVARIANT DraftedLeadHasDraft
INVARIANT DraftsWithinBudget
PROPERTY DraftsOnlyDecidedEmails
CHECK_DEADLOCK FALSE
