SPECIFICATION FairSpec
CONSTANTS
  l1 = l1
  l2 = l2
  c1 = c1
  Nobody = Nobody
  ContactOf <- OneContact
  Leads = {l1}
  Workers = {w1, w2}
  FinalStep = 1
  Classes = {"positive"}
  OperatorTargets <- Nothing
  MaxEdits = 1
  MaxRecords = 1
  MaxRows = 3
  MaxReplies = 0
  MaxBounces = 1
  MaxCrashes = 1
PROPERTIES ConfirmedSendsAreEnrolled DueFollowupsArePromoted
CHECK_DEADLOCK FALSE
