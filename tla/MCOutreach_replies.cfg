SPECIFICATION FairSpec
CONSTANTS
  l1 = l1
  l2 = l2
  c1 = c1
  Nobody = Nobody
  ContactOf <- OneContact
  Leads = {l1}
  Workers = {w1}
  FinalStep = 1
  Classes = {"unsubscribe"}
  OperatorTargets <- Nothing
  MaxEdits = 0
  MaxRecords = 1
  MaxRows = 2
  MaxReplies = 1
  MaxBounces = 0
  MaxCrashes = 0
PROPERTIES RepliesAreRecorded
CHECK_DEADLOCK FALSE
