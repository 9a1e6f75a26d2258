SPECIFICATION Spec
CONSTANTS
  l1 = l1
  l2 = l2
  c1 = c1
  Nobody = Nobody
  ContactOf <- OneContact
  Leads = {l1}
  Workers = {w1, w2}
  FinalStep = 2
  Classes = {"unsubscribe"}
  OperatorTargets <- Closing
  MaxEdits = 0
  MaxRecords = 1
  MaxRows = 3
  MaxReplies = 1
  MaxBounces = 0
  MaxCrashes = 0
PROPERTIES UnsubscribesStopTheSequence
CHECK_DEADLOCK FALSE
