SPECIFICATION Spec
CONSTANTS
  l1 = l1
  l2 = l2
  c1 = c1
  Nobody = Nobody
  ContactOf <- OneContact
  Leads = {l1}
  Workers = {w1, w2}
  FinalStep = 2
  Classes = {"positive", "unsubscribe"}
  OperatorTargets <- ClosingOrAdvancing
  MaxEdits = 0
  MaxRecords = 2
  MaxRows = 3
  MaxReplies = 1
  MaxBounces = 0
  MaxCrashes = 1
SYMMETRY WorkersAlike
INVARIANTS RecordsAgree StepMailedOnce
PROPERTIES OptOutSticks OnlyEnrolmentRevives SequenceSpec
CHECK_DEADLOCK FALSE
