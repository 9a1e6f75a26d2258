SPECIFICATION DeploySpec
CONSTANTS
  Leads = {l1}
  Sessions = {w1, w2}
  Pages = {p1, p2}
  MaxDeploysPerDay = 1
  MaxDemos = 2
  MaxDrafts = 1
  MaxHosted = 2
  MaxDeployEvents = 1
INVARIANTS DeploySound SecondApprovalStands
SYMMETRY Symmetric
CHECK_DEADLOCK FALSE
