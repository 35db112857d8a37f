CONSTANTS
  i1 = i1
  i2 = i2
  Item = {i1, i2}
  Workload <- Workloads
  MaxSecret = 2
  Handler = {h1, h2}
  Request = {q1, q2, q3}
  None = None
SPECIFICATION Spec
SYMMETRY Symmetry
INVARIANTS TypeOK OneOpenRequest ApprovedIsProvisioned
PROPERTIES SavesKeepOthers ConfidentialHasSecret
CHECK_DEADLOCK FALSE
