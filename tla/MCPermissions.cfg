CONSTANTS
  Account = {a1}
  Key = {visitor, superadmin, member, manager}
  member = member
  manager = manager
  Visitor = visitor
  Superadmin = superadmin
  Application = {p1, p2}
  Handler = {h1, h2}
  Workload <- Workloads
  MaxVersion = 2
  Rank <- Order
  None = None
SPECIFICATION MCSpec
SYMMETRY Symmetry
INVARIANTS TypeOK FeedTellsGrants OnePending GrantIsApproved
PROPERTIES ApprovalsRaise
CHECK_DEADLOCK FALSE
