CONSTANTS
  Device = {d1, d2}
  Account = {{d1, d2}}
  PushToken = {t1, t2}
  Call = {h1}
  Operations = {"register", "optIn"}
  Notification = {n1}
  Worker = {w1, w2}
  RetryLimit = 1
  MaxAttempts = 2
  None = None

SPECIFICATION Spec
SYMMETRY Symmetry
INVARIANTS
  StatusFollowsDeliveries
  AttemptNumbersUnique
PROPERTIES
  SettledStays
  RejectionHitsItsToken
