CONSTANTS
  Device = {d1}
  Account = {{d1}}
  PushToken = {t1}
  Call = {h1}
  Operations = {"register", "optIn", "disable", "purge"}
  Notification = {n1}
  Worker = {w1, w2}
  RetryLimit = 1
  MaxAttempts = 3
  None = None

SPECIFICATION FairSpec
PROPERTIES
  Settles
