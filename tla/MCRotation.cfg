CONSTANTS
  Account = {a1}
  SuperAdmin = {}
  Password = {p1, tmp}
  TempPassword = tmp
  Operations = {"update", "reset"}
  AdminCall = {}
  Client = {c1, c2}
  Token = {t1, t2}
  Code = {k1}
  Request = {r1, r2}
  None = None
  CodeTtl = 1
  RefreshTtl = 2
  Grace = 1
  Retention = 0
  MaxTime = 2

SPECIFICATION Spec
SYMMETRY Symmetry
INVARIANTS
  FamilyHomogeneous
  SingleUse
  ReplayWindow
  ForkOnlyByReplay
