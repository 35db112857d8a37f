CONSTANTS
  Account = {a1}
  SuperAdmin = {}
  Password = {p1, tmp}
  TempPassword = tmp
  Operations = {"update", "reset"}
  AdminCall = {h1}
  Client = {c1}
  Token = {t1, t2}
  Code = {k1}
  Request = {r1, r2}
  None = None
  CodeTtl = 1
  RefreshTtl = 1
  Grace = 1
  Retention = 0
  MaxTime = 0

SPECIFICATION Spec
SYMMETRY Symmetry
INVARIANTS
  OnlyStraddlersSurvive
