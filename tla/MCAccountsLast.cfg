CONSTANTS
  Account = {a1, a2}
  SuperAdmin = {a1, a2}
  Password = {p1, tmp}
  TempPassword = tmp
  AdminCall = {h1, h2}
  Operations = {"update"}
  None = None

SPECIFICATION RaceSpec
SYMMETRY Symmetry
PROPERTY
  LastSuperAdminStays
