CONSTANTS
  Device = {d1, d2}
  Account = {{d1, d2}}
  PushToken = {t1, t2}
  Call = {h1, h2}
  Operations = {"register", "optIn", "optOut", "adminDisable", "adminRevoke", "disable", "purge"}
  None = None

SPECIFICATION DeviceSpec
SYMMETRY Symmetry
INVARIANTS
  FingerprintUnique
  WholeRows
  ConsentEndsWithDevice
