CONSTANTS
  any = any
  some = some
  d1 = d1
  d2 = d2
  e1 = e1
  e2 = e2
  Process = {k1, k2, k3}
  MaxKey = 3
  Session = {s1}
  AdminRequest = {h1, h2}
  IdleTime = 2
  AbsoluteTime = 3
  LastTime = 4
  NoSession = NoSession
  Browser = {b1, b2}
  Transaction = {t1}
  Visit = {h1, h2}
  User = {u1, u2}
  MaxCode = 2
  NoUser = NoUser
  NoTransaction = NoTransaction
  IdempotencyKey = {key}
  Payload = {any, some}
  Destination <- Destinations
  Device = {d1, d2}
  Sender = {h1, h2}
  NoPayload = NoPayload
  NoSender = NoSender
  Email = {e1, e2}
  MaxCodes = 2
  CodeLimit = 1
  AttemptLimit = 2
  MaxRaced = 2
  Challenge = {c1, c2}
  Registrant = {h1, h2}
  RegistrationWork <- Works
  NoEmail = NoEmail
SPECIFICATION Spec
SYMMETRY Symmetry
INVARIANTS PartsTypeOK KeysKnown OneCodePerTransaction CodeFollowsSession
           OneAnswerPerKey GuessesBounded CodeSpentOnce
PROPERTIES LogoutFinal 
CHECK_DEADLOCK FALSE
