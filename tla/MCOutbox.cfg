CONSTANTS
  Event = {e1}
  Service = {s1}
  EventType = {updated, rejected}
  Worker = {w1, w2}
  Admin = {h1}
  MaxAttempts = 2
  None = None

SPECIFICATION FairSpec
INVARIANTS
  ClaimImpliesPending
  TriesBounded
  ExhaustedAfterAllTries
PROPERTIES
  ImplementsDelivery
  Settles
