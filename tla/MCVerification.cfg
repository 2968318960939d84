SPECIFICATION FairSpec
CONSTANTS
  r1 = r1
  r2 = r2
  r3 = r3
  Request = {r1, r2, r3}
  User = {"device"}
  Secret = {"secret"}
  Slots = 2
  Workers = 1
  MaxCancels = 1
CHECK_DEADLOCK FALSE
INVARIANTS
  SlotsConserved
  BoundedVerifications
  AcceptedWasValid
PROPERTIES
  EveryCallEnds
