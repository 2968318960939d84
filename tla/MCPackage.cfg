SPECIFICATION Spec
CONSTANTS
  p1 = p1
  p2 = p2
  r1 = r1
  Publisher = {p1, p2}
  Reader = {r1}
  MaxLosses = 2
SYMMETRY Symmetry
CHECK_DEADLOCK FALSE
INVARIANTS
  CommitMarker
  CreatedLasts
  FailuresClean
  VerifiedWasWhole
