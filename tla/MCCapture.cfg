SPECIFICATION Spec
CONSTANTS
  p1 = p1
  p2 = p2
  r1 = r1
  r2 = r2
  other = other
  Process = {p1, p2}
  Request = {r1, r2, other}
  Selected = {r1, r2}
  MaxStops = 2
SYMMETRY Symmetry
CHECK_DEADLOCK FALSE
INVARIANTS
  PublishedComplete
  OneAttempt
  OutcomesTruthful
