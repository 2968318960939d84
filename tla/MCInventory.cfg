SPECIFICATION Spec
CONSTANTS
  o1 = o1
  r1 = r1
  Cpe = {1, 2}
  ClassOf <- MCClassOf
  SessionId = {1, 2}
  OpId = {o1}
  Reader = {r1}
  Raw <- MCRaw
  Value <- MCValue
  Strip <- MCStrip
  Defect <- MCDefect
  Rank <- MCRank
  Manufacturer = {"huawei", "other"}
  Profiles <- MCProfiles
  Legacy <- MCLegacy
  Informs <- MCInforms
  Reads <- MCReads
  SessionSeconds = 1
  PageLimit = 1
  Offsets = {1}
  MaxClock = 2
  MaxLag = 1
CHECK_DEADLOCK FALSE
INVARIANTS
  ValuesTraced
  ViewsTraced
  LatestKept
  PagesCoherent
