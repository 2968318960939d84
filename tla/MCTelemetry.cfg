SPECIFICATION Spec
CONSTANTS
  k1 = k1
  k2 = k2
  j1 = j1
  s1 = s1
  s2 = s2
  s3 = s3
  OpId = {1, 2, 3, 4}
  SessionId = {s1, s2, s3}
  Key = {k1, k2}
  JobId = {j1}
  Path <- MCLinkPath
  Object <- MCObject
  Concrete <- MCLinkPath
  Readable = {"DeviceInfo.SoftwareVersion"}
  Firmware = "DeviceInfo.SoftwareVersion"
  Retained <- MCLinkPath
  Parent <- MCParent
  DeviceInfo = "DeviceInfo."
  Sorted <- MCSorted
  Value <- MCValue
  Reviewed <- MCReviewed
  Field = {"service", "ipv4", "power"}
  Interface <- MCInterface
  FieldOf <- MCFieldOf
  Internet <- MCInternet
  Asks <- MCAskLinks
  Specs <- MCDiscoverLinks
  Informs <- MCInforms
  Answers <- MCLinkAnswers
  PendingSeconds = 1
  RpcSeconds = 1
  SessionSeconds = 1
  FreshSeconds = 1
  MaxNames = 16
  MaxLag = 0
SYMMETRY Symmetry
CHECK_DEADLOCK FALSE
INVARIANTS
  TelemetryProvenance
  TelemetryKeepsUp
PROPERTIES
  TelemetryNeverRegresses
  WrittenByFirstAnswer
  AskedAsDiscovered
