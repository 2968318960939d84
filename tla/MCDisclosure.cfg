SPECIFICATION DisclosureSpec
CONSTANTS
  k1 = k1
  k2 = k2
  k3 = k3
  s1 = s1
  s2 = s2
  OpId = {1, 2, 3}
  SessionId = {s1, s2}
  Key = {k1, k2, k3}
  JobId = {}
  Path <- MCPath
  Object = {"DeviceInfo.", "WANPPPConnection.1."}
  Concrete <- MCPath
  Readable = {"DeviceInfo.SoftwareVersion"}
  Firmware = "DeviceInfo.SoftwareVersion"
  Retained <- MCPath
  Parent <- MCParent
  DeviceInfo = "DeviceInfo."
  Sorted <- MCSorted
  Value <- MCValue
  Reviewed <- MCReviewed
  Field = {"service", "ipv4", "dns"}
  Interface <- MCInterface
  FieldOf <- MCFieldOf
  Internet <- MCInternet
  Asks <- MCAsks
  Specs = {}
  Informs <- MCInforms
  Answers <- MCAnswers
  PendingSeconds = 1
  RpcSeconds = 1
  SessionSeconds = 1
  FreshSeconds = 1
  MaxNames = 16
  MaxLag = 0
  EvidenceKeys = {k1, k2}
  Private = {"ipv4", "dns"}
  Addresses <- MCAddresses
  Padded = {"WANPPPConnection.1.X_HW_SERVICELIST"}
  OutOfRange = {}
  Prefixes = {""}
  Under <- MCUnder
  HistoryLimit = 1
  MaxEntries = 3
  MaxReferences = 2
SYMMETRY Symmetry
CHECK_DEADLOCK FALSE
INVARIANTS
  EvidenceVerifies
  EvidenceFaithful
  ExportCoherent
