SPECIFICATION Spec
CONSTANTS
  k1 = k1
  k2 = k2
  s1 = s1
  s2 = s2
  OpId = {1, 2, 3}
  SessionId = {s1, s2}
  Key = {k1, k2}
  JobId = {}
  Path <- MCPath
  Object = {"DeviceInfo."}
  Concrete <- MCPath
  Readable = {"DeviceInfo.SoftwareVersion", "DeviceInfo.HardwareVersion"}
  Firmware = "DeviceInfo.SoftwareVersion"
  Retained = {"DeviceInfo."}
  Parent <- MCParent
  DeviceInfo = "DeviceInfo."
  Sorted <- MCSorted
  Value <- MCValue
  Reviewed <- MCReviewed
  Field = {}
  Interface <- MCNone
  FieldOf <- MCFieldOf
  Internet <- MCNone
  Asks <- MCAsks
  Specs = {}
  Informs <- MCInforms
  Answers <- MCAnswers
  PendingSeconds = 2
  RpcSeconds = 2
  SessionSeconds = 1
  FreshSeconds = 1
  MaxNames = 16
  MaxLag = 1
SYMMETRY Symmetry
CHECK_DEADLOCK FALSE
INVARIANTS
  AnsweredInTime
  DataProvenance
  StoredBeforeSent
PROPERTIES
  OperationsOnlyProgress
  InventoryNeverRegresses
