SPECIFICATION FairSpec
CONSTANTS
  k1 = k1
  j1 = j1
  s1 = s1
  s2 = s2
  s3 = s3
  OpId = {1, 2, 3, 4}
  SessionId = {s1, s2, s3}
  Key = {k1}
  JobId = {j1}
  Path <- MCPath
  Object = {"DeviceInfo."}
  Concrete <- MCPath
  Readable = {"DeviceInfo.SoftwareVersion", "DeviceInfo.HardwareVersion"}
  Firmware = "DeviceInfo.SoftwareVersion"
  Retained = {"DeviceInfo."}
  Parent <- MCParent
  DeviceInfo = "DeviceInfo."
  Sorted <- MCSorted
  Value <- MCValue
  Reviewed <- MCReviewed
  Field = {}
  Interface <- MCNone
  FieldOf <- MCFieldOf
  Internet <- MCNone
  Asks <- MCAsks
  Specs <- MCSpecs
  Informs <- MCInforms
  Answers <- MCAnswers
  PendingSeconds = 1
  RpcSeconds = 2
  SessionSeconds = 1
  FreshSeconds = 1
  MaxNames = 16
  MaxLag = 0
CHECK_DEADLOCK FALSE
PROPERTIES
  JobsEnd
  QueriesEnd
  SerialSpec
INVARIANTS
  SucceededIsComplete
