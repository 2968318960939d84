SPECIFICATION ValidationSpec
CONSTANTS
  k1 = k1
  k2 = k2
  c1 = c1
  c2 = c2
  s1 = s1
  s2 = s2
  s3 = s3
  OpId = {1, 2, 3}
  SessionId = {s1, s2, s3}
  Key = {k1, k2}
  JobId = {}
  Path <- MCPath
  Object = {"DeviceInfo."}
  Concrete <- MCPath
  Readable <- MCReadable
  Firmware = "DeviceInfo.SoftwareVersion"
  Retained = {"DeviceInfo."}
  Parent <- MCParent
  DeviceInfo = "DeviceInfo."
  Sorted <- MCSorted
  Value <- MCValue
  Reviewed <- MCReviewed
  Field = {}
  Interface <- MCNone
  FieldOf <- MCFieldOf
  Internet <- MCNone
  Asks = {}
  Specs = {}
  Informs <- MCInforms
  Answers <- MCAnswers
  PendingSeconds = 2
  RpcSeconds = 1
  SessionSeconds = 1
  FreshSeconds = 1
  MaxNames = 16
  MaxLag = 0
  Caller = {c1}
  Draft <- MCDraft
  Model = "DeviceInfo.ModelName"
  DraftNames <- MCNames
SYMMETRY Symmetry
CHECK_DEADLOCK FALSE
PROPERTIES
  OnlyNewOperationClears
