SPECIFICATION Spec
CONSTANTS
  k1 = k1
  j1 = j1
  s1 = s1
  s2 = s2
  s3 = s3
  OpId = {1, 2, 3, 4}
  SessionId = {s1, s2, s3}
  Key = {k1}
  JobId = {j1}
  Path <- MCPath
  Object <- MCObject
  Concrete <- MCConcrete
  Readable = {"Device.DeviceInfo.SoftwareVersion"}
  Firmware = "Device.DeviceInfo.SoftwareVersion"
  Retained <- MCConcrete
  Parent <- MCParent
  DeviceInfo = "Device.DeviceInfo."
  Sorted <- MCSorted
  Value <- MCValue
  Reviewed <- MCReviewed
  Field = {}
  Interface <- MCNone
  FieldOf <- MCFieldOf
  Internet <- MCNone
  Asks = {}
  Specs <- MCSpecs
  Informs <- MCInforms
  Answers <- MCAnswers
  PendingSeconds = 1
  RpcSeconds = 1
  SessionSeconds = 1
  FreshSeconds = 1
  MaxNames = 16
  MaxLag = 1
SYMMETRY Symmetry
CHECK_DEADLOCK FALSE
INVARIANTS
  TypeOK
  SlotInvariant
  JobAccounting
  NoBranchTwice
  SucceededIsComplete
