SPECIFICATION Spec
CONSTANTS
  Databases <- SimplePeers
  Base <- Bases
  Value <- Values
  Unknown = "unknown"
  NoUuid = "no_uuid"
  Cccd = "cccd"
  Declaration = "declaration"
  LastHandle = 12
  PerResponse = 3
  VendorPerResponse = 1
  MaxCalls = 2
  MayLose = FALSE
  MayFail = FALSE
INVARIANT NoRepeatHandles
CHECK_DEADLOCK FALSE
