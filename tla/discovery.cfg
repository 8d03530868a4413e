SPECIFICATION FairSpec
CONSTANTS
  Databases <- Peers
  Base <- Bases
  Value <- Values
  Unknown = "unknown"
  NoUuid = "no_uuid"
  Cccd = "cccd"
  Declaration = "declaration"
  LastHandle = 12
  PerResponse = 3
  VendorPerResponse = 1
  MaxCalls = 2
  MayLose = TRUE
  MayFail = TRUE
INVARIANTS TypeOK RangesValid DatabaseComplete LookupsFindRightAttributes LookupsComplete
PROPERTY Terminates
CHECK_DEADLOCK FALSE
