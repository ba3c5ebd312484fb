CONSTANTS
  Size = 1
  MaxTime = 2
  MaxId = 5
  MaxStarts = 2
  MaxEvents = 2
SPECIFICATION Spec
CHECK_DEADLOCK FALSE
INVARIANTS IdsNeverReissued BlindIsRecorded StoreSound
