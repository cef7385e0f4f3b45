SPECIFICATION StagingSpec
CONSTANTS
  StoreTab = {t1}  Devices = 1  Chunks = 2  MaxMoves = 1  MaxClosed = 0
INVARIANT RestartIsAccepted
CHECK_DEADLOCK FALSE
