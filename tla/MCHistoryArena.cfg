CONSTANTS
  BlockCount = 3
  BlockSize = 5
  HeaderSize = 2
  AccessSize = 1
  MaxAccesses = 1
  MaxDelta = 1
  MaxClock = 2
  MaxRecords = 4
  MaxEpoch = 2
  MaxTimeline = 1
  MediaWhileStopped = FALSE
SPECIFICATION Spec
INVARIANTS TypeOK RetainedIsSuffix LookupFaithful SpaceReserved FirstIsOldest FindCorrect
CHECK_DEADLOCK FALSE
