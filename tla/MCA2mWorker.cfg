CONSTANTS
  Capacity = 3
  MaxSends = 4
SPECIFICATION Spec
INVARIANTS TypeOK InOrder OnlyStaleLandsSkipped NothingLost
PROPERTIES StopReturns
