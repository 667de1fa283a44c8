CONSTANTS
  Samples = {0, 1}
  Silence = 0
  Capacity = 4
  Modulus = 8
  MaxCount = 3
  ConcurrentReset = FALSE
SPECIFICATION Spec
INVARIANTS TypeOK DataRaceFree
PROPERTIES ImplementsStream
