CONSTANTS
  Samples = {0, 1}
  Silence = 0
  Capacity = 2
  Modulus = 4
  MaxCount = 3
  ConcurrentReset = TRUE
SPECIFICATION Spec
INVARIANTS FilledBounded
