CONSTANTS
  Ids = {id1, id2}
  Kinds = {"now", "quit", "plain", "mem"}
  ControlQueue = 2
  RuntimeQueue = 1
  DeferredCapacity = 2
  PoolCapacity = 1
  MaxConnections = 2
  MaxRequests = 2
  MaxTelemetry = 1
SPECIFICATION SafetySpec
INVARIANTS TypeOK AnsweredAtMostOnce ClaimFindsPayload
PROPERTY AnswersKept
SYMMETRY IdSymmetry
