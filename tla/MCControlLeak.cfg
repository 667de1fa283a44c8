CONSTANTS
  Ids = {id1}
  Kinds = {"plain"}
  ControlQueue = 3
  RuntimeQueue = 2
  DeferredCapacity = 2
  PoolCapacity = 1
  MaxConnections = 2
  MaxRequests = 1
  MaxTelemetry = 0
SPECIFICATION SafetySpec
INVARIANTS NextClientClean
