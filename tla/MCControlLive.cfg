CONSTANTS
  Ids = {id1, id2}
  Kinds = {"mem", "hist"}
  ControlQueue = 1
  RuntimeQueue = 1
  DeferredCapacity = 2
  PoolCapacity = 1
  MaxConnections = 1
  MaxRequests = 2
  MaxTelemetry = 0
SPECIFICATION Spec
PROPERTIES
  HangupFreesPort
  RequestRetired
  StopJoins
