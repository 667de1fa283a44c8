SPECIFICATION Spec
CONSTANTS
    Ops = {"run", "pause", "step", "waitPaused", "waitRunning", "waitEvent", "history", "update"}
    CommandQueue = 2
    EventQueue = 2
    SessionSlots = 1
    MaxRequests = 2
    MaxStops = 1
    MaxConnects = 2
    MaxOpens = 3
INVARIANTS
    TypeOK
    Settled
    SessionsAccounted
