SPECIFICATION Spec
CONSTANTS
    Prog <- MCProg
    Vector = 0
    Handler = 8
    MaxFrames = 2
    MaxInterrupts = 1
    BpCapacity = 3
    BatchCycles = 2
    FastLimit = 9
    GuardCycles = 3
    CommandQueue = 3
    MaxCommands = 2
    Scenarios <- MCScenarios
INVARIANTS
    TypeOK
    EventsTellState
PROPERTIES
    StepReturns
    NoBreakpointPassed
    QuitEnds
CHECK_DEADLOCK FALSE
