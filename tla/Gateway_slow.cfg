SPECIFICATION Spec
CONSTANTS
    Engines = {rust, cpp}
    Clients = {client}
    Stream = Stream
    CanExit = FALSE
    PipeLimit = 2
    HighWater = 1
    MaxCalls = 2
SYMMETRY Symmetry
CHECK_DEADLOCK FALSE
INVARIANT SlowRoundsAreSurvived
