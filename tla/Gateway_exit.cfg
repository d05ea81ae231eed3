SPECIFICATION GatewaySpec
CONSTANTS
    Engines = {rust, cpp}
    Clients = {}
    Stream = Stream
    CanExit = TRUE
    PipeLimit = 2
    HighWater = 1
    MaxCalls = 2
CHECK_DEADLOCK FALSE
PROPERTY EveryCallSettles
