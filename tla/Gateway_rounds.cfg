SPECIFICATION FairSpec
CONSTANTS
    Engines = {rust, cpp}
    Clients = {client}
    Stream = Stream
    CanExit = TRUE
    PipeLimit = 1
    HighWater = 1
    MaxCalls = 3
CHECK_DEADLOCK FALSE
INVARIANTS TypeOK AnswersMatch OneInFlight SnapshotsComparable PipesInOrder ResolversMatch BooksAgree
PROPERTY CallsSettleWhileEnginesRun
