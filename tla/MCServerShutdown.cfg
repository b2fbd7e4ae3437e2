\* An exited process takes no step.
SPECIFICATION FairSpec
CONSTANTS
    c1 = c1
    c2 = c2
    Conns = {c1, c2}
    Mode = "live"
    RequestTimeout = 4
    ShutdownTimeout = 5
    ReadHeaderTimeout = 1
    WriteTimeout = 5
INVARIANTS
    CleanExitHidesNothing
    ClientsOutliveHandlers
    StartedRequestsSurviveShutdown
    ContextEndsBeforeWriteTimeout
PROPERTY
    ProcessEnds
CHECK_DEADLOCK FALSE
