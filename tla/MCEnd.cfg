CONSTANTS
    RpcTimeout = 7
    Grace = 5
    ProceedWait = 3
    ShutdownWait = 1
    MaxVersion = 2
    MaxErrors = 2
    MaxSessions = 2
    MaxFds = 6
    MaxForks = 2
SPECIFICATION MCSpec
INVARIANTS GoneInTime AbortOnlyWhenStuck SessionsEndAsAsked PipesBelongToTheirFork
PROPERTIES NoEarlyEnd EndsAreReached
CHECK_DEADLOCK FALSE
