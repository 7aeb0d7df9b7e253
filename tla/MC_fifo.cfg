CONSTANTS
    c1 = c1
    c2 = c2
    Callers = {c1}
    Requests <- MC_OneCaller
    MaxCmds = 3
    MaxEngine = 4
    MaxEngineErrors = 1
    InitPvState = "prepared"
    InitSource = "local"
    EngineStatuses = {"Success", "ErrBenign", "ErrFailure"}
    SubmitMayLeave = TRUE
    LiveSource = FALSE
    A2dpDirect = {FALSE}
    StartMayFail = FALSE
    ExtnLibs <- MC_ExtnLibs
    LibLoadMayFail = FALSE
SPECIFICATION Spec
INVARIANTS
    TypeOK
    DequeueInEnqueueOrder
    CompletedAtMostOnce
PROPERTIES
    QueueDrains
    ImplementsCommandQueue
CHECK_DEADLOCK FALSE
