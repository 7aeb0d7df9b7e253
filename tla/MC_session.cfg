SPECIFICATION Spec_PVPlayer
CONSTANTS
    c1 = c1
    Callers = {c1}
    Requests <- MC_NoRequests
    ApiCalls <- MC_OneSessionThenDestroy
    A2dpMayDrop = FALSE
    MaxCmds = 6
    MaxEngine = 4
    MaxEngineErrors = 1
    InitPvState = "idle"
    InitSource = "local"
    EngineStatuses = {"Success"}
    SubmitMayLeave = FALSE
    LiveSource = FALSE
    A2dpDirect = {FALSE}
    StartMayFail = TRUE
    ExtnLibs <- MC_NoExtnLibs
    LibLoadMayFail = FALSE
INVARIANTS
    TypeOK_PVPlayer
    PreparedOnlyWhenReady
PROPERTIES
    PreparedEventuallySent
    DestructorReturns
CHECK_DEADLOCK FALSE
