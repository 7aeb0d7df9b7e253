SPECIFICATION Spec_PVPlayer
CONSTANTS
    c1 = c1
    Callers = {c1}
    Requests <- MC_NoRequests
    ApiCalls <- MC_HttpThenHttp
    A2dpMayDrop = FALSE
    MaxCmds = 12
    MaxEngine = 4
    MaxEngineErrors = 0
    InitPvState = "idle"
    InitSource = "local"
    EngineStatuses = {"Success"}
    SubmitMayLeave = FALSE
    LiveSource = FALSE
    A2dpDirect = {FALSE}
    StartMayFail = FALSE
    ExtnLibs <- MC_NoExtnLibs
    LibLoadMayFail = FALSE
INVARIANTS
    PreparedOnlyWhenReady
CHECK_DEADLOCK FALSE
