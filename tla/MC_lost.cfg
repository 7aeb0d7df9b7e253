CONSTANTS
    c1 = c1
    c2 = c2
    Callers = {c1}
    Requests <- MC_LoopPause
    MaxCmds = 3
    MaxEngine = 4
    MaxEngineErrors = 0
    InitPvState = "prepared"
    InitSource = "local"
    EngineStatuses = {"Success"}
    SubmitMayLeave = FALSE
    LiveSource = FALSE
    A2dpDirect = {FALSE}
    StartMayFail = FALSE
    ExtnLibs <- MC_ExtnLibs
    LibLoadMayFail = FALSE
SPECIFICATION Spec
INVARIANTS
    CompletionNotLost
CHECK_DEADLOCK FALSE
