CONSTANTS
    c1 = c1
    c2 = c2
    Callers = {c1}
    Requests <- MC_SeekThenInvoke
    MaxCmds = 2
    MaxEngine = 4
    MaxEngineErrors = 0
    InitPvState = "started"
    InitSource = "local"
    EngineStatuses = {"Success"}
    SubmitMayLeave = FALSE
    LiveSource = FALSE
    A2dpDirect = {FALSE}
    StartMayFail = FALSE
    ExtnLibs <- MC_ExtnLibs
    LibLoadMayFail = FALSE
SPECIFICATION Spec
INVARIANTS
    InvalidExtensionRequestFails
CHECK_DEADLOCK FALSE
