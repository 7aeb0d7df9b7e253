CONSTANTS
    c1 = c1
    c2 = c2
    Callers = {c1, c2}
    Requests <- MC_ExtensionBesideSync
    MaxCmds = 4
    MaxEngine = 4
    MaxEngineErrors = 0
    InitPvState = "prepared"
    InitSource = "local"
    EngineStatuses = {"Success"}
    SubmitMayLeave = FALSE
    LiveSource = FALSE
    A2dpDirect = {FALSE}
    StartMayFail = FALSE
    ExtnLibs <- MC_ExtnLibs
    LibLoadMayFail = FALSE
SPECIFICATION Spec
INVARIANTS
    NoCompletionToReleased
CHECK_DEADLOCK FALSE
