CONSTANTS
    c1 = c1
    c2 = c2
    Callers = {c1, c2}
    Requests <- MC_UseThenQuit
    MaxCmds = 4
    MaxEngine = 4
    MaxEngineErrors = 0
    InitPvState = "prepared"
    InitSource = "local"
    EngineStatuses = {"Success", "ErrFailure"}
    SubmitMayLeave = FALSE
    LiveSource = FALSE
    A2dpDirect = {FALSE}
    StartMayFail = FALSE
    ExtnLibs <- MC_ExtnLibs
    LibLoadMayFail = FALSE
SPECIFICATION Spec
INVARIANTS
    QuitReturnsAfterExit
    CompletedAtMostOnce
PROPERTIES
    QuitCompletes
    ExtensionCommandsComplete
CHECK_DEADLOCK FALSE
