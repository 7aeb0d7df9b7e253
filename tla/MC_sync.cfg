CONSTANTS
    c1 = c1
    c2 = c2
    Callers = {c1, c2}
    Requests <- MC_SyncBesideAsync
    MaxCmds = 4
    MaxEngine = 4
    MaxEngineErrors = 0
    InitPvState = "initialized"
    InitSource = "rtsp"
    EngineStatuses = {"Success", "ErrBenign", "ErrCancelled"}
    SubmitMayLeave = FALSE
    LiveSource = TRUE
    A2dpDirect = {FALSE}
    StartMayFail = FALSE
    ExtnLibs <- MC_ExtnLibs
    LibLoadMayFail = TRUE
SPECIFICATION Spec
INVARIANTS
    SyncRoundTrip
    CompletedAtMostOnce
    DequeueInEnqueueOrder
CHECK_DEADLOCK FALSE
