---------------------------- MODULE PlayerDriver ----------------------------
(***************************************************************************)
(* The command executor of src/android/playerdriver.cpp.                   *)
(*                                                                         *)
(* Caller threads hand PlayerCommand objects to enqueueCommand(), which    *)
(* pushes them on mCommandQueue under mQueueLock and, for a command        *)
(* without a callback, blocks the caller on the shared semaphore mSyncSem  *)
(* and returns the shared mSyncStatus.  The player thread runs the OSCL    *)
(* scheduler: the PlayerDriver active object (AO) is scheduled by          *)
(* PendForExec / PendComplete / RunIfNotReady / Cancel, and each Run()     *)
(* pops one command and hands it to the PV engine.  The engine answers on  *)
(* the same thread through CommandCompleted (the completion bridge) and    *)
(* HandleInformationalEvent / HandleErrorEvent.                            *)
(*                                                                         *)
(* The PV engine is the environment: a FIFO of submitted requests that it  *)
(* completes in order with a status, an engine state (the answer of        *)
(* GetPVPlayerStateSync) and the informational events it emits.           *)
(***************************************************************************)
EXTENDS Integers, Sequences, SequencesExt, FiniteSets

CONSTANTS
    Callers,        \* caller threads (model values)
    Requests,       \* Requests[c]: the commands caller c may issue
    MaxCmds,        \* bound: number of commands callers enqueue (PLAYER_QUIT,
                    \* the last, is not counted)
    MaxEngine,      \* bound: length of the engine's request queue
    MaxEngineErrors,\* bound: number of asynchronous engine errors
    InitPvState,    \* engine state when the driver is first used
    InitSource,     \* kind of its data source, unless InitPvState is idle
    EngineStatuses, \* completion statuses the engine may return
    SubmitMayLeave, \* whether an engine API call may leave (OSCL_TRY)
    LiveSource,     \* the engine reports the source as "pause-denied"
    A2dpDirect,     \* what canSetA2DPDirectMode may answer (music stream,
                    \* persist.mot.a2dp.direct, metadata, isA2dpCapable)
    StartMayFail,   \* InitializeForThread or CreatePlayer may fail
    ExtnLibs,       \* the extension libraries the configuration files list,
                    \* in populate's order: ExtnLibs[i] is the sequence of
                    \* PVPlayerExtnInfo its registerExtensions registers
    LibLoadMayFail  \* LoadLib, QueryInterface or oscl_malloc may fail

(* PlayerCommand::Code: every code but PLAYER_SET_VIDEO_SURFACE, which    *)
(* PVPlayer enqueues only when the application has set a surface.          *)
Codes == {"SetDataSource", "Init", "SetAudioSink", "Prepare", "Start", "Stop",
          "Pause", "Reset", "SetLoop", "Seek", "GetPosition", "GetStatus",
          "GetDuration", "CancelAll", "CheckLiveStreaming", "RemoveDataSource",
          "Quit", "Extension", "RemoveAudioSink", "Setup", "Helper"}

(* The data source of PlayerSetDataSource, by the URL scheme that          *)
(* handleSetDataSource looks at: "rtsp:", "http:", or anything else.       *)
SourceKinds == {"local", "http", "rtsp"}

(* Completion callbacks a PVPlayer passes with a command: "none" (no       *)
(* callback, a synchronous call), do_nothing, and the steps of the         *)
(* prepareAsync chain.  enqueueCommand replaces "none" by syncCompletion.  *)
Callbacks == {"none", "do_nothing", "run_init", "run_set_video_surface",
              "run_prepare", "check_for_live_streaming"}

(* The request parcel of a PlayerExtensionCommand (PVPlayer::invoke), by   *)
(* its opcode: EXTN_HANDLER_CMD_QUERY_EXTN_IFACE with an interface UID     *)
(* ("queryA", "queryB", "queryX"), EXTN_HANDLER_CMD_EXTN_API_CALL ("call") *)
(* and EXTN_HANDLER_CMD_RELEASE_EXTN_IFACE ("release") with the handle the *)
(* calling thread holds, or an unknown opcode ("badop").                   *)
QueryArgs == {"queryA", "queryB", "queryX"}
ExtArgs == QueryArgs \cup {"call", "release", "badop"}

(* The argument of a command: the loop() flag of PlayerSetLoop ("on",     *)
(* "off"), the source of PlayerSetDataSource, the extension request, or    *)
(* "none".                                                                 *)
Args == {"none", "on", "off"} \cup SourceKinds \cup ExtArgs

(* A PlayerCommand subclass as its creator builds it: the code its        *)
(* constructor passes to PlayerCommand, the one argument it carries (or    *)
(* "none"), and the completion callback (0 for a synchronous call).        *)
RequestType == [code : Codes, arg : Args, cb : Callbacks]

(* PVPlayerState values returned by GetPVPlayerStateSync.                  *)
PvStates == {"idle", "initialized", "prepared", "started", "paused", "error"}

(* PVMFStatus values.  "ErrBenign" stands for the three codes the          *)
(* completion bridge forgives during a seek: PVMFErrArgument,              *)
(* PVMFErrInvalidState and PVMFErrNotSupported.                            *)
Benign == {"ErrBenign"}
AllStatuses == {"Success", "ErrBenign", "ErrFailure", "ErrCancelled"}

(* android status_t values delivered to completion callbacks.              *)
Outcomes == {"OK", "UNKNOWN_ERROR"}

(* What enqueueCommand may return besides a completion's status.           *)
Returns == Outcomes \cup {"NO_INIT"}

NoCmd == 0   \* the NULL context of an engine request

(* The thread that constructs the PlayerDriver (in PVPlayer's constructor) *)
(* and waits in it until the player thread has started.                   *)
Creator == CHOOSE c \in Callers : TRUE

ASSUME /\ Requests \in [Callers -> SUBSET RequestType]
       /\ MaxCmds \in Nat \ {0} /\ MaxEngine \in Nat /\ MaxEngineErrors \in Nat
       /\ InitPvState \in PvStates \ {"error"} /\ InitSource \in SourceKinds
       /\ EngineStatuses \subseteq AllStatuses /\ "Success" \in EngineStatuses
       /\ SubmitMayLeave \in BOOLEAN /\ LiveSource \in BOOLEAN
       /\ A2dpDirect \subseteq BOOLEAN /\ A2dpDirect # {}
       /\ StartMayFail \in BOOLEAN

VARIABLES
    mCommandQueue,   \* ids of queued commands; push_front, popped at the back
    ao,              \* OSCL request state of the AO: "idle", "pending", "ready"
    cmds,            \* cmds[id]: the PlayerCommand object with id and its fate
    mSyncSem,        \* count of the shared OsclSemaphore
    mSyncStatus,     \* status cached by syncCompletion
    caller,          \* caller[c]: the thread's position in enqueueCommand
    mIsLooping, mDoLoop, mEndOfData, mSeekPending, mSeekComp,
    mIsLiveStreaming, mPrepareDone,
    mDownloadContextData, \* an HTTP source context exists (non-NULL)
    mDataReadyReceived,
    mFormat,         \* format type of mDataSource, by source kind
    preparedSent,    \* MEDIA_PREPARED was sent since the engine's current
                     \* data source was added
    engine,          \* requests submitted to the PV engine, oldest first
    pvState,         \* the engine's PVPlayerState
    pvAtEnd,         \* the engine has reported end of data for this play
    srcKind,         \* kind of the engine's current data source
    srcReady,        \* the engine has reported PVMFInfoDataReady for it
    srcPrepared,     \* the engine has completed a Prepare for it
    errorsLeft,      \* engine errors still allowed by MaxEngineErrors
    dispatched,      \* history: ids in the order Run() dequeued them
    sched,           \* the player thread: "starting", "running" its scheduler,
                     \* "stopped" by handleQuit, "exited" (after delete this),
                     \* or "failed" (returned -1 from its start-up)
    mPlayer,         \* the PV engine exists (mPlayer non-NULL)
    semDeleted,      \* enqueueCommand has deleted mSyncSem after PLAYER_QUIT
    exts,            \* exts[h]: the IDispatch object with handle h, "live" or
                     \* "freed" (handle 0 is NULL)
    held,            \* held[c]: the extension handle thread c holds (0: none)
    extLib,          \* extLib[h]: the library whose create function made h
    mType,           \* PVPlayerExtensionRegistry::mType, PVPlayerExtnInfo
                     \* records in registration order
    mExtnIfaceInfoList, \* the libraries the registry keeps, newest first
    opened,          \* libraries whose OsclSharedLibrary is loaded
    mIsA2DPMode,     \* the audio sink streams A2DP direct (AndroidAudioRawOutput)
    mSwitchFromA2DPDirect, \* the sink was switched from A2DP direct
    prepareByApp     \* the engine's current preparation was asked for by a
                     \* PLAYER_PREPARE with a PVPlayer callback (history)

driverVars == <<mIsLooping, mDoLoop, mEndOfData, mSeekPending, mSeekComp,
                mIsLiveStreaming, mPrepareDone>>
sourceVars == <<mDownloadContextData, mDataReadyReceived, mFormat, preparedSent>>
engineState == <<pvState, pvAtEnd, errorsLeft, srcKind, srcReady, srcPrepared,
                 prepareByApp>>
envVars == <<engine, engineState>>
lifeVars == <<sched, semDeleted, mPlayer>>
regVars == <<mType, mExtnIfaceInfoList, opened>>
extVars == <<exts, held, extLib, regVars>>
a2dpVars == <<mIsA2DPMode, mSwitchFromA2DPDirect>>
vars == <<mCommandQueue, ao, cmds, mSyncSem, mSyncStatus, caller,
          driverVars, sourceVars, envVars, dispatched, lifeVars, extVars, a2dpVars>>

-----------------------------------------------------------------------------
(* OSCL active-object scheduling.  Run() executes only when the AO's       *)
(* request is complete ("ready"); during Run() the AO has no request.      *)
(* RunIfNotReady completes a request at once unless the AO is already      *)
(* active; PendComplete completes a pending request.                      *)
RunIfNotReady(a) == IF a = "idle" THEN "ready" ELSE a
PendComplete(a) == IF a = "pending" THEN "ready" ELSE a

(* A PlayerCommand as enqueueCommand leaves it: a command without        *)
(* callback gets syncCompletion.  An extension request carries the handle *)
(* its thread holds (handle); mCompletionHandle starts NULL (chandle);     *)
(* reply is the handle written to the reply parcel.                        *)
NewCommand(c, r) ==
    [code |-> r.code, arg |-> r.arg,
     cb |-> IF r.cb = "none" THEN "syncCompletion" ELSE r.cb,
     caller |-> c, result |-> "none", cancelled |-> FALSE, notified |-> 0,
     engStatus |-> "none",
     handle |-> IF r.code = "Extension" THEN held[c] ELSE 0,
     chandle |-> 0, reply |-> 0]

IsSync(id) == cmds[id].cb = "syncCompletion"

(* The PVPlayer callbacks of the prepareAsync chain.  On NO_ERROR and not  *)
(* cancelled each enqueues the next step with the next callback:           *)
(* run_init an Init, run_set_video_surface (no surface is set, so it runs  *)
(* run_set_audio_output at once) a SetAudioSink, run_prepare a Prepare,    *)
(* and check_for_live_streaming a CheckLiveStreaming for an RTSP source.   *)
CallbackRequests(cb) ==
    LET Step(code, next) == <<[code |-> code, arg |-> "none", cb |-> next]>> IN
    CASE cb = "run_init"              -> Step("Init", "run_set_video_surface")
      [] cb = "run_set_video_surface" -> Step("SetAudioSink", "run_prepare")
      [] cb = "run_prepare"           -> Step("Prepare", "check_for_live_streaming")
      [] cb = "check_for_live_streaming" /\ mFormat = "rtsp" ->
                                         Step("CheckLiveStreaming", "do_nothing")
      [] OTHER                        -> <<>>

(* PlayerCommand::complete: syncCompletion caches the status and signals   *)
(* mSyncSem; a PVPlayer callback may enqueue the next command, which       *)
(* becomes the newest PlayerCommand.                                       *)
CompleteOn(base, id, status, cancelled) ==
    LET done == [base EXCEPT ![id].result = status, ![id].cancelled = cancelled,
                             ![id].notified = @ + 1]
        next == IF status = "OK" /\ ~cancelled THEN CallbackRequests(cmds[id].cb)
                                              ELSE <<>>
    IN
    /\ cmds' = IF next = <<>> THEN done
                              ELSE Append(done, NewCommand(cmds[id].caller, Head(next)))
    /\ IF IsSync(id)
          THEN mSyncStatus' = status /\ mSyncSem' = mSyncSem + 1
          ELSE UNCHANGED <<mSyncStatus, mSyncSem>>

(* The enqueueCommand a callback made in this step, applied to queue q and *)
(* AO state a: the new command is pushed and wakes the AO if q was empty.  *)
Spawned(q) == IF Len(cmds') > Len(cmds) THEN Cons(Len(cmds'), q) ELSE q
WakeFor(q, a) == IF Len(cmds') > Len(cmds) /\ q = <<>> THEN PendComplete(a) ELSE a

Complete(id, status, cancelled) == CompleteOn(cmds, id, status, cancelled)

NoCompletion == UNCHANGED <<cmds, mSyncStatus, mSyncSem>>

(* FinishSyncCommand: complete with NO_ERROR and delete.                   *)
FinishSyncCommand(id) == Complete(id, "OK", FALSE)

(* commandFailed: a pending seek turns any failure into NO_ERROR and is    *)
(* cleared; otherwise the command fails with UNKNOWN_ERROR.                *)
commandFailed(id, seekPending) ==
    /\ Complete(id, IF seekPending THEN "OK" ELSE "UNKNOWN_ERROR", FALSE)
    /\ mSeekPending' = FALSE

Request(ctx, op) == [ctx |-> ctx, op |-> op]

(* OSCL_TRY(error, mPlayer->Op(..., command)); OSCL_FIRST_CATCH_ANY(error, *)
(* commandFailed(command)): the engine queues the request, or the call     *)
(* leaves and the command fails.  seekPending is mSeekPending at the call. *)
Submit(id, op, base, seekPending) ==
    \/ /\ engine' = Append(base, Request(id, op))
       /\ mSeekPending' = seekPending
       /\ NoCompletion
    \/ /\ SubmitMayLeave
       /\ engine' = base
       /\ commandFailed(id, seekPending)

-----------------------------------------------------------------------------
Init ==
    /\ mCommandQueue = <<>>
    /\ ao = "idle"
    /\ cmds = <<>>
    /\ mSyncSem = 0
    /\ mSyncStatus = "OK"
    /\ caller = [c \in Callers |->
                  [pc |-> IF c = Creator THEN "ctor" ELSE "idle", cmd |-> NoCmd,
                   got |-> "OK"]]
    /\ mIsLooping = FALSE /\ mDoLoop = FALSE /\ mEndOfData = FALSE
    /\ mSeekPending = FALSE /\ mSeekComp = TRUE
    /\ mIsLiveStreaming = FALSE
    /\ mPrepareDone = (InitPvState \in {"prepared", "started", "paused"})
    /\ mDownloadContextData = (InitPvState # "idle" /\ InitSource = "http")
    /\ mDataReadyReceived = FALSE
    /\ mFormat = IF InitPvState = "idle" THEN "none" ELSE InitSource
    /\ preparedSent = mPrepareDone
    /\ engine = <<>>
    /\ pvState = InitPvState
    /\ srcKind = mFormat
    /\ srcReady = FALSE
    /\ srcPrepared = mPrepareDone
    /\ prepareByApp = mPrepareDone
    /\ pvAtEnd = FALSE
    /\ errorsLeft = MaxEngineErrors
    /\ dispatched = <<>>
    /\ sched = "starting"
    /\ mPlayer = FALSE
    /\ semDeleted = FALSE
    /\ exts = <<>>
    /\ held = [c \in Callers |-> 0]
    /\ extLib = <<>>
    /\ mType = <<>> /\ mExtnIfaceInfoList = <<>> /\ opened = {}
    /\ mIsA2DPMode = FALSE
    /\ mSwitchFromA2DPDirect = FALSE

(* playerThread() up to StartScheduler: InitializeForThread and           *)
(* CreatePlayer either succeed (the AO is added to the scheduler and       *)
(* PendForExec, and StartScheduler signals mSyncSem once it runs) or fail: *)
(* mPlayer = NULL, mSyncSem->Signal() and return -1.                       *)
PlayerThreadStart ==
    /\ sched = "starting"
    /\ \E ok \in IF StartMayFail THEN BOOLEAN ELSE {TRUE} :
          /\ mPlayer' = ok
          /\ sched' = IF ok THEN "running" ELSE "failed"
          /\ ao' = IF ok THEN "pending" ELSE ao
    /\ mSyncSem' = mSyncSem + 1
    /\ UNCHANGED <<mCommandQueue, cmds, mSyncStatus, caller, driverVars, sourceVars,
                   envVars, dispatched, semDeleted, extVars, a2dpVars>>

(* PVPlayerExtnInfo as mType holds it: the UID, whether mExtnCreateFunc    *)
(* is non-NULL, and the library whose code the function pointers are in.   *)
PVPlayerExtnInfo == [uid : QueryArgs, create : BOOLEAN, lib : DOMAIN ExtnLibs]

(* The entries library i registers: registerExtensions calls              *)
(* registerExtension, which push_backs a copy of each PVPlayerExtnInfo.    *)
Registrations(i) ==
    [j \in DOMAIN ExtnLibs[i] |->
        [uid |-> ExtnLibs[i][j].uid, create |-> ExtnLibs[i][j].create, lib |-> i]]

(* loadPVPlayerExtensions over the libraries of every configuration file   *)
(* (populate), for the libraries ok whose LoadLib, QueryInterface and      *)
(* oscl_malloc succeed: each registers its extensions, is push_front'ed    *)
(* on mExtnIfaceInfoList and stays loaded (continue); any other library is *)
(* closed and deleted.                                                     *)
loadPVPlayerExtensions(ok) ==
    LET libs == SelectSeq([i \in DOMAIN ExtnLibs |-> i], LAMBDA i : i \in ok) IN
    /\ mType' = FlattenSeq([k \in DOMAIN libs |-> Registrations(libs[k])])
    /\ mExtnIfaceInfoList' = Reverse(libs)
    /\ opened' = ok

(* The end of the PlayerDriver constructor: mSyncSem->Wait() until the     *)
(* player thread signals, then new PVPlayerExtensionHandler, whose         *)
(* constructor populates the registry.                                     *)
PlayerDriverConstructed(c) ==
    /\ caller[c].pc = "ctor"
    /\ mSyncSem > 0
    /\ mSyncSem' = mSyncSem - 1
    /\ caller' = [caller EXCEPT ![c].pc = "idle"]
    /\ \E ok \in IF LibLoadMayFail THEN SUBSET DOMAIN ExtnLibs ELSE {DOMAIN ExtnLibs} :
          loadPVPlayerExtensions(ok)
    /\ UNCHANGED <<mCommandQueue, ao, cmds, mSyncStatus, driverVars, sourceVars,
                   envVars, dispatched, lifeVars, exts, held, extLib, a2dpVars>>

(* Variant of enqueueCommand that never wakes the AO (no PendComplete).    *)
enqueueCommand_NoWake(c, r) ==
    /\ caller[c].pc = "idle"
    /\ Len(cmds) < MaxCmds
    /\ LET id == Len(cmds) + 1 IN
       /\ cmds' = Append(cmds, NewCommand(c, r))
       /\ mCommandQueue' = Cons(id, mCommandQueue)
       /\ caller' = [caller EXCEPT ![c] = [pc |-> IF r.cb = "none" THEN "wait" ELSE "idle",
                                          cmd |-> id, got |-> @.got]]
    /\ UNCHANGED <<ao, mSyncSem, mSyncStatus, driverVars, sourceVars, envVars, dispatched,
                   lifeVars, extVars, a2dpVars>>

(* Variant of enqueueCommand that installs syncCompletion on every command, *)
(* callback or not.                                                        *)
enqueueCommand_AlwaysSync(c, r) ==
    /\ caller[c].pc = "idle"
    /\ Len(cmds) < MaxCmds
    /\ LET id == Len(cmds) + 1 IN
       /\ cmds' = Append(cmds, [NewCommand(c, r) EXCEPT !.cb = "syncCompletion"])
       /\ mCommandQueue' = Cons(id, mCommandQueue)
       /\ ao' = IF Len(mCommandQueue') = 1 THEN PendComplete(ao) ELSE ao
       /\ caller' = [caller EXCEPT ![c] = [pc |-> IF r.cb = "none" THEN "wait" ELSE "idle",
                                          cmd |-> id, got |-> @.got]]
    /\ UNCHANGED <<mSyncSem, mSyncStatus, driverVars, sourceVars, envVars, dispatched,
                   lifeVars, extVars, a2dpVars>>

(* Variant of enqueueCommand that pushes at the back of mCommandQueue     *)
(* (push_back), the end Run() pops from.                                   *)
enqueueCommand_PushBack(c, r) ==
    /\ caller[c].pc = "idle"
    /\ Len(cmds) < MaxCmds
    /\ LET id == Len(cmds) + 1 IN
       /\ cmds' = Append(cmds, NewCommand(c, r))
       /\ mCommandQueue' = Append(mCommandQueue, id)
       /\ ao' = IF Len(mCommandQueue') = 1 THEN PendComplete(ao) ELSE ao
       /\ caller' = [caller EXCEPT ![c] = [pc |-> IF r.cb = "none" THEN "wait" ELSE "idle",
                                          cmd |-> id, got |-> @.got]]
    /\ UNCHANGED <<mSyncSem, mSyncStatus, driverVars, sourceVars, envVars, dispatched,
                   lifeVars, extVars, a2dpVars>>

(* enqueueCommand's early return when the player thread failed to create  *)
(* the engine: NO_INIT, and the command is not queued.                     *)
NoInit(c) ==
    /\ caller' = [caller EXCEPT ![c].got = "NO_INIT"]
    /\ UNCHANGED <<mCommandQueue, ao, cmds, mSyncSem, mSyncStatus, driverVars,
                   sourceVars, envVars, dispatched, lifeVars, extVars, a2dpVars>>

(* Variant of enqueueCommand without the mPlayer == NULL check.            *)
enqueueCommand_NoInitCheck(c, r) ==
    /\ caller[c].pc = "idle"
    /\ Len(cmds) < MaxCmds
    /\ LET id == Len(cmds) + 1 IN
       /\ cmds' = Append(cmds, NewCommand(c, r))
       /\ mCommandQueue' = Cons(id, mCommandQueue)
       /\ ao' = IF Len(mCommandQueue') = 1 THEN PendComplete(ao) ELSE ao
       /\ caller' = [caller EXCEPT ![c] = [pc |-> IF r.cb = "none" THEN "wait" ELSE "idle",
                                          cmd |-> id, got |-> @.got]]
    /\ UNCHANGED <<mSyncSem, mSyncStatus, driverVars, sourceVars, envVars, dispatched,
                   lifeVars, extVars, a2dpVars>>

(* enqueueCommand, up to the semaphore wait: NO_INIT without an engine;    *)
(* otherwise a command without callback gets syncCompletion, the command   *)
(* is pushed under mQueueLock and the AO is woken when the queue was empty. *)
enqueueCommand(c, r) ==
    /\ caller[c].pc = "idle"
    /\ IF ~mPlayer THEN NoInit(c)
       ELSE
       /\ Len(cmds) < MaxCmds \/ r.code = "Quit"
       /\ LET id == Len(cmds) + 1 IN
          /\ cmds' = Append(cmds, NewCommand(c, r))
          /\ mCommandQueue' = Cons(id, mCommandQueue)
          /\ ao' = IF Len(mCommandQueue') = 1 THEN PendComplete(ao) ELSE ao
          /\ caller' = [caller EXCEPT ![c] = [pc |-> IF r.cb = "none" THEN "wait" ELSE "idle",
                                             cmd |-> id, got |-> @.got]]
       /\ UNCHANGED <<mSyncSem, mSyncStatus, driverVars, sourceVars, envVars, dispatched,
                      lifeVars, extVars, a2dpVars>>

(* The application's side of invoke(): after a query it holds the handle   *)
(* read from the reply parcel (NULL when not found or not yet written),    *)
(* and after a release it drops the handle it gave back.                   *)
HeldAfter(h, cmd) ==
    CASE cmd.code = "Extension" /\ cmd.arg \in QueryArgs -> cmd.reply
      [] cmd.code = "Extension" /\ cmd.arg = "release"   -> 0
      [] OTHER                                           -> h

(* The rest of enqueueCommand in synchronous mode: syncsemcopy->Wait(),    *)
(* then return mSyncStatus; after PLAYER_QUIT the caller closes and        *)
(* deletes the semaphore instead and returns 0.                            *)
SyncReturn(c) ==
    /\ caller[c].pc = "wait"
    /\ mSyncSem > 0
    /\ mSyncSem' = mSyncSem - 1
    /\ LET isQuit == cmds[caller[c].cmd].code = "Quit" IN
       /\ caller' = [caller EXCEPT ![c].pc = "idle",
                                   ![c].got = IF isQuit THEN "OK" ELSE mSyncStatus]
       /\ semDeleted' = (semDeleted \/ isQuit)
    /\ held' = [held EXCEPT ![c] = HeldAfter(@, cmds[caller[c].cmd])]
    /\ UNCHANGED <<mCommandQueue, ao, cmds, mSyncStatus, driverVars, sourceVars, envVars,
                   dispatched, sched, mPlayer, exts, extLib, regVars, a2dpVars>>

-----------------------------------------------------------------------------
(* The command handlers called from Run() for command id.  Each one leaves *)
(* the derived flags it does not assign unchanged.                         *)

Keep(flags) == UNCHANGED flags

(* An engine call whose only driver effect is the request itself.          *)
handlePlain(id, op) ==
    /\ Submit(id, op, engine, mSeekPending)
    /\ Keep(<<mIsLooping, mDoLoop, mEndOfData, mSeekComp, mIsLiveStreaming,
              mPrepareDone>>)

(* The handlers that only issue their engine call: handlePrepare           *)
(* (Prepare), handlePause (Pause), handleGetDuration and                   *)
(* handleCheckLiveStreaming (GetMetadataValues for "duration" and          *)
(* "pause-denied"), handleCancelAllCommands (CancelAllCommands).           *)
handlePrepare(id) == handlePlain(id, "Prepare")
handlePause(id) == handlePlain(id, "Pause")
handleGetDuration(id) == handlePlain(id, "GetMetadataValues")
handleCheckLiveStreaming(id) == handlePlain(id, "GetMetadataValues")
handleCancelAllCommands(id) == handlePlain(id, "CancelAllCommands")

(* handleStart: mSeekComp = true; a paused engine is resumed, after a      *)
(* SetPlaybackRange(NULL) to the beginning when the end was reached;       *)
(* otherwise Start.                                                        *)
handleStart(id) ==
    /\ mSeekComp' = TRUE
    /\ IF pvState = "paused"
          THEN /\ mEndOfData' = FALSE
               /\ Submit(id, "Resume",
                         IF mEndOfData
                            THEN Append(engine, Request(NoCmd, "SetPlaybackRange"))
                            ELSE engine,
                         mSeekPending)
          ELSE /\ Submit(id, "Start", engine, mSeekPending)
               /\ Keep(mEndOfData)
    /\ Keep(<<mIsLooping, mDoLoop, mIsLiveStreaming, mPrepareDone>>)

(* handleSeek: a seek in the paused state makes GetPosition report the     *)
(* requested position; mSeekPending is set before SetPlaybackRange, and    *)
(* mEndOfData is cleared after it.                                         *)
handleSeek(id) ==
    /\ mSeekComp' = IF pvState = "paused" THEN FALSE ELSE mSeekComp
    /\ Submit(id, "SetPlaybackRange", engine, TRUE)
    /\ mEndOfData' = FALSE
    /\ Keep(<<mIsLooping, mDoLoop, mIsLiveStreaming, mPrepareDone>>)

(* handleReset: clears looping, end of data (and content length, DRM       *)
(* awareness), then Reset.                                                 *)
handleReset(id) ==
    /\ mIsLooping' = FALSE /\ mDoLoop' = FALSE /\ mEndOfData' = FALSE
    /\ Submit(id, "Reset", engine, mSeekPending)
    /\ Keep(<<mSeekComp, mIsLiveStreaming, mPrepareDone>>)

(* Variant of handleStop that also completes the command it replaces by a *)
(* PlayerReset.                                                            *)
handleStop_CompleteReplaced(id) ==
    IF pvState \in {"paused", "prepared", "started"}
       THEN /\ mIsLooping' = FALSE /\ mDoLoop' = FALSE
            /\ Submit(id, "Stop", engine, mSeekPending)
            /\ Keep(<<mEndOfData, mSeekComp, mIsLiveStreaming, mPrepareDone>>)
       ELSE /\ mIsLooping' = FALSE /\ mDoLoop' = FALSE /\ mEndOfData' = FALSE
            /\ FinishSyncCommand(id)
            /\ engine' = Append(engine, Request(id, "Reset"))
            /\ Keep(<<mSeekPending, mSeekComp, mIsLiveStreaming, mPrepareDone>>)

(* handleStop: clears looping; Stop in paused, prepared or started,        *)
(* otherwise a new PlayerReset with the same callback replaces the         *)
(* command.                                                                *)
handleStop(id) ==
    IF pvState \in {"paused", "prepared", "started"}
       THEN /\ mIsLooping' = FALSE /\ mDoLoop' = FALSE
            /\ Submit(id, "Stop", engine, mSeekPending)
            /\ Keep(<<mEndOfData, mSeekComp, mIsLiveStreaming, mPrepareDone>>)
       ELSE handleReset(id)

(* PLAYER_SET_LOOP: mIsLooping = loop(), FinishSyncCommand.                *)
handleSetLoop(id) ==
    /\ mIsLooping' = (cmds[id].arg = "on")
    /\ FinishSyncCommand(id)
    /\ UNCHANGED engine
    /\ Keep(<<mDoLoop, mEndOfData, mSeekPending, mSeekComp, mIsLiveStreaming,
              mPrepareDone>>)

(* handleSetDataSource: a new PVPlayerDataSourceURL whose format follows  *)
(* the URL scheme; an "http:" URL also gets a fresh download context       *)
(* (setupHttpStreamPre, which cannot fail); then AddDataSource.  An        *)
(* earlier download context is only ever replaced, never removed.          *)
handleSetDataSource(id) ==
    LET kind == cmds[id].arg IN
    /\ mFormat' = kind
    /\ mDownloadContextData' = (mDownloadContextData \/ kind = "http")
    /\ UNCHANGED <<mDataReadyReceived, preparedSent>>
    /\ handlePlain(id, "AddDataSource")

(* handleInit: a failing RegisterHelperObject fails the command like a     *)
(* leaving Init; the HTTP parameters and user agent set before Init have   *)
(* their failures ignored.                                                 *)
handleInit(id) == handlePlain(id, "Init")

(* canSetA2DPDirectMode: clears mIsA2DPMode, then sets it when the        *)
(* platform allows A2DP direct streaming of this source.                   *)
canSetA2DPDirectMode == \E direct \in A2dpDirect : mIsA2DPMode' = direct

(* handleSetAudioSink for a realtime sink: leaving A2DP direct mode clears *)
(* mIsA2DPMode and sets mSwitchFromA2DPDirect (a normal audio MIO);        *)
(* otherwise canSetA2DPDirectMode picks the raw or the normal MIO.  Then   *)
(* AddDataSink.                                                            *)
handleSetAudioSink(id) ==
    /\ IF mIsA2DPMode
          THEN /\ mIsA2DPMode' = FALSE
               /\ mSwitchFromA2DPDirect' = TRUE
          ELSE /\ canSetA2DPDirectMode
               /\ UNCHANGED mSwitchFromA2DPDirect
    /\ handlePlain(id, "AddDataSink")

(* handleRemoveAudioSink: RemoveDataSink; handleRemoveDataSource:          *)
(* RemoveDataSource.                                                       *)
handleRemoveAudioSink(id) == handlePlain(id, "RemoveDataSink")
handleRemoveDataSource(id) == handlePlain(id, "RemoveDataSource")

(* PLAYER_SETUP and PLAYER_HELPER query the engine for its capability-and- *)
(* config and its track-selection interfaces.                              *)
handleSetup(id) == handlePlain(id, "QueryInterface")
handleHelper(id) == handlePlain(id, "QueryInterface")

(* Commands completed in the same turn: GetPosition and GetStatus.         *)
finishInTurn(id) ==
    /\ FinishSyncCommand(id)
    /\ UNCHANGED <<engine, driverVars>>

(* Variant of PauseDenied that finishes the command and still goes on to   *)
(* mPlayer->Pause (a missing return).                                      *)
PauseDenied_FallsThrough(id) ==
    /\ FinishSyncCommand(id)
    /\ engine' = Append(engine, Request(id, "Pause"))
    /\ UNCHANGED driverVars

(* Pause while mIsLiveStreaming: "Pause denied", FinishSyncCommand,        *)
(* return.  Seek while live also sends MEDIA_SEEK_COMPLETE first.          *)
PauseDenied(id) == finishInTurn(id)
SeekDenied(id) == finishInTurn(id)

(* Variant of handleQuit that also completes the PLAYER_QUIT command like  *)
(* any synchronous command.                                                *)
handleQuit_Completes(id) ==
    /\ sched' = "stopped"
    /\ FinishSyncCommand(id)
    /\ UNCHANGED <<engine, driverVars>>

(* handleQuit: StopScheduler; the command is not completed (its caller is *)
(* woken by the exiting player thread).                                    *)
handleQuit(id) ==
    /\ sched' = "stopped"
    /\ UNCHANGED <<cmds, mSyncStatus, mSyncSem, engine, driverVars>>

(* createExtension: the linear search of mType for the first entry with   *)
(* the UID; it names the entry whose mExtnCreateFunc makes the new         *)
(* IDispatch, or is 0 (NULL) when the UID is absent or that first entry    *)
(* has no create function.                                                 *)
createExtension(uid) ==
    LET i == SelectInSeq(mType, LAMBDA e : e.uid = uid) IN
    IF i # 0 /\ mType[i].create THEN i ELSE 0

(* queryExtnIface followed by the FinishSyncCommand of                     *)
(* callPlayerExtension: a created extension gets the next handle, written  *)
(* to the reply after NO_ERROR; otherwise the reply says NAME_NOT_FOUND,  *)
(* whose write succeeds, so the command still completes with NO_ERROR.     *)
queryExtnIface(id) ==
    LET e == createExtension(cmds[id].arg) IN
    IF e # 0
       THEN /\ exts' = Append(exts, "live")
            /\ extLib' = Append(extLib, mType[e].lib)
            /\ CompleteOn([cmds EXCEPT ![id].reply = Len(exts) + 1], id, "OK", FALSE)
       ELSE /\ UNCHANGED <<exts, extLib>>
            /\ FinishSyncCommand(id)

(* IDispatch::invoke of the extension with handle h: the extension is     *)
(* vendor code, and handleExtensionCommand ignores what it returns, so it  *)
(* must finish the command itself: in this turn (FinishSyncCommand or      *)
(* commandFailed), or by an engine request with the command as context,    *)
(* having set mCompletionHandle to itself or left it NULL.                 *)
ExtInvoke(id, h) ==
    /\ UNCHANGED <<exts, extLib>>
    /\ \/ FinishSyncCommand(id) /\ UNCHANGED <<engine, mSeekPending>>
       \/ commandFailed(id, mSeekPending) /\ UNCHANGED engine
       \/ \E ch \in {0, h} :
             /\ engine' = Append(engine, Request(id, "ExtensionRequest"))
             /\ cmds' = [cmds EXCEPT ![id].chandle = ch]
             /\ UNCHANGED <<mSyncStatus, mSyncSem, mSeekPending>>

(* Variant of callPlayerExtension whose release deletes the extension but  *)
(* never finishes the command.                                             *)
callPlayerExtension_ReleaseNoFinish(id) ==
    LET op == cmds[id].arg
        h  == cmds[id].handle
    IN
    CASE op \in QueryArgs -> queryExtnIface(id) /\ UNCHANGED <<engine, mSeekPending>>
      [] op = "call" /\ h # 0 -> ExtInvoke(id, h)
      [] op = "release" /\ h # 0 ->
            /\ exts' = [exts EXCEPT ![h] = "freed"]
            /\ UNCHANGED extLib
            /\ UNCHANGED <<cmds, mSyncStatus, mSyncSem, engine, mSeekPending>>
      [] OTHER -> commandFailed(id, mSeekPending) /\ UNCHANGED <<exts, extLib, engine>>

(* callPlayerExtension: switch on the opcode read from the request.  A    *)
(* query runs queryExtnIface; an API call with a non-NULL handle is        *)
(* handed to that extension's invoke; a release with a non-NULL handle     *)
(* deletes the extension and finishes; a NULL handle or an unknown opcode  *)
(* writes INVALID_OPERATION and calls commandFailed.                       *)
callPlayerExtension(id) ==
    LET op == cmds[id].arg
        h  == cmds[id].handle
    IN
    CASE op \in QueryArgs -> queryExtnIface(id) /\ UNCHANGED <<engine, mSeekPending>>
      [] op = "call" /\ h # 0 -> ExtInvoke(id, h)
      [] op = "release" /\ h # 0 ->
            /\ exts' = [exts EXCEPT ![h] = "freed"]
            /\ UNCHANGED extLib
            /\ FinishSyncCommand(id)
            /\ UNCHANGED <<engine, mSeekPending>>
      [] OTHER -> commandFailed(id, mSeekPending) /\ UNCHANGED <<exts, extLib, engine>>

(* handleExtensionCommand: mExtensionHandler exists (it is created with   *)
(* the driver), so the command goes to callPlayerExtension, whose status   *)
(* is only logged.                                                         *)
handleExtensionCommand(id) ==
    /\ callPlayerExtension(id)
    /\ Keep(<<mIsLooping, mDoLoop, mEndOfData, mSeekComp, mIsLiveStreaming,
              mPrepareDone>>)

(* The switch of Run() on command->code().  Only handleSetDataSource       *)
(* touches the source state.                                               *)
Dispatch(id) ==
    LET code == cmds[id].code IN
    /\ CASE code = "SetDataSource" -> handleSetDataSource(id)
        [] code = "Init"     -> handleInit(id)
        [] code = "SetAudioSink" -> handleSetAudioSink(id)
        [] code = "Prepare"  -> handlePrepare(id)
        [] code = "Start"    -> handleStart(id)
        [] code = "Stop"     -> handleStop(id)
        [] code = "Pause"    -> IF mIsLiveStreaming THEN PauseDenied(id)
                                                    ELSE handlePause(id)
        [] code = "Seek"     -> IF mIsLiveStreaming THEN SeekDenied(id)
                                                    ELSE handleSeek(id)
        [] code \in {"GetPosition", "GetStatus"} -> finishInTurn(id)
        [] code = "GetDuration" -> handleGetDuration(id)
        [] code = "CheckLiveStreaming" -> handleCheckLiveStreaming(id)
        [] code = "RemoveDataSource" -> handleRemoveDataSource(id)
        [] code = "RemoveAudioSink" -> handleRemoveAudioSink(id)
        [] code = "CancelAll" -> handleCancelAllCommands(id)
        [] code = "Reset"    -> handleReset(id)
        [] code = "SetLoop"  -> handleSetLoop(id)
        [] code = "Quit"     -> handleQuit(id)
        [] code = "Extension" -> handleExtensionCommand(id)
        [] code = "Setup"    -> handleSetup(id)
        [] code = "Helper"   -> handleHelper(id)
    /\ code # "SetDataSource" => UNCHANGED sourceVars
    /\ code # "Extension" => UNCHANGED <<exts, extLib>>
    /\ code # "SetAudioSink" => UNCHANGED a2dpVars
    /\ code # "Quit" => UNCHANGED sched

(* Run() with mDoLoop set: restart playback from the beginning with two    *)
(* NULL-context engine requests, without dequeuing.                        *)
RunLoopRestart ==
    /\ ao = "ready" /\ mDoLoop
    /\ sched = "running"
    /\ UNCHANGED <<lifeVars, extVars, a2dpVars>>
    /\ Len(engine) + 2 <= MaxEngine
    /\ ao' = "idle"
    /\ mEndOfData' = FALSE
    /\ engine' = engine \o <<Request(NoCmd, "SetPlaybackRange"),
                             Request(NoCmd, "Resume")>>
    /\ UNCHANGED <<mCommandQueue, cmds, mSyncSem, mSyncStatus, caller,
                   mIsLooping, mDoLoop, mSeekPending, mSeekComp,
                   mIsLiveStreaming, mPrepareDone, sourceVars, engineState,
                   dispatched>>

(* Run() while the engine reports PVP_STATE_ERROR: return at once.         *)
RunInErrorState ==
    /\ ao = "ready" /\ ~mDoLoop /\ pvState = "error"
    /\ sched = "running"
    /\ UNCHANGED <<lifeVars, extVars, a2dpVars>>
    /\ ao' = "idle"
    /\ UNCHANGED <<mCommandQueue, cmds, mSyncSem, mSyncStatus, caller,
                   driverVars, sourceVars, envVars, dispatched>>

(* Variant of RunDequeue that pops the front of mCommandQueue (the newest *)
(* command) instead of the back.                                           *)
RunDequeue_PopFront ==
    /\ ao = "ready" /\ ~mDoLoop /\ pvState # "error"
    /\ sched = "running"
    /\ UNCHANGED <<semDeleted, mPlayer, held, regVars>>
    /\ IF mCommandQueue = <<>>
          THEN /\ ao' = "pending"
               /\ UNCHANGED <<mCommandQueue, cmds, mSyncSem, mSyncStatus,
                              driverVars, sourceVars, engine, dispatched, sched,
                              exts, extLib, a2dpVars>>
          ELSE LET id   == Head(mCommandQueue)
                   rest == Tail(mCommandQueue)
               IN
               /\ Len(engine) + 2 <= MaxEngine
               /\ dispatched' = Append(dispatched, id)
               /\ Dispatch(id)
               /\ mCommandQueue' = Spawned(rest)
               /\ ao' = WakeFor(rest, IF rest # <<>> THEN "ready" ELSE "pending")
    /\ UNCHANGED <<caller, engineState>>

(* Run() otherwise: dequeueCommand() pops the oldest command, parks the AO *)
(* when the queue is now empty and re-arms it when more remain; then the   *)
(* command is dispatched, and a callback run by its completion may enqueue *)
(* the next one.  An empty queue parks the AO.                             *)
RunDequeue ==
    /\ ao = "ready" /\ ~mDoLoop /\ pvState # "error"
    /\ sched = "running"
    /\ UNCHANGED <<semDeleted, mPlayer, held, regVars>>
    /\ IF mCommandQueue = <<>>
          THEN /\ ao' = "pending"
               /\ UNCHANGED <<mCommandQueue, cmds, mSyncSem, mSyncStatus,
                              driverVars, sourceVars, engine, dispatched, sched,
                              exts, extLib, a2dpVars>>
          ELSE LET id   == Last(mCommandQueue)
                   rest == Front(mCommandQueue)
               IN
               /\ Len(engine) + 2 <= MaxEngine
               /\ dispatched' = Append(dispatched, id)
               /\ Dispatch(id)
               /\ mCommandQueue' = Spawned(rest)
               /\ ao' = WakeFor(rest, IF rest # <<>> THEN "ready" ELSE "pending")
    /\ UNCHANGED <<caller, engineState>>

Run == RunLoopRestart \/ RunInErrorState \/ RunDequeue

-----------------------------------------------------------------------------
(* The PV engine.  A request is valid in some engine states; an invalid    *)
(* one fails with PVMFErrInvalidState.  The engine may also reject a valid *)
(* request (a seek in a stream that cannot seek answers                    *)
(* PVMFErrNotSupported) or fail it, as EngineStatuses allows.  A request   *)
(* queued ahead of a CancelAllCommands may complete with PVMFErrCancelled. *)
ValidIn(op, st) ==
    CASE st = "error"             -> FALSE
      [] op = "AddDataSource"     -> st = "idle" /\ srcKind = "none"
      [] op \in {"Init", "RemoveDataSource"} -> st = "idle" /\ srcKind # "none"
      [] op \in {"AddDataSink", "RemoveDataSink"} -> st \in {"idle", "initialized"}
      [] op = "Prepare"           -> st = "initialized"
      [] op = "Start"             -> st = "prepared"
      [] op = "Resume"            -> st = "paused"
      [] op = "Pause"             -> st = "started"
      [] op \in {"Stop", "SetPlaybackRange"} ->
                                     st \in {"prepared", "started", "paused"}
      [] OTHER                    -> TRUE

StateAfter(op, st) ==
    CASE op = "Init"                 -> "initialized"
      [] op = "Prepare"              -> "prepared"
      [] op \in {"Start", "Resume"}  -> "started"
      [] op = "Pause"                -> "paused"
      [] op = "Stop"                 -> "initialized"
      [] op = "Reset"                -> "idle"
      [] OTHER                       -> st

(* Requests after which playback runs again from a new position.           *)
Restarts == {"Start", "Resume", "SetPlaybackRange", "Stop", "Reset"}

StatusesFor(r) ==
    ( IF ValidIn(r.op, pvState) THEN {"Success"} ELSE {"ErrBenign"} )
    \cup (EngineStatuses \cap {"ErrBenign", "ErrFailure"})
    \cup ( IF /\ "ErrCancelled" \in EngineStatuses /\ r.ctx # NoCmd
              /\ \E i \in 2..Len(engine) : engine[i].op = "CancelAllCommands"
           THEN {"ErrCancelled"} ELSE {} )

(* Variant of CompletionBridge that hands the PVMFStatus to the callback  *)
(* without mapping it to a status_t.                                       *)
CompletionBridge_Unmapped(id, s) ==
    LET status == IF mSeekPending /\ s \in Benign THEN "Success" ELSE s
        base   == [cmds EXCEPT ![id].engStatus = s]
        code   == cmds[id].code
    IN
    /\ mSeekPending' = FALSE
    /\ mPrepareDone' = (mPrepareDone \/ (status = "Success" /\ code = "Prepare"))
    /\ mSwitchFromA2DPDirect' = IF status = "Success" /\ code = "Prepare"
                                  THEN FALSE ELSE mSwitchFromA2DPDirect
    /\ mIsLiveStreaming' = (mIsLiveStreaming \/
                           (status = "Success" /\ code = "CheckLiveStreaming"
                                              /\ LiveSource))
    /\ CompleteOn(base, id, status, status = "ErrCancelled")
    /\ UNCHANGED <<mIsLooping, mDoLoop, mEndOfData, mSeekComp>>

(* handleCheckLiveStreamingComplete: the "pause-denied" value of the       *)
(* source turns mIsLiveStreaming on; it is never turned off.               *)
handleCheckLiveStreamingComplete(live) == live \/ LiveSource

(* The status CommandCompleted goes on with: a pending seek forgives the  *)
(* benign codes.                                                           *)
BridgeStatus(s) == IF mSeekPending /\ s \in Benign THEN "Success" ELSE s

(* Variant of SendsPrepared that sends MEDIA_PREPARED on every successful  *)
(* PLAYER_PREPARE, without waiting for the download's data.                *)
SendsPrepared_IgnoresDataReady(id, s) ==
    BridgeStatus(s) = "Success" /\ cmds[id].code = "Prepare"

(* PLAYER_PREPARE's success sends MEDIA_PREPARED at once for a source     *)
(* without download context, or when PVMFInfoDataReady was received;      *)
(* after a switch from A2DP direct it only clears mSwitchFromA2DPDirect.   *)
SendsPrepared(id, s) ==
    /\ BridgeStatus(s) = "Success" /\ cmds[id].code = "Prepare"
    /\ ~mSwitchFromA2DPDirect
    /\ ~mDownloadContextData \/ mDataReadyReceived

(* The rest of CommandCompleted for command id with engine status s,     *)
(* base being cmds with the response recorded: success runs the code's     *)
(* post-processing, cancellation completes as success with the cancelled   *)
(* flag, and any other status completes with UNKNOWN_ERROR.                *)
DefaultCompletion(base, id, s) ==
    LET status == BridgeStatus(s)
        code   == cmds[id].code
    IN
    /\ mPrepareDone' = (mPrepareDone \/ (status = "Success" /\ code = "Prepare"))
    /\ mSwitchFromA2DPDirect' = IF status = "Success" /\ code = "Prepare"
                                  THEN FALSE ELSE mSwitchFromA2DPDirect
    /\ mIsLiveStreaming' = IF status = "Success" /\ code = "CheckLiveStreaming"
                              THEN handleCheckLiveStreamingComplete(mIsLiveStreaming)
                              ELSE mIsLiveStreaming
    /\ CASE status = "Success"      -> CompleteOn(base, id, "OK", FALSE)
          [] status = "ErrCancelled" -> CompleteOn(base, id, "OK", TRUE)
          [] OTHER                   -> CompleteOn(base, id, "UNKNOWN_ERROR", FALSE)
    /\ UNCHANGED <<mIsLooping, mDoLoop, mEndOfData, mSeekComp>>

(* IDispatch::commandCompleted of an extension that returns true: it has  *)
(* finished the command itself (FinishSyncCommand or commandFailed, with   *)
(* mSeekPending already cleared), and CommandCompleted returns.            *)
ExtensionHandled(base, id) ==
    /\ \E st \in Outcomes : CompleteOn(base, id, st, FALSE)
    /\ UNCHANGED <<mIsLooping, mDoLoop, mEndOfData, mSeekComp, mIsLiveStreaming,
                   mPrepareDone, mSwitchFromA2DPDirect>>

(* Variant of ExtensionCompletion that goes on with the default completion *)
(* after the extension reported it handled the command (a missing return). *)
ExtensionCompletion_NoReturn(base, id, s) ==
    IF cmds[id].chandle # 0
       THEN \/ DefaultCompletion([base EXCEPT ![id].notified = @ + 1], id, s)
            \/ DefaultCompletion(base, id, s)
       ELSE DefaultCompletion(base, id, s)

(* The extension interception of CommandCompleted for a                    *)
(* PLAYER_EXTENSION_COMMAND: PVPlayerExtensionHandler::commandCompleted    *)
(* answers false for a NULL mCompletionHandle, and otherwise what that     *)
(* extension's commandCompleted answers; on true CommandCompleted returns, *)
(* on false the default completion follows.                                *)
ExtensionCompletion(base, id, s) ==
    IF cmds[id].chandle # 0
       THEN ExtensionHandled(base, id) \/ DefaultCompletion(base, id, s)
       ELSE DefaultCompletion(base, id, s)

(* CommandCompleted for command id with engine status s, when mDoLoop is   *)
(* clear: a pending seek forgives the benign codes (for whichever command  *)
(* completes) and is cleared; an extension command is offered to the       *)
(* extension handler; the default completion follows.                      *)
CompletionBridge(id, s) ==
    LET base == [cmds EXCEPT ![id].engStatus = s] IN
    /\ mSeekPending' = FALSE
    /\ IF cmds[id].code = "Extension"
          THEN ExtensionCompletion(base, id, s)
          ELSE DefaultCompletion(base, id, s)

(* The engine's data source after a completed request: AddDataSource      *)
(* installs the command's source, RemoveDataSource removes it, and a       *)
(* successful Prepare prepares it.                                         *)
(* The requests after whose success the engine no longer holds a prepared *)
(* source: a new source, its removal, Reset (to idle) and Stop (to        *)
(* initialized, so that prepare() must run PLAYER_PREPARE again).          *)
Unprepares(r, s) ==
    s = "Success" /\ r.op \in {"AddDataSource", "RemoveDataSource", "Reset", "Stop"}

EngineSourceAfter(r, s) ==
    LET ok == s = "Success" IN
    /\ srcKind' = CASE ok /\ r.op = "AddDataSource"    -> cmds[r.ctx].arg
                    [] ok /\ r.op = "RemoveDataSource" -> "none"
                    [] OTHER                           -> srcKind
    /\ srcReady' = IF ok /\ r.op = "AddDataSource" THEN FALSE ELSE srcReady
    /\ srcPrepared' = CASE Unprepares(r, s)          -> FALSE
                        [] ok /\ r.op = "Prepare" -> TRUE
                        [] OTHER                  -> srcPrepared
    /\ prepareByApp' = CASE Unprepares(r, s)          -> FALSE
                         [] ok /\ r.op = "Prepare" -> cmds[r.ctx].cb # "syncCompletion"
                         [] OTHER                  -> prepareByApp

(* CommandCompleted(aResponse): the engine completes its oldest request.   *)
(* With mDoLoop set, the response is taken as the end of the loop restart  *)
(* whatever it answers; a NULL context is dropped.                         *)
CommandCompleted ==
    /\ engine # <<>>
    /\ sched = "running"
    /\ UNCHANGED <<lifeVars, extVars, mIsA2DPMode>>
    /\ LET r == Head(engine) IN
       \E s \in StatusesFor(r) :
          /\ engine' = Tail(engine)
          /\ pvState' = IF s = "Success" THEN StateAfter(r.op, pvState) ELSE pvState
          /\ pvAtEnd' = IF s = "Success" /\ r.op \in Restarts THEN FALSE ELSE pvAtEnd
          /\ EngineSourceAfter(r, s)
          /\ IF mDoLoop
                THEN /\ mDoLoop' = FALSE
                     /\ ao' = RunIfNotReady(ao)
                     /\ NoCompletion
                     /\ UNCHANGED <<mCommandQueue, mIsLooping, mEndOfData,
                                    mSeekPending, mSeekComp, mIsLiveStreaming,
                                    mPrepareDone, mSwitchFromA2DPDirect>>
             ELSE IF r.ctx = NoCmd
                THEN UNCHANGED <<mCommandQueue, ao, cmds, mSyncSem, mSyncStatus,
                                 driverVars, mSwitchFromA2DPDirect>>
             ELSE /\ CompletionBridge(r.ctx, s)
                  /\ mCommandQueue' = Spawned(mCommandQueue)
                  /\ ao' = WakeFor(mCommandQueue, ao)
          /\ preparedSent' =
                IF Unprepares(r, s) THEN FALSE
                ELSE preparedSent \/ (~mDoLoop /\ r.ctx # NoCmd /\ SendsPrepared(r.ctx, s))
    /\ UNCHANGED <<caller, errorsLeft, dispatched, mDownloadContextData,
                   mDataReadyReceived, mFormat>>

(* HandleInformationalEvent(PVMFInfoEndOfData), sent once per play while   *)
(* started: with mIsLooping the AO is cancelled and re-run for the loop    *)
(* restart; otherwise MEDIA_PLAYBACK_COMPLETE is sent.                     *)
EndOfData ==
    /\ pvState = "started" /\ ~pvAtEnd
    /\ sched = "running"
    /\ UNCHANGED <<lifeVars, extVars, a2dpVars>>
    /\ pvAtEnd' = TRUE
    /\ mEndOfData' = TRUE
    /\ IF mIsLooping
          THEN mDoLoop' = TRUE /\ ao' = "ready"
          ELSE UNCHANGED <<mDoLoop, ao>>
    /\ UNCHANGED <<mCommandQueue, cmds, mSyncSem, mSyncStatus, caller,
                   mIsLooping, mSeekPending, mSeekComp, mIsLiveStreaming,
                   mPrepareDone, sourceVars, engine, pvState, errorsLeft,
                   srcKind, srcReady, srcPrepared, prepareByApp, dispatched>>

(* The engine enters error handling and calls HandleErrorEvent, which only *)
(* forwards MEDIA_ERROR to the application.                                *)
EngineError ==
    /\ errorsLeft > 0 /\ pvState # "error"
    /\ sched = "running"
    /\ UNCHANGED <<lifeVars, extVars, a2dpVars>>
    /\ errorsLeft' = errorsLeft - 1
    /\ pvState' = "error"
    /\ UNCHANGED <<mCommandQueue, ao, cmds, mSyncSem, mSyncStatus, caller,
                   driverVars, sourceVars, engine, pvAtEnd, srcKind, srcReady,
                   srcPrepared, prepareByApp, dispatched>>

(* HandleInformationalEvent(PVMFInfoErrorHandlingComplete): the engine has *)
(* left error handling (in the idle state) and the AO is re-run.           *)
ErrorHandlingComplete ==
    /\ pvState = "error"
    /\ sched = "running"
    /\ UNCHANGED <<lifeVars, extVars, a2dpVars>>
    /\ pvState' = "idle"
    /\ ao' = RunIfNotReady(ao)
    /\ srcPrepared' = FALSE /\ prepareByApp' = FALSE
    /\ preparedSent' = FALSE
    /\ UNCHANGED <<mCommandQueue, cmds, mSyncSem, mSyncStatus, caller,
                   driverVars, mDownloadContextData, mDataReadyReceived, mFormat,
                   engine, pvAtEnd, errorsLeft, srcKind, srcReady, dispatched>>

(* Variant of DataReady that records the event but never sends            *)
(* MEDIA_PREPARED.                                                          *)
DataReady_Silent ==
    /\ srcKind \in {"http", "rtsp"} /\ ~srcReady
    /\ pvState \in {"initialized", "prepared", "started", "paused"}
    /\ sched = "running"
    /\ UNCHANGED <<lifeVars, extVars, a2dpVars>>
    /\ srcReady' = TRUE
    /\ mDataReadyReceived' = TRUE
    /\ UNCHANGED <<mCommandQueue, ao, cmds, mSyncSem, mSyncStatus, caller,
                   driverVars, mDownloadContextData, mFormat, preparedSent, engine,
                   pvState, pvAtEnd, errorsLeft, srcKind, srcPrepared, prepareByApp, dispatched>>

(* HandleInformationalEvent(PVMFInfoDataReady), which the engine sends     *)
(* once for a network source after Init: only the first one since the      *)
(* driver was created counts (mDataReadyReceived); it sends MEDIA_PREPARED *)
(* when a download context exists and PLAYER_PREPARE has completed.        *)
DataReady ==
    /\ srcKind \in {"http", "rtsp"} /\ ~srcReady
    /\ pvState \in {"initialized", "prepared", "started", "paused"}
    /\ sched = "running"
    /\ UNCHANGED <<lifeVars, extVars, a2dpVars>>
    /\ srcReady' = TRUE
    /\ IF mDataReadyReceived
          THEN UNCHANGED <<mDataReadyReceived, preparedSent>>
          ELSE /\ mDataReadyReceived' = TRUE
               /\ preparedSent' = (preparedSent \/ (mDownloadContextData /\ mPrepareDone))
    /\ UNCHANGED <<mCommandQueue, ao, cmds, mSyncSem, mSyncStatus, caller,
                   driverVars, mDownloadContextData, mFormat, engine, pvState,
                   pvAtEnd, errorsLeft, srcKind, srcPrepared, prepareByApp, dispatched>>

(* removePVPlayerExtensions: pop each library of mExtnIfaceInfoList, free *)
(* its record and close it.  mType is left as it is.                       *)
removePVPlayerExtensions ==
    /\ mExtnIfaceInfoList' = <<>>
    /\ opened' = opened \ ToSet(mExtnIfaceInfoList)

(* delete mExtensionHandler in ~PlayerDriver: ~PVPlayerExtensionHandler    *)
(* depopulates the registry, then ~PVPlayerExtensionRegistry clears mType. *)
(* Extensions the application never released are not deleted.            *)
DeleteExtensionHandler ==
    /\ removePVPlayerExtensions
    /\ mType' = <<>>

(* playerThread() after StartScheduler returns: the engine and the sinks  *)
(* are deleted, mSyncStatus = OK and mSyncSem->Signal() wake the caller of *)
(* PLAYER_QUIT, and the driver deletes itself; mSyncSem is left to that    *)
(* caller.                                                                 *)
(* Variant of ThreadExit that deletes the driver without signalling.        *)
ThreadExit_NoSignal ==
    /\ sched = "stopped"
    /\ sched' = "exited"
    /\ mSyncStatus' = "OK"
    /\ DeleteExtensionHandler
    /\ UNCHANGED <<mCommandQueue, ao, cmds, caller, driverVars, sourceVars, envVars,
                   dispatched, semDeleted, mPlayer, mSyncSem, exts, held, extLib,
                   a2dpVars>>

ThreadExit ==
    /\ sched = "stopped"
    /\ sched' = "exited"
    /\ mSyncStatus' = "OK"
    /\ mSyncSem' = mSyncSem + 1
    /\ DeleteExtensionHandler
    /\ UNCHANGED <<mCommandQueue, ao, cmds, caller, driverVars, sourceVars, envVars,
                   dispatched, semDeleted, mPlayer, exts, held, extLib, a2dpVars>>

(* The application's side of the player's lifetime: MediaPlayerService     *)
(* holds a reference to the PVPlayer for the length of each call, so       *)
(* ~PVPlayer (PLAYER_QUIT) runs only when no thread is inside an API call, *)
(* and nothing is called on the player after it.                          *)
QuitIssued == \E id \in DOMAIN cmds : cmds[id].code = "Quit"
CallAllowed(r) ==
    /\ caller[Creator].pc # "ctor"
    /\ ~QuitIssued
    /\ r.code = "Quit" => \A c \in Callers : caller[c].pc = "idle"

-----------------------------------------------------------------------------
Next ==
    \/ \E c \in Callers : \E r \in Requests[c] : CallAllowed(r) /\ enqueueCommand(c, r)
    \/ \E c \in Callers : SyncReturn(c)
    \/ Run
    \/ CommandCompleted
    \/ EndOfData
    \/ EngineError
    \/ ErrorHandlingComplete
    \/ DataReady
    \/ ThreadExit
    \/ PlayerThreadStart
    \/ PlayerDriverConstructed(Creator)

(* The OSCL scheduler runs a ready AO; the engine completes every request  *)
(* it accepted, finishes its error handling and reports data ready for a   *)
(* network source it was given; the player thread, once its scheduler    *)
(* stopped, runs to its exit; a thread whose semaphore was signalled       *)
(* returns from Wait.  Callers need no fairness to call.                   *)
Fairness ==
    /\ \A c \in Callers : WF_vars(SyncReturn(c))
    /\ WF_vars(ThreadExit)
    /\ WF_vars(PlayerThreadStart)
    /\ WF_vars(PlayerDriverConstructed(Creator))
    /\ WF_vars(Run)
    /\ WF_vars(CommandCompleted)
    /\ WF_vars(ErrorHandlingComplete)
    /\ WF_vars(DataReady)

Spec == Init /\ [][Next]_vars /\ Fairness

-----------------------------------------------------------------------------
(* Properties.                                                             *)

DispatchedIds == ToSet(dispatched)
DoneIds == {id \in DOMAIN cmds : cmds[id].notified > 0}
OutstandingIds == {engine[i].ctx : i \in 1..Len(engine)} \ {NoCmd}

(* Each command a caller enqueues can start a callback chain of at most    *)
(* four more (Init, SetAudioSink, Prepare, CheckLiveStreaming).            *)
CmdIds == 1..(5 * MaxCmds)

TypeOK ==
    /\ mCommandQueue \in Seq(CmdIds)
    /\ ao \in {"idle", "pending", "ready"}
    /\ Len(cmds) <= 5 * MaxCmds
    /\ \A id \in DOMAIN cmds :
          /\ cmds[id].code \in Codes /\ cmds[id].caller \in Callers
          /\ cmds[id].result \in Outcomes \cup {"none"}
          /\ cmds[id].engStatus \in AllStatuses \cup {"none"}
    /\ mSyncSem \in Nat /\ mSyncStatus \in Outcomes
    /\ \A c \in Callers : caller[c].pc \in {"idle", "wait", "ctor"}
                         /\ caller[c].got \in Returns
    /\ {mIsLooping, mDoLoop, mEndOfData, mSeekPending, mSeekComp,
        mIsLiveStreaming, mPrepareDone} \subseteq BOOLEAN
    /\ \A i \in 1..Len(engine) : engine[i].ctx \in {NoCmd} \cup CmdIds
    /\ pvState \in PvStates
    /\ {mFormat, srcKind} \subseteq SourceKinds \cup {"none"}
    /\ {mDownloadContextData, mDataReadyReceived, preparedSent, srcReady,
        srcPrepared, prepareByApp, semDeleted, mIsA2DPMode,
        mSwitchFromA2DPDirect} \subseteq BOOLEAN
    /\ sched \in {"starting", "running", "stopped", "exited", "failed"}
    /\ mPlayer \in BOOLEAN
    /\ exts \in Seq({"live", "freed"})
    /\ held \in [Callers -> 0..Len(exts)]
    /\ extLib \in Seq(DOMAIN ExtnLibs) /\ Len(extLib) = Len(exts)
    /\ mType \in Seq(PVPlayerExtnInfo)
    /\ mExtnIfaceInfoList \in Seq(DOMAIN ExtnLibs)
    /\ opened \subseteq DOMAIN ExtnLibs
    /\ \A id \in DOMAIN cmds :
          {cmds[id].handle, cmds[id].chandle, cmds[id].reply} \subseteq 0..Len(exts)

(* FIFO: whatever the interleaving of producers, Run() dequeues commands   *)
(* in the order enqueueCommand() pushed them (push_front / pop back).      *)
DequeueInEnqueueOrder ==
    \A i \in 1..Len(dispatched) : dispatched[i] = i

(* Every PlayerCommand's completion is signalled at most once: no handler  *)
(* path both completes a command and hands it on (to the engine or to a    *)
(* replacement command).                                                   *)
CompletedAtMostOnce ==
    \A id \in DOMAIN cmds : cmds[id].notified <= 1

(* Synchronous round trip: a caller that enqueued a command without        *)
(* callback returns from enqueueCommand only after that command completed, *)
(* and returns that command's status (mSyncSem / mSyncStatus are shared).  *)
SyncRoundTrip ==
    \A c \in Callers :
        LET id == caller[c].cmd IN
        (caller[c].pc = "idle" /\ id # NoCmd /\ IsSync(id)) =>
            /\ cmds[id].notified = 1
            /\ caller[c].got = cmds[id].result

(* No completion is lost: a dequeued command has either been completed or  *)
(* is still awaited from the engine (CommandCompleted with mDoLoop set).   *)
CompletionNotLost ==
    \A id \in DispatchedIds : cmds[id].notified > 0 \/ id \in OutstandingIds

(* Every enqueued command is eventually dequeued: the AO wake-up protocol  *)
(* (PendForExec, PendComplete, RunIfNotReady, Cancel) never strands a      *)
(* queued command.                                                         *)
QueueDrains ==
    \A i \in 1..MaxCmds : (Len(cmds) >= i) ~> (i \in DispatchedIds)
(* PLAYER_QUIT: the caller of ~PVPlayer deletes mSyncSem only after the    *)
(* player thread has signalled it for the last time and deleted the        *)
(* driver.  Were it woken earlier (a completion of the quit command, a     *)
(* stray signal), the exiting thread would signal a deleted semaphore.     *)
QuitReturnsAfterExit == semDeleted => sched = "exited"

(* ~PVPlayer returns: once PLAYER_QUIT is enqueued, the player thread      *)
(* eventually stops, exits and wakes the caller, which deletes mSyncSem.   *)
QuitCompletes == QuitIssued ~> semDeleted


(* An extension request that is invalid (an unknown opcode, or an API call *)
(* or a release with a NULL handle) completes with an error, never with    *)
(* NO_ERROR: spec section 4.4 makes it an invalid-operation error, and     *)
(* callPlayerExtension writes INVALID_OPERATION and calls commandFailed.   *)
InvalidExtension(id) ==
    \/ cmds[id].arg = "badop"
    \/ cmds[id].arg \in {"call", "release"} /\ cmds[id].handle = 0
InvalidExtensionRequestFails ==
    \A id \in DOMAIN cmds :
        (cmds[id].code = "Extension" /\ InvalidExtension(id) /\ cmds[id].notified > 0)
            => cmds[id].result = "UNKNOWN_ERROR"

(* Every extension command Run() hands to callPlayerExtension is           *)
(* eventually completed while the player thread runs: by the handler, by   *)
(* the extension's invoke, by the extension's commandCompleted when it     *)
(* claims the engine's completion, or by the default completion.           *)
ExtensionCommandsComplete ==
    \A i \in 1..MaxCmds :
        (i \in DispatchedIds /\ cmds[i].code = "Extension")
            ~> (i \in DoneIds \/ sched # "running")

(* An extension's commandCompleted is only ever reached through a live     *)
(* extension: an engine request still to complete whose command names a   *)
(* completion handle names one that was not released.                     *)
(* PVPlayerExtensionHandler::commandCompleted calls through the handle     *)
(* unchecked, and a release deletes the extension at once.                 *)
NoCompletionToReleased ==
    \A k \in 1..Len(engine) :
        LET id == engine[k].ctx IN
        (id # NoCmd /\ cmds[id].chandle # 0) => exts[cmds[id].chandle] = "live"

(* Refinement: the executor implements the abstract CommandQueue.  The    *)
(* abstract queue is mCommandQueue read from its back (push_front, pop     *)
(* back); a command is running once Run() dequeued it and done once its    *)
(* completion was signalled.  The mapping shows that enqueueCommand, the  *)
(* callbacks' enqueues, Run(), the handlers and CommandCompleted together  *)
(* keep the FIFO order and complete only what was taken, and that the AO   *)
(* wake-up keeps taking queued commands.                                   *)
CQ == INSTANCE CommandQueue WITH
        queue   <- Reverse(mCommandQueue),
        running <- DispatchedIds \ DoneIds,
        done    <- DoneIds,
        issued  <- Len(cmds)
ImplementsCommandQueue == CQ!Spec
=============================================================================
