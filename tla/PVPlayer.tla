------------------------------ MODULE PVPlayer ------------------------------
(***************************************************************************)
(* The PVPlayer API of src/android/playerdriver.cpp over the PlayerDriver  *)
(* executor.  An application thread calls setDataSource, prepare,          *)
(* prepareAsync, start, stop, pause, seekTo, getCurrentPosition,           *)
(* setLooping and reset; each call is the sequence of enqueueCommand calls *)
(* its body makes, with the early returns of the body.  The thread runs    *)
(* the sequence one command at a time: a synchronous command has returned  *)
(* (SyncReturn) before the next step looks at its status.  The creating  *)
(* thread first runs the constructor (PLAYER_SETUP, PLAYER_HELPER), and    *)
(* the player ends with ~PVPlayer (PLAYER_QUIT).                           *)
(***************************************************************************)
EXTENDS PlayerDriver

CONSTANTS
    ApiCalls,       \* ApiCalls[c]: the API calls thread c may make
    A2dpMayDrop     \* the A2DP device may be disconnected or stop being
                    \* capable before a start or pause

ApiNames == {"setDataSource", "prepare", "prepareAsync", "start", "stop",
             "pause", "seekTo", "getCurrentPosition", "setLooping", "reset",
             "destroy"}

ApiCall == [name : ApiNames, arg : Args]

ASSUME ApiCalls \in [Callers -> SUBSET ApiCall] /\ A2dpMayDrop \in BOOLEAN

VARIABLES
    mIsDataSourceSet,  \* the source was handed to the driver since reset
    mDataSourcePath,   \* the source kept by setDataSource(url), or "none"
    todo,              \* todo[c]: the rest of thread c's current API call
    mInit,             \* the constructor's status (initCheck), "none" before
    destroyer          \* the thread that entered ~PVPlayer, or "none"

clientVars == <<mIsDataSourceSet, mDataSourcePath, todo, mInit, destroyer>>
allVars == <<vars, clientVars>>

(* A step of an API call's body: enqueue a command ("cmd"), look at the    *)
(* status the last synchronous command returned ("check"), or set or       *)
(* clear mIsDataSourceSet.  onFail says what a failed check does: return   *)
(* from the call, or skip the remaining commands (reset).                  *)
Step(kind, req, onFail) == [kind |-> kind, req |-> req, onFail |-> onFail]
NoReq == [code |-> "GetStatus", arg |-> "none", cb |-> "none"]
Cmd(code, arg, cb) == Step("cmd", [code |-> code, arg |-> arg, cb |-> cb], "none")
Check(onFail) == Step("check", NoReq, onFail)
SetFlag(v) == Step(IF v THEN "set" ELSE "clear", NoReq, "none")
SetInit == Step("init", NoReq, "none")

(* PVPlayer::PVPlayer after new PlayerDriver: a synchronous PLAYER_SETUP,  *)
(* then, if it returned OK, a synchronous PLAYER_HELPER; mInit is the      *)
(* status of the last one (NO_INIT when the player thread has no engine).  *)
PVPlayerCtor ==
    << Cmd("Setup", "none", "none"), Check("skip"),
       Cmd("Helper", "none", "none"), SetInit >>


PrepareLast == Cmd("Prepare", "none", "check_for_live_streaming")

(* checkA2dpDirect and checkA2dpOn, called on the application thread: the *)
(* sink is A2DP direct and (for start, with the engine paused) the device  *)
(* is gone.  "gone" is the answer of isA2dpCapable or                     *)
(* getDeviceConnectionState, read on entry.                                *)
checkA2dpDirect(gone) == ~(mIsA2DPMode /\ pvState = "paused" /\ gone)
checkA2dpOn(gone) == ~(mIsA2DPMode /\ gone)

(* A2dpDirectToNormal: synchronous GetPosition (its failure ignored), then *)
(* Stop, RemoveAudioSink, SetAudioSink and Prepare, each returning its     *)
(* error, and a synchronous Seek whose status is returned.                 *)
A2dpDirectToNormal ==
    << Cmd("GetPosition", "none", "none"),
       Cmd("Stop", "none", "none"), Check("return"),
       Cmd("RemoveAudioSink", "none", "none"), Check("return"),
       Cmd("SetAudioSink", "none", "none"), Check("return"),
       Cmd("Prepare", "none", "none"), Check("return"),
       Cmd("Seek", "none", "none") >>

(* The enqueueCommand calls of each API call's body, given the state the  *)
(* body reads on entry.                                                    *)

(* prepare: with no data source set yet, the synchronous SetDataSource,   *)
(* Init and SetAudioSink, each returning its error, then the flag; always *)
(* a PLAYER_PREPARE with check_for_live_streaming last.                    *)
prepare ==
    IF mIsDataSourceSet THEN <<PrepareLast>>
    ELSE << Cmd("SetDataSource", mDataSourcePath, "none"), Check("return"),
            Cmd("Init", "none", "none"), Check("return"),
            Cmd("SetAudioSink", "none", "none"), Check("return"),
            SetFlag(TRUE), PrepareLast >>

(* prepareAsync: SetDataSource with run_init, which starts the chain, and  *)
(* the flag set at once; or only the PLAYER_PREPARE.                      *)
prepareAsync ==
    IF mIsDataSourceSet THEN <<PrepareLast>>
    ELSE << Cmd("SetDataSource", mDataSourcePath, "run_init"), SetFlag(TRUE) >>

(* reset: CancelAll and Reset whatever CancelAll returned; RemoveDataSource *)
(* only when Reset succeeded; the flag is cleared in any case.            *)
reset ==
    << Cmd("CancelAll", "none", "none"),
       Cmd("Reset", "none", "none"), Check("skip"),
       Cmd("RemoveDataSource", "none", "none"),
       SetFlag(FALSE) >>

(* start: back to normal output first when checkA2dpDirect fails.         *)
start(gone) ==
    IF checkA2dpDirect(gone) THEN <<Cmd("Start", "none", "none")>>
    ELSE A2dpDirectToNormal \o << Check("return"), Cmd("Start", "none", "none") >>

stop == <<Cmd("Stop", "none", "none")>>

(* pause: when checkA2dpOn fails, A2dpDirectToNormal instead of a pause.   *)
pause(gone) ==
    IF checkA2dpOn(gone) THEN <<Cmd("Pause", "none", "none")>>
    ELSE A2dpDirectToNormal

(* seekTo: asynchronous, with do_nothing; the position is abstracted.      *)
seekTo == <<Cmd("Seek", "none", "do_nothing")>>

getCurrentPosition == <<Cmd("GetPosition", "none", "none")>>

setLooping(loop) == <<Cmd("SetLoop", loop, "none")>>

Body(call, gone) ==
    CASE call.name = "prepare"            -> prepare
      [] call.name = "prepareAsync"       -> prepareAsync
      [] call.name = "reset"              -> reset
      [] call.name = "start"              -> start(gone)
      [] call.name = "stop"               -> stop
      [] call.name = "pause"              -> pause(gone)
      [] call.name = "seekTo"             -> seekTo
      [] call.name = "getCurrentPosition" -> getCurrentPosition
      [] call.name = "setLooping"         -> setLooping(call.arg)
      [] call.name = "destroy"            -> <<Cmd("Quit", "none", "none")>>

-----------------------------------------------------------------------------
Init_PVPlayer ==
    /\ Init
    /\ mIsDataSourceSet = FALSE
    /\ mDataSourcePath = "none"
    /\ todo = [c \in Callers |-> IF c = Creator THEN PVPlayerCtor ELSE <<>>]
    /\ mInit = "none"
    /\ destroyer = "none"

(* PVPlayer::setDataSource(url): only keeps the URL.                      *)
setDataSource(c, call) ==
    /\ caller[c].pc = "idle" /\ todo[c] = <<>>
    /\ call.arg \in SourceKinds
    /\ mDataSourcePath' = call.arg
    /\ UNCHANGED <<vars, mIsDataSourceSet, todo, mInit, destroyer>>

(* Thread c enters an API call that enqueues commands.  The MediaPlayer    *)
(* state machine above PVPlayer calls prepare and prepareAsync only after  *)
(* setDataSource succeeded, so mDataSourcePath is never NULL there.        *)
BeginCall(c, call) ==
    /\ caller[c].pc = "idle" /\ todo[c] = <<>>
    /\ call.name \in {"prepare", "prepareAsync"} => mDataSourcePath # "none"
    /\ \E gone \in IF A2dpMayDrop THEN BOOLEAN ELSE {FALSE} :
          todo' = [todo EXCEPT ![c] = Body(call, gone)]
    /\ UNCHANGED <<vars, mIsDataSourceSet, mDataSourcePath, mInit, destroyer>>

(* MediaPlayerService destroys the player (~PVPlayer) when no thread is in *)
(* a call; the destructor enqueues PLAYER_QUIT when the driver exists.     *)
Destroy(c) ==
    /\ \A t \in Callers : caller[t].pc = "idle" /\ todo[t] = <<>>
    /\ destroyer' = c
    /\ todo' = [todo EXCEPT ![c] = Body([name |-> "destroy", arg |-> "none"], FALSE)]
    /\ UNCHANGED <<vars, mIsDataSourceSet, mDataSourcePath, mInit>>

(* Thread c takes the next step of its API call.                           *)
RunStep(c) ==
    /\ caller[c].pc = "idle" /\ todo[c] # <<>>
    /\ LET st == Head(todo[c])
           rest == Tail(todo[c])
       IN
       CASE st.kind = "cmd" ->
               /\ enqueueCommand(c, st.req)
               /\ todo' = [todo EXCEPT ![c] = rest]
               /\ UNCHANGED <<mIsDataSourceSet, mDataSourcePath, mInit, destroyer>>
         [] st.kind = "check" ->
               /\ todo' = [todo EXCEPT ![c] =
                    CASE caller[c].got = "OK" -> rest
                      [] st.onFail = "return" -> <<>>
                      [] OTHER -> SelectSeq(rest, LAMBDA s : s.kind # "cmd")]
               /\ UNCHANGED <<vars, mIsDataSourceSet, mDataSourcePath, mInit, destroyer>>
         [] st.kind = "init" ->
               /\ mInit' = caller[c].got
               /\ todo' = [todo EXCEPT ![c] = rest]
               /\ UNCHANGED <<vars, mIsDataSourceSet, mDataSourcePath, destroyer>>
         [] OTHER ->
               /\ mIsDataSourceSet' = (st.kind = "set")
               /\ todo' = [todo EXCEPT ![c] = rest]
               /\ UNCHANGED <<vars, mDataSourcePath, mInit, destroyer>>

(* The executor, the engine, the callbacks and the player thread's start  *)
(* and exit, as in PlayerDriver.                                           *)
DriverStep ==
    /\ \/ \E c \in Callers : SyncReturn(c)
       \/ Run
       \/ CommandCompleted
       \/ EndOfData
       \/ EngineError
       \/ ErrorHandlingComplete
       \/ DataReady
       \/ ThreadExit
       \/ PlayerThreadStart
       \/ PlayerDriverConstructed(Creator)
    /\ UNCHANGED clientVars

(* MediaPlayerService uses a player only when initCheck() returned OK,    *)
(* and destroys it whatever initCheck() returned; nothing is called after  *)
(* the destructor.                                                         *)
Next_PVPlayer ==
    \/ /\ destroyer = "none" /\ mInit # "none"
       /\ \E c \in Callers : \E call \in ApiCalls[c] :
             CASE call.name = "destroy" -> Destroy(c)
               [] mInit # "OK" -> FALSE
               [] call.name = "setDataSource" -> setDataSource(c, call)
               [] OTHER -> BeginCall(c, call)
    \/ \E c \in Callers : RunStep(c)
    \/ DriverStep

(* Besides the driver's fairness, a thread inside a call goes on with its *)
(* next step, and a thread whose semaphore was signalled returns.          *)
Fairness_PVPlayer ==
    /\ \A c \in Callers : WF_allVars(RunStep(c))
    /\ \A c \in Callers : WF_allVars(SyncReturn(c) /\ UNCHANGED clientVars)
    /\ WF_allVars(ThreadExit /\ UNCHANGED clientVars)
    /\ WF_allVars(PlayerThreadStart /\ UNCHANGED clientVars)
    /\ WF_allVars(PlayerDriverConstructed(Creator) /\ UNCHANGED clientVars)
    /\ WF_allVars(Run /\ UNCHANGED clientVars)
    /\ WF_allVars(CommandCompleted /\ UNCHANGED clientVars)
    /\ WF_allVars(ErrorHandlingComplete /\ UNCHANGED clientVars)
    /\ WF_allVars(DataReady /\ UNCHANGED clientVars)

Spec_PVPlayer == Init_PVPlayer /\ [][Next_PVPlayer]_allVars /\ Fairness_PVPlayer

-----------------------------------------------------------------------------
(* Properties.                                                             *)

TypeOK_PVPlayer ==
    /\ TypeOK
    /\ mIsDataSourceSet \in BOOLEAN
    /\ mDataSourcePath \in SourceKinds \cup {"none"}
    /\ mInit \in Returns \cup {"none"}
    /\ destroyer \in Callers \cup {"none"}

(* MEDIA_PREPARED for the engine's current data source is sent only after *)
(* the engine completed Prepare for that source and, for an HTTP source,  *)
(* after it reported data ready (CommandCompleted's PLAYER_PREPARE case   *)
(* and HandleInformationalEvent's PVMFInfoDataReady case).                 *)
PreparedOnlyWhenReady ==
    preparedSent => (srcPrepared /\ (srcKind = "http" => srcReady))

(* Once the engine has prepared the current source for a prepare or        *)
(* prepareAsync of the application (a PLAYER_PREPARE with a PVPlayer       *)
(* callback, not the internal one of A2dpDirectToNormal), MEDIA_PREPARED  *)
(* is eventually sent for it, unless the source is unprepared or the      *)
(* player destroyed (PLAYER_QUIT) first.                                   *)
PreparedEventuallySent ==
    (srcPrepared /\ prepareByApp /\ ~preparedSent)
        ~> (preparedSent \/ ~srcPrepared \/ QuitIssued)
(* ~PVPlayer returns: once a thread has entered the destructor, it gets   *)
(* back from enqueueCommand(PLAYER_QUIT), whether the player thread        *)
(* started (the quit handshake: handleQuit, thread exit, the last signal   *)
(* of mSyncSem) or failed to create the engine (NO_INIT), and whatever the *)
(* session left queued or in flight in the engine.                         *)
DestructorReturns ==
    \A c \in Callers :
        destroyer = c ~> (todo[c] = <<>> /\ caller[c].pc = "idle")
====
