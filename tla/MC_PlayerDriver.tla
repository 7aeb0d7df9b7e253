--------------------------- MODULE MC_PlayerDriver ---------------------------
(* Model-checking instances of PlayerDriver.  Requests follow the calling  *)
(* conventions of PVPlayer in playerdriver.cpp: start, stop, pause,        *)
(* getCurrentPosition, setLooping and the reset steps are synchronous (no  *)
(* callback); seekTo passes do_nothing; the Prepare of prepare() and       *)
(* prepareAsync() passes check_for_live_streaming.                         *)
EXTENDS PlayerDriver

CONSTANTS c1, c2

(* Two extension libraries: the first registers UID A with a create       *)
(* function; the second registers UID B without one, then A again.         *)
MC_ExtnLibs ==
    << << [uid |-> "queryA", create |-> TRUE] >>,
       << [uid |-> "queryB", create |-> FALSE], [uid |-> "queryA", create |-> TRUE] >> >>

Req(code, arg, cb) == [code |-> code, arg |-> arg, cb |-> cb]

start      == Req("Start", "none", "none")
stop       == Req("Stop", "none", "none")
pause      == Req("Pause", "none", "none")
seekTo     == Req("Seek", "none", "do_nothing")
getPos     == Req("GetPosition", "none", "none")
loopOn     == Req("SetLoop", "on", "none")
prepare    == Req("Prepare", "none", "check_for_live_streaming")
cancelAll  == Req("CancelAll", "none", "none")
reset      == Req("Reset", "none", "none")
getDur     == Req("GetDuration", "none", "none")
isPlaying  == Req("GetStatus", "none", "none")
quit       == Req("Quit", "none", "none")

(* PVPlayer::invoke: a synchronous PlayerExtensionCommand.                 *)
invoke(op) == Req("Extension", op, "none")

(* One application thread using the player API.                            *)
MC_OneCaller ==
    [c \in {c1} |-> {start, pause, seekTo, stop, getPos, cancelAll, reset}]

(* One thread that seeks (asynchronously) and then makes invalid extension *)
(* requests: an unknown opcode, and an API call before holding a handle.  *)
MC_SeekThenInvoke == [c \in {c1} |-> {seekTo, invoke("badop"), invoke("call")}]

(* A thread making synchronous calls beside a thread that queries an     *)
(* extension, calls it and releases it.                                    *)
MC_ExtensionBesideSync ==
    (c1 :> {start}) @@ (c2 :> {invoke("queryA"), invoke("call"), invoke("release")})

(* One thread that turns looping on, starts and pauses.                    *)
MC_LoopPause == [c \in {c1} |-> {loopOn, start, pause}]

(* A synchronous thread, which also queries extension A, beside a thread  *)
(* that re-prepares and seeks with callbacks (check_for_live_streaming,    *)
(* do_nothing) on an RTSP stream.                                          *)
MC_SyncBesideAsync ==
    (c1 :> {start, pause, invoke("queryA"), getDur, loopOn}) @@ (c2 :> {prepare, seekTo})

(* Two threads using the player, one of which then destroys it            *)
(* (~PVPlayer enqueues PLAYER_QUIT), while the other uses an extension:    *)
(* it queries a registered UID or one without create function, calls the  *)
(* handle it holds and releases it.                                        *)
MC_UseThenQuit ==
    (c1 :> {start, pause, quit})
    @@ (c2 :> {invoke("queryA"), invoke("queryB"), invoke("call"), invoke("release")})
=============================================================================
