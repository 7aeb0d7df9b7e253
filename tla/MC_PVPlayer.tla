----------------------------- MODULE MC_PVPlayer -----------------------------
(* Model-checking instances of PVPlayer: the API calls one application     *)
(* thread makes in a session.                                               *)
EXTENDS PVPlayer

(* No extension library is configured: PVPlayer sessions make no invoke(). *)
MC_NoExtnLibs == << >>

CONSTANTS c1

Call(name, arg) == [name |-> name, arg |-> arg]

(* A single streaming session: set an HTTP or RTSP source, prepare it      *)
(* (synchronously or through the prepareAsync chain), start and reset.     *)
MC_OneSession ==
    [c \in {c1} |-> {Call("setDataSource", "http"), Call("setDataSource", "rtsp"),
                     Call("prepareAsync", "none"), Call("prepare", "none"),
                     Call("start", "none"), Call("reset", "none")}]

(* Two sessions: a source, reset, then another source.                     *)
MC_TwoSessions(first, second) ==
    [c \in {c1} |-> {Call("setDataSource", first), Call("setDataSource", second),
                     Call("prepareAsync", "none"), Call("prepare", "none"),
                     Call("reset", "none")}]
MC_HttpThenHttp == MC_TwoSessions("http", "http")
MC_HttpThenLocal == MC_TwoSessions("http", "local")
MC_LocalThenLocal == MC_TwoSessions("local", "local")

(* One session, then the player is destroyed, at any point between calls. *)
MC_OneSessionThenDestroy ==
    [c \in {c1} |-> MC_OneSession[c] \cup {Call("destroy", "none")}]

MC_NoRequests == [c \in {c1} |-> {}]
=============================================================================
