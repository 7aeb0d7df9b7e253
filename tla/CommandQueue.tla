---------------------------- MODULE CommandQueue ----------------------------
(***************************************************************************)
(* What the PlayerDriver's command executor promises its callers, apart    *)
(* from any engine: commands are numbered in the order they are handed     *)
(* in, taken in that order, and each one taken is completed at most once   *)
(* and only after it was taken.  Every queued command is eventually taken. *)
(*                                                                         *)
(* It deliberately allows several taken commands to be incomplete at once  *)
(* (the driver hands a command to the engine and takes the next one        *)
(* without waiting), and a command that is never completed (PLAYER_QUIT).  *)
(***************************************************************************)
EXTENDS Naturals, Sequences, FiniteSets

VARIABLES
    queue,     \* numbers of the commands handed in and not yet taken, oldest first
    running,   \* commands taken and not yet completed
    done,      \* commands completed
    issued     \* how many commands have been handed in

cqVars == <<queue, running, done, issued>>

Init ==
    /\ queue = <<>>
    /\ running = {}
    /\ done = {}
    /\ issued = 0

(* The command taken in a turn that takes one.                             *)
Taken(take) == IF take THEN {Head(queue)} ELSE {}

(* One step of the executor.  It may take the oldest queued command        *)
(* (take), complete a set F of the commands it has taken (the one it takes *)
(* now included), and hand in n new commands (a caller's enqueue, or a     *)
(* completion callback that enqueues the next step).                       *)
Turn(take, F, n) ==
    /\ take => queue # <<>>
    /\ F \subseteq running \cup Taken(take)
    /\ queue' = (IF take THEN Tail(queue) ELSE queue)
                  \o [i \in 1..n |-> issued + i]
    /\ running' = (running \cup Taken(take)) \ F
    /\ done' = done \cup F
    /\ issued' = issued + n

(* A turn that takes the oldest queued command, and one that does not.    *)
TakeStep == /\ queue # <<>>
            /\ \E F \in SUBSET (running \cup Taken(TRUE)), n \in 0..1 : Turn(TRUE, F, n)
KeepStep == \E F \in SUBSET running, n \in 0..1 : Turn(FALSE, F, n)

Next == TakeStep \/ KeepStep

(* The executor keeps taking commands while any is queued.                 *)
Spec == Init /\ [][Next]_cqVars /\ WF_cqVars(TakeStep)
=============================================================================
