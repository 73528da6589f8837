--------------------------- MODULE DownloadService ---------------------------
(***************************************************************************)
(* What the download queue promises to everything built on it, the VPN     *)
(* handlers and the file keepers: downloads are serial.  One is current at *)
(* a time, it begins on a waiting video, only its beginning marks a video  *)
(* active, and a running service without a current video has none marked:  *)
(* every way out of a download clears the mark, and a service that was     *)
(* interrupted clears it before it runs again.                             *)
(***************************************************************************)
CONSTANTS Videos, NoVideo

VARIABLES
    phase,     \* video -> "none", "waiting", "active", "idle" or "gone"
    current,   \* the video being downloaded, or NoVideo
    running    \* whether the service has started and not been interrupted

Phases == {"none", "waiting", "active", "idle", "gone"}

NoneActive(p) == \A v \in Videos : p[v] # "active"

(* A video that is gone is gone, and one that is known stays known.        *)
Lasting ==
    /\ phase' \in [Videos -> Phases]
    /\ \A v \in Videos : /\ phase[v] = "gone" => phase'[v] = "gone"
                         /\ phase'[v] = "none" => phase[v] = "none"

(* A database as an earlier run left it, or an empty one.                  *)
Init ==
    /\ phase \in [Videos -> Phases \ {"active", "gone"}]
    /\ current = NoVideo
    /\ running = FALSE

Begin(v) ==
    /\ running /\ current = NoVideo
    /\ phase[v] = "waiting" /\ NoneActive(phase)
    /\ current' = v
    /\ phase' = [phase EXCEPT ![v] = "active"]
    /\ UNCHANGED running

(* It ends with a result for its own video, or with none when the video    *)
(* was taken from it meanwhile.                                            *)
End(v) ==
    /\ running /\ current = v
    /\ current' = NoVideo
    /\ Lasting /\ NoneActive(phase')
    /\ \A w \in Videos : w # v => phase'[w] = phase[w]
    /\ UNCHANGED running

(* The process dies: a current video stays marked.                         *)
Interrupt ==
    /\ running
    /\ running' = FALSE /\ current' = NoVideo
    /\ UNCHANGED phase

(* It starts, and whatever was still marked is no longer.                  *)
Resume ==
    /\ ~running
    /\ running' = TRUE
    /\ Lasting /\ NoneActive(phase')
    /\ UNCHANGED current

(* Users, scans and retention change what is known and what waits.         *)
Manage ==
    /\ Lasting
    /\ \A v \in Videos : phase'[v] = "active" => phase[v] = "active"
    /\ UNCHANGED <<current, running>>

Next ==
    \/ \E v \in Videos : Begin(v) \/ End(v)
    \/ Interrupt \/ Resume \/ Manage

Spec == Init /\ [][Next]_<<phase, current, running>>
=============================================================================
