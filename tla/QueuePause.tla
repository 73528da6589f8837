------------------------------ MODULE QueuePause ------------------------------
(***************************************************************************)
(* The pause of the queue (src/app/queue.py, set_queue_paused) against a   *)
(* scheduler that reads it once, at the pick, and claims its row after a   *)
(* metadata extract of minutes (src/app/scheduler.py, run_one_download):   *)
(* DownloadQueue with one history variable.                                *)
(***************************************************************************)
EXTENDS DownloadQueue

VARIABLE
    settled    \* history: the queue has been paused since some moment at which
               \* no download was under way

PauseInit == Init /\ settled = FALSE

PauseNext ==
    /\ Next
    /\ settled' = (queue_paused' /\ (settled \/ pc' \notin WithJob))

PauseSpec == PauseInit /\ [][PauseNext]_<<vars, settled>>

FairPauseSpec == PauseSpec /\ Fairness

(* A paused queue starts nothing: the download that was being prepared     *)
(* when PAUSE was pressed may still begin, and none after it until RESUME, *)
(* whatever retries, new videos, exceptions and restarts come in between.  *)
NoStartOncePaused ==
    [][settled => \A v \in Videos : ~StartsDownload(v)]_<<vars, settled>>
=============================================================================
