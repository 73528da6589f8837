----------------------------- MODULE MCQueuePause -----------------------------
(* The instance of DownloadQueue, with the history of its pause, for TLC:   *)
(* two rows and no requests.                                                *)
EXTENDS QueuePause
=============================================================================
