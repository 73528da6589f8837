----------------------- MODULE DownloadQueueRefinement -----------------------
(* DownloadQueue seen as a DownloadService.                                *)
EXTENDS DownloadQueue

PhaseOf(s) ==
    CASE s = "ABSENT"                           -> "none"
      [] s \in RunnableStatuses                 -> "waiting"
      [] s = "DOWNLOADING"                      -> "active"
      [] s = "DELETED"                          -> "gone"
      [] OTHER                                  -> "idle"

Phase == [v \in Videos |-> PhaseOf(status[v])]

Current == IF pc \in Holding THEN job ELSE NoVideo

(* From the end of the recovery at startup to the end of the process.      *)
Running == pc \notin {"down", "boot", "recover"}

Service == INSTANCE DownloadService
           WITH phase <- Phase, current <- Current, running <- Running

(* The queue implements the serial service: every claim finds no row       *)
(* DOWNLOADING and no download under way, every way out of a download,     *)
(* a crash apart, leaves none, the recovery leaves none, and no handler,   *)
(* scan or retention makes one.                                            *)
ServiceSpec == Service!Spec
=============================================================================
