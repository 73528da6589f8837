---------------------- MODULE DownloadQueueSafetyProofs ----------------------
(***************************************************************************)
(* The safety properties of DownloadQueue, for every value of its          *)
(* constants: one active download at a time, every completed row with its  *)
(* file, no download of a video that was taken from the queue or while the *)
(* queue is paused, no expired video back at work by itself, and no        *)
(* runnable row without a due time.                                        *)
(***************************************************************************)
EXTENDS DownloadQueueProofs, QueuePause

-----------------------------------------------------------------------------
(* What no step but the claim can do.                                      *)

(* No row becomes DOWNLOADING, no deleted row comes back, and no row       *)
(* becomes one that was never inserted.                                    *)
NothingStarts ==
    \A v \in Videos : /\ status'[v] = "DOWNLOADING" => status[v] = "DOWNLOADING"
                      /\ status[v] = "DELETED" => status'[v] = "DELETED"
                      /\ status'[v] = "ABSENT" => status[v] = "ABSENT"

LEMMA SameStatus == UNCHANGED status => NothingStarts
BY DEF NothingStarts

(* No commit assigns DOWNLOADING or writes to a deleted row.               *)
LEMMA CommitStartsNothing ==
    ASSUME StoredTypes, NEW writes, IsSession(writes), ~Stale(writes), Flush(writes)
    PROVE  NothingStarts
BY DEF StoredTypes, IsSession, PartialFunction, AssignedStatuses, Stale, Flush,
       Overwritten, NothingStarts

(* Sessions aside, rows are only inserted or deleted.                      *)
LEMMA OnlyClaimStarts ==
    ASSUME TypeOK, Next
    PROVE  Claim \/ NothingStarts
<1>1. ASSUME LoopStep PROVE Claim \/ NothingStarts
  <2>1. ASSUME NEW from, NEW to, LoopCommit(from, to) PROVE NothingStarts
    BY <2>1, CommitStartsNothing, SameStatus DEF LoopCommit, TypeOK, LoopTypes, rows
  <2>2. CASE RecoverCommit
    BY <2>2, CommitStartsNothing, SameStatus DEF RecoverCommit, TypeOK, LoopTypes, rows
  <2>3. CASE UNCHANGED status
    BY <2>3, SameStatus
  <2> QED
    BY <1>1, <2>1, <2>2, <2>3
    DEF LoopStep, rows, RecoverRead, ReleaseRead, ReleaseCommit, PickNothing,
        StorageFails, PickJob, Recheck, FindNoFile, AdoptRead, AdoptCommit,
        ConfirmClaim, TransferSucceeds, TransferFailsTemporarily, TransferIsRefused,
        TransferFails, TransferOrphaned, CompleteCommit, FailCommit, StartGap,
        RetentionRead, RetentionCommit
<1>2. ASSUME NEW h \in Handlers, HandlerStep(h) PROVE NothingStarts
  <2>1. CASE CommitRequest(h)
    BY <2>1, CommitStartsNothing, SameStatus
    DEF CommitRequest, TypeOK, RequestTypes, rows
  <2>2. ASSUME NEW v \in Videos, AddOneOff(h, v) PROVE NothingStarts
    BY <2>2 DEF AddOneOff, NothingStarts, TypeOK, StoredTypes
  <2>3. CASE UNCHANGED status
    BY <2>3, SameStatus
  <2> QED
    BY <1>2, <2>1, <2>2, <2>3
    DEF HandlerStep, rows, RetryNow, PauseItem, ResumeItem, DeleteFromQueue,
        IgnoreVideo, MoveItem
<1>3. CASE DeleteSubscription
  BY <1>3 DEF DeleteSubscription, Overwritten, Assign, NothingStarts, TypeOK, StoredTypes
<1>4. CASE ScanInserts
  BY <1>4
  DEF ScanInserts, Rows, Overwritten, Assign, IgnoredByScan, NothingStarts, TypeOK,
      StoredTypes
<1>5. CASE SetQueuePaused \/ LoopError \/ Crash \/ Restart \/ Tick
  BY <1>5, SameStatus DEF SetQueuePaused, LoopError, Crash, Restart, Tick, rows
<1> QED
  BY <1>1, <1>2, <1>3, <1>4, <1>5 DEF Next

(* Handlers, scans and time leave the scheduler where it is.               *)
LEMMA OthersLeaveLoop ==
    ASSUME Next
    PROVE  LoopStep \/ LoopError \/ Crash \/ Restart \/ UNCHANGED loop
BY DEF Next, HandlerStep, CommitRequest, RetryNow, AddOneOff, PauseItem, ResumeItem,
       DeleteFromQueue, IgnoreVideo, MoveItem, SetQueuePaused, DeleteSubscription,
       ScanInserts, Tick

(* A download starts only from a runnable row.                             *)
THEOREM DownloadsStartFromRunnable == Spec => DownloadsStartRunnable
<1>1. TypeOK /\ [Next]_vars =>
        [\A v \in Videos : StartsDownload(v) => status[v] \in RunnableStatuses]_vars
  <2> SUFFICES ASSUME TypeOK, Next, NEW v \in Videos, StartsDownload(v)
               PROVE  status[v] \in RunnableStatuses
    OBVIOUS
  <2>1. Claim
    BY OnlyClaimStarts DEF NothingStarts, StartsDownload
  <2> QED
    BY <2>1 DEF Claim, StartsDownload, TypeOK, StoredTypes
<1> QED
  BY <1>1, TypeCorrect, PTL DEF Spec, DownloadsStartRunnable

-----------------------------------------------------------------------------
(* One active download at a time.                                          *)

(* A scheduler that neither moves nor claims keeps the invariant.          *)
LEMMA SerialInvQuiet ==
    ASSUME TypeOK, SerialInv, NothingStarts, UNCHANGED loop
    PROVE  SerialInv'
BY DEF SerialInv, OneActiveDownload, DownloadingIsHeld, RecoveryCoversAll,
       OutcomeCoversJob, NothingStarts, Rows, loop, Holding, TypeOK, LoopTypes, WithJob

(* A step that leaves the rows alone and comes to a point that holds no    *)
(* session of a download: a crash, or any step of a scheduler that holds   *)
(* no row.                                                                 *)
LEMMA SerialInvUnheld ==
    ASSUME TypeOK, SerialInv, UNCHANGED status,
           pc' \notin {"recover", "complete", "fail"},
           \/ pc' = "down"
           \/ pc' = "boot" /\ pc = "down"
           \/ pc' \in Holding /\ pc \in Holding /\ job' = job
           \/ Rows({"DOWNLOADING"}) = {}
    PROVE  SerialInv'
BY DEF SerialInv, OneActiveDownload, DownloadingIsHeld, RecoveryCoversAll,
       OutcomeCoversJob, Rows, Holding

(* Outside a start and a download, nothing is DOWNLOADING.                 *)
LEMMA NothingHeld ==
    ASSUME SerialInv, pc \notin {"down", "boot", "recover"}, pc \notin Holding
    PROVE  Rows({"DOWNLOADING"}) = {}
BY DEF SerialInv, DownloadingIsHeld

(* A commit of the scheduler leaves nothing DOWNLOADING: its session covers *)
(* the job, or the job's row is gone.                                      *)
LEMMA CommitLeavesNone ==
    ASSUME TypeOK, SerialInv, NEW from, NEW to, LoopCommit(from, to),
           from \in {"release", "adopt", "retain", "complete", "fail"}
    PROVE  NothingStarts /\ Rows({"DOWNLOADING"})' = {}
<1>1. NothingStarts
  BY CommitStartsNothing, SameStatus DEF LoopCommit, TypeOK, LoopTypes, rows
<1>2. Rows({"DOWNLOADING"})' = {}
  <2>1. CASE from \in {"release", "adopt", "retain"}
    <3>1. Rows({"DOWNLOADING"}) = {}
      BY <2>1, NothingHeld DEF LoopCommit, Holding
    <3> QED
      BY <1>1, <3>1 DEF NothingStarts, Rows
  <2>2. CASE from \in {"complete", "fail"}
    <3>1. \A v \in Rows({"DOWNLOADING"}) : v = job
      BY <2>2 DEF LoopCommit, SerialInv, DownloadingIsHeld, Holding
    <3>2. CASE ~Stale(session) /\ Flush(session)
      <4>1. status[job] = "DOWNLOADING" => status'[job] # "DOWNLOADING"
        BY <2>2, <3>2
        DEF LoopCommit, SerialInv, OutcomeCoversJob, Flush, Overwritten, TypeOK,
            LoopTypes, WithJob, IsSession, PartialFunction, AssignedStatuses
      <4> QED
        BY <1>1, <3>1, <4>1 DEF NothingStarts, Rows
    <3>3. CASE Stale(session) /\ UNCHANGED rows
      <4>1. status[job] = "DELETED"
        BY <2>2, <3>3 DEF LoopCommit, SerialInv, OutcomeCoversJob, Stale
      <4> QED
        BY <3>1, <3>3, <4>1 DEF Rows, rows
    <3> QED
      BY <3>2, <3>3 DEF LoopCommit, rows
  <2> QED
    BY <2>1, <2>2
<1> QED
  BY <1>1, <1>2

LEMMA SerialInvCommit ==
    ASSUME TypeOK, SerialInv, NEW from, NEW to, LoopCommit(from, to),
           to \in {"pick", "gap", "tidy", "sleep"},
           from \in {"release", "adopt", "retain", "complete", "fail"}
    PROVE  SerialInv'
<1>1. Rows({"DOWNLOADING"})' = {} /\ pc' \in {"pick", "gap", "tidy", "sleep"}
  BY CommitLeavesNone DEF LoopCommit
<1> QED
  BY <1>1
  DEF SerialInv, OneActiveDownload, DownloadingIsHeld, RecoveryCoversAll, OutcomeCoversJob

(* The claim, the only step that starts a download.                        *)
LEMMA SerialInvClaim ==
    ASSUME TypeOK, SerialInv, Claim
    PROVE  SerialInv'
<1>1. Rows({"DOWNLOADING"}) = {}
  BY NothingHeld DEF Claim, Holding
<1>2. Rows({"DOWNLOADING"})' \subseteq {job}
  BY <1>1 DEF Claim, Rows, TypeOK, StoredTypes
<1>3. CASE pc' = "claimed" /\ job' = job
  BY <1>2, <1>3
  DEF SerialInv, OneActiveDownload, DownloadingIsHeld, RecoveryCoversAll,
      OutcomeCoversJob, Holding
<1>4. CASE pc' = "tidy" /\ UNCHANGED status
  BY <1>1, <1>4, SerialInvUnheld DEF Holding
<1> QED
  BY <1>3, <1>4 DEF Claim, GiveUpJob

(* The recovery's read finds every row that is DOWNLOADING, its commit     *)
(* leaves none.                                                            *)
LEMMA SerialInvRecover ==
    ASSUME TypeOK, SerialInv, RecoverRead \/ RecoverCommit
    PROVE  SerialInv'
<1>1. CASE RecoverRead
  <2>1. UNCHANGED status
    BY <1>1 DEF RecoverRead, rows
  <2>2. CASE Rows({"DOWNLOADING"}) = {} /\ pc' = "sleep"
    BY <2>1, <2>2, SerialInvUnheld
  <2>3. CASE /\ pc' = "recover"
             /\ session'.status = Assign(Rows({"DOWNLOADING"}), "FAILED_TEMPORARY")
    BY <2>1, <2>3
    DEF SerialInv, OneActiveDownload, DownloadingIsHeld, RecoveryCoversAll,
        OutcomeCoversJob, Rows, Assign
  <2> QED
    BY <1>1, <2>2, <2>3 DEF RecoverRead, NoWrites
<1>2. CASE RecoverCommit
  <2>1. NothingStarts
    BY <1>2, CommitStartsNothing, SameStatus DEF RecoverCommit, TypeOK, LoopTypes, rows
  <2>2. CASE ~Stale(session) /\ Flush(session) /\ pc' = "sleep"
    <3>1. \A v \in Rows({"DOWNLOADING"}) : status'[v] # "DOWNLOADING"
      BY <1>2, <2>2
      DEF RecoverCommit, SerialInv, RecoveryCoversAll, Flush, Overwritten, Rows, TypeOK,
          LoopTypes, IsSession, PartialFunction, AssignedStatuses
    <3>2. Rows({"DOWNLOADING"})' = {}
      BY <2>1, <3>1 DEF NothingStarts, Rows
    <3> QED
      BY <2>2, <3>2
      DEF SerialInv, OneActiveDownload, DownloadingIsHeld, RecoveryCoversAll,
          OutcomeCoversJob
  <2>3. CASE pc' = "boot" /\ UNCHANGED rows
    BY <2>3
    DEF rows, SerialInv, OneActiveDownload, DownloadingIsHeld, RecoveryCoversAll,
        OutcomeCoversJob, Rows
  <2> QED
    BY <1>2, <2>2, <2>3 DEF RecoverCommit
<1> QED
  BY <1>1, <1>2

(* The outcome is decided for the job, and covers it while it is           *)
(* DOWNLOADING.                                                            *)
LEMMA SerialInvOutcome ==
    ASSUME TypeOK, SerialInv,
           TransferSucceeds \/ (\E wait, pause \in Nat : TransferFails(wait, pause))
    PROVE  SerialInv'
<1>1. UNCHANGED <<status, job>> /\ pc = "transfer" /\ pc' \in {"complete", "fail"}
  BY DEF TransferSucceeds, TransferFails, rows
<1>2. DownloadingIsHeld' /\ OneActiveDownload' /\ RecoveryCoversAll'
  BY <1>1
  DEF SerialInv, OneActiveDownload, DownloadingIsHeld, RecoveryCoversAll, Rows, Holding
<1>3. job \in Videos
  BY <1>1 DEF TypeOK, LoopTypes, WithJob
<1>4. /\ status[job] = "DOWNLOADING" => job \in DOMAIN session'.status
      /\ DOMAIN session'.status \union DOMAIN session'.next_attempt_at
            \union DOMAIN session'.queue_rank \subseteq {job}
  <2>1. CASE TransferSucceeds
    BY <1>3, <2>1 DEF TransferSucceeds, NoWrites, NoWrite, Change, Assign
  <2>2. ASSUME NEW wait \in Nat, NEW pause \in Nat, TransferFails(wait, pause)
        PROVE  <1>4!1 /\ <1>4!2
    BY <1>3, <2>2 DEF TransferFails, NoWrites, NoWrite, Change, Assign
  <2> QED
    BY <2>1, <2>2
<1> QED
  BY <1>1, <1>2, <1>4 DEF SerialInv, OutcomeCoversJob

(* A step of the scheduler that writes no row and is not the decision on   *)
(* an outcome.                                                             *)
LEMMA SerialInvLoopReads ==
    ASSUME TypeOK, SerialInv,
           \/ ReleaseRead \/ PickNothing \/ StorageFails \/ PickJob \/ Recheck
           \/ FindNoFile \/ AdoptRead \/ ConfirmClaim \/ TransferOrphaned
           \/ StartGap \/ RetentionRead
    PROVE  SerialInv'
<1>1. CASE \/ ReleaseRead \/ PickNothing \/ StorageFails \/ PickJob \/ Recheck
           \/ FindNoFile \/ AdoptRead \/ StartGap \/ RetentionRead
  <2>1. /\ UNCHANGED status
        /\ pc \in {"sleep", "pick", "inspect", "prepare", "gap", "tidy"}
        /\ pc' \notin {"recover", "complete", "fail"}
    BY <1>1
    DEF ReleaseRead, PickNothing, StorageFails, PickJob, Recheck, FindNoFile,
        AdoptRead, StartGap, RetentionRead, GiveUpJob, rows
  <2> QED
    BY <2>1, NothingHeld, SerialInvUnheld DEF Holding
<1>2. CASE ConfirmClaim \/ TransferOrphaned
  <2>1. /\ UNCHANGED status
        /\ pc \in {"claimed", "transfer"} /\ pc' \in {"transfer", "tidy"}
        /\ pc' = "transfer" => job' = job
        /\ pc' = "tidy" => status[job] # "DOWNLOADING"
    BY <1>2 DEF ConfirmClaim, TransferOrphaned, GiveUpJob, Exists, rows
  <2>2. \A v \in Rows({"DOWNLOADING"}) : v = job
    BY <2>1 DEF SerialInv, DownloadingIsHeld
  <2>3. pc' = "tidy" => Rows({"DOWNLOADING"}) = {}
    BY <2>1, <2>2 DEF Rows
  <2> QED
    BY <2>1, <2>3, SerialInvUnheld DEF Holding
<1> QED
  BY <1>1, <1>2

(* The inductive step.  An exception that ends an iteration (LoopError) is *)
(* the one step that breaks the invariant.                                 *)
LEMMA SerialInvStep ==
    ASSUME TypeOK, SerialInv, [Next]_vars, loop_errors' = 0
    PROVE  SerialInv'
<1>1. CASE LoopStep
  <2>1. CASE ReleaseCommit \/ AdoptCommit \/ CompleteCommit \/ FailCommit
             \/ RetentionCommit
    BY <2>1, SerialInvCommit
    DEF ReleaseCommit, AdoptCommit, CompleteCommit, FailCommit, RetentionCommit
  <2>2. CASE TransferSucceeds \/ TransferFailsTemporarily \/ TransferIsRefused
    BY <2>2, SerialInvOutcome, WaitsAssumption
    DEF TransferFailsTemporarily, TransferIsRefused
  <2> QED
    BY <1>1, <2>1, <2>2, SerialInvClaim, SerialInvRecover, SerialInvLoopReads
    DEF LoopStep
<1>2. CASE LoopError
  BY <1>2 DEF LoopError, TypeOK
<1>3. CASE Crash \/ Restart
  BY <1>3, SerialInvUnheld DEF Crash, Restart, rows
<1>4. CASE Next /\ UNCHANGED loop
  <2>1. CASE Claim
    BY <2>1, SerialInvClaim
  <2>2. CASE NothingStarts
    BY <1>4, <2>2, SerialInvQuiet
  <2> QED
    BY <1>4, <2>1, <2>2, OnlyClaimStarts
<1>5. CASE UNCHANGED vars
  <2>1. UNCHANGED <<status, loop>>
    BY <1>5 DEF vars, rows
  <2> QED
    BY <2>1, SameStatus, SerialInvQuiet
<1> QED
  BY <1>1, <1>2, <1>3, <1>4, <1>5, OthersLeaveLoop

LEMMA SerialInvInit == Init => SerialInv
BY DEF Init, SerialInv, OneActiveDownload, DownloadingIsHeld, RecoveryCoversAll,
       OutcomeCoversJob, Rows

(* Nothing else counts an exception.                                       *)
LEMMA OnlyErrorsCount ==
    ASSUME [Next]_vars
    PROVE  LoopError \/ UNCHANGED loop_errors
BY DEF Next, vars, bounds, LoopStep, LoopCommit, RecoverRead, RecoverCommit, ReleaseRead,
       ReleaseCommit, PickNothing, StorageFails, PickJob, Recheck, FindNoFile, AdoptRead,
       AdoptCommit, Claim, ConfirmClaim, TransferSucceeds, TransferFails,
       TransferFailsTemporarily, TransferIsRefused, TransferOrphaned, CompleteCommit,
       FailCommit, StartGap, RetentionRead, RetentionCommit, HandlerStep, CommitRequest,
       RetryNow, AddOneOff, PauseItem, ResumeItem, DeleteFromQueue, IgnoreVideo, MoveItem,
       SetQueuePaused, DeleteSubscription, ScanInserts, Crash, Restart, Tick

LEMMA LoopErrorsGrow ==
    ASSUME TypeOK, [Next]_vars, loop_errors' = 0
    PROVE  loop_errors = 0
BY OnlyErrorsCount DEF LoopError, TypeOK

(* Until an exception ends an iteration of the scheduler, however often    *)
(* the process restarts and whatever the handlers commit, the row that is  *)
(* DOWNLOADING is the one the scheduler holds.                             *)
THEOREM DownloadsAreSerial == Spec => [](loop_errors = 0 => SerialInv)
<1>1. TypeOK /\ (loop_errors = 0 => SerialInv) /\ [Next]_vars
        => (loop_errors = 0 => SerialInv)'
  BY SerialInvStep, LoopErrorsGrow
<1> QED
  BY <1>1, SerialInvInit, TypeCorrect, PTL DEF Spec

(* In particular at most one row is DOWNLOADING at a time.                 *)
THEOREM OneDownloadAtATime == Spec => [](loop_errors = 0 => OneActiveDownload)
<1>1. SerialInv => OneActiveDownload
  BY DEF SerialInv
<1> QED
  BY <1>1, DownloadsAreSerial, PTL

-----------------------------------------------------------------------------
(* Every completed row has its file.                                       *)

LEMMA NoWritesKeepFiles == KeepsFiles(NoWrites)
BY DEF KeepsFiles, NoWrites, NoWrite

(* Writes to the status, the due time, the rank or the cooldown alone, to  *)
(* a status that is not COMPLETED.                                         *)
LEMMA StatusWritesKeepFiles ==
    ASSUME NEW writes, writes.local_path = NoWrite,
           \A v \in DOMAIN writes.status : writes.status[v] # "COMPLETED"
    PROVE  KeepsFiles(writes)
BY DEF KeepsFiles, NoWrite

(* A commit of such writes, to whatever the rows have become.              *)
LEMMA FlushKeepsFiles ==
    ASSUME StoredTypes, CompletedHasFile, NEW writes, IsSession(writes),
           KeepsFiles(writes), Flush(writes)
    PROVE  CompletedHasFile'
<1> SUFFICES ASSUME NEW v \in Videos, status'[v] = "COMPLETED"
             PROVE  local_path'[v] # "none"
  BY DEF CompletedHasFile, Rows
<1>1. /\ status'[v] = IF v \in DOMAIN writes.status THEN writes.status[v] ELSE status[v]
      /\ local_path'[v] = IF v \in DOMAIN writes.local_path
                          THEN writes.local_path[v] ELSE local_path[v]
  BY DEF Flush, Overwritten
<1>2. CASE v \in DOMAIN writes.status
  BY <1>1, <1>2 DEF KeepsFiles
<1>3. CASE v \notin DOMAIN writes.status
  <2>1. local_path[v] # "none"
    BY <1>1, <1>3 DEF CompletedHasFile, Rows
  <2> QED
    BY <1>1, <1>3, <2>1 DEF KeepsFiles
<1> QED
  BY <1>2, <1>3

(* What the scheduler opens or keeps open.                                 *)
LEMMA LoopSessionKeepsFiles ==
    ASSUME TypeOK, KeepsFiles(session), LoopStep
    PROVE  KeepsFiles(session')
<1>1. CASE session' = session \/ session' = NoWrites
  BY <1>1, NoWritesKeepFiles
<1>2. CASE RecoverRead
  BY <1>2, <1>1, StatusWritesKeepFiles DEF RecoverRead, NoWrites, Assign
<1>3. CASE ReleaseRead
  BY <1>3 DEF ReleaseRead, KeepsFiles, NoWrites, Assign
<1>4. CASE AdoptRead
  <2>1. CASE session' = [NoWrites EXCEPT !.status = Assign({job}, "COMPLETED"),
                                         !.local_path = Assign({job}, "media")]
    BY <2>1 DEF KeepsFiles, NoWrites, Assign
  <2> QED
    BY <1>4, <1>1, <2>1 DEF AdoptRead, GiveUpJob
<1>5. CASE TransferSucceeds
  BY <1>5 DEF TransferSucceeds, KeepsFiles, NoWrites, Assign, Change
<1>6. ASSUME NEW wait, NEW pause, TransferFails(wait, pause)
      PROVE  KeepsFiles(session')
  BY <1>6, StatusWritesKeepFiles DEF TransferFails, NoWrites, Assign, Change
<1>7. CASE RetentionRead
  BY <1>7 DEF RetentionRead, KeepsFiles, NoWrites, Assign
<1> QED
  BY <1>1, <1>2, <1>3, <1>4, <1>5, <1>6, <1>7
  DEF LoopStep, LoopCommit, RecoverCommit, ReleaseCommit, PickNothing, StorageFails,
      PickJob, Recheck, FindNoFile, AdoptCommit, Claim, ConfirmClaim,
      TransferFailsTemporarily, TransferIsRefused, TransferOrphaned, CompleteCommit,
      FailCommit, StartGap, RetentionCommit, GiveUpJob

(* What a handler opens.                                                   *)
LEMMA OpenKeepsFiles ==
    ASSUME TypeOK, NEW h \in Handlers, NEW kind, NEW writes, Open(h, kind, writes),
           KeepsFiles(writes), \A g \in Handlers : KeepsFiles(request[g].writes)
    PROVE  \A g \in Handlers : KeepsFiles(request'[g].writes)
BY DEF Open, TypeOK, RequestTypes

LEMMA RequestsKeepFiles ==
    ASSUME TypeOK, \A g \in Handlers : KeepsFiles(request[g].writes),
           NEW h \in Handlers, HandlerStep(h)
    PROVE  \A g \in Handlers : KeepsFiles(request'[g].writes)
<1>1. CASE CommitRequest(h)
  BY <1>1, NoWritesKeepFiles DEF CommitRequest, Idle, TypeOK, RequestTypes
<1>2. ASSUME NEW v, NEW listing, NEW rank, NEW statusWrites,
             \A u \in DOMAIN statusWrites : statusWrites[u] # "COMPLETED"
      PROVE  KeepsFiles(RetryWrites(v, statusWrites, listing, rank))
  BY <1>2, StatusWritesKeepFiles DEF RetryWrites, NoWrites
<1>3. ASSUME NEW v \in Videos, RetryNow(h, v) \/ AddOneOff(h, v)
      PROVE  \A g \in Handlers : KeepsFiles(request'[g].writes)
  <2>1. /\ \A u \in DOMAIN Change(status, {v}, "QUEUED") :
               Change(status, {v}, "QUEUED")[u] # "COMPLETED"
        /\ \A u \in DOMAIN NoWrite : NoWrite[u] # "COMPLETED"
    BY DEF Change, Assign, NoWrite
  <2> QED
    BY <1>2, <1>3, <2>1, OpenKeepsFiles DEF RetryNow, AddOneOff
<1>4. ASSUME NEW v \in Videos,
             PauseItem(h, v) \/ ResumeItem(h, v) \/ DeleteFromQueue(h, v)
             \/ IgnoreVideo(h, v) \/ MoveItem(h, v)
      PROVE  \A g \in Handlers : KeepsFiles(request'[g].writes)
  <2> DEFINE Harmless(writes) ==
                 /\ writes.local_path = NoWrite
                 /\ \A u \in DOMAIN writes.status : writes.status[u] # "COMPLETED"
  <2>1. ASSUME NEW kind, NEW writes, Open(h, kind, writes), Harmless(writes)
        PROVE  \A g \in Handlers : KeepsFiles(request'[g].writes)
    BY <2>1, StatusWritesKeepFiles, OpenKeepsFiles
  <2>2. CASE PauseItem(h, v)
    BY <2>1, <2>2 DEF PauseItem, NoWrites, Assign
  <2>3. CASE ResumeItem(h, v)
    BY <2>1, <2>3 DEF ResumeItem, NoWrites, Assign
  <2>4. CASE DeleteFromQueue(h, v) \/ IgnoreVideo(h, v)
    <3>1. Harmless(IgnoreWrites(v))
      BY DEF IgnoreWrites, NoWrites, Assign, Change
    <3> QED
      BY <2>1, <2>4, <3>1 DEF DeleteFromQueue, IgnoreVideo
  <2>5. CASE MoveItem(h, v)
    BY <2>1, <2>5 DEF MoveItem, NoWrites, NoWrite
  <2> QED
    BY <1>4, <2>2, <2>3, <2>4, <2>5
<1> QED
  BY <1>1, <1>3, <1>4 DEF HandlerStep

(* What the rows themselves undergo.                                       *)
LEMMA RowsKeepFiles ==
    ASSUME TypeOK, FileInv, Next
    PROVE  CompletedHasFile'
<1>1. CASE UNCHANGED <<status, local_path>>
  BY <1>1 DEF FileInv, CompletedHasFile, Rows
<1>2. ASSUME Flush(session)
      PROVE  CompletedHasFile'
  BY <1>2, FlushKeepsFiles DEF FileInv, TypeOK, LoopTypes
<1>3. CASE LoopStep
  <2>1. CASE Claim
    BY <2>1, <1>1
    DEF Claim, GiveUpJob, FileInv, CompletedHasFile, Rows, TypeOK, StoredTypes
  <2> QED
    BY <1>1, <1>2, <1>3, <2>1
    DEF LoopStep, rows, LoopCommit, RecoverRead, RecoverCommit, ReleaseRead,
        ReleaseCommit, PickNothing, StorageFails, PickJob, Recheck, FindNoFile,
        AdoptRead, AdoptCommit, ConfirmClaim, TransferSucceeds, TransferFails,
        TransferFailsTemporarily, TransferIsRefused, TransferOrphaned, CompleteCommit,
        FailCommit, StartGap, RetentionRead, RetentionCommit
<1>4. ASSUME NEW h \in Handlers, HandlerStep(h)
      PROVE  CompletedHasFile'
  <2>1. CASE CommitRequest(h)
    BY <1>1, <2>1, FlushKeepsFiles DEF CommitRequest, FileInv, TypeOK, RequestTypes, rows
  <2>2. ASSUME NEW v \in Videos, AddOneOff(h, v)
        PROVE  CompletedHasFile'
    BY <2>2 DEF AddOneOff, FileInv, CompletedHasFile, Rows, TypeOK, StoredTypes
  <2> QED
    BY <1>1, <1>4, <2>1, <2>2
    DEF HandlerStep, rows, RetryNow, PauseItem, ResumeItem, DeleteFromQueue, IgnoreVideo,
        MoveItem
<1>5. CASE DeleteSubscription
  BY <1>5 DEF DeleteSubscription, Overwritten, Assign, FileInv, CompletedHasFile, Rows
<1>6. CASE ScanInserts
  BY <1>6
  DEF ScanInserts, Overwritten, Assign, IgnoredByScan, FileInv, CompletedHasFile, Rows
<1> QED
  BY <1>1, <1>3, <1>4, <1>5, <1>6
  DEF Next, SetQueuePaused, LoopError, Crash, Restart, Tick, rows

(* The inductive step.                                                     *)
LEMMA FileInvStep ==
    ASSUME TypeOK, FileInv, [Next]_vars
    PROVE  FileInv'
<1>1. CASE UNCHANGED vars
  BY <1>1 DEF vars, rows, loop, FileInv, CompletedHasFile, KeepsFiles, Rows
<1>2. ASSUME Next
      PROVE  KeepsFiles(session')
  <2>1. CASE UNCHANGED session \/ session' = NoWrites
    BY <2>1, NoWritesKeepFiles DEF FileInv
  <2>2. CASE LoopStep
    BY <2>2, LoopSessionKeepsFiles DEF FileInv
  <2> QED
    BY <1>2, <2>1, <2>2, OthersLeaveLoop DEF LoopError, Crash, Restart, loop
<1>3. ASSUME Next
      PROVE  \A g \in Handlers : KeepsFiles(request'[g].writes)
  <2>1. CASE UNCHANGED request
    BY <2>1 DEF FileInv
  <2>2. CASE Crash
    BY <2>2, NoWritesKeepFiles DEF Crash, Idle
  <2>3. ASSUME NEW h \in Handlers, HandlerStep(h)
        PROVE  \A g \in Handlers : KeepsFiles(request'[g].writes)
    BY <2>3, RequestsKeepFiles DEF FileInv
  <2>4. LoopStep => UNCHANGED request
    BY DEF LoopStep, LoopCommit, RecoverRead, RecoverCommit, ReleaseRead,
           ReleaseCommit, PickNothing, StorageFails, PickJob, Recheck, FindNoFile,
           AdoptRead, AdoptCommit, Claim, ConfirmClaim, TransferSucceeds, TransferFails,
           TransferFailsTemporarily, TransferIsRefused, TransferOrphaned,
           CompleteCommit, FailCommit, StartGap, RetentionRead, RetentionCommit
  <2> QED
    BY <1>3, <2>1, <2>2, <2>3, <2>4
    DEF Next, SetQueuePaused, DeleteSubscription, ScanInserts, LoopError, Restart, Tick
<1> QED
  BY <1>1, <1>2, <1>3, RowsKeepFiles DEF FileInv

LEMMA FileInvInit == Init => FileInv
BY NoWritesKeepFiles DEF Init, FileInv, CompletedHasFile, Rows, Idle

(* No session that waits for its commit, the scheduler's or a handler's,   *)
(* can tear the status of a row and its file apart.                        *)
THEOREM FilesStayNamed == Spec => []FileInv
<1>1. TypeOK /\ FileInv /\ [Next]_vars => FileInv'
  BY FileInvStep
<1> QED
  BY <1>1, FileInvInit, TypeCorrect, PTL DEF Spec

(* A completed row names its file, whatever order the sessions of the      *)
(* scheduler and of the handlers commit in, and however often exceptions   *)
(* and restarts drop them.                                                 *)
THEOREM CompletedRowsHaveFiles == Spec => []CompletedHasFile
<1>1. FileInv => CompletedHasFile
  BY DEF FileInv
<1> QED
  BY <1>1, FilesStayNamed, PTL

-----------------------------------------------------------------------------
(* A paused queue starts nothing.                                          *)

(* Since the pause was settled no job has been picked, so none is at work. *)
PauseHolds == settled => queue_paused /\ pc \notin WithJob

(* Only the pick, which a paused queue refuses, brings a job.              *)
LEMMA OnlyPickBringsJob ==
    ASSUME Next, pc \notin WithJob, pc' \in WithJob
    PROVE  ~queue_paused
<1>1. CASE LoopStep
  BY <1>1
  DEF WithJob, LoopStep, LoopCommit, RecoverRead, RecoverCommit, ReleaseRead,
      ReleaseCommit, PickNothing, StorageFails, PickJob, MayDownload, Recheck, FindNoFile,
      AdoptRead, AdoptCommit, Claim, ConfirmClaim, TransferSucceeds, TransferFails,
      TransferFailsTemporarily, TransferIsRefused, TransferOrphaned, CompleteCommit,
      FailCommit, StartGap, RetentionRead, RetentionCommit, GiveUpJob
<1>2. CASE LoopError \/ Crash \/ Restart \/ UNCHANGED loop
  BY <1>2 DEF WithJob, LoopError, Crash, Restart, loop
<1> QED
  BY <1>1, <1>2, OthersLeaveLoop

LEMMA PauseHoldsStep ==
    ASSUME PauseHolds, [PauseNext]_<<vars, settled>>
    PROVE  PauseHolds'
<1>1. CASE PauseNext
  <2> SUFFICES ASSUME settled' PROVE queue_paused' /\ pc' \notin WithJob'
    BY DEF PauseHolds
  <2>1. queue_paused' /\ (settled \/ pc' \notin WithJob)
    BY <1>1 DEF PauseNext
  <2>2. settled => pc' \notin WithJob
    BY <1>1, OnlyPickBringsJob DEF PauseNext, PauseHolds
  <2> QED
    BY <2>1, <2>2 DEF WithJob
<1>2. CASE UNCHANGED <<vars, settled>>
  BY <1>2 DEF PauseHolds, vars, state, loop, WithJob
<1> QED
  BY <1>1, <1>2

(* Whatever retries, scans, exceptions and restarts happen while the queue *)
(* is paused, at most the download that was being prepared when PAUSE was  *)
(* pressed begins, and none after it has ended.                            *)
THEOREM PausedQueueStartsNothing == PauseSpec => NoStartOncePaused
<1>1. PauseInit => PauseHolds /\ Init
  BY DEF PauseInit, PauseHolds
<1>2. [PauseNext]_<<vars, settled>> => [Next]_vars
  BY DEF PauseNext
<1>3. TypeOK /\ PauseHolds /\ [PauseNext]_<<vars, settled>>
        => [settled => \A v \in Videos : ~StartsDownload(v)]_<<vars, settled>>
  <2> SUFFICES ASSUME TypeOK, PauseHolds, PauseNext, settled,
                      NEW v \in Videos, StartsDownload(v)
               PROVE  FALSE
    OBVIOUS
  <2>1. Claim
    BY OnlyClaimStarts DEF PauseNext, NothingStarts, StartsDownload
  <2> QED
    BY <2>1 DEF Claim, PauseHolds, WithJob
<1>4. Init => TypeOK
  BY InitTypes
<1>5. TypeOK /\ [Next]_vars => TypeOK'
  BY StepTypes
<1>6. PauseHolds /\ [PauseNext]_<<vars, settled>> => PauseHolds'
  BY PauseHoldsStep
<1> QED
  BY <1>1, <1>2, <1>3, <1>4, <1>5, <1>6, PTL DEF PauseSpec, NoStartOncePaused

-----------------------------------------------------------------------------
(* Nothing but a request takes a row out of EXPIRED.                       *)

(* No session of the scheduler writes to an expired row: it was not one    *)
(* that the scheduler read as completed, interrupted or runnable, or the   *)
(* handlers have put it there since.                                       *)
ExpiredInv ==
    /\ pc \in WithJob => status[job] # "EXPIRED"
    /\ \A v \in DOMAIN session.status : status[v] # "EXPIRED"
    /\ \A h \in Handlers :
          /\ request[h].kind = "idle" => request[h] = Idle
          /\ \A v \in DOMAIN request[h].writes.status :
                request[h].writes.status[v] # "EXPIRED"

NothingExpires ==
    \A v \in Videos : status'[v] = "EXPIRED" => status[v] = "EXPIRED"

(* What the steps of handlers and of the environment do to expired rows.   *)
LEMMA HandlersExpireNothing ==
    ASSUME TypeOK, ExpiredInv, NEW h \in Handlers, HandlerStep(h)
    PROVE  NothingExpires
<1>1. CASE UNCHANGED status
  BY <1>1 DEF NothingExpires
<1>2. CASE CommitRequest(h)
  <2>1. CASE Flush(request[h].writes)
    BY <2>1
    DEF Flush, Overwritten, ExpiredInv, NothingExpires, TypeOK, RequestTypes
  <2> QED
    BY <1>1, <1>2, <2>1 DEF CommitRequest, rows
<1>3. ASSUME NEW v \in Videos, AddOneOff(h, v) PROVE NothingExpires
  BY <1>3 DEF AddOneOff, NothingExpires, TypeOK, StoredTypes
<1> QED
  BY <1>1, <1>2, <1>3
  DEF HandlerStep, rows, RetryNow, PauseItem, ResumeItem, DeleteFromQueue,
      IgnoreVideo, MoveItem

LEMMA EnvironmentExpiresNothing ==
    ASSUME TypeOK, SetQueuePaused \/ DeleteSubscription \/ ScanInserts
                   \/ LoopError \/ Crash \/ Restart \/ Tick
    PROVE  NothingExpires
BY DEF SetQueuePaused, DeleteSubscription, ScanInserts, LoopError, Crash, Restart, Tick,
       Overwritten, Assign, IgnoredByScan, NothingExpires, Rows, rows, TypeOK, StoredTypes

(* What a handler opens assigns no EXPIRED.                                *)
LEMMA RequestsExpireNothing ==
    ASSUME TypeOK, ExpiredInv, NEW h \in Handlers, HandlerStep(h)
    PROVE  \A g \in Handlers :
              /\ request'[g].kind = "idle" => request'[g] = Idle
              /\ \A v \in DOMAIN request'[g].writes.status :
                    request'[g].writes.status[v] # "EXPIRED"
<1> DEFINE Spares(column) == \A v \in DOMAIN column : column[v] # "EXPIRED"
<1>1. ASSUME NEW kind \in {"thread", "coroutine"}, NEW writes, Open(h, kind, writes),
             Spares(writes.status)
      PROVE  \A g \in Handlers :
                /\ request'[g].kind = "idle" => request'[g] = Idle
                /\ Spares(request'[g].writes.status)
  BY <1>1 DEF Open, ExpiredInv, TypeOK, RequestTypes
<1>2. /\ Spares(NoWrite)
      /\ \A S, x : x # "EXPIRED" => Spares(Assign(S, x)) /\ Spares(Change(status, S, x))
  BY DEF NoWrite, Assign, Change
<1>3. CASE CommitRequest(h)
  BY <1>2, <1>3 DEF CommitRequest, Idle, NoWrites, ExpiredInv, TypeOK, RequestTypes
<1>4. ASSUME NEW v \in Videos, RetryNow(h, v) \/ AddOneOff(h, v)
      PROVE  \A g \in Handlers :
                /\ request'[g].kind = "idle" => request'[g] = Idle
                /\ Spares(request'[g].writes.status)
  <2>1. ASSUME NEW writes, NEW listing, NEW rank
        PROVE  RetryWrites(v, writes, listing, rank).status = writes
    BY DEF RetryWrites, NoWrites
  <2> HIDE DEF Spares
  <2>2. CASE RetryNow(h, v)
    BY <1>1, <1>2, <2>1, <2>2 DEF RetryNow
  <2>3. CASE AddOneOff(h, v)
    BY <1>1, <1>2, <2>1, <2>3 DEF AddOneOff
  <2> QED
    BY <1>4, <2>2, <2>3
<1>5. ASSUME NEW v \in Videos,
             PauseItem(h, v) \/ ResumeItem(h, v) \/ DeleteFromQueue(h, v)
             \/ IgnoreVideo(h, v) \/ MoveItem(h, v)
      PROVE  \A g \in Handlers :
                /\ request'[g].kind = "idle" => request'[g] = Idle
                /\ Spares(request'[g].writes.status)
  <2> HIDE DEF Spares
  <2>1. CASE PauseItem(h, v)
    BY <1>1, <1>2, <2>1 DEF PauseItem, NoWrites
  <2>2. CASE ResumeItem(h, v)
    <3> DEFINE undated == {u \in {v} : next_attempt_at[u] = NoTime}
               resumed == [NoWrites EXCEPT !.status = Assign({v}, "QUEUED"),
                                           !.next_attempt_at = Assign(undated, 0)]
    <3>1. Open(h, "thread", resumed)
      BY <2>2 DEF ResumeItem
    <3>2. resumed.status = Assign({v}, "QUEUED")
      BY DEF NoWrites
    <3> HIDE DEF resumed
    <3> QED
      BY <1>1, <1>2, <3>1, <3>2
  <2>3. CASE DeleteFromQueue(h, v) \/ IgnoreVideo(h, v)
    BY <1>1, <1>2, <2>3 DEF DeleteFromQueue, IgnoreVideo, IgnoreWrites, NoWrites
  <2>4. CASE MoveItem(h, v)
    BY <1>1, <1>2, <2>4 DEF MoveItem, NoWrites
  <2> QED
    BY <1>5, <2>1, <2>2, <2>3, <2>4
<1> QED
  BY <1>3, <1>4, <1>5 DEF HandlerStep

(* What the scheduler reads is not expired, and stays so until it commits. *)
LEMMA LoopExpires ==
    ASSUME TypeOK, ExpiredInv, LoopStep
    PROVE  /\ pc' \in WithJob => status'[job'] # "EXPIRED"
           /\ \A v \in DOMAIN session'.status : status'[v] # "EXPIRED"
           /\ \A v \in Rows({"EXPIRED"}) : status'[v] = "EXPIRED"
<1>1. ASSUME NEW from, NEW to, LoopCommit(from, to), to \notin WithJob, "sleep" \notin WithJob
      PROVE  /\ pc' \notin WithJob
             /\ \A v \in DOMAIN session'.status : status'[v] # "EXPIRED"
             /\ \A v \in Rows({"EXPIRED"}) : status'[v] = "EXPIRED"
  BY <1>1
  DEF LoopCommit, Flush, Overwritten, NoWrites, NoWrite, ExpiredInv, Rows, rows, TypeOK,
      StoredTypes
<1>2. CASE ReleaseCommit \/ AdoptCommit \/ CompleteCommit \/ FailCommit \/ RetentionCommit
  BY <1>1, <1>2
  DEF ReleaseCommit, AdoptCommit, CompleteCommit, FailCommit, RetentionCommit, WithJob
<1>3. CASE RecoverCommit
  BY <1>3
  DEF RecoverCommit, Flush, Overwritten, NoWrites, NoWrite, ExpiredInv, Rows, rows, WithJob,
      TypeOK, StoredTypes
<1>4. CASE Claim
  <2>1. \A v \in Videos : status'[v] = "EXPIRED" <=> status[v] = "EXPIRED"
    BY <1>4 DEF Claim, RunnableStatuses, TypeOK, StoredTypes
  <2>2. UNCHANGED session /\ DOMAIN session.status \subseteq Videos
    BY <1>4 DEF Claim, GiveUpJob, TypeOK, LoopTypes, IsSession, PartialFunction
  <2>3. pc' \in WithJob => job' = job /\ job \in Videos /\ status[job] # "EXPIRED"
    BY <1>4 DEF Claim, GiveUpJob, ExpiredInv, WithJob, TypeOK, LoopTypes
  <2> QED
    BY <2>1, <2>2, <2>3 DEF ExpiredInv, Rows
<1>5. CASE \/ PickNothing \/ StorageFails \/ PickJob \/ Recheck \/ FindNoFile
           \/ ConfirmClaim \/ TransferOrphaned \/ StartGap
  <2>1. UNCHANGED <<status, session>>
    BY <1>5
    DEF PickNothing, StorageFails, PickJob, Recheck, FindNoFile, ConfirmClaim,
        TransferOrphaned, StartGap, GiveUpJob, rows
  <2>2. pc' \in WithJob => status[job'] # "EXPIRED"
    BY <1>5
    DEF PickNothing, StorageFails, PickJob, Due, Recheck, FindNoFile, ConfirmClaim,
        TransferOrphaned, StartGap, GiveUpJob, ExpiredInv, Rows, WithJob,
        RunnableStatuses
  <2> QED
    BY <2>1, <2>2 DEF ExpiredInv, Rows
<1>6. CASE RecoverRead \/ ReleaseRead \/ RetentionRead
  <2>1. UNCHANGED status /\ pc' \notin WithJob
    BY <1>6 DEF RecoverRead, ReleaseRead, RetentionRead, rows, WithJob
  <2>2. DOMAIN session'.status \intersect Rows({"EXPIRED"}) = {}
    <3>1. CASE RecoverRead
      <4>1. \/ session' = NoWrites
            \/ session'.status = Assign(Rows({"DOWNLOADING"}), "FAILED_TEMPORARY")
        BY <3>1 DEF RecoverRead, NoWrites
      <4>2. DOMAIN NoWrites.status = {}
        BY DEF NoWrites, NoWrite
      <4>3. Rows({"DOWNLOADING"}) \intersect Rows({"EXPIRED"}) = {}
        BY DEF Rows
      <4> QED
        BY <4>1, <4>2, <4>3 DEF Assign
    <3>2. CASE ReleaseRead
      <4> DEFINE streams == {v \in Rows({"COMPLETED"}) : local_path[v] = "stream"}
                 released == [NoWrites EXCEPT
                                 !.status = Assign(streams, "QUEUED"),
                                 !.next_attempt_at = Assign(streams, 0),
                                 !.local_path = Assign(streams, "none")]
      <4>1. session' = released
        BY <3>2 DEF ReleaseRead
      <4>2. released.status = Assign(streams, "QUEUED")
        BY DEF NoWrites
      <4>3. streams \intersect Rows({"EXPIRED"}) = {}
        BY DEF Rows
      <4> HIDE DEF released, streams
      <4> QED
        BY <4>1, <4>2, <4>3 DEF Assign
    <3>3. CASE RetentionRead
      <4>1. PICK overdue \in SUBSET Rows({"COMPLETED"}) :
               session' = [NoWrites EXCEPT !.status = Assign(overdue, "EXPIRED"),
                                           !.local_path = Assign(overdue, "none")]
        BY <3>3 DEF RetentionRead
      <4>2. DOMAIN session'.status = overdue
        BY <4>1 DEF NoWrites, Assign
      <4> QED
        BY <4>2 DEF Rows
    <3> QED
      BY <1>6, <3>1, <3>2, <3>3
  <2>3. DOMAIN session'.status \subseteq Videos
    BY <1>6, LoopStepTypes DEF TypeOK, LoopTypes, IsSession, PartialFunction
  <2> QED
    BY <2>1, <2>2, <2>3 DEF Rows
<1>7. CASE AdoptRead
  <2>1. CASE pc' = "adopt"
    <3>1. DOMAIN session'.status = {job} /\ UNCHANGED <<status, job>>
      BY ZenonT(60), <1>7, <2>1 DEF AdoptRead, GiveUpJob, NoWrites, Assign, rows
    <3>2. status[job] # "EXPIRED"
      BY <1>7 DEF AdoptRead, ExpiredInv, WithJob
    <3> QED
      BY <3>1, <3>2 DEF Rows
  <2>2. CASE UNCHANGED <<status, session>> /\ pc' = "tidy"
    BY <2>2 DEF ExpiredInv, Rows, WithJob
  <2> QED
    BY <1>7, <2>1, <2>2 DEF AdoptRead, GiveUpJob, rows
<1>8. CASE TransferSucceeds
  BY <1>8
  DEF TransferSucceeds, NoWrites, Change, Assign, ExpiredInv, Rows, rows, WithJob
<1>9. ASSUME NEW wait, NEW pause, TransferFails(wait, pause)
      PROVE  /\ pc' \in WithJob => status'[job'] # "EXPIRED"
             /\ \A v \in DOMAIN session'.status : status'[v] # "EXPIRED"
             /\ \A v \in Rows({"EXPIRED"}) : status'[v] = "EXPIRED"
  BY <1>9 DEF TransferFails, NoWrites, Change, Assign, ExpiredInv, Rows, rows, WithJob
<1> QED
  BY <1>2, <1>3, <1>4, <1>5, <1>6, <1>7, <1>8, <1>9
  DEF LoopStep, TransferFailsTemporarily, TransferIsRefused

LEMMA ExpiredInvStep ==
    ASSUME TypeOK, ExpiredInv, [Next]_vars
    PROVE  ExpiredInv'
<1>1. CASE UNCHANGED vars
  BY <1>1 DEF vars, rows, loop, ExpiredInv, WithJob
<1>2. ASSUME NothingExpires, UNCHANGED loop
      PROVE  /\ pc' \in WithJob => status'[job'] # "EXPIRED"
             /\ \A v \in DOMAIN session'.status : status'[v] # "EXPIRED"
  BY <1>2
  DEF loop, NothingExpires, ExpiredInv, WithJob, TypeOK, LoopTypes, IsSession,
      PartialFunction
<1>3. CASE LoopStep
  <2>1. UNCHANGED request
    BY <1>3
    DEF LoopStep, LoopCommit, RecoverRead, RecoverCommit, ReleaseRead, ReleaseCommit,
        PickNothing, StorageFails, PickJob, Recheck, FindNoFile, AdoptRead, AdoptCommit,
        Claim, ConfirmClaim, TransferSucceeds, TransferFails, TransferFailsTemporarily,
        TransferIsRefused, TransferOrphaned, CompleteCommit, FailCommit, StartGap,
        RetentionRead, RetentionCommit
  <2> QED
    BY <1>3, <2>1, LoopExpires DEF ExpiredInv, WithJob
<1>4. ASSUME NEW h \in Handlers, HandlerStep(h) PROVE ExpiredInv'
  <2>1. NothingExpires
    BY <1>4, HandlersExpireNothing
  <2>2. UNCHANGED loop
    BY <1>4
    DEF HandlerStep, CommitRequest, RetryNow, AddOneOff, PauseItem, ResumeItem,
        DeleteFromQueue, IgnoreVideo, MoveItem
  <2> QED
    BY <1>2, <1>4, <2>1, <2>2, RequestsExpireNothing DEF ExpiredInv, WithJob
<1>5. CASE SetQueuePaused \/ DeleteSubscription \/ ScanInserts \/ Tick
  <2>1. UNCHANGED <<loop, request>>
    BY <1>5 DEF SetQueuePaused, DeleteSubscription, ScanInserts, Tick
  <2> QED
    BY <1>2, <1>5, <2>1, EnvironmentExpiresNothing DEF ExpiredInv, WithJob
<1>6. CASE LoopError \/ Crash \/ Restart
  BY <1>6
  DEF LoopError, Crash, Restart, Idle, NoWrites, NoWrite, ExpiredInv, WithJob, rows
<1> QED
  BY <1>1, <1>3, <1>4, <1>5, <1>6 DEF Next

LEMMA ExpiredInvHolds == Spec => []ExpiredInv
<1>1. Init => ExpiredInv
  BY DEF Init, ExpiredInv, WithJob, NoWrites, NoWrite, Idle
<1>2. TypeOK /\ ExpiredInv /\ [Next]_vars => ExpiredInv'
  BY ExpiredInvStep
<1> QED
  BY <1>1, <1>2, TypeCorrect, PTL DEF Spec

(* A video whose retention has passed is not downloaded again: no session  *)
(* of the scheduler, interrupted or stale, and no scan puts its row back,  *)
(* only the commit of a request.                                           *)
THEOREM ExpiredRowsStay == Spec => ExpiredStaysExpired
<1>1. TypeOK /\ ExpiredInv /\ [Next]_vars =>
        [\A v \in Rows({"EXPIRED"}) :
            \/ status'[v] \in {"EXPIRED", "DELETED"}
            \/ \E h \in Handlers : /\ request[h].kind # "idle"
                                   /\ v \in DOMAIN request[h].writes.status
                                   /\ request'[h] = Idle]_vars
  <2> SUFFICES ASSUME TypeOK, ExpiredInv, Next, NEW v \in Rows({"EXPIRED"})
               PROVE  \/ status'[v] \in {"EXPIRED", "DELETED"}
                      \/ \E h \in Handlers : /\ request[h].kind # "idle"
                                             /\ v \in DOMAIN request[h].writes.status
                                             /\ request'[h] = Idle
    OBVIOUS
  <2>1. CASE LoopStep
    BY <2>1, LoopExpires
  <2>2. CASE UNCHANGED status
    BY <2>2 DEF Rows
  <2>3. ASSUME NEW h \in Handlers, HandlerStep(h), status'[v] # "EXPIRED"
        PROVE  /\ request[h].kind # "idle"
               /\ v \in DOMAIN request[h].writes.status
               /\ request'[h] = Idle
    <3>1. CASE CommitRequest(h)
      BY <2>3, <3>1
      DEF CommitRequest, Flush, Overwritten, ExpiredInv, Rows, rows, TypeOK, RequestTypes
    <3>2. ASSUME NEW u \in Videos, AddOneOff(h, u) PROVE FALSE
      BY <2>3, <3>2 DEF AddOneOff, Rows, TypeOK, StoredTypes
    <3>3. CASE UNCHANGED status
      BY <2>3, <3>3 DEF Rows
    <3> QED
      BY <2>3, <3>1, <3>2, <3>3
      DEF HandlerStep, rows, RetryNow, PauseItem, ResumeItem, DeleteFromQueue,
          IgnoreVideo, MoveItem
  <2>4. CASE DeleteSubscription
    BY <2>4 DEF DeleteSubscription, Overwritten, Assign, Rows
  <2>5. CASE ScanInserts
    BY <2>5 DEF ScanInserts, Overwritten, Assign, Rows
  <2> QED
    BY <2>1, <2>2, <2>3, <2>4, <2>5
    DEF Next, SetQueuePaused, LoopError, Crash, Restart, Tick, rows
<1> QED
  BY <1>1, ExpiredInvHolds, TypeCorrect, PTL DEF Spec, ExpiredStaysExpired

-----------------------------------------------------------------------------
(* A runnable row has a due time.                                          *)

(* Each session of the scheduler that makes a row runnable gives it a due  *)
(* time.                                                                   *)
SessionSetsDueTimes == \A v \in Videos : ~ReliesOnDueTime(session, v)

(* Writes that assign no runnable status rely on nothing.                  *)
LEMMA RelyingNeedsStatus ==
    ASSUME NEW writes, NEW v, ReliesOnDueTime(writes, v)
    PROVE  v \in DOMAIN writes.status /\ writes.status[v] \in RunnableStatuses
BY DEF ReliesOnDueTime

LEMMA NoWritesRelyOnNothing == \A v : ~ReliesOnDueTime(NoWrites, v)
BY DEF ReliesOnDueTime, NoWrites, NoWrite

LEMMA LoopSessionSetsDueTimes ==
    ASSUME TypeOK, LoopStep, SessionSetsDueTimes
    PROVE  SessionSetsDueTimes'
<1> DEFINE Sets(writes) == \A v \in Videos : ~ReliesOnDueTime(writes, v)
<1>1. CASE UNCHANGED session \/ session' = NoWrites
  BY <1>1, NoWritesRelyOnNothing DEF SessionSetsDueTimes
<1>2. CASE RecoverRead
  <2>1. ASSUME NEW S
        PROVE  Sets([NoWrites EXCEPT !.status = Assign(S, "FAILED_TEMPORARY"),
                                     !.next_attempt_at = Assign(S, 0)])
    BY DEF ReliesOnDueTime, NoWrites, Assign
  <2> QED
    BY <1>1, <1>2, <2>1 DEF RecoverRead, SessionSetsDueTimes
<1>3. CASE ReleaseRead
  BY <1>3 DEF ReleaseRead, SessionSetsDueTimes, ReliesOnDueTime, NoWrites, Assign
<1>4. CASE AdoptRead
  <2>1. CASE session' = [NoWrites EXCEPT !.status = Assign({job}, "COMPLETED"),
                                         !.local_path = Assign({job}, "media")]
    BY <2>1
    DEF SessionSetsDueTimes, ReliesOnDueTime, NoWrites, Assign, RunnableStatuses
  <2> QED
    BY <1>1, <1>4, <2>1 DEF AdoptRead, GiveUpJob
<1>5. CASE TransferSucceeds
  BY <1>5
  DEF TransferSucceeds, SessionSetsDueTimes, ReliesOnDueTime, NoWrites, Assign, Change,
      RunnableStatuses
<1>6. ASSUME NEW wait, NEW pause, TransferFails(wait, pause)
      PROVE  SessionSetsDueTimes'
  BY <1>6
  DEF TransferFails, SessionSetsDueTimes, ReliesOnDueTime, NoWrites, Assign, Change
<1>7. CASE RetentionRead
  BY <1>7
  DEF RetentionRead, SessionSetsDueTimes, ReliesOnDueTime, NoWrites, Assign,
      RunnableStatuses
<1> QED
  BY <1>1, <1>2, <1>3, <1>4, <1>5, <1>6, <1>7
  DEF LoopStep, LoopCommit, RecoverCommit, ReleaseCommit, PickNothing, StorageFails,
      PickJob, Recheck, FindNoFile, AdoptCommit, Claim, ConfirmClaim,
      TransferFailsTemporarily, TransferIsRefused, TransferOrphaned, CompleteCommit,
      FailCommit, StartGap, RetentionCommit, GiveUpJob

LEMMA SessionSetsDueTimesStep ==
    ASSUME TypeOK, SessionSetsDueTimes, [Next]_vars
    PROVE  SessionSetsDueTimes'
<1>1. CASE UNCHANGED session \/ session' = NoWrites
  BY <1>1, NoWritesRelyOnNothing DEF SessionSetsDueTimes
<1> QED
  BY <1>1, LoopSessionSetsDueTimes, OthersLeaveLoop
  DEF LoopError, Crash, Restart, loop, vars

(* A row that has become runnable without a due time.                      *)
LosesDueTime(v) ==
    /\ status'[v] \in RunnableStatuses /\ next_attempt_at'[v] = NoTime
    /\ ~(status[v] \in RunnableStatuses /\ next_attempt_at[v] = NoTime)

(* A commit takes no due time away, and gives a row that it makes runnable *)
(* one, unless it relies on the one the row has.                           *)
LEMMA CommitsKeepDueTimes ==
    ASSUME StoredTypes, NEW writes, IsSession(writes), Flush(writes),
           NEW v \in Videos, LosesDueTime(v)
    PROVE  ReliesOnDueTime(writes, v) /\ next_attempt_at[v] = NoTime
BY DEF Flush, Overwritten, LosesDueTime, ReliesOnDueTime, IsSession, PartialFunction,
       StoredTypes, NoTime

(* The only step that makes a row runnable without a due time is the       *)
(* commit of a request that relies on it.                                  *)
LEMMA OnlyRelianceLosesDueTime ==
    ASSUME TypeOK, SessionSetsDueTimes, Next, NEW v \in Videos, LosesDueTime(v)
    PROVE  \E h \in Handlers : /\ CommitRequest(h) /\ ~Stale(request[h].writes)
                               /\ ReliesOnDueTime(request[h].writes, v)
                               /\ next_attempt_at[v] = NoTime
<1>1. ~UNCHANGED <<status, next_attempt_at>>
  BY DEF LosesDueTime
<1>2. ~Flush(session)
  BY CommitsKeepDueTimes DEF SessionSetsDueTimes, TypeOK, LoopTypes
<1>3. ~LoopStep
  <2>1. CASE Claim
    BY <2>1, <1>1
    DEF Claim, LosesDueTime, RunnableStatuses, TypeOK, StoredTypes, LoopTypes, WithJob
  <2> QED
    BY <1>1, <1>2, <2>1
    DEF LoopStep, rows, LoopCommit, RecoverRead, RecoverCommit, ReleaseRead,
        ReleaseCommit, PickNothing, StorageFails, PickJob, Recheck, FindNoFile,
        AdoptRead, AdoptCommit, ConfirmClaim, TransferSucceeds, TransferFails,
        TransferFailsTemporarily, TransferIsRefused, TransferOrphaned, CompleteCommit,
        FailCommit, StartGap, RetentionRead, RetentionCommit
<1>4. ASSUME NEW h \in Handlers, HandlerStep(h)
      PROVE  /\ CommitRequest(h) /\ ~Stale(request[h].writes)
             /\ ReliesOnDueTime(request[h].writes, v)
             /\ next_attempt_at[v] = NoTime
  <2>1. CASE CommitRequest(h)
    BY <1>1, <2>1, CommitsKeepDueTimes DEF CommitRequest, TypeOK, RequestTypes, rows
  <2>2. ASSUME NEW u \in Videos, AddOneOff(h, u) PROVE FALSE
    BY <2>2 DEF AddOneOff, LosesDueTime, NoTime, TypeOK, StoredTypes
  <2> QED
    BY <1>1, <1>4, <2>1, <2>2
    DEF HandlerStep, rows, RetryNow, PauseItem, ResumeItem, DeleteFromQueue, IgnoreVideo,
        MoveItem
<1>5. ~DeleteSubscription
  BY DEF DeleteSubscription, Overwritten, Assign, LosesDueTime, RunnableStatuses
<1>6. ~ScanInserts
  BY WaitsAssumption
  DEF ScanInserts, Overwritten, Assign, IgnoredByScan, LosesDueTime, RunnableStatuses,
      Rows, NoTime
<1>7. ~Tick
  BY DEF Tick, Elapsed, LosesDueTime, NoTime, TypeOK, StoredTypes
<1> QED
  BY <1>1, <1>3, <1>4, <1>5, <1>6, <1>7
  DEF Next, SetQueuePaused, LoopError, Crash, Restart, rows

(* However commits, crashes and errors interleave, a row becomes runnable  *)
(* without a due time only by the commit of a resume that relied on the    *)
(* one it had read.                                                        *)
THEOREM ResumesAloneLoseDueTimes == Spec => OnlyResumesLoseDueTime
<1>1. Init => SessionSetsDueTimes
  BY NoWritesRelyOnNothing DEF Init, SessionSetsDueTimes
<1>2. TypeOK /\ SessionSetsDueTimes /\ [Next]_vars => SessionSetsDueTimes'
  BY SessionSetsDueTimesStep
<1>3. TypeOK /\ SessionSetsDueTimes /\ [Next]_vars =>
        [\A v \in Videos :
            /\ status'[v] \in RunnableStatuses /\ next_attempt_at'[v] = NoTime
            /\ ~(status[v] \in RunnableStatuses /\ next_attempt_at[v] = NoTime)
            => \E h \in Handlers : /\ ReliesOnDueTime(request[h].writes, v)
                                  /\ request'[h] = Idle]_vars
  BY OnlyRelianceLosesDueTime DEF LosesDueTime, CommitRequest, TypeOK, RequestTypes
<1> QED
  BY <1>1, <1>2, <1>3, TypeCorrect, PTL DEF Spec, OnlyResumesLoseDueTime

-----------------------------------------------------------------------------
(* Why a runnable row has its due time while no resume is overtaken.       *)

(* What an open request relies on is open since before this step, or the   *)
(* resume that opens now has found it.                                     *)
LEMMA RelianceIsFound ==
    ASSUME TypeOK, NEW h \in Handlers, HandlerStep(h),
           NEW g \in Handlers, NEW v \in Videos, ReliesOnDueTime(request'[g].writes, v)
    PROVE  \/ g # h /\ request'[g] = request[g]
           \/ /\ g = h /\ UNCHANGED <<rows, loop>>
              /\ status[v] = "PAUSED" /\ next_attempt_at[v] # NoTime
<1>1. CASE g # h
  BY <1>1
  DEF HandlerStep, CommitRequest, RetryNow, AddOneOff, PauseItem, ResumeItem,
      DeleteFromQueue, IgnoreVideo, MoveItem, Open, TypeOK, RequestTypes
<1>2. CASE g = h
  <2>1. ASSUME NEW kind, NEW writes, Open(h, kind, writes)
        PROVE  ReliesOnDueTime(writes, v)
    BY <1>2, <2>1 DEF Open, TypeOK, RequestTypes
  <2>2. ~CommitRequest(h)
    BY <1>2, NoWritesRelyOnNothing DEF CommitRequest, Idle, TypeOK, RequestTypes
  <2>3. ASSUME NEW u \in Videos, RetryNow(h, u) \/ AddOneOff(h, u) PROVE FALSE
    <3>1. ASSUME NEW listing, NEW rank
          PROVE  /\ ~ReliesOnDueTime(RetryWrites(u, NoWrite, listing, rank), v)
                 /\ ~ReliesOnDueTime(
                        RetryWrites(u, Change(status, {u}, "QUEUED"), listing, rank), v)
      BY DEF RetryWrites, ReliesOnDueTime, NoWrites, NoWrite, Change, Assign
    <3> QED
      BY <2>1, <2>3, <3>1 DEF RetryNow, AddOneOff
  <2>4. ASSUME NEW u \in Videos, NEW s, s \notin RunnableStatuses
        PROVE  /\ ~ReliesOnDueTime([NoWrites EXCEPT !.status = Assign({u}, s)], v)
               /\ ~ReliesOnDueTime([NoWrites EXCEPT !.status = Change(status, {u}, s)], v)
    BY <2>4 DEF ReliesOnDueTime, NoWrites, Change, Assign
  <2>5. ASSUME NEW u \in Videos,
               PauseItem(h, u) \/ DeleteFromQueue(h, u) \/ IgnoreVideo(h, u)
        PROVE  FALSE
    BY <2>1, <2>4, <2>5
    DEF PauseItem, DeleteFromQueue, IgnoreVideo, IgnoreWrites, RunnableStatuses
  <2>6. ASSUME NEW u \in Videos, MoveItem(h, u) PROVE FALSE
    <3>1. ASSUME NEW ranks
          PROVE  ~ReliesOnDueTime([NoWrites EXCEPT !.queue_rank = ranks], v)
      BY DEF ReliesOnDueTime, NoWrites, NoWrite
    <3> QED
      BY <2>1, <2>6, <3>1 DEF MoveItem
  <2>7. ASSUME NEW u \in Videos, ResumeItem(h, u)
        PROVE  /\ UNCHANGED <<rows, loop>>
               /\ status[v] = "PAUSED" /\ next_attempt_at[v] # NoTime
    <3>1. ReliesOnDueTime([NoWrites EXCEPT
              !.status = Assign({u}, "QUEUED"),
              !.next_attempt_at = Assign({w \in {u} : next_attempt_at[w] = NoTime}, 0)], v)
          => v = u /\ next_attempt_at[v] # NoTime
      BY DEF ReliesOnDueTime, NoWrites, Assign
    <3> QED
      BY <2>1, <2>7, <3>1 DEF ResumeItem
  <2> QED
    BY <1>2, <2>2, <2>3, <2>5, <2>6, <2>7 DEF HandlerStep
<1> QED
  BY <1>1, <1>2

(* The guarantee of DueInv for an open request and a row it relies on.     *)
RowIsReliable(v) ==
    status[v] # "DELETED" =>
        /\ next_attempt_at[v] # NoTime
        /\ pc \in BeforeClaim => status[v] = "PAUSED"

(* A commit that leaves the status of a row alone leaves it reliable.      *)
LEMMA OtherCommitsKeepRowsReliable ==
    ASSUME StoredTypes, NEW writes, IsSession(writes), Flush(writes),
           NEW v \in Videos, RowIsReliable(v),
           v \notin DOMAIN writes.status \/ pc' \notin BeforeClaim',
           ~Stale(writes), UNCHANGED pc \/ pc' \notin BeforeClaim' \/ pc = "release"
    PROVE  RowIsReliable(v)'
BY DEF Flush, Overwritten, RowIsReliable, Stale, IsSession, PartialFunction, BeforeClaim,
       StoredTypes, AssignedStatuses, NoTime

(* The scheduler: in one iteration no session of its own changes a paused  *)
(* row before the claim, and the claim takes a runnable one.               *)
LEMMA LoopKeepsRowsReliable ==
    ASSUME TypeOK, ExpiredInv, DueInv, PromptHandlers, LoopStep,
           NEW g \in Handlers, NEW v \in Videos, ReliesOnDueTime(request[g].writes, v)
    PROVE  RowIsReliable(v)'
<1>1. RowIsReliable(v)
  BY DEF DueInv, RowIsReliable
<1>2. request[g].kind # "idle"
  BY NoWritesRelyOnNothing DEF ExpiredInv, Idle
<1>3. ~ReleaseRead
  BY <1>2 DEF ReleaseRead, SleepEnds
<1>4. ASSUME UNCHANGED <<status, next_attempt_at>>,
             pc' \in BeforeClaim' => pc \in BeforeClaim
      PROVE  RowIsReliable(v)'
  BY <1>1, <1>4 DEF RowIsReliable
<1>5. CASE Claim
  BY <1>1, <1>5
  DEF Claim, GiveUpJob, RowIsReliable, BeforeClaim, RunnableStatuses, TypeOK, StoredTypes,
      LoopTypes, WithJob
<1>6. ASSUME NEW from, NEW to, LoopCommit(from, to), to \notin BeforeClaim
      PROVE  RowIsReliable(v)'
  BY <1>1, <1>4, <1>6, OtherCommitsKeepRowsReliable
  DEF LoopCommit, rows, BeforeClaim, TypeOK, LoopTypes
<1>7. CASE ReleaseCommit
  BY <1>1, <1>4, <1>7, OtherCommitsKeepRowsReliable
  DEF ReleaseCommit, LoopCommit, rows, BeforeClaim, DueInv, TypeOK, LoopTypes
<1>8. CASE RecoverCommit
  BY <1>1, <1>4, <1>8, OtherCommitsKeepRowsReliable
  DEF RecoverCommit, rows, BeforeClaim, TypeOK, LoopTypes
<1> QED
  BY <1>3, <1>4, <1>5, <1>6, <1>7, <1>8
  DEF LoopStep, rows, BeforeClaim, RecoverRead, PickNothing, StorageFails, PickJob,
      Recheck, FindNoFile, AdoptRead, AdoptCommit, ConfirmClaim, TransferSucceeds,
      TransferFails, TransferFailsTemporarily, TransferIsRefused, TransferOrphaned,
      CompleteCommit, FailCommit, StartGap, RetentionRead, RetentionCommit, GiveUpJob

(* The other requests, of which none writes the status of the row.         *)
LEMMA HandlersKeepRowsReliable ==
    ASSUME TypeOK, DueInv, ResumesAreAlone, NEW h \in Handlers, HandlerStep(h),
           NEW g \in Handlers, g # h,
           NEW v \in Videos, ReliesOnDueTime(request[g].writes, v)
    PROVE  RowIsReliable(v)'
<1>1. RowIsReliable(v)
  BY DEF DueInv, RowIsReliable
<1>2. CASE UNCHANGED <<status, next_attempt_at, pc>>
  BY <1>1, <1>2 DEF RowIsReliable, BeforeClaim
<1>3. CASE CommitRequest(h)
  <2>1. v \notin DOMAIN request[h].writes.status
    BY DEF ResumesAreAlone
  <2> QED
    BY <1>1, <1>2, <1>3, <2>1, OtherCommitsKeepRowsReliable
    DEF CommitRequest, rows, loop, TypeOK, RequestTypes
<1>4. ASSUME NEW u \in Videos, AddOneOff(h, u)
      PROVE  RowIsReliable(v)'
  BY <1>1, <1>4
  DEF AddOneOff, RowIsReliable, BeforeClaim, loop, NoTime, TypeOK, StoredTypes
<1> QED
  BY <1>2, <1>3, <1>4
  DEF HandlerStep, rows, loop, RetryNow, PauseItem, ResumeItem, DeleteFromQueue,
      IgnoreVideo, MoveItem

LEMMA EnvironmentKeepsRowsReliable ==
    ASSUME TypeOK, NEW v \in Videos, RowIsReliable(v),
           SetQueuePaused \/ DeleteSubscription \/ ScanInserts \/ LoopError
           \/ Crash \/ Restart \/ Tick
    PROVE  RowIsReliable(v)'
<1>1. CASE DeleteSubscription
  BY <1>1 DEF DeleteSubscription, Overwritten, Assign, RowIsReliable, BeforeClaim, loop
<1>2. CASE ScanInserts
  BY <1>2, WaitsAssumption
  DEF ScanInserts, Overwritten, Assign, RowIsReliable, BeforeClaim, loop, Rows, NoTime,
      AwaitPoints
<1>3. CASE Tick
  BY <1>3 DEF Tick, Elapsed, RowIsReliable, BeforeClaim, loop, NoTime, TypeOK, StoredTypes
<1> QED
  BY <1>1, <1>2, <1>3
  DEF SetQueuePaused, LoopError, Crash, Restart, RowIsReliable, BeforeClaim, rows, loop

(* The request part of the invariant.                                      *)
LEMMA OpenRequestsStayReliable ==
    ASSUME TypeOK, ExpiredInv, DueInv, ResumesAreAlone, PromptHandlers, Next,
           NEW g \in Handlers, NEW v \in Videos, ReliesOnDueTime(request'[g].writes, v)
    PROVE  RowIsReliable(v)'
<1>1. ASSUME ReliesOnDueTime(request[g].writes, v)
      PROVE  RowIsReliable(v)
  BY <1>1 DEF DueInv, RowIsReliable
<1>2. CASE LoopStep
  <2>1. UNCHANGED request
    BY <1>2
    DEF LoopStep, LoopCommit, RecoverRead, RecoverCommit, ReleaseRead, ReleaseCommit,
        PickNothing, StorageFails, PickJob, Recheck, FindNoFile, AdoptRead, AdoptCommit,
        Claim, ConfirmClaim, TransferSucceeds, TransferFails, TransferFailsTemporarily,
        TransferIsRefused, TransferOrphaned, CompleteCommit, FailCommit, StartGap,
        RetentionRead, RetentionCommit
  <2> QED
    BY <1>2, <2>1, LoopKeepsRowsReliable
<1>3. ASSUME NEW h \in Handlers, HandlerStep(h)
      PROVE  RowIsReliable(v)'
  <2>1. CASE g # h /\ request'[g] = request[g]
    BY <1>3, <2>1, HandlersKeepRowsReliable
  <2>2. CASE /\ UNCHANGED <<rows, loop>>
             /\ status[v] = "PAUSED" /\ next_attempt_at[v] # NoTime
    BY <2>2 DEF RowIsReliable, rows
  <2> QED
    BY <1>3, <2>1, <2>2, RelianceIsFound
<1>4. CASE Crash
  BY <1>4, NoWritesRelyOnNothing DEF Crash, Idle
<1>5. CASE SetQueuePaused \/ DeleteSubscription \/ ScanInserts \/ LoopError
           \/ Restart \/ Tick
  <2>1. UNCHANGED request
    BY <1>5
    DEF SetQueuePaused, DeleteSubscription, ScanInserts, LoopError, Restart, Tick
  <2> QED
    BY <1>1, <1>5, <2>1, EnvironmentKeepsRowsReliable
<1> QED
  BY <1>2, <1>3, <1>4, <1>5 DEF Next

(* No row keeps a file that is one stream, so the release finds none.      *)
LEMMA NothingIsReleased ==
    ASSUME TypeOK, DueInv, Next
    PROVE  /\ \A v \in Videos : local_path'[v] # "stream"
           /\ pc' = "release" => DOMAIN session'.status = {}
<1>1. \A v \in Videos : local_path'[v] # "stream"
  <2>1. CASE UNCHANGED local_path
    BY <2>1 DEF DueInv
  <2>2. ASSUME NEW writes, IsSession(writes), Flush(writes)
        PROVE  \A v \in Videos : local_path'[v] # "stream"
    BY <2>2 DEF Flush, Overwritten, IsSession, PartialFunction, DueInv
  <2>3. CASE DeleteSubscription
    BY <2>3 DEF DeleteSubscription, Overwritten, Assign, DueInv
  <2> QED
    BY <2>1, <2>2, <2>3
    DEF Next, LoopStep, rows, LoopCommit, RecoverRead, RecoverCommit, ReleaseRead,
        ReleaseCommit, PickNothing, StorageFails, PickJob, Recheck, FindNoFile, AdoptRead,
        AdoptCommit, Claim, ConfirmClaim, TransferSucceeds, TransferFails,
        TransferFailsTemporarily, TransferIsRefused, TransferOrphaned, CompleteCommit,
        FailCommit, StartGap, RetentionRead, RetentionCommit, HandlerStep, CommitRequest,
        RetryNow, AddOneOff, PauseItem, ResumeItem, DeleteFromQueue, IgnoreVideo,
        MoveItem, SetQueuePaused, ScanInserts, LoopError, Crash, Restart, Tick, TypeOK,
        LoopTypes, RequestTypes
<1>2. ASSUME pc' = "release"
      PROVE  DOMAIN session'.status = {}
  <2>1. CASE UNCHANGED <<pc, session>>
    BY <1>2, <2>1 DEF DueInv
  <2>2. CASE ReleaseRead
    <3>1. {v \in Rows({"COMPLETED"}) : local_path[v] = "stream"} = {}
      BY DEF DueInv, Rows
    <3>2. ASSUME NEW S, S = {}
          PROVE  DOMAIN [NoWrites EXCEPT !.status = Assign(S, "QUEUED"),
                                         !.next_attempt_at = Assign(S, 0),
                                         !.local_path = Assign(S, "none")].status = {}
      BY <3>2 DEF NoWrites, Assign
    <3> QED
      BY <2>2, <3>1, <3>2 DEF ReleaseRead
  <2>3. LoopStep => ReleaseRead
    BY <1>2
    DEF LoopStep, LoopCommit, RecoverRead, RecoverCommit, ReleaseCommit, PickNothing,
        StorageFails, PickJob, Recheck, FindNoFile, AdoptRead, AdoptCommit, Claim,
        ConfirmClaim, TransferSucceeds, TransferFails, TransferFailsTemporarily,
        TransferIsRefused, TransferOrphaned, CompleteCommit, FailCommit, StartGap,
        RetentionRead, RetentionCommit, GiveUpJob
  <2> QED
    BY <1>2, <2>1, <2>2, <2>3, OthersLeaveLoop DEF LoopError, Crash, Restart, loop
<1> QED
  BY <1>1, <1>2

LEMMA DueInvStep ==
    ASSUME TypeOK, ExpiredInv, DueInv, ResumesAreAlone, PromptHandlers, [Next]_vars
    PROVE  DueInv'
<1>1. CASE UNCHANGED vars
  BY <1>1
  DEF vars, rows, loop, DueInv, RunnableHasDueTime, Rows, ReliesOnDueTime, BeforeClaim
<1>2. CASE Next
  <2>1. SessionSetsDueTimes /\ SessionSetsDueTimes'
    BY <1>2, SessionSetsDueTimesStep DEF DueInv, SessionSetsDueTimes
  <2>2. RunnableHasDueTime'
    <3> SUFFICES ASSUME NEW v \in Videos, LosesDueTime(v)
                 PROVE  FALSE
      BY DEF DueInv, RunnableHasDueTime, Rows, LosesDueTime
    <3>1. PICK h \in Handlers : /\ CommitRequest(h) /\ ~Stale(request[h].writes)
                                /\ ReliesOnDueTime(request[h].writes, v)
                                /\ next_attempt_at[v] = NoTime
      BY <1>2, <2>1, OnlyRelianceLosesDueTime
    <3>2. status[v] # "DELETED"
      BY <3>1 DEF Stale, ReliesOnDueTime
    <3> QED
      BY <3>1, <3>2 DEF DueInv
  <2> QED
    BY <1>2, <2>1, <2>2, NothingIsReleased, OpenRequestsStayReliable
    DEF DueInv, SessionSetsDueTimes, RowIsReliable
<1> QED
  BY <1>1, <1>2

LEMMA DueInvInit ==
    ASSUME Fragments = {}, Init
    PROVE  DueInv
BY NoWritesRelyOnNothing
DEF Init, DueInv, RunnableHasDueTime, Rows, RunnableStatuses, Idle, NoWrites, NoWrite

(* A runnable row has a due time, and so is found by the scheduler's query *)
(* for what is due, in every interleaving of requests, restarts, errors    *)
(* and stale commits, when requests are short and no other request is      *)
(* about to change the status of a row that a resume puts back.            *)
THEOREM RunnableRowsAreDue ==
    ASSUME PromptHandlers, Fragments = {}
    PROVE  Spec /\ []ResumesAreAlone => [](DueInv /\ RunnableHasDueTime)
<1>1. Init => DueInv
  BY DueInvInit
<1>2. TypeOK /\ ExpiredInv /\ DueInv /\ ResumesAreAlone /\ [Next]_vars => DueInv'
  BY DueInvStep
<1>3. DueInv => RunnableHasDueTime
  BY DEF DueInv
<1> QED
  BY <1>1, <1>2, <1>3, ExpiredInvHolds, TypeCorrect, PTL DEF Spec

(* With one request at a time a resume is always alone.                    *)
THEOREM RunnableRowsAreDueOneByOne ==
    ASSUME PromptHandlers, Fragments = {}, \A g, h \in Handlers : g = h
    PROVE  Spec => []RunnableHasDueTime
<1>1. ResumesAreAlone
  BY DEF ResumesAreAlone
<1> QED
  BY <1>1, RunnableRowsAreDue, PTL
=============================================================================
