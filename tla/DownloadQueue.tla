---------------------------- MODULE DownloadQueue ----------------------------
(***************************************************************************)
(* The download queue of vkget: the rows of the videos table, the one      *)
(* scheduler coroutine that downloads them (src/app/scheduler.py) and the  *)
(* HTTP handlers that change them (src/app/main.py, src/app/queue.py).     *)
(*                                                                         *)
(* Three kinds of code share the rows.  The scheduler and the `async def`  *)
(* handlers run on one event loop and give way to each other only where    *)
(* they await.  The plain `def` handlers run in threads and interleave     *)
(* with everything.  Each opens a SQLAlchemy session: it reads rows, keeps *)
(* what it assigned, and writes the changed columns when it commits, one   *)
(* UPDATE ... WHERE id = ? per row.  A session is therefore a set of       *)
(* pending column writes, decided from what was read and applied later to  *)
(* whatever the rows have become.                                          *)
(*                                                                         *)
(* Time is counted in ticks: next_attempt_at and cooldown are the ticks    *)
(* left until that moment.                                                 *)
(***************************************************************************)
EXTENDS QueueOrder

CONSTANTS
    Videos,         \* row identities; a deleted row's identity is not reused
    NoVideo,        \* "no job"
    Handlers,       \* requests that can be in progress at once
    Fragments,      \* completed rows of older versions whose file is one stream
    Subscribed,     \* the rows of the subscription that may be deleted
    ScanWait,       \* ticks before a newly scanned video is due
    FailWait,       \* ticks before a failed attempt is due again
    AccessWait,     \* the same after a rate limit or an access refusal
    GapWait,        \* ticks between a success and the next download
    StorageWait,    \* ticks of cooldown when the share is not writable
    PromptHandlers, \* whether the scheduler's sleep outlasts every request
    SlowClock,      \* whether a tick outlasts the downloads of all rows that are due
    MaxCrashes,     \* bound: process restarts
    MaxLoopErrors   \* bound: exceptions that end a scheduler iteration

ASSUME VideosAssumption ==
    /\ IsFiniteSet(Videos)
    /\ NoVideo \notin Videos
    /\ Fragments \subseteq Videos
    /\ Subscribed \subseteq Videos

ASSUME WaitsAssumption ==
    /\ {ScanWait, FailWait, AccessWait, GapWait, StorageWait} \subseteq Nat \ {0}
    /\ {MaxCrashes, MaxLoopErrors} \subseteq Nat
    /\ {PromptHandlers, SlowClock} \subseteq BOOLEAN

VARIABLES
    status,            \* videos.status; ABSENT before insertion, DELETED after
    next_attempt_at,   \* videos.next_attempt_at
    queue_rank,        \* videos.queue_rank
    local_path,        \* videos.local_path: NULL, a media file, or one stream
    queue_paused,      \* app_state queue_paused
    cooldown,          \* app_state global_cooldown_until
    pc,                \* where the scheduler coroutine is
    job,               \* video_id inside run_one_download
    session,           \* pending writes of the scheduler's open session
    request,           \* handler -> its kind and pending writes
    crashes, loop_errors

rows  == <<status, next_attempt_at, queue_rank, local_path>>
state == <<queue_paused, cooldown>>
loop  == <<pc, job, session>>
bounds == <<crashes, loop_errors>>
vars  == <<rows, state, loop, request, bounds>>

IgnoredByScan == "IGNORED_BY_SCAN"  \* IGNORED_FILTER or IGNORED_INITIAL_HISTORY

Statuses == ActiveStatuses \union
    {"ABSENT", "COMPLETED", "EXPIRED", "IGNORED_MANUAL", IgnoredByScan, "DELETED"}

Exists(v) == status[v] \notin {"ABSENT", "DELETED"}

Rows(s) == {v \in Videos : status[v] \in s}

Active == Rows(ActiveStatuses)

-----------------------------------------------------------------------------
(* Sessions.  A column's pending writes are a partial function on videos.  *)

PartialFunction(f, T) == DOMAIN f \subseteq Videos /\ f \in [DOMAIN f -> T]

NoWrite == [v \in {} |-> 0]

NoWrites == [status |-> NoWrite, next_attempt_at |-> NoWrite,
             queue_rank |-> NoWrite, local_path |-> NoWrite, cooldown |-> 0]

Assign(S, x) == [v \in S |-> x]

(* An attribute set to the value it was read with is not part of the UPDATE. *)
Change(column, S, x) == Assign({v \in S : column[v] # x}, x)

Overwritten(column, writes) ==
    [v \in Videos |-> IF v \in DOMAIN writes THEN writes[v] ELSE column[v]]

(* The flush finds no row for an UPDATE: StaleDataError, and a rollback.   *)
Stale(writes) ==
    \E v \in DOMAIN writes.status \union DOMAIN writes.next_attempt_at
             \union DOMAIN writes.queue_rank : status[v] = "DELETED"

Flush(writes) ==
    /\ status' = Overwritten(status, writes.status)
    /\ next_attempt_at' = Overwritten(next_attempt_at, writes.next_attempt_at)
    /\ queue_rank' = Overwritten(queue_rank, writes.queue_rank)
    /\ local_path' = Overwritten(local_path, writes.local_path)
    /\ cooldown' = IF writes.cooldown = 0 THEN cooldown ELSE writes.cooldown

Idle == [kind |-> "idle", writes |-> NoWrites]

(* Where the scheduler awaits, so that other coroutines may run: asleep or *)
(* scanning, fetching metadata, downloading, tidying files, awaiting the   *)
(* database at startup.                                                    *)
AwaitPoints == {"sleep", "inspect", "transfer", "tidy", "boot"}

(* Where run_one_download is at work on a job.                             *)
WithJob == {"inspect", "prepare", "adopt", "claim",
            "claimed", "transfer", "complete", "fail"}

(* Where it holds a claimed row: from the UPDATE of claim_download to the   *)
(* commit of the outcome.                                                  *)
Holding == {"claimed", "transfer", "complete", "fail"}

(* A coroutine handler between its read and its commit holds the loop.     *)
LoopIsFree == \A h \in Handlers : request[h].kind # "coroutine"

Init ==
    /\ status = [v \in Videos |-> IF v \in Fragments THEN "COMPLETED" ELSE "ABSENT"]
    /\ next_attempt_at = [v \in Videos |-> NoTime]
    /\ queue_rank = [v \in Videos |-> 0]
    /\ local_path = [v \in Videos |-> IF v \in Fragments THEN "stream" ELSE "none"]
    /\ queue_paused = FALSE
    /\ cooldown = 0
    /\ pc = "boot"
    /\ job = NoVideo
    /\ session = NoWrites
    /\ request = [h \in Handlers |-> Idle]
    /\ crashes = 0
    /\ loop_errors = 0

-----------------------------------------------------------------------------
(* Startup, crashes and errors.                                            *)

(* Faulty variant: a restart goes straight to the loop.                    *)
RecoverReadNothing ==
    /\ pc = "boot" /\ LoopIsFree
    /\ pc' = "sleep" /\ session' = NoWrites
    /\ UNCHANGED <<rows, state, job, request, bounds>>

(* Faulty variant: the interrupted rows are marked and not made due.       *)
RecoverReadWithoutDueTime ==
    /\ pc = "boot" /\ LoopIsFree
    /\ pc' = "recover"
    /\ session' = [NoWrites EXCEPT
           !.status = Assign(Rows({"DOWNLOADING"}), "FAILED_TEMPORARY")]
    /\ UNCHANGED <<rows, state, job, request, bounds>>

(* recover_interrupted_downloads, its read: what was downloading when the  *)
(* process ended is to be retried now.                                     *)
RecoverRead ==
    /\ pc = "boot" /\ LoopIsFree
    /\ LET interrupted == Rows({"DOWNLOADING"})
       IN  IF interrupted = {}
           THEN pc' = "sleep" /\ session' = NoWrites
           ELSE /\ pc' = "recover"
                /\ session' = [NoWrites EXCEPT
                       !.status = Assign(interrupted, "FAILED_TEMPORARY"),
                       !.next_attempt_at = Assign(interrupted, 0)]
    /\ UNCHANGED <<rows, state, job, request, bounds>>

(* Its commit.  wait_for_database tries the whole of it again on any error. *)
RecoverCommit ==
    /\ pc = "recover"
    /\ \/ ~Stale(session) /\ Flush(session) /\ pc' = "sleep"
       \/ Stale(session) /\ pc' = "boot" /\ UNCHANGED <<rows, cooldown>>
    /\ session' = NoWrites
    /\ job' = NoVideo
    /\ UNCHANGED <<queue_paused, request, bounds>>

(* The process ends: killed, or the task cancelled on shutdown, which      *)
(* `except Exception` does not catch.  Only the database survives.         *)
Crash ==
    /\ pc # "down" /\ crashes < MaxCrashes
    /\ pc' = "down" /\ job' = NoVideo /\ session' = NoWrites
    /\ request' = [h \in Handlers |-> Idle]
    /\ crashes' = crashes + 1
    /\ UNCHANGED <<rows, state, loop_errors>>

Restart ==
    /\ pc = "down" /\ pc' = "boot"
    /\ UNCHANGED <<rows, state, job, session, request, bounds>>

(* A database call, or anything else outside the try of run_one_download,  *)
(* raises: scheduler_loop prints it and starts over after a sleep.         *)
LoopError ==
    /\ pc \notin {"down", "transfer", "boot", "recover"}
    /\ LoopIsFree /\ loop_errors < MaxLoopErrors
    /\ pc' = "sleep" /\ job' = NoVideo /\ session' = NoWrites
    /\ loop_errors' = loop_errors + 1
    /\ UNCHANGED <<rows, state, request, crashes>>

(* Faulty variant: a session whose commit failed is kept and tried again.  *)
LoopCommitUntilItWorks(from, to) ==
    /\ pc = from
    /\ \/ ~Stale(session) /\ Flush(session) /\ pc' = to
          /\ session' = NoWrites /\ job' = NoVideo
       \/ Stale(session) /\ UNCHANGED <<rows, cooldown, loop>>
    /\ UNCHANGED <<queue_paused, request, bounds>>

(* A session of the scheduler commits and the coroutine goes on, or the    *)
(* commit is stale and ends the iteration like any other exception.        *)
LoopCommit(from, to) ==
    /\ pc = from
    /\ \/ ~Stale(session) /\ Flush(session) /\ pc' = to
       \/ Stale(session) /\ pc' = "sleep" /\ UNCHANGED <<rows, cooldown>>
    /\ session' = NoWrites
    /\ job' = NoVideo
    /\ UNCHANGED <<queue_paused, request, bounds>>

-----------------------------------------------------------------------------
(* One iteration of scheduler_loop.                                        *)

(* The end of the sleep of SCHEDULER_SLEEP_SECONDS (30), which a request   *)
(* that commits within milliseconds does not outlast.                      *)
SleepEnds == PromptHandlers => \A h \in Handlers : request[h].kind = "idle"

(* Faulty variant: the path is cleared and the status left COMPLETED.      *)
ReleaseReadPathOnly ==
    /\ pc = "sleep" /\ LoopIsFree /\ SleepEnds
    /\ pc' = "release"
    /\ LET streams == {v \in Rows({"COMPLETED"}) : local_path[v] = "stream"}
       IN  session' = [NoWrites EXCEPT
               !.next_attempt_at = Assign(streams, 0),
               !.local_path = Assign(streams, "none")]
    /\ UNCHANGED <<rows, state, job, request, bounds>>

(* release_fragment_completions, its read.                                 *)
ReleaseRead ==
    /\ pc = "sleep" /\ LoopIsFree /\ SleepEnds
    /\ pc' = "release"
    /\ LET streams == {v \in Rows({"COMPLETED"}) : local_path[v] = "stream"}
       IN  session' = [NoWrites EXCEPT
               !.status = Assign(streams, "QUEUED"),
               !.next_attempt_at = Assign(streams, 0),
               !.local_path = Assign(streams, "none")]
    /\ UNCHANGED <<rows, state, job, request, bounds>>

ReleaseCommit == LoopCommit("release", "pick")

Due == {v \in Rows(RunnableStatuses) : next_attempt_at[v] = 0}

(* Faulty variant: the pause is not read.                                  *)
MayDownloadPaused == cooldown = 0 /\ Due # {}

MayDownload == cooldown = 0 /\ ~queue_paused /\ Due # {}

PickNothing ==
    /\ pc = "pick" /\ ~MayDownload
    /\ pc' = "tidy"
    /\ UNCHANGED <<rows, state, job, session, request, bounds>>

(* The share is not writable: a cooldown instead of a download.            *)
StorageFails ==
    /\ pc = "pick" /\ MayDownload
    /\ pc' = "tidy" /\ cooldown' = StorageWait
    /\ UNCHANGED <<rows, queue_paused, job, session, request, bounds>>

PickJob ==
    /\ pc = "pick" /\ MayDownload
    /\ \E v \in Due :
          /\ \A w \in Due : queue_rank[v] <= queue_rank[w]
          /\ job' = v
    /\ pc' = "inspect"
    /\ UNCHANGED <<rows, state, session, request, bounds>>

(* Faulty variant: a job that is gone is dropped, and the function goes on. *)
GiveUpJobWithoutReturn == UNCHANGED pc /\ job' = NoVideo /\ UNCHANGED session

(* run_one_download returns to scheduler_loop without a further commit.    *)
GiveUpJob == pc' = "tidy" /\ job' = NoVideo /\ UNCHANGED session

(* After the metadata await the row is read again.                         *)
Recheck ==
    /\ pc = "inspect" /\ LoopIsFree
    /\ IF status[job] \in RunnableStatuses
       THEN pc' = "prepare" /\ UNCHANGED <<job, session>>
       ELSE GiveUpJob
    /\ UNCHANGED <<rows, state, request, bounds>>

(* adopt_existing_download finds no file of this video in the share.       *)
FindNoFile ==
    /\ pc = "prepare"
    /\ pc' = "claim"
    /\ UNCHANGED <<rows, state, job, session, request, bounds>>

(* It finds one: the row is read once more and completed without transfer. *)
AdoptRead ==
    /\ pc = "prepare"
    /\ IF status[job] \in RunnableStatuses
       THEN /\ pc' = "adopt"
            /\ session' = [NoWrites EXCEPT
                   !.status = Assign({job}, "COMPLETED"),
                   !.local_path = Assign({job}, "media")]
            /\ UNCHANGED job
       ELSE GiveUpJob
    /\ UNCHANGED <<rows, state, request, bounds>>

AdoptCommit == LoopCommit("adopt", "gap")

(* Faulty variant: the UPDATE filters on the id alone.                     *)
ClaimUnguarded ==
    /\ pc = "claim"
    /\ status' = [status EXCEPT ![job] = "DOWNLOADING"]
    /\ next_attempt_at' = [next_attempt_at EXCEPT ![job] = NoTime]
    /\ pc' = "claimed"
    /\ UNCHANGED <<queue_rank, local_path, state, job, session, request, bounds>>

(* claim_download: one UPDATE guarded by the status, committed at once.    *)
Claim ==
    /\ pc = "claim"
    /\ \/ /\ status[job] \in RunnableStatuses
          /\ status' = [status EXCEPT ![job] = "DOWNLOADING"]
          /\ next_attempt_at' = [next_attempt_at EXCEPT ![job] = NoTime]
          /\ pc' = "claimed"
          /\ UNCHANGED <<job, session>>
       \/ /\ status[job] \notin RunnableStatuses
          /\ GiveUpJob
          /\ UNCHANGED <<status, next_attempt_at>>
    /\ UNCHANGED <<queue_rank, local_path, state, request, bounds>>

(* ... and the row read back after the commit.                             *)
ConfirmClaim ==
    /\ pc = "claimed"
    /\ IF status[job] = "DOWNLOADING"
       THEN pc' = "transfer" /\ UNCHANGED <<job, session>>
       ELSE GiveUpJob
    /\ UNCHANGED <<rows, state, request, bounds>>

(* download_with_vpn has returned and the row is still there: the outcome  *)
(* is assigned to it, whatever its status has become.                      *)
TransferSucceeds ==
    /\ pc = "transfer" /\ LoopIsFree /\ Exists(job)
    /\ pc' = "complete"
    /\ session' = [NoWrites EXCEPT
           !.status = Change(status, {job}, "COMPLETED"),
           !.local_path = Assign({job}, "media")]
    /\ UNCHANGED <<rows, state, job, request, bounds>>

(* Faulty variant: the retry is scheduled and the status left DOWNLOADING. *)
TransferFailsUnmarked(wait, pause) ==
    /\ pc = "transfer" /\ LoopIsFree /\ Exists(job)
    /\ pc' = "fail"
    /\ session' = [NoWrites EXCEPT !.next_attempt_at = Assign({job}, wait),
                                   !.cooldown = pause]
    /\ UNCHANGED <<rows, state, job, request, bounds>>

(* Faulty variant: a failed row is marked and no retry scheduled.          *)
TransferFailsForGood(wait, pause) ==
    /\ pc = "transfer" /\ LoopIsFree /\ Exists(job)
    /\ pc' = "fail"
    /\ session' = [NoWrites EXCEPT
           !.status = Change(status, {job}, "FAILED_TEMPORARY"),
           !.cooldown = pause]
    /\ UNCHANGED <<rows, state, job, request, bounds>>

(* A failure, or an exception; after a rate limit or an access refusal the *)
(* whole queue cools down until the same moment.                           *)
TransferFails(wait, pause) ==
    /\ pc = "transfer" /\ LoopIsFree /\ Exists(job)
    /\ pc' = "fail"
    /\ session' = [NoWrites EXCEPT
           !.status = Change(status, {job}, "FAILED_TEMPORARY"),
           !.next_attempt_at = Assign({job}, wait),
           !.cooldown = pause]
    /\ UNCHANGED <<rows, state, job, request, bounds>>

(* Faulty variant: a failed row is due again at once.                      *)
TransferFailsAndIsDue == TransferFails(0, 0)

TransferFailsTemporarily == TransferFails(FailWait, 0)

TransferIsRefused == TransferFails(AccessWait, AccessWait)

(* The row was deleted during the transfer.                                *)
TransferOrphaned ==
    /\ pc = "transfer" /\ LoopIsFree /\ ~Exists(job)
    /\ GiveUpJob
    /\ UNCHANGED <<rows, state, request, bounds>>

CompleteCommit == LoopCommit("complete", "gap")

FailCommit == LoopCommit("fail", "tidy")

(* The gap after a success is a session of its own.                        *)
StartGap ==
    /\ pc = "gap"
    /\ pc' = "tidy" /\ cooldown' = GapWait
    /\ UNCHANGED <<rows, queue_paused, job, session, request, bounds>>

(* Faulty variant: the file goes and the row stays COMPLETED.              *)
RetentionReadPathOnly ==
    /\ pc = "tidy" /\ LoopIsFree
    /\ pc' = "retain"
    /\ \E overdue \in SUBSET Rows({"COMPLETED"}) :
          session' = [NoWrites EXCEPT !.local_path = Assign(overdue, "none")]
    /\ UNCHANGED <<rows, state, job, request, bounds>>

(* apply_retention, its read: some completed rows are past their retention *)
(* and their files go; the rows are marked in one commit afterwards.       *)
RetentionRead ==
    /\ pc = "tidy" /\ LoopIsFree
    /\ pc' = "retain"
    /\ \E overdue \in SUBSET Rows({"COMPLETED"}) :
          session' = [NoWrites EXCEPT
              !.status = Assign(overdue, "EXPIRED"),
              !.local_path = Assign(overdue, "none")]
    /\ UNCHANGED <<rows, state, job, request, bounds>>

RetentionCommit == LoopCommit("retain", "sleep")

LoopStep ==
    \/ RecoverRead \/ RecoverCommit
    \/ ReleaseRead \/ ReleaseCommit
    \/ PickNothing \/ StorageFails \/ PickJob
    \/ Recheck \/ FindNoFile \/ AdoptRead \/ AdoptCommit
    \/ Claim \/ ConfirmClaim
    \/ TransferSucceeds \/ TransferFailsTemporarily \/ TransferIsRefused
    \/ TransferOrphaned \/ CompleteCommit \/ FailCommit \/ StartGap
    \/ RetentionRead \/ RetentionCommit

-----------------------------------------------------------------------------
(* HTTP handlers.  Open(h, kind, w): handler h has read, decided on the    *)
(* writes w and not yet committed.  A refusal changes nothing and is not a *)
(* step.                                                                   *)

Open(h, kind, writes) ==
    /\ request[h] = Idle /\ pc # "down"
    /\ kind = "coroutine" => pc \in AwaitPoints /\ LoopIsFree
    /\ request' = [request EXCEPT ![h] = [kind |-> kind, writes |-> writes]]

(* _renumber: only the rows whose rank changes are written.                *)
RankChanges(listing, rank) ==
    LET after   == Renumbered(listing, rank)
        changed == {v \in Videos : after[v] # rank[v]}
    IN  [v \in changed |-> after[v]]

(* retry_now on v: always a new due time, the status only when it was      *)
(* another one, and the ranks of the listing with v first.                 *)
RetryWrites(v, statusWrites, listing, rank) ==
    [NoWrites EXCEPT
        !.status = statusWrites,
        !.next_attempt_at = Assign({v}, 0),
        !.queue_rank = RankChanges(listing, rank)]

WithFirst(v) ==
    RetryListings(Active \ {v}, v, Rows({"DOWNLOADING"}), queue_rank, next_attempt_at)

(* RETRY NOW is a thread; DOWNLOAD and a repeated one-off are coroutines.  *)
RetryNow(h, v) ==
    /\ Exists(v) /\ status[v] # "DOWNLOADING"
    /\ \E kind \in {"thread", "coroutine"}, listing \in WithFirst(v) :
          Open(h, kind,
               RetryWrites(v, Change(status, {v}, "QUEUED"), listing, queue_rank))
    /\ UNCHANGED <<rows, state, loop, bounds>>

(* A new one-off, in no subscription: inserted at the end of the queue and *)
(* committed, then retry_now, whose commit is still to come.               *)
AddOneOff(h, v) ==
    /\ v \notin Subscribed /\ status[v] = "ABSENT"
    /\ status' = [status EXCEPT ![v] = "QUEUED"]
    /\ next_attempt_at' = [next_attempt_at EXCEPT ![v] = 0]
    /\ \E rank \in NextRanks(Active, queue_rank) :
          queue_rank' = [queue_rank EXCEPT ![v] = rank]
    /\ \E listing \in WithFirst(v) :
          Open(h, "coroutine", RetryWrites(v, NoWrite, listing, queue_rank'))
    /\ UNCHANGED <<local_path, state, loop, bounds>>

PauseItem(h, v) ==
    /\ status[v] \in RunnableStatuses
    /\ Open(h, "thread", [NoWrites EXCEPT !.status = Assign({v}, "PAUSED")])
    /\ UNCHANGED <<rows, state, loop, bounds>>

(* Faulty variant: a resumed row keeps the due time it has, NULL included.  *)
ResumeItemAsItIs(h, v) ==
    /\ status[v] = "PAUSED"
    /\ Open(h, "thread", [NoWrites EXCEPT !.status = Assign({v}, "QUEUED")])
    /\ UNCHANGED <<rows, state, loop, bounds>>

ResumeItem(h, v) ==
    /\ status[v] = "PAUSED"
    /\ Open(h, "thread", [NoWrites EXCEPT
          !.status = Assign({v}, "QUEUED"),
          !.next_attempt_at =
              Assign({u \in {v} : next_attempt_at[u] = NoTime}, 0)])
    /\ UNCHANGED <<rows, state, loop, bounds>>

IgnoreWrites(v) ==
    [NoWrites EXCEPT !.status = Change(status, {v}, "IGNORED_MANUAL")]

(* DELETE on the queue page refuses a row that downloads ...               *)
DeleteFromQueue(h, v) ==
    /\ Exists(v) /\ status[v] # "DOWNLOADING"
    /\ Open(h, "thread", IgnoreWrites(v))
    /\ UNCHANGED <<rows, state, loop, bounds>>

(* ... and IGNORE on the subscription page does not.                       *)
IgnoreVideo(h, v) ==
    /\ Exists(v)
    /\ Open(h, "thread", IgnoreWrites(v))
    /\ UNCHANGED <<rows, state, loop, bounds>>

MoveItem(h, v) ==
    /\ v \in Active
    /\ \E listing \in Listings(Active, queue_rank, next_attempt_at),
          delta \in {-1, 1} :
            /\ CanMove(listing, v, delta)
            /\ Open(h, "thread", [NoWrites EXCEPT
                  !.queue_rank =
                      RankChanges(Moved(listing, v, delta), queue_rank)])
    /\ UNCHANGED <<rows, state, loop, bounds>>

CommitRequest(h) ==
    /\ request[h] # Idle
    /\ LET writes == request[h].writes
       IN  \/ ~Stale(writes) /\ Flush(writes)
           \/ Stale(writes) /\ UNCHANGED <<rows, cooldown>>
    /\ request' = [request EXCEPT ![h] = Idle]
    /\ UNCHANGED <<queue_paused, loop, bounds>>

(* queue_pause and queue_resume.                                           *)
SetQueuePaused ==
    /\ pc # "down"
    /\ queue_paused' \in BOOLEAN \ {queue_paused}
    /\ UNCHANGED <<rows, cooldown, loop, request, bounds>>

(* delete_subscription: its rows go with it, the one downloading included. *)
DeleteSubscription ==
    /\ pc # "down"
    /\ LET gone == {v \in Subscribed : Exists(v)}
       IN  /\ gone # {}
           /\ status' = Overwritten(status, Assign(gone, "DELETED"))
           /\ next_attempt_at' = Overwritten(next_attempt_at, Assign(gone, NoTime))
           /\ queue_rank' = Overwritten(queue_rank, Assign(gone, 0))
           /\ local_path' = Overwritten(local_path, Assign(gone, "none"))
    /\ UNCHANGED <<state, loop, request, bounds>>

(* The insert session of a scan, by the scheduler or by SCAN NOW: new rows *)
(* are queued, due a little later, behind the queue, or are ignored, as    *)
(* history, by a filter or, when the future is not watched, manually.      *)
ScanInserts ==
    /\ pc \in AwaitPoints /\ LoopIsFree
    /\ \E queued, filtered, unwatched \in SUBSET Rows({"ABSENT"}) :
          /\ queued = {} \/ unwatched = {}
          /\ (queued \union unwatched) \intersect filtered = {}
          /\ queued \union filtered \union unwatched # {}
          /\ status' = Overwritten(Overwritten(Overwritten(
                           status, Assign(queued, "QUEUED")),
                           Assign(filtered, IgnoredByScan)),
                           Assign(unwatched, "IGNORED_MANUAL"))
          /\ next_attempt_at' = Overwritten(next_attempt_at, Assign(queued, ScanWait))
          /\ \E rank \in NextRanks(Active, queue_rank),
                order \in Listings(queued, queue_rank, next_attempt_at) :
                queue_rank' = [v \in Videos |->
                    IF InListing(order, v) THEN rank + Position(order, v) - 1
                    ELSE queue_rank[v]]
    /\ UNCHANGED <<local_path, state, loop, request, bounds>>

(* A tick: hours, against the instants the commits above take.  With       *)
(* SlowClock it also waits for the rows that are due.                      *)
Elapsed(t) == IF t > 0 THEN t - 1 ELSE t

Tick ==
    /\ pc \in AwaitPoints \union {"down"}
    /\ cooldown > 0 \/ \E v \in Videos : next_attempt_at[v] > 0
    /\ SlowClock => ~MayDownload
    /\ cooldown' = Elapsed(cooldown)
    /\ next_attempt_at' = [v \in Videos |-> Elapsed(next_attempt_at[v])]
    /\ UNCHANGED <<status, queue_rank, local_path, queue_paused, loop, request, bounds>>

HandlerStep(h) ==
    \/ CommitRequest(h)
    \/ \E v \in Videos :
          \/ RetryNow(h, v) \/ AddOneOff(h, v) \/ PauseItem(h, v)
          \/ ResumeItem(h, v) \/ DeleteFromQueue(h, v) \/ IgnoreVideo(h, v)
          \/ MoveItem(h, v)

Next ==
    \/ LoopStep
    \/ \E h \in Handlers : HandlerStep(h)
    \/ SetQueuePaused \/ DeleteSubscription \/ ScanInserts
    \/ LoopError \/ Crash \/ Restart \/ Tick

Spec == Init /\ [][Next]_vars

(* The event loop serves ready coroutines in turn, so the scheduler is not *)
(* overtaken for ever; a request and a restarted process run on; a         *)
(* transfer ends, if only by its four-hour timeout; time passes.           *)
Fairness ==
    /\ SF_vars(LoopStep)
    /\ \A h \in Handlers : WF_vars(CommitRequest(h))
    /\ WF_vars(Restart)
    /\ SF_vars(Tick)

FairSpec == Spec /\ Fairness

-----------------------------------------------------------------------------
(* Invariants.                                                             *)

AssignedStatuses == Statuses \ {"ABSENT", "DOWNLOADING", "DELETED"}

IsSession(writes) ==
    /\ PartialFunction(writes.status, AssignedStatuses)
    /\ PartialFunction(writes.next_attempt_at, Nat)
    /\ PartialFunction(writes.queue_rank, Nat)
    /\ PartialFunction(writes.local_path, {"none", "media"})
    /\ writes.cooldown \in Nat

StoredTypes ==
    /\ status \in [Videos -> Statuses]
    /\ next_attempt_at \in [Videos -> Nat \union {NoTime}]
    /\ queue_rank \in [Videos -> Nat]
    /\ local_path \in [Videos -> {"none", "media", "stream"}]
    /\ cooldown \in Nat
    /\ queue_paused \in BOOLEAN

LoopTypes ==
    /\ pc \in AwaitPoints \union
          {"down", "recover", "release", "pick", "prepare", "adopt", "claim",
           "claimed", "complete", "fail", "gap", "retain"}
    /\ job \in Videos \union {NoVideo}
    /\ pc \in WithJob => job \in Videos
    /\ IsSession(session)

RequestTypes ==
    /\ request = [h \in Handlers |-> request[h]]
    /\ \A h \in Handlers : /\ request[h].kind \in {"idle", "thread", "coroutine"}
                          /\ IsSession(request[h].writes)

(* Every variable has its type; run_one_download has a job; no session     *)
(* ever assigns DOWNLOADING, which only claim_download's UPDATE writes.    *)
TypeOK ==
    /\ StoredTypes
    /\ LoopTypes
    /\ RequestTypes
    /\ crashes \in Nat /\ loop_errors \in Nat

(* "one active download at a time" (README.md:13): whatever the handlers   *)
(* commit in between and however often the process restarts, at most one   *)
(* row is DOWNLOADING.                                                     *)
OneActiveDownload ==
    \A v, w \in Rows({"DOWNLOADING"}) : v = w

(* A row of a completed video names its file: none of the sessions that    *)
(* clear local_path or that complete a row can tear the pair apart, in any *)
(* order of commits with the handlers' sessions.                           *)
CompletedHasFile ==
    \A v \in Rows({"COMPLETED"}) : local_path[v] # "none"

(* A runnable row has a due time.  claim_download clears it, and a row     *)
(* that became runnable again without one would never be picked: the       *)
(* query compares NULL with now.                                           *)
RunnableHasDueTime ==
    \A v \in Rows(RunnableStatuses) : next_attempt_at[v] # NoTime

(* Why one download is active.  Outside a start, a row that is DOWNLOADING *)
(* is the job held by the scheduler; the recovery's session covers every   *)
(* such row, the outcome's session its job, and touches no other.  It      *)
(* holds as long as no exception ends an iteration (MaxLoopErrors = 0).    *)
DownloadingIsHeld ==
    \A v \in Rows({"DOWNLOADING"}) :
        pc \in {"down", "boot", "recover"} \/ (pc \in Holding /\ v = job)

RecoveryCoversAll ==
    pc = "recover" => Rows({"DOWNLOADING"}) \subseteq DOMAIN session.status

OutcomeCoversJob ==
    pc \in {"complete", "fail"} =>
        /\ status[job] = "DOWNLOADING" => job \in DOMAIN session.status
        /\ DOMAIN session.status \union DOMAIN session.next_attempt_at
              \union DOMAIN session.queue_rank \subseteq {job}

SerialInv ==
    OneActiveDownload /\ DownloadingIsHeld /\ RecoveryCoversAll /\ OutcomeCoversJob

(* Writes that complete a row name its file, and writes that clear a path  *)
(* also take the row out of COMPLETED.                                     *)
KeepsFiles(writes) ==
    \A v \in Videos :
        /\ (v \in DOMAIN writes.status /\ writes.status[v] = "COMPLETED") =>
              (v \in DOMAIN writes.local_path /\ writes.local_path[v] = "media")
        /\ (v \in DOMAIN writes.local_path /\ writes.local_path[v] = "none") =>
              (v \in DOMAIN writes.status /\ writes.status[v] # "COMPLETED")

(* Why a completed row has its file: every session that is waiting to be   *)
(* committed keeps the two columns together, whatever it was decided from. *)
FileInv ==
    /\ CompletedHasFile
    /\ KeepsFiles(session)
    /\ \A h \in Handlers : KeepsFiles(request[h].writes)

(* Writes that make v runnable and rely on the due time it has: those of a *)
(* resume that read the row paused with one.                               *)
ReliesOnDueTime(writes, v) ==
    /\ v \in DOMAIN writes.status /\ writes.status[v] \in RunnableStatuses
    /\ v \notin DOMAIN writes.next_attempt_at

(* From the end of the sleep to the claim, the step that clears a due time. *)
BeforeClaim == {"release", "pick", "inspect", "prepare", "claim"}

(* Why a runnable row has a due time: only a resume relies on the one it   *)
(* read, and as long as it is open the row has it, and stays paused while  *)
(* the scheduler may come to a claim.                                      *)
DueInv ==
    /\ RunnableHasDueTime
    /\ \A v \in Videos :
          /\ local_path[v] # "stream"
          /\ ~ReliesOnDueTime(session, v)
    /\ pc = "release" => DOMAIN session.status = {}
    /\ \A h \in Handlers, v \in Videos :
          ReliesOnDueTime(request[h].writes, v) /\ status[v] # "DELETED" =>
              /\ next_attempt_at[v] # NoTime
              /\ pc \in BeforeClaim => status[v] = "PAUSED"

(* No other request is about to change the status of a row that an open    *)
(* resume puts back with the due time it has.                              *)
ResumesAreAlone ==
    \A g, h \in Handlers, v \in Videos :
        ReliesOnDueTime(request[h].writes, v) /\ g # h =>
            v \notin DOMAIN request[g].writes.status

-----------------------------------------------------------------------------
(* What a step may not do.                                                 *)

(* A row becomes runnable without a due time, and so is never picked       *)
(* again, only by the commit of a resume that found it with one, and none  *)
(* of the other writers of status can do it, however they overlap.         *)
OnlyResumesLoseDueTime ==
    [][\A v \in Videos :
         /\ status'[v] \in RunnableStatuses /\ next_attempt_at'[v] = NoTime
         /\ ~(status[v] \in RunnableStatuses /\ next_attempt_at[v] = NoTime)
         => \E h \in Handlers : /\ ReliesOnDueTime(request[h].writes, v)
                               /\ request'[h] = Idle]_vars

StartsDownload(v) == status[v] # "DOWNLOADING" /\ status'[v] = "DOWNLOADING"

(* A download starts from a row that is runnable at that moment, although  *)
(* the job was picked and checked several sessions earlier and a handler   *)
(* may have paused, ignored or deleted it since.                           *)
DownloadsStartRunnable ==
    [][\A v \in Videos : StartsDownload(v) => status[v] \in RunnableStatuses]_vars

(* "The catalogue row stays, marked EXPIRED, so the video is not           *)
(* downloaded again" (README.md:35): only a user's request puts an expired *)
(* row back to work.                                                       *)
ExpiredStaysExpired ==
    [][\A v \in Rows({"EXPIRED"}) :
         \/ status'[v] \in {"EXPIRED", "DELETED"}
         \/ \E h \in Handlers : /\ request[h].kind # "idle"
                                /\ v \in DOMAIN request[h].writes.status
                                /\ request'[h] = Idle]_vars

(* A video removed from the queue or ignored stays so until the user asks  *)
(* for it (app/templates/queue.html:69, "Remove this from the queue? The   *)
(* catalogue row stays."; tests/test_queue_controls.py:101).               *)
IgnoredStaysIgnored ==
    [][\A v \in Rows({"IGNORED_MANUAL"}) :
         \/ status'[v] \in {"IGNORED_MANUAL", "DELETED"}
         \/ \E h \in Handlers : /\ request[h].kind # "idle"
                                /\ v \in DOMAIN request[h].writes.status
                                /\ request'[h] = Idle]_vars

-----------------------------------------------------------------------------
(* Liveness, under Fairness.                                               *)

(* A download that started ends: with an outcome, or by the recovery at    *)
(* the next start.  An exception may strand it.                            *)
DownloadsEnd ==
    \A v \in Videos :
        status[v] = "DOWNLOADING" ~> status[v] # "DOWNLOADING" \/ loop_errors > 0

(* A row that waits for its download is tried, whatever rows are ahead of  *)
(* it and however often they fail, if a row that fails waits longer than   *)
(* the rows that are due take (SlowClock), and unless the queue is paused, *)
(* the share or the disk is away, or VK refuses, again and again: the row  *)
(* that was refused is due the moment the cooldown ends, and the first.    *)
WaitingRowsAreTried ==
    /\ <>[]~queue_paused
    /\ <>[][~StorageFails /\ ~TransferIsRefused]_vars
    => \A v \in Videos : status[v] \in RunnableStatuses ~> status[v] \notin RunnableStatuses

(* The scheduler keeps looking for work: no commit of a handler, deleted   *)
(* row or restart leaves it stuck.                                         *)
SchedulerKeepsLooking == []<>(pc = "pick")
=============================================================================
