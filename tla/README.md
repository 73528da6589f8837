# vkget in TLA+

vkget keeps a catalogue of videos in MariaDB, scans subscriptions for new ones
and downloads them one after the other with yt-dlp, directly or through a VPN
tunnel that a second container holds. This directory has TLA+ specifications of
its concurrent core, TLC configurations that check them on small instances, and
proofs, checked by TLAPS, of what matters most.

Paths below are relative to the repository's `src/`.

## 1. Inventory of the system

One Python process runs a FastAPI application on one asyncio event loop.
`_lifespan` (`app/main.py:90`) starts a background task, `_run_background`
(131-138): wait for the database, recover interrupted downloads, then
`scheduler_loop` for ever. `async def` handlers run on the same loop and give
way only where they await; plain `def` handlers run in a pool of threads and
interleave with everything. All of them meet in the database, through SQLAlchemy
sessions that read rows, keep what was assigned, and write the changed columns
at commit.

| Component | State it keeps | Operations | Correct when |
|---|---|---|---|
| Download queue, `app/queue.py` | `videos.status`, `next_attempt_at`, `queue_rank`; `app_state.queue_paused` | move, retry now, pause, resume, delete, pause the queue, next rank | a decision taken on an old row does no harm when it is committed; the order of the rows is the user's |
| Download iteration, `app/scheduler.py` | the coroutine's position, its job, its open session; `videos.local_path`, `app_state.global_cooldown_until` | recover, release fragments, pick, recheck, adopt, claim, transfer, write the outcome, gap, retention | one download at a time, only of a runnable row, ends with an outcome, survives restarts |
| Scans, `app/scheduler.py`, `app/filters.py` | `subscriptions.*`, new rows of `videos`, a lock per subscription | list, decide per entry, insert, schedule the next check | history is not downloaded, a new video is, each once |
| Subscriptions, `app/main.py`, `app/db.py` | `subscriptions`, the unique source key | create, edit, delete, backfill of the keys | one subscription per source |
| Catalogue of files, `app/ytdlp.py`, `app/retention.py`, `app/scheduler.py` | the share; `local_path`, `completed_at` | adopt, rename, sweep, expire | a completed row names a file that exists |
| VPN routing, `app/vpn/runtime.py`, `manager.py`, `status.py` | the chosen profile, the last result | connect, download, disconnect, mark, fall back | traffic meant for the tunnel goes through it or not at all |
| VPN profiles, `app/vpn/profiles.py`, `settings.py` | `vpn_profiles` with `is_default`, the selected id and settings in `app_state` | create, update, delete, use, mark | the two records of the selection agree, and the profile shown as selected is the one used |
| VPN gateway, `vpn-gateway/server.py` | one lock, one tunnel (process or interface), proxy, last error | connect, disconnect, status; one thread per request | at most one tunnel, nothing left behind by a failure |
| yt-dlp driver, `app/ytdlp.py` | a temporary directory and a file lock | attempts on two hosts, conversion, probing | a file is found under its final name only when it is complete |
| Database startup, `app/db.py` | the schema | retry until ready, add columns, backfill | runs to the end before anything else |
| Configuration parsing, pages, notifier, self check, geo lookup | none that others rely on | pure input and output | left to unit tests |

### How they interact

* Scheduler and handlers share rows and nothing else. The only guarded write is
  `claim_download` (`UPDATE ... WHERE status IN (...)`); everything else is
  read, assign, commit, and the last commit wins, column by column.
* The scheduler calls `download_with_vpn`, which drives the gateway over HTTP;
  handlers on the VPN page drive the same gateway and are kept out by
  `download_in_progress`, a query for a DOWNLOADING row (`app/queue.py:90`).
* Retention, renames and adoption change the share first and the row after, or
  the other way round; there is no transaction over both.
* On shutdown the background task is cancelled; nothing but the database and the
  share survives, and `recover_interrupted_downloads` repairs the rows.

### What is hard to test

The list with a line for each is `hazards` in `PROJECT.json`. In short: a
session's read and commit lie several awaits apart (stale state, lost updates); a
job is picked, checked, claimed and finished in six sessions, with a handler free
to pause, ignore, retry or delete it in every gap; a restart may fall between any
two of them, the recovery itself included; a failed commit ends an iteration
anywhere; `next_attempt_at` is NULL during a download and any path back that
forgets it makes a row no query finds; a VPN handler's check is stale once it
awaits; the gateway may finish what its client has given up on; the selected VPN profile is
recorded twice and moved in two commits.

## 2. The modules

| Module | What it is |
|---|---|
| `QueueOrder` | pure operators of `app/queue.py`: the listing, moves, retry to the front, the next rank |
| `DownloadQueue` | the state machine: rows, sessions, the download iteration, handlers, restarts |
| `QueuePause` | `DownloadQueue` with a history of its pause |
| `DownloadService` | the abstract specification: a serial service that marks one video active |
| `DownloadQueueRefinement` | `DownloadQueue` seen as a `DownloadService` |
| `DownloadQueueProofs` | type correctness of the queue, and its order under moves, retries and insertions |
| `DownloadQueueSafetyProofs` | its safety theorems |
| `DownloadServiceProofs` | the refinement theorem |
| `VpnGateway` | the gateway server: one lock, a thread per request, one tunnel |
| `VpnGatewayProofs` | type correctness, mutual exclusion, one recorded tunnel |
| `VpnRouting` | a download routed through the gateway, with the handlers of the VPN page: composes `VpnGateway` and `DownloadService` |
| `VpnRoutingProofs` | its types, no attempt without the proxy against the settings, the transfer's own tunnel, and that it implements `VpnGateway` and `DownloadService` |
| `VpnProfiles` | which profile is selected: the handlers of the VPN page as one or two commits each |
| `VpnProfilesProofs` | its types, the two records agree, the profile shown is the one used |
| `SubscriptionScan` | scans of subscriptions: the lock, the listing, decision and insert |
| `SubscriptionScanProofs` | type correctness, history before news, the first rows are the newest, what was seen is not new |
| `CatalogueFiles` | the files of a video beside its row: attempts, conversion, adoption, renames, the sweep, retention |
| `CatalogueFilesProofs` | type correctness, what completed rows name, missing files explained, none lost |
| `MCDownloadQueue`, `MCQueuePause`, `MCVpnGateway`, `MCVpnRouting`, `MCVpnProfiles`, `MCSubscriptionScan`, `MCCatalogueFiles` | instances for TLC |

How they fit together: `DownloadQueue` implements `DownloadService`, and `VpnRouting`
takes its downloads from `DownloadService` and its gateway from `VpnGateway`, so what it
shows of a transfer and the tunnel is about downloads as the queue runs them. Which profile
a download is given is `VpnProfiles`' matter: routing lets an enabled one be found or not, at any time.
`SubscriptionScan` decides the status of a new row; `DownloadQueue` goes on from there
(its `ScanInserts` is the queue's view of the same session). `CatalogueFiles` is what the
queue's model abstracts to a free choice: which file an adoption finds, how a transfer
ends, what retention deletes. Its view of the queue is in turn coarse, one step per
session, because what handlers do to a row in between is checked in `DownloadQueue`.

### The queue: state and code

| Variable | In the code |
|---|---|
| `status`, `next_attempt_at`, `queue_rank`, `local_path` | columns of `videos` (`app/models.py:127`). `local_path` is abstracted to none, a media file, or one elementary stream, the unmerged file an older version recorded as complete |
| `queue_paused`, `cooldown` | rows of `app_state` |
| `pc`, `job` | where the scheduler coroutine is, and `video_id` in `run_one_download` |
| `session` | what the scheduler's open SQLAlchemy session will write |
| `request` | per request: thread or coroutine, and what its session will write |
| `crashes`, `loop_errors` | counters that bound restarts and failed iterations |

A session is the central idea: a record of partial functions, one per column, from
videos to new values. It is computed when the code reads and assigns, and applied
by `Flush` when it commits, to whatever the rows have become; an attribute that is
assigned the value it was read with is not written (`Change`); an UPDATE of a row
that is gone raises `StaleDataError` and rolls back (`Stale`).

| Action | Code |
|---|---|
| `RecoverRead`, `RecoverCommit` | `recover_interrupted_downloads`, inside the retry of `wait_for_database` |
| `ReleaseRead`, `ReleaseCommit` | `release_fragment_completions` |
| `PickNothing`, `StorageFails`, `PickJob` | the start of `run_one_download`: cooldown, pause, the due row of least rank, the storage check |
| `Recheck` | the second read, after the metadata await |
| `FindNoFile`, `AdoptRead`, `AdoptCommit` | adoption of a file that is already in the share |
| `Claim`, `ConfirmClaim` | `claim_download`: the guarded UPDATE with its commit, then the read back |
| `TransferSucceeds`, `TransferFailsTemporarily`, `TransferIsRefused`, `TransferOrphaned` | the end of `download_with_vpn` and what is assigned for each result |
| `CompleteCommit`, `FailCommit`, `StartGap` | the commits after it, and the gap after a success |
| `RetentionRead`, `RetentionCommit` | `apply_retention` |
| `LoopError` | `except Exception` in `scheduler_loop` |
| `Crash`, `Restart` | the end of the process, a cancelled task included, and the next start |
| `RetryNow`, `AddOneOff`, `PauseItem`, `ResumeItem`, `DeleteFromQueue`, `IgnoreVideo`, `MoveItem`, then `CommitRequest` | the handlers of the queue and subscription pages, up to the commit, and the commit |
| `SetQueuePaused`, `DeleteSubscription`, `ScanInserts` | sessions taken as one step each |
| `Tick` | time passes: hours; with `SlowClock` not while a row is due and may be downloaded |

Where handlers may step follows from how they run. A thread may read and commit at
any moment. A coroutine handler reads and commits without an await in between, so
it starts only where the scheduler awaits (`AwaitPoints`) and, until it has
committed, neither the scheduler nor another coroutine takes a step that needs the
loop (`LoopIsFree`); threads still interleave with it.

### The queue: abstractions

* Time is counted in ticks: a due time is the number of ticks left, 0 when past,
  `NoTime` for NULL. Rows equal in rank and ticks are listed in either order; the
  code breaks that tie by the instant, then the id. The model so allows every
  order the code does.
* IGNORED_FILTER and IGNORED_INITIAL_HISTORY are one status, `IGNORED_BY_SCAN`.
* Left out: titles and other metadata, attempt counts, error texts, flash
  messages, notifications, the files themselves. Which completed rows are past
  their retention, whether the share is writable, whether a file is found to adopt
  and how a transfer ends are free choices.
* The metadata written after the second read is not represented, so the session
  that writes it is a read. `ScanInserts` and `DeleteSubscription` are one step
  each: the gaps of a scan are in `SubscriptionScan`.
* Commits overwrite: a session is not made to fail because a row changed since
  it was read. A server with `innodb_snapshot_isolation` refuses some of those
  commits; such a refusal is a failed commit, and removes behaviours from a
  session or ends an iteration as `LoopError` does.
* `retry_now` flushes implicitly when it reads the ranks and commits at once;
  the model opens the session at its first read and applies it at the commit.
* Shutdown cancels the scheduler's task at an await. `Crash` may happen anywhere,
  which includes it.

### What a DownloadService promises

Videos have a phase (none, waiting, active, idle, gone). A download begins on a
waiting video when none is active; it ends with the mark cleared, changing no
other video; an interruption may leave the mark, and the service does not run
again before it is cleared; nothing else, user, scan or retention, makes a video
active. `DownloadQueueRefinement` maps statuses to phases (QUEUED and
FAILED_TEMPORARY wait, DOWNLOADING is active), the held job to `current`, and
everything between the end of the recovery and the end of the process to `running`.

### The gateway: state and code

| `VpnGateway` | `vpn-gateway/server.py` |
|---|---|
| `lock` | `_lock`, by the call whose thread holds it |
| `call` | per HTTP request: its path, where its thread is, its result |
| `record` | `_state`: connected, type, the temporary directory, the process |
| `processes`, `interface` | what the operating system has: OpenVPN processes and wg0, each named after the call that began it |
| `Receive`, `Acquire`, `Respond` | `Handler.do_POST`, `with _lock`, the response |
| `Cleanup` | `_cleanup_locked` with `_terminate` and `_wg_down` |
| `Disconnect`, `ReplaceTunnel`, `Reject` | `disconnect`, `connect_request`, what `connect` refuses |
| `StartOpenvpn`, `OpenvpnIsReady`, `OpenvpnFails` | `_connect_openvpn`, `_wait_for_openvpn` |
| `StartWireguard`, `WireguardIsUp`, `WireguardFails` | `_connect_wireguard` |
| `OpenvpnExits`, `GatewayRestarts` | the environment |

`WgReliable` names an assumption: that `wg-quick down` works and a restart gives a new
network namespace. Without it the code itself leaves wg0 up (section 5). Configuration
texts, addresses and the proxy process are left out; `/status` changes nothing.

### Routing: state and code

| `VpnRouting` | `app/vpn/runtime.py`, `manager.py`, `app/main.py` |
|---|---|
| `phase`, `current`, `running` | of `DownloadService` |
| `route` | `download_with_vpn` for the current download: position, its call at the gateway, the fallback as read at the start, and what follows the disconnect |
| `visitor` | a handler of the VPN page: operation, position, its call |
| `enabled`, `fallback` | settings: the VPN is on, direct is allowed |
| `undisturbed` | a history variable: nothing of the VPN page was open as the download began, and since then its row has stayed active, the gateway has been up and the OpenVPN of its tunnel has not exited by itself |
| `permitted` | a history variable: at some time since the download began the settings allowed it to go direct |
| `ReadEnabled`, `ChooseProfile` | the two sessions before the first await: is the VPN on; which profile, and the fallback |
| `SendConnect`, `Connected`, `ConnectFails`, `ProxiedEnds`, `SendDisconnect`, `Closed`, `DirectEnds` | the steps of `download_with_vpn` between its awaits |
| `NotAnswered` | a client's error or timeout: the call goes on at the gateway without it |
| `Visit`, `VisitorSends`, `VisitorResumes` | the handlers DISABLE, DISCONNECT, DELETE, CONNECT and TEST: the question whether a download is in progress, then their gateway calls one by one |
| `ChooseSettings` | settings that are changed without the gateway |
| `BeginDownload`, `FinishDownload`, `InterruptDownload`, `ResumeDownloads`, `ManageDownloads` | the steps of `DownloadService` |

### Profiles: state and code

| `VpnProfiles` | `app/vpn/profiles.py`, `settings.py`, `app/main.py` |
|---|---|
| `row`, `enabled`, `default` | `vpn_profiles`: which rows there are, their `enabled` and `is_default` |
| `key` | `app_state`, the id of the selected profile |
| `request` | a handler: operation, position, the flags it loaded with its row, what its session will write |
| `fresh`, `disturbed` | history: whose load of the selection is still true; whether the selection was changed from a load that was not, or left between two commits |
| `CreateRow`, `CreateSelects` | `create_profile`: the row, then the selection, when asked for or nothing is selected |
| `LoadRow` | the row that an update or a deletion acts on, read before the form or the gateway is awaited |
| `UpdateRow`, `UpdateSelects` | `update_profile` up to its first commit; then the selection of the profile itself |
| `DeleteRow` | `delete_profile` up to its first commit |
| `SelectAnother`, `FindNoOther` | the second half of both: another enabled profile, or none |
| `UseProfile` | USE, in a thread, and CONNECT |
| `Selected`, `CommitSelection`, `CommitNone` | `set_selected_profile` and its commit: flags and key that differ from what was loaded |
| `Abandon` | an exception, or the end of the process, at any point |
| `InUse` | `selected_profile`: what a download is given |

Sessions do not expire what they have loaded (`app/db.py:22`) and a SELECT does not
overwrite it, so `set_selected_profile` compares with the flag of its own profile as it was
first loaded, and with every other as it is now (`Flagged`). The handlers that are coroutines
hold the loop from their last await on (`LoopIsFree`); USE runs in a thread. Left out:
names, configurations, the counters of success and failure.

### Scans: state and code

| `SubscriptionScan` | `app/scheduler.py`, `app/main.py` |
|---|---|
| `sub` | `subscriptions`: present, `enabled`, `watch_future`, due |
| `row` | `videos`: the subscription that owns the row and the status it was inserted with |
| `listed` | the platform: the videos that each playlist has by now |
| `seen` | history: the videos of the listings that the scans of a subscription have dealt with to the end |
| `scanner` | each coroutine that scans: position, subscription, `initial`, the listing, the decisions |
| `iterating`, `plan` | whether the scheduler's iteration has read `due_ids`, and those it has yet to scan |
| `Begin`, `ListPlaylist`, `ListFails`, `Decide`, `Insert`, `ScanRaises` | `scan_subscription` from the lock to the second commit, and its exceptions |
| `PickDue`, `StartNext`, `DownloadsTurn` | `scheduler_loop`: the query, the scans, then the download and the file work behind them |
| `AddSubscription`, `ScanNow`, `UpdateProfile`, `DeleteSubscription`, `AddOneOff` | the handlers |
| `EnterPlaylist`, `FallsDue`, `Restart` | the environment |

A row stands for the decision it was inserted with: what the queue makes of it is
`DownloadQueue`'s. Filters are a free choice of the entries they refuse.
A listing has any part of the playlist, as entries without an id or an address are
skipped and a playlist changes between two scans; a video comes to a playlist at any time, however
old it is. The numbers of videos stand for `entry_recency_key` (`app/scheduler.py:87`), which
mixes timestamps and dates and puts last what has neither: where the properties say "newest",
they say it of that key.

### Files: state and code

| `CatalogueFiles` | `app/ytdlp.py`, `app/scheduler.py`, `app/retention.py` |
|---|---|
| `disk` | the share, per video and name: yt-dlp's parts, the bare `[id].mp4`, the `[id].temp.mp4` of its ffmpeg, the name with and without a date, `.compat.mp4`; each absent, empty, cut, halfway, a video as it was sent, or one for the TV |
| `status`, `local_path`, `past` | the row, and whether its retention is over |
| `pc`, `job`, `file`, `tries`, `new_path`, `chosen` | the coroutine between two awaits or sessions, with what it read before |
| `settled` | `_rename_settled`, which a restart forgets |
| `AdoptNamed`, `AdoptBare`, `FindNothing`, `AdoptCommit` | `adopt_existing_download` and its session |
| `Claim`, `AttemptFails`, `AttemptSucceeds`, `AttemptFindsFile`, `TryNext` | `download_video`: the leftovers it clears, each candidate's outcome, the next one |
| `Place`, `NeedNotConvert`, `Convert`, `Converted`, `ConvertFails` | `_finish`: `place_downloaded_file`, `ensure_tv_compatible` |
| `Finish` | the session that writes the outcome |
| `RenameNothing`, `RenamePick`, `RenameFile`, `RenameCommit` | `rename_one_completed_file` |
| `SweepRead`, `SweepParts` | `sweep_orphan_partials`, `remove_orphan_partials` |
| `RetentionReleases`, `RetentionCommit` | `apply_retention`: the files of all expired rows, then one commit |
| `Recover`, `Crash` | start and end of the process |
| `ChangeRow`, `DeleteRow`, `AddRow`, `Age` | requests, scans, the passing of a retention period |

Files are told apart by what the code tells them apart by: the name's form, and whether
the size is 0. "Cut" and "halfway" mark what is not fully written, which the code
never sees: it has to know it from the name. "Halfway" is what yt-dlp's ffmpeg had
written when it was stopped, apart from "cut" because it may lie under a name that the code
takes for a finished one (finding 4). A yt-dlp that fails or is stopped leaves parts, an empty or a
halfway file, a whole file that nobody reports, or nothing; one that succeeds has put a whole
file under the bare name, and has remuxed to mp4 as it is told to. The share is taken to be writable once `storage_ok` found it so, but
for a move that fails. An exception that ends an iteration of the loop, and commits that
overwrite a request, are in `DownloadQueue`.

## 3. The runs

| Run | Configuration | Checks | Result |
|---|---|---|---|
| `queue` | 2 videos (one in a subscription that may be deleted), 1 prompt request at a time, 1 restart | `TypeOK`, `OneActiveDownload`, `SerialInv`, `RunnableHasDueTime`, `DueInv`, `ServiceSpec` | hold, 1.3 million states |
| `two_handlers` | 1 video of a subscription, a completed single stream at the start; 2 requests at once that may take any time, 1 restart, 1 failed iteration, deletion | `FileInv`, `CompletedHasFile`, `DownloadsStartRunnable`, `ExpiredStaysExpired`, `OnlyResumesLoseDueTime` | hold, 0.6 million states |
| `backlog` | 2 videos, no request but the pause, refusals that cool the queue down for 2 ticks, `SlowClock`, 1 restart, 1 failed iteration; with fairness | `NoStartOncePaused`, `DownloadsEnd`, `WaitingRowsAreTried`, `SchedulerKeepsLooking` | hold |
| `loop_error` | 2 videos, 1 failed iteration | `OneActiveDownload` | **violated**, see findings |
| `ignored` | 1 video | `IgnoredStaysIgnored` | **violated** |
| `gateway` | 3 requests, 1 container restart, `WgReliable`, with fairness | `GatewayTypeOK`, `TunnelIsRecorded`, `OneTunnel`, `RecordInv`, `CallsAreAnswered` | hold |
| `vpn_routing` | 1 video, 1 handler, 2 calls at the gateway, `WgReliable`, with fairness | `RoutingTypeOK`, `UndisturbedHasItsTunnel`, `NeverDirectWhenForbidden`, `DownloadsFinish` | hold, 0.6 million states |
| `profiles` | 3 profiles, 2 requests | `TypeOK`, `SelectionAgrees`, `ShownIsUsed` | hold, 0.2 million states up to symmetry |
| `scan` | 1 subscription, 2 videos, last 1; listings cut short, 1 exception, 1 restart, deletion; with fairness | `TypeOK`, `HistoryComesFirst`, `FirstRowsAreLastN`, `SeenIsNotNew`, `VideosAreFound`, `DownloadsGetTheirTurn` | hold, 0.1 million states |
| `files` | 1 video that an older version downloaded, 2 candidates, 2 ends of the process, with fairness | `TypeOK`, `CompletedIsWholeOrHalfway`, `MissingIsExplained`, `FilesInv`, `VideoIsKept`, `PartsAreSwept` | hold, 1.0 million states |
| `files_halfway` | 1 new video, 1 candidate, no end of the process | `CompletedIsWhole` | **violated** |
| `files_for_tv` | 1 new video, 2 candidates, no end of the process | `CompletedIsForTheTV` | **violated** |

The queue:

* `OneActiveDownload`: at most one row is DOWNLOADING. Two ways to break it are
  excluded only by the code's order of steps: a stale session that writes
  DOWNLOADING (none does: only the guarded UPDATE), and a claim while an old mark
  stands (recovery before the loop, an outcome for every transfer).
* `CompletedHasFile`: seven sessions touch the pair (`status`, `local_path`) and
  commit in any order.
* `DownloadsStartRunnable`: the job was picked and rechecked sessions ago.
* `ExpiredStaysExpired`: "so the video is not downloaded again" (`README.md:35`).
  A late write of a user's own request is the only way out of EXPIRED.
* `RunnableHasDueTime`: a runnable row with NULL for a due time is never picked; `DueInv`
  is why there is none. `OnlyResumesLoseDueTime`: when there is one after all, in the
  run with two overlapping requests, a resume that relied on an old read has left it.
* `ServiceSpec`: the refinement of `DownloadService`.
* `DownloadsEnd`: a started download ends, whatever commits fail as rows are deleted
  under them, or an iteration has failed, which is finding 1. `SchedulerKeepsLooking`:
  the scheduler comes back to picking even so.
* `NoStartOncePaused`: the pause is read at the pick and the claim may follow minutes later.
  The download that was being prepared when PAUSE was pressed may begin; none does after
  it until RESUME, through retries, new rows, exceptions and restarts.
* `WaitingRowsAreTried`: a failed row keeps its rank and stays at the head of the queue. The
  rows behind it get their turn all the same, because a failed row is not due again before
  the others that are due have been tried. `SlowClock` is that premise: `retry_time` waits
  from half an hour to 14 hours, downloads mostly take minutes. Rows
  whose downloads fail after hours may starve one behind them: with a clock that ticks during
  a transfer the property fails for three rows. Nor does it hold while every attempt is refused: the cooldown ends
  when the refused row falls due, and the head is tried again (`retry_time`,
  `set_global_cooldown` with the same instant). The property says so in its premise.
* `SerialInv` and `FileInv` are the inductive invariants that the proofs use.

The VPN:

* `TunnelIsRecorded`, `OneTunnel`: whatever runs is in the record, so the next clean-up
  finds it, and there are never two tunnels, although connections fail half way, are
  replaced, and their clients leave. `RecordInv` is the strengthening the proof uses.
* `CallsAreAnswered`: no request waits for the lock for ever.
* `NeverDirectWhenForbidden`: an attempt without the proxy was allowed by the settings at some
  time since the download began. Whoever has the VPN on and the fallback off from before sees
  none, whatever fails or times out. It says nothing of where the proxy sends the traffic: the
  proxy stays up without a tunnel (`vpn-gateway/entrypoint.sh`), so a transfer through it that
  has lost its tunnel goes on untunnelled (section 5). That is the next property's matter.
* `UndisturbedHasItsTunnel`: from the answer to its own /connect to the end of the
  transfer, the process or the interface which that call began is there, and the gateway's record
  names it. The premises are that the handlers' question was asked after the download began and got
  the right answer, and that OpenVPN did not exit by itself: nothing that the application or the
  gateway's threads do takes a tunnel from a transfer. Without the premises it is
  `TransferHasItsTunnel`, which the code does not give (section 5).
* `DownloadsFinish`: a download ends although nothing at all is assumed of the gateway.

Profiles:

* `SelectionAgrees`: the key and the flags name the same profile between requests ("only one
  selected profile", `tests/test_vpn.py:136`), unless a request changed them from a load that
  another overtook, or ended between its two commits, and no request has selected since.
* `ShownIsUsed`: the profile the page marks SELECTED (`app/templates/vpn.html:79`) is the one
  downloads are given, and none is when it is disabled, whatever sequence of requests came before.

Scans:

* `HistoryComesFirst`: once a subscription has a row, no scan of it writes off what it
  finds as initial history, whichever scan came first, failed, or was cut short.
* `FirstRowsAreLastN`: the first insert queues at most N, and the newest by
  `entry_recency_key` (`README.md:8`).
* `SeenIsNotNew`: "future discovery with remembered history" (`README.md:9`). What a scan of a
  subscription has dealt with, as history or otherwise, no later scan of it gives a row
  to. The rows are the only memory, so it is said while no subscription has been
  deleted. It does not say that what is queued later is new in time: later scans compare no
  dates (`app/scheduler.py:490-549`), and an old video that comes to a playlist late is queued.
* `VideosAreFound`: through failed and partial listings, an exception and a restart,
  every listed video of a subscription that stays enabled gets its row.
* `DownloadsGetTheirTurn`: the download comes after the scans in each iteration, waits for
  their locks and is skipped when one raises; it still gets its turn again and again while
  finitely many scans raise. A subscription whose scan raised each time would stay due,
  end every iteration and let no download begin: the bound on exceptions is that premise.

Files:

* `CompletedIsWholeOrHalfway`: the file that a completed row names is never empty, a part, or what
  a stopped conversion left, wherever a download or the process ended. It may be what
  yt-dlp's ffmpeg had written when it was stopped: `CompletedIsWhole`, which excludes that, is
  finding 4.
* `MissingIsExplained`: when it is gone, its retention is over or the video lies there
  under another name: no crash between a file and its row loses what is saved.
* `VideoIsKept`: no step but retention takes a video's last whole file away, unless a
  halfway file is there that is taken for the better one. Placing,
  adopting and renaming all delete one of two files in some case, and have to keep
  the right one after any history of crashes.
* `PartsAreSwept`: parts that no row may resume go in the end, although the sweep does
  nothing while any row is DOWNLOADING, and a crash may leave one so.
* `FilesInv` is the inductive invariant that the proofs use.

Every property has a mutant in `PROJECT.json`: a bug one could plausibly write, under
which the same run fails. The faulty variants are marked so in the modules and no
action uses them.

### Bounds, and why they are enough

Queue. Two videos are what exclusion needs (one that is downloading and one that is
claimed) and what an order needs to be wrong. The hazards on a single row need that row,
the scheduler and one or two requests whose sessions overlap it; a third would only
write a column that one of the two has written already. One restart reaches the
recovery with any row state and sessions open; a second restart during the recovery
finds the state a first would. Waits of one and two ticks tell "due together" from
"due later". `MaxLoopErrors = 0` in the runs where serial downloads are claimed is not
a convenience but the finding below. The proofs lift the bounds on videos,
requests, restarts and waits for the safety properties.

`PromptHandlers = TRUE` in `queue` is an assumption on timing: a request that read
its row before the scheduler went to sleep for 30 seconds has committed when it wakes.
Without it a "resume" that read a due time, and then stays open while the row is
retried, claimed and fails, may commit last and leave a runnable row without one;
the same is possible with two such requests. Requests take milliseconds, so the
assumption is what the code relies on, and the constant names it. Only
`RunnableHasDueTime` and its `DueInv` need it: the other properties of that run are
proved without it, and `OnlyResumesLoseDueTime` says of slow requests that only a resume
does this.
The single stream of an older version is in `two_handlers` only. With one in `queue`,
`RunnableHasDueTime` fails even for prompt requests: while the session that releases the
stream is open, a retry, a pause and a resume of that row each commit, and the release
commits last, over what they wrote.

Gateway. Three requests are one inside the lock and two that compete for it, and the
tunnels they leave are told apart. The theorems lift the number. Routing has the
download's own call and one other, which is all that can be at the gateway while both
the download and one handler await an answer, or a call that was given up and the one
that follows it. Without free calls a client can only fail, which is one of its choices
anyway. The container does not restart in `vpn_routing`: a restart ends
`undisturbed`, and what it does to the gateway is in `gateway`.

Profiles. A selection that moves needs the old profile and the new one, and a third is what
a disabled or deleted one is replaced by, or another request selects. Two requests overlap in
every way a pair can; the theorems are for any number of both. Identities are used up, so the run
comes to an end and is not checked for deadlock.

The backlog has no requests: what they do to one row is in `two_handlers`, and starvation
needs a head and a row behind it: as no tick falls while a row is due, each row ahead is tried once
and then waits, so more of them add nothing (three rows give the same). A refusal waits two ticks and a failure one, so that a row that
failed falls due while another waits out a refusal.

Files. The name of each file holds the id of its video, and the functions that look for
files look for that id, so videos do not meet and one suffices; the sweep's and
retention's loops over rows act on each apart, but for the commit they share, which
`RetentionCommit` keeps. Two candidates are one that fails and one that follows. Two
ends of the process are one that leaves something behind and one during what was done about it.

Scans. Initial history needs an old and a new video, and so does a memory that
a later scan may not go by; the lock needs the scheduler and one request.
`PickLimit` is the code's 3 and does not bind with one subscription. A second subscription, with
which the first one's scans race for the rows of shared videos, makes the instance too large to
finish in minutes (over 7 million states); the theorems are for any number of subscriptions with any
videos in common.

### Fairness

Queue: `LoopStep` is strongly fair: it is disabled while a coroutine handler holds the
loop, each time for one commit, and the event loop serves ready callbacks in turn.
`CommitRequest` and `Restart` are weakly fair: a request runs to its end, the
container is restarted by its supervisor. `Tick` is strongly fair: time passes, although
with `SlowClock` it waits for the rows that are due. A transfer ends because yt-dlp
is run with a timeout (four hours per attempt). Nothing is assumed about users,
scans, or which outcome a transfer has: a row is promised its turn, not its file.

Gateway: threads run (weak), and the lock is handed on without starvation (strong on
`Acquire`, since it is enabled only now and then). OpenVPN prints something or exits in
the end: this is where the gateway's blocking `readline` enters, see section 5.

Routing: only the application's own steps are weakly fair, since each of its waits
has a timeout. Neither the gateway nor any handler has to take a step.

Scans: coroutines run and the scheduler goes on, to the downloads' turn included (weak); due times pass (weak);
an asyncio lock is served in order, so the scheduler's scan of a subscription gets it
(strong); and a playlist that is listed again and again is listed completely now and
then (strong), which is the one assumption on the platform.

Files: the coroutine goes on (weak): yt-dlp, ffmpeg and ffprobe are run with timeouts. No
request, and no particular outcome, is assumed.

None of the systems but the profiles' instance ever has to stop, and the runs check for deadlock.

## 4. The proofs

The theorems on the queue are for any finite set of videos, any set of requests, any
waits, and any number of restarts; they assume `VideosAssumption` and `WaitsAssumption`
of `DownloadQueue` and nothing else, but where the table says so; those on its order are
about any state of the right types, and about the writes of one request that no other
commit disturbs. Those on the gateway are
for any set of requests and any number of restarts (`GatewayAssumption`), those on scans
for any subscriptions, playlists, values of N, requests, exceptions and restarts
(`ScanAssumption`), those on profiles for any profiles and requests (`ProfilesAssumption`), those on
routing for any videos, handlers and calls, and those on files for any videos, candidates and ends of the process
(`FilesAssumption`).

| Theorem | States | Argument |
|---|---|---|
| `TypeCorrect` | `Spec => []TypeOK` | inductive as it stands, because `TypeOK` also types what sessions will write: none assigns DOWNLOADING, ABSENT or DELETED |
| `DownloadsStartFromRunnable` | `Spec => DownloadsStartRunnable` | type correctness excludes commits as a way to start a download; the claim has its guard |
| `DownloadsAreSerial` | `Spec => [](loop_errors = 0 => SerialInv)` | `SerialInv` is the strengthening, see below |
| `OneDownloadAtATime` | `Spec => [](loop_errors = 0 => OneActiveDownload)` | from `DownloadsAreSerial` |
| `CompletedRowsHaveFiles` | `Spec => []CompletedHasFile` | `FileInv`: every pending session keeps the two columns together |
| `FilesStayNamed` | `Spec => []FileInv` | the strengthening itself, for every open session |
| `ExpiredRowsStay` | `Spec => ExpiredStaysExpired` | no session of the scheduler covers an expired row with another status: recovery, release and outcome write rows of theirs only |
| `PausedQueueStartsNothing` | `PauseSpec => NoStartOncePaused` | once settled, the scheduler holds no job, and only `PickJob`, which reads the pause, gives it one |
| `ResumesAloneLoseDueTimes` | `Spec => OnlyResumesLoseDueTime` | every other session that makes a row runnable sets its due time, and what clears one writes another status |
| `RunnableRowsAreDue` | with `PromptHandlers` and no fragments, `Spec /\ []ResumesAreAlone => [](DueInv /\ RunnableHasDueTime)` | `DueInv`, see below |
| `RunnableRowsAreDueOneByOne` | the same for one request at a time, `Spec => []RunnableHasDueTime` | a resume is then alone |
| `TheQueueHasAnOrder` | `TypeOK` implies that the queue has a listing, as it is and with any row first, and that `NextRanks` has one member, above every rank in use | see below |
| `MovesExchangeNeighbours` | after an undisturbed move the queue has one listing: the old one with two neighbours exchanged; moving back restores it | `RenumberedIsListed`, see below |
| `RetriesGoFirst` | after an undisturbed retry the row is behind what downloads and ahead of what waits, and the others keep their order | the same lemma |
| `NewRowsGoLast` | a scan and a one-off append behind every row of the queue | from `TheQueueHasAnOrder` |
| `TheFirstDueRowIsPicked` | `PickJob` takes the row that every listing shows first of those due, its rank's ties excepted | a listing follows the ranks |
| `QueueIsSerialService` | with `MaxLoopErrors = 0`, `Spec => ServiceSpec` | `SerialInv` gives each guard of `DownloadService` |
| `GatewayTypeCorrect` | `GatewaySpec => []GatewayTypeOK` | inductive as it stands: the conjunct that ties a thread inside to the lock is mutual exclusion |
| `GatewayForgetsNothing` | with `WgReliable`, `GatewaySpec => []TunnelIsRecorded` | with `RecordInv`, see below |
| `GatewayHasOneTunnel` | with `WgReliable`, `GatewaySpec => []OneTunnel` | from the same invariant: the record has one type |
| `GatewayRecordIsExact` | with `WgReliable`, `GatewaySpec => []RecordInv` | the strengthening itself |
| `RoutingTypeCorrect` | `Spec => []RoutingTypeOK` of `VpnRouting` | with `CallsAreNamed`: whoever waits names its call, so the gateway sees only its own steps |
| `NoUnwantedDirectDownload` | `Spec => []NeverDirectWhenForbidden` | a route that may still go direct has read a setting that allowed it |
| `UndisturbedTransfersAreTunnelled` | with `WgReliable`, `Spec => []UndisturbedHasItsTunnel` | see below |
| `RoutingUsesTheGateway` | `Spec => GatewaySpec` | each step of the application is one request, one response or nothing to the gateway |
| `TheGatewayInUseHasOneTunnel` | with `WgReliable`, `Spec => [](TunnelIsRecorded /\ OneTunnel)` of `VpnRouting` | from the gateway's theorems, through `RoutingUsesTheGateway` |
| `RoutingIsADownloadService` | `Spec => Download!Spec` | only a download's begin, its end and the environment touch the service's variables |
| `ServicesAreSerial` | `Download!Spec => []OnlyCurrentIsActive` | inductive as it stands; with `QueueIsSerialService` it holds of the queue |
| `ProfilesInvariant` | `Spec => [](TypeOK /\ ProfilesInv)` of `VpnProfiles` | see below |
| `TheSelectionAgrees`, `ShownProfileIsUsed` | `Spec => []SelectionAgrees`, `Spec => []ShownIsUsed` | from `ProfilesInv` |
| `ScanTypeCorrect` | `Spec => []TypeOK` of `SubscriptionScan` | `TypeInv`: what is scanned or planned exists or existed; the lock gives one scan each |
| `HistoryIsFirst` | `Spec => HistoryComesFirst` | `HistoryInv`, see below |
| `FirstRowsAreNewest` | `Spec => FirstRowsAreLastN` | `FirstRowsInv`, see below |
| `SeenStaysSeen` | `Spec => SeenIsNotNew` | `SeenInv`, see below |
| `FilesTypeCorrect` | `Spec => []TypeOK` of `CatalogueFiles` | inductive as it stands: a step that works on a video, or on its file, has one |
| `FilesInvariant` | `Spec => []FilesInv` | the strengthening, see below |
| `CompletedFilesAreFinished`, `MissingFilesAreExplained` | `Spec => []CompletedIsWholeOrHalfway`, `Spec => []MissingIsExplained` | from `FilesInv` |
| `VideosAreKept` | `Spec => VideoIsKept` | every step from a state with `FilesInv`; `PlacingKeepsIt` for the three steps that move a file |

`OneActiveDownload` is not inductive. What makes it so is `SerialInv`: a DOWNLOADING row
is the job the scheduler holds, unless the process is down or starting
(`DownloadingIsHeld`); the recovery's session covers every such row
(`RecoveryCoversAll`), although rows may be deleted while it is open; the outcome's
session covers the job if it is still DOWNLOADING, and touches no other row
(`OutcomeCoversJob`). Without the second part a recovery could leave a mark, without
the third an outcome could.

`CompletedHasFile` needs that a pending write of COMPLETED comes with a path and a
pending write that clears a path comes with another status (`KeepsFiles`), for every
open session at once: then no order of commits separates them.

`RunnableHasDueTime` is a matter of sessions that meet. All of the scheduler's sessions, a
retry and an insertion write a due time beside the runnable status; a resume does so only
if it read none, and otherwise relies on the row (`ReliesOnDueTime`). `DueInv` says that as
long as such a resume is open its row has a due time, and is still paused while the scheduler is
between the end of its sleep and the claim, the one step that clears a due time
(`BeforeClaim`). A request that outlasts the sleep would break the second part
(`PromptHandlers`), a release of a single stream the first (`Fragments = {}`), and so
would another request that puts the same row back meanwhile (`ResumesAreAlone`): without any
one of the three TLC finds `RunnableHasDueTime` violated. The theorem is therefore
about behaviours in which no request is about to change the status of a row that
another one resumes; how many requests there are, and what else they do, is free.

The order of the queue is proved without induction, by counting. A finite set with a strict order
can be listed because the number of elements before each one is a bijection
(`OrderedSetsCanBeListed`); the rows have such an order once ties are broken by anything.
A renumbered listing is the only one afterwards because a strictly increasing sequence
of n positions among n is 1, ..., n (`IncreasingPositions`, the pigeonhole principle from both
ends). What overlapping requests make of the ranks is not covered: commits write only the ranks
they changed, and `TheFirstDueRowIsPicked` excepts the ties that this can leave.

`TunnelIsRecorded` is kept by a step that begins a tunnel only if there is none, which
`RecordInv` says: the record is empty where a thread is about to begin one, and names
that thread's own process or interface afterwards. Mutual exclusion, from
`GatewayTypeOK`, keeps the other threads away from the record meanwhile.

`HistoryComesFirst` relates a decision to the rows at a later insert. `HistoryInv`
carries it over the awaits: a pending decision of initial history belongs to a scan that
found no row of its subscription, and none has come since, for only the scan that holds
the lock inserts rows for a subscription. That needs one scan each, and that the first
scan of a new subscription has the lock from the creation on.

`FirstRowsAreLastN` is about a set that the filters cut down and the insert cuts again.
`FirstRowsInv` carries the decision over the awaits: while a subscription has no row, a scan of
it that has decided took for history exactly what is not `Newest` in its listing, since it
was initial, and a subscription that has rows keeps one while it exists (`OwnRowsStay`). The
number of newer entries tells the `Newest` apart and is below N (`OlderHasMoreNewer`,
`NewestAreFew`), so there are at most N of them; the rest is older (`NewestAreNewest`).

`SeenIsNotNew` says of a video that an earlier scan has dealt with that it has a row already:
an insert gives none to what has one. `SeenInv` says so of all that has been seen, and, of a scan
that has decided, that each video of its listing has a row or is about to get one
(`CoversListing`). Rows stay while no subscription is deleted (`RowsStay`), which carries both
over the awaits, and keeps two subscriptions that race for the same videos from opening a gap.

`UndisturbedHasItsTunnel` needs that while a download is undisturbed no call but its own is at the
gateway: nothing was open as it began (`AllIdle`), and every handler that asks meanwhile is
refused because the row is active. Until its own /connect there is no other call, so the
record that call leaves is the one it has at its response, and what it began is up
(`OwnCallOnly`, with `RecordInv` for the steps before its result). Afterwards only a clean-up
could take it down, which needs another call, or an exit of this call's OpenVPN, which ends
`undisturbed`.

`ProfilesInv` says of each fresh request that the selection is exactly as it loaded it, that
a request between its two commits has taken the flag away and holds the loop, and that the
two records agree unless disturbed or torn. Without the middle part a thread's USE could not
be told from a selection that heals what another request left.

`CompletedIsWholeOrHalfway` says something of rows that are completed now; a crash, an adoption or a
late retry may complete a row with any file found under a finished name. `FilesInv`
therefore says of the files by a title, and of the temp file, what they may be whatever
their row is (`NamedAreTaken`), the same of the file in the coroutine's hand
(`InHandIsTaken`), and that the bare file, which yt-dlp may leave empty, is not that of a
completed row while it tries (`DownloadIsOpen`): no request can complete a row.
`CompletedIsThere` is what remains of `MissingIsExplained` when it is made inductive. What
placing does with two names is one lemma for its three users (`PlacedAs`, `PlacingKeepsIt`): the file
is under the name that is returned, and a whole one goes only where a saved one stays.

Only model-checked: the liveness properties (`DownloadsEnd`, `WaitingRowsAreTried`,
`SchedulerKeepsLooking`, `CallsAreAnswered`, `DownloadsFinish`, `VideosAreFound`,
`DownloadsGetTheirTurn`, `PartsAreSwept`), which need fairness and ENABLED and are out of the prover's
reach. Every invariant and every action property of a passing run is the statement of a theorem, under
the assumptions that the table names.

## 5. Findings

1. **A failed write of an outcome strands a row and allows two active downloads**
   (`loop_error`). `README.md:13`: "one active download at a time". The exception ends the
   iteration (`app/scheduler.py:1110-1118`), the row stays DOWNLOADING, recovery runs
   only at start, and the next iteration claims another row.
2. **A removal can be overwritten** (`ignored`). The sessions at
   `app/scheduler.py:802-814` and 876-928 assign a status decided from an earlier read.
3. **A file that was never converted is adopted as it is** (`files_for_tv`). `README.md:31`:
   "Files are remuxed or transcoded to a Samsung-safe MP4". `_finish`
   (`app/ytdlp.py:1764`) gives the download its final name before it is converted. When
   the conversion fails, or the process ends during it, the row is retried, and
   `adopt_existing_download` (`app/scheduler.py:794`) completes it with that file. So it does with
   a bare file that a yt-dlp left whole when it was stopped.
4. **A half-written file is adopted** (`files_halfway`). `app/ytdlp.py:626`: "A non-empty finished
   media file, not a temp, hidden file, or compat sidecar." yt-dlp's ffmpeg writes merges
   and fixups to `[id].temp.mp4`; a yt-dlp that is killed meanwhile (1063) leaves it.
   `is_partial_download` (446) does not match that name, `is_saved_media` accepts it, and as
   `is_bare_id_file` (617) rejects it, it counts as a named file. The row is retried,
   `adopt_existing_download` (707-715) completes it with that file, and unlinks a whole bare file
   beside it.

Seen while modelling, and without a run of their own:

* A handler can take the tunnel away from a transfer. The handlers ask
  `download_in_progress` (`app/main.py:697`, 716, 964, 984, 995, 1009, 1020) and then await the
  gateway; a download that begins in between connects, and the handler's /disconnect takes its
  tunnel down or its /connect replaces it. A row that is ignored while it downloads (538) hides
  the download from the same question. `TransferHasItsTunnel` fails in the `vpn_routing`
  instance; `README.md:92` promises the proxy "only while a tunnel is in use".
* It fails, too, when OpenVPN exits by itself during a transfer. The record still says connected;
  `/status` would say disconnected (`vpn-gateway/server.py:340-343`), but nothing asks it during a
  transfer, and the proxy goes on without the tunnel.
* A first scan without new rows leaves the next one initial: whether a scan is initial is told
  from the rows the subscription owns (`app/scheduler.py:477`). After a first scan of an empty
  playlist, or of videos that have rows from elsewhere, the next scan writes off what was
  published since, beyond the last N.
* Two requests that overlap on a paused row can leave it QUEUED without a due time, so that no
  query finds it until a user acts: a resume that reads a due time (`app/queue.py:143`) does
  not write one, and when another resume or a retry puts the row back first and the row is then
  claimed and paused again, or claimed and failed under the open request, the late commit relies on what is
  gone. `OnlyResumesLoseDueTime` shows that nothing else does this.
* `queue_paused` is read at `app/scheduler.py:719` and not again before the claim at 837, so a pause
  that commits during the metadata await does not hold that one download back
  (`NoStartOncePaused` shows that it is only that one); `tests/test_queue_controls.py:134` expects
  that a paused queue downloads nothing.
* Two overlapping USE requests, or one beside an update that has loaded its row, can leave two
  profiles marked selected, or the mark and the key apart, until the next selection; so can an
  end of the process between the two commits of a disabling or a deletion. `SelectionAgrees`
  excludes just these.
* Disabling the only enabled profile leaves none selected, and enabling another later selects
  none: downloads then go direct or fail, as the fallback says. A profile created disabled
  is selected when nothing else is.
* While every attempt is refused the head of the queue is the only row tried, see
  `WaitingRowsAreTried`; while a scan raises each time no download begins, see
  `DownloadsGetTheirTurn`.
* A `wg-quick down` that fails is ignored and its configuration deleted
  (`vpn-gateway/server.py:62-97`): with `WgReliable = FALSE`, `OneTunnel` fails in the
  `gateway` instance.
* `readline` (`vpn-gateway/server.py:120`) blocks on an OpenVPN process that prints nothing,
  so a connection may take longer than VPN_CONNECT_TIMEOUT, with the lock held.
* The rows of a deleted subscription may be the only memory another one has of the videos
  they share, which are then new to it: `SeenIsNotNew` is said while none has been deleted.
* An old video that is added to a playlist is queued as new, since only the first scan looks at
  dates (`app/scheduler.py:490-549`).
* A crash between `rename_one_completed_file`'s move and its commit leaves a row that names a
  missing file (`app/scheduler.py:1058-1074`). The video is there under its new name, but the
  row is settled as it is, and retention, which takes a missing file for one already
  released, expires the row and leaves the file for ever.
* `is_partial_download` (`app/ytdlp.py:446`) does not know `.compat.mp4`, so what ffmpeg
  leaves behind at a timeout or a crash is never swept; a later conversion of the same
  file overwrites it.

## 6. Not modelled

Parsing of VPN configurations, pages and forms, notifications, the self check,
the geo lookup, `config.py`, images and manifests: no state that another part relies
on, and unit tests reach them. `yt-dlp`, `ffmpeg`, MariaDB, SQLAlchemy and asyncio are
outside; what the code relies on in them is modelled (sessions, the loop, outcomes) and
marked external in `map`.

Of the parts that are modelled, these pieces are left out, each with its reason:

* The order of the queue over time. A user's order is kept by ranks that stale commits may
  overwrite, and a released fragment comes back with the rank it had long ago
  (`app/scheduler.py:972`). There is no promise in the code to state an abstract queue
  from: ties are broken by due times. What one operation does to the order is proved
  (`MovesExchangeNeighbours` and the theorems after it).
* The source key of a subscription, its backfill and the unique index (`app/db.py`): a
  transformation of texts that runs once, before anything else.
* What is remembered once a subscription that shared videos has been deleted
  (`app/main.py:468`): the model has the deletion, but `SeenIsNotNew` says nothing after it, and
  no weaker promise is made anywhere.
* The backoff after database errors, attempt counts and the lengths of waits: they change
  when an iteration comes, never what it does.
* How yt-dlp's hosts, formats and cookies are chosen, and the rate watch of the VPN: they
  decide which outcome an attempt has, and every outcome is allowed.
* The counters and times of VPN profiles, and what the status page shows of the gateway:
  nothing is decided from them.
