--------------------------- MODULE SubscriptionScan ---------------------------
(***************************************************************************)
(* Scans of subscriptions (src/app/scheduler.py, scan_subscription): the   *)
(* playlist is listed by a subprocess, one session decides what becomes of *)
(* each entry without a row, titles are looked up, and another session     *)
(* inserts the rows.  The scheduler scans what is due; a request scans a   *)
(* subscription it has just created, or one a user asks for.               *)
(*                                                                         *)
(* A row stands for the decision it was inserted with.  What the queue     *)
(* makes of it later is DownloadQueue's.  The numbers of videos stand for  *)
(* entry_recency_key, which mixes timestamps and dates and puts what has   *)
(* neither last; an old video may come to a playlist at any time.          *)
(***************************************************************************)
EXTENDS Integers, FiniteSets

CONSTANTS
    Subs, NoSub,
    MaxVideos,       \* bound: videos are 1..MaxVideos, in order of entry_recency_key
    Playlist,        \* subscription -> the videos that it ever lists
    LastN,           \* subscription -> initial_last_n
    Requests,        \* requests that scan, at once
    Scheduler,
    PickLimit,       \* subscriptions that one iteration scans
    MaxRaises,       \* bound: scans that end with an exception
    MaxRestarts      \* bound: restarts of the process

Videos   == 1..MaxVideos
Scanners == Requests \union {Scheduler}

ASSUME ScanAssumption ==
    /\ NoSub \notin Subs /\ Scheduler \notin Requests
    /\ {MaxVideos, PickLimit, MaxRaises, MaxRestarts} \subseteq Nat
    /\ Playlist \in [Subs -> SUBSET Videos]
    /\ LastN \in [Subs -> Nat]

VARIABLES
    sub,        \* subscription -> [state, enabled, watch_future, due]
    row,        \* video -> [owner, status]
    listed,     \* subscription -> the videos that its playlist has by now
    scanner,    \* scanner -> [pc, sub, initial, listing, decided]
    iterating,  \* whether the scheduler's loop is between two sleeps
    plan,       \* due_ids that the iteration has left
    raises, restarts,
    seen        \* history, no state of the program: subscription -> the videos
                \* of the listings that its scans have dealt with to the end

store == <<sub, row>>
loop  == <<iterating, plan>>
vars  == <<store, listed, scanner, loop, raises, restarts, seen>>

Statuses == {"QUEUED", "IGNORED_INITIAL_HISTORY", "IGNORED_FILTER", "IGNORED_MANUAL"}

NoRow  == [owner |-> NoSub, status |-> "NONE"]
NotYet == [state |-> "absent", enabled |-> FALSE, watch_future |-> FALSE,
           due |-> FALSE]
Idle   == [pc |-> "idle", sub |-> NoSub, initial |-> FALSE, listing |-> {}, decided |-> [v \in {} |-> "QUEUED"]]

Init ==
    /\ sub = [s \in Subs |-> NotYet]
    /\ row = [v \in Videos |-> NoRow]
    /\ listed \in [Subs -> SUBSET Videos] /\ \A s \in Subs : listed[s] \subseteq Playlist[s]
    /\ seen = [s \in Subs |-> {}]
    /\ scanner = [k \in Scanners |-> Idle]
    /\ iterating = FALSE /\ plan = {}
    /\ raises = 0 /\ restarts = 0

-----------------------------------------------------------------------------
(* What a scan decides.                                                    *)

Exists(s) == sub[s].state = "present"

Own(s) == {v \in Videos : row[v].owner = s}

(* Faulty variant: one too many.                                           *)
NewestAndOne(listing, n) ==
    {v \in listing : Cardinality({w \in listing : w > v}) <= n}

(* newest_initial_ids: entries that have a row already count.              *)
Newest(listing, n) ==
    {v \in listing : Cardinality({w \in listing : w > v}) < n}

(* A scan is initial while the subscription has no row of its own.         *)
IsInitial(k) == scanner[k].initial \/ Own(scanner[k].sub) = {}

(* The status of a new entry; rejected are those the filters refuse.       *)
Status(s, v, is_initial, listing, rejected) ==
    IF is_initial /\ v \notin Newest(listing, LastN[s])
    THEN "IGNORED_INITIAL_HISTORY"
    ELSE IF v \in rejected                     THEN "IGNORED_FILTER"
    ELSE IF ~is_initial /\ ~sub[s].watch_future THEN "IGNORED_MANUAL"
    ELSE "QUEUED"

(* Faulty variant: history is passed over and gets no rows.                *)
DecidedWithoutHistory(k, rejected) ==
    LET s == scanner[k].sub
        listing == scanner[k].listing
    IN [v \in {w \in listing : row[w] = NoRow
                  /\ Status(s, w, IsInitial(k), listing, rejected)
                        # "IGNORED_INITIAL_HISTORY"} |->
            Status(s, v, IsInitial(k), listing, rejected)]

(* The statuses of the entries that have no row.                           *)
Decided(k, rejected) ==
    LET s == scanner[k].sub
        listing == scanner[k].listing
    IN [v \in {w \in listing : row[w] = NoRow} |->
            Status(s, v, IsInitial(k), listing, rejected)]

-----------------------------------------------------------------------------
(* A scan.                                                                 *)

At(k, place) == scanner[k].pc = place

(* Where a scan holds the lock of its subscription.                        *)
Inside == {"listing", "deciding", "inspecting"}

IsInside(k) == scanner[k].pc \in Inside

(* _scan_lock                                                              *)
Locked(s) == \E k \in Scanners : IsInside(k) /\ scanner[k].sub = s

End(k) == scanner' = [scanner EXCEPT ![k] = Idle]

(* Faulty variant: a scan does not wait for another.                       *)
BeginUnlocked(k) ==
    /\ At(k, "waiting")
    /\ LET s == scanner[k].sub IN
         IF Exists(s) /\ sub[s].enabled
         THEN scanner' = [scanner EXCEPT ![k].pc = "listing"]
         ELSE End(k)
    /\ UNCHANGED <<store, listed, loop, raises, restarts, seen>>

(* Faulty variant: what shall not download later is not looked at either.  *)
BeginIfWatched(k) ==
    /\ At(k, "waiting") /\ ~Locked(scanner[k].sub)
    /\ LET s == scanner[k].sub IN
         IF Exists(s) /\ sub[s].enabled /\ sub[s].watch_future
         THEN scanner' = [scanner EXCEPT ![k].pc = "listing"]
         ELSE End(k)
    /\ UNCHANGED <<store, listed, loop, raises, restarts, seen>>

(* The subscription's lock, and the session that reads its address.        *)
Begin(k) ==
    /\ At(k, "waiting") /\ ~Locked(scanner[k].sub)
    /\ LET s == scanner[k].sub IN
         IF Exists(s) /\ sub[s].enabled
         THEN scanner' = [scanner EXCEPT ![k].pc = "listing"]
         ELSE End(k)
    /\ UNCHANGED <<store, listed, loop, raises, restarts, seen>>

(* inspect_playlist_flat.  An entry without an id or an address is skipped, *)
(* and an entry may be missing that was there before.                       *)
ListPlaylist(k) ==
    /\ At(k, "listing")
    /\ \E listing \in SUBSET listed[scanner[k].sub] :
          scanner' = [scanner EXCEPT ![k].pc = "deciding", ![k].listing = listing]
    /\ UNCHANGED <<store, listed, loop, raises, restarts, seen>>

(* It fails: the error is written and the next scan is hours away.         *)
ListFails(k) ==
    /\ At(k, "listing")
    /\ IF Exists(scanner[k].sub)
       THEN sub' = [sub EXCEPT ![scanner[k].sub].due = FALSE]
       ELSE UNCHANGED sub
    /\ End(k)
    /\ UNCHANGED <<row, listed, loop, raises, restarts, seen>>

(* The first session.  It does not look at `enabled` again.                *)
Decide(k) ==
    /\ At(k, "deciding")
    /\ IF Exists(scanner[k].sub)
       THEN \E rejected \in SUBSET scanner[k].listing :
              scanner' = [scanner EXCEPT ![k].pc = "inspecting",
                                         ![k].decided = Decided(k, rejected)]
       ELSE End(k)
    /\ UNCHANGED <<store, listed, loop, raises, restarts, seen>>

(* The second session, after the titles.  A video that got its row from    *)
(* another scan or a one-off in between is left as it is (IntegrityError). *)
Insert(k) ==
    /\ At(k, "inspecting")
    /\ LET s == scanner[k].sub
           decided == scanner[k].decided
       IN IF Exists(s)
          THEN /\ row' = [v \in Videos |->
                     IF v \in DOMAIN decided /\ row[v] = NoRow
                     THEN [owner |-> s, status |-> decided[v]]
                     ELSE row[v]]
               /\ sub' = [sub EXCEPT ![s].due = FALSE]
               /\ seen' = [seen EXCEPT ![s] = @ \union scanner[k].listing]
          ELSE UNCHANGED <<store, seen>>
    /\ End(k)
    /\ UNCHANGED <<listed, loop, raises, restarts>>

(* The scheduler gives up its iteration and sleeps.                        *)
GiveUp == iterating' = FALSE /\ plan' = {}

(* An exception of the database or of the code releases the lock; it ends  *)
(* the scheduler's iteration.                                              *)
ScanRaises(k) ==
    /\ IsInside(k)
    /\ raises < MaxRaises
    /\ raises' = raises + 1
    /\ End(k)
    /\ IF k = Scheduler THEN GiveUp ELSE UNCHANGED loop
    /\ UNCHANGED <<store, listed, restarts, seen>>

ScanStep(k) ==
    Begin(k) \/ ListPlaylist(k) \/ ListFails(k) \/ Decide(k) \/ Insert(k)

-----------------------------------------------------------------------------
(* Who scans.                                                              *)

Due == {s \in Subs : Exists(s) /\ sub[s].enabled /\ sub[s].due}

PickDue ==
    /\ At(Scheduler, "idle") /\ ~iterating
    /\ iterating' = TRUE
    /\ \E picked \in SUBSET Due :
          /\ picked = Due \/ Cardinality(picked) = PickLimit
          /\ Cardinality(picked) <= PickLimit
          /\ plan' = picked
    /\ UNCHANGED <<store, listed, scanner, raises, restarts, seen>>

(* Faulty variant: what falls due is added to the iteration at work.       *)
StartNextOfDue ==
    /\ At(Scheduler, "idle")
    /\ \E s \in plan :
          /\ scanner' = [scanner EXCEPT ![Scheduler] =
                            [Idle EXCEPT !.pc = "waiting", !.sub = s]]
          /\ plan' = (plan \ {s}) \union Due
    /\ UNCHANGED <<store, listed, iterating, raises, restarts, seen>>

StartNext ==
    /\ At(Scheduler, "idle")
    /\ \E s \in plan :
          /\ scanner' = [scanner EXCEPT ![Scheduler] =
                            [Idle EXCEPT !.pc = "waiting", !.sub = s]]
          /\ plan' = plan \ {s}
    /\ UNCHANGED <<store, listed, iterating, raises, restarts, seen>>

(* After the scans: a download, then the file work, then a sleep.  What    *)
(* they do, and when one of them raises, is DownloadQueue's and            *)
(* CatalogueFiles'; either way the loop sleeps and looks again.            *)
DownloadsTurn ==
    /\ At(Scheduler, "idle") /\ iterating /\ plan = {}
    /\ GiveUp
    /\ UNCHANGED <<store, listed, scanner, raises, restarts, seen>>

(* Faulty variant: the coroutine gives way before it takes the lock.       *)
AddSubscriptionLater(k, s) ==
    /\ At(k, "idle") /\ sub[s].state = "absent"
    /\ \E watch_future \in BOOLEAN :
          sub' = [sub EXCEPT ![s] =
                     [state |-> "present", enabled |-> TRUE,
                      watch_future |-> watch_future, due |-> TRUE]]
    /\ scanner' = [scanner EXCEPT ![k] =
                      [Idle EXCEPT !.pc = "waiting", !.sub = s, !.initial = TRUE]]
    /\ UNCHANGED <<row, listed, loop, raises, restarts, seen>>

(* The commit, then scan_subscription(initial=True), which has the lock    *)
(* before any other coroutine runs.                                        *)
AddSubscription(k, s) ==
    /\ At(k, "idle") /\ sub[s].state = "absent"
    /\ \E watch_future \in BOOLEAN :
          sub' = [sub EXCEPT ![s] =
                     [state |-> "present", enabled |-> TRUE,
                      watch_future |-> watch_future, due |-> TRUE]]
    /\ scanner' = [scanner EXCEPT ![k] =
                      [Idle EXCEPT !.pc = "listing", !.sub = s, !.initial = TRUE]]
    /\ UNCHANGED <<row, listed, loop, raises, restarts, seen>>

ScanNow(k, s) ==
    /\ At(k, "idle") /\ Exists(s)
    /\ scanner' = [scanner EXCEPT ![k] = [Idle EXCEPT !.pc = "waiting", !.sub = s]]
    /\ UNCHANGED <<store, listed, loop, raises, restarts, seen>>

-----------------------------------------------------------------------------
(* What else happens.                                                      *)

UpdateProfile(s) ==
    /\ Exists(s)
    /\ \E watch_future, enabled \in BOOLEAN :
          sub' = [sub EXCEPT ![s].watch_future = watch_future, ![s].enabled = enabled]
    /\ UNCHANGED <<row, listed, scanner, loop, raises, restarts, seen>>

(* With its rows.                                                          *)
DeleteSubscription(s) ==
    /\ Exists(s)
    /\ sub' = [sub EXCEPT ![s] = [NotYet EXCEPT !.state = "deleted"]]
    /\ row' = [v \in Videos |-> IF v \in Own(s) THEN NoRow ELSE row[v]]
    /\ UNCHANGED <<listed, scanner, loop, raises, restarts, seen>>

AddOneOff(v) ==
    /\ row[v] = NoRow
    /\ row' = [row EXCEPT ![v] = [owner |-> NoSub, status |-> "QUEUED"]]
    /\ UNCHANGED <<sub, listed, scanner, loop, raises, restarts, seen>>

(* A video comes to a playlist: a new one, or one that has long been out.  *)
EnterPlaylist(s, v) ==
    /\ v \in Playlist[s] \ listed[s]
    /\ listed' = [listed EXCEPT ![s] = @ \union {v}]
    /\ UNCHANGED <<store, scanner, loop, raises, restarts, seen>>

(* next_scan_at passes.                                                    *)
FallsDue(s) ==
    /\ Exists(s) /\ ~sub[s].due
    /\ sub' = [sub EXCEPT ![s].due = TRUE]
    /\ UNCHANGED <<row, listed, scanner, loop, raises, restarts, seen>>

Restart ==
    /\ restarts < MaxRestarts
    /\ restarts' = restarts + 1
    /\ scanner' = [k \in Scanners |-> Idle]
    /\ GiveUp
    /\ UNCHANGED <<store, listed, raises, seen>>

Next ==
    \/ \E k \in Scanners : ScanStep(k) \/ ScanRaises(k)
    \/ PickDue \/ StartNext \/ DownloadsTurn
    \/ \E k \in Requests, s \in Subs : AddSubscription(k, s) \/ ScanNow(k, s)
    \/ \E s \in Subs : UpdateProfile(s) \/ DeleteSubscription(s) \/ FallsDue(s)
    \/ \E v \in Videos : AddOneOff(v)
    \/ \E s \in Subs, v \in Videos : EnterPlaylist(s, v)
    \/ Restart

Spec == Init /\ [][Next]_vars

(* Coroutines run, the lock is handed on in turn, next_scan_at passes, and *)
(* now and then a playlist is listed with all its entries.                 *)
ListOf(s) == \E k \in Scanners : /\ scanner[k].sub = s /\ ListPlaylist(k)
                                 /\ scanner'[k].listing = listed[s]
BeginOf(s) == scanner[Scheduler].sub = s /\ Begin(Scheduler)

Fairness ==
    /\ \A k \in Scanners : WF_vars(ScanStep(k))
    /\ WF_vars(PickDue) /\ WF_vars(StartNext) /\ WF_vars(DownloadsTurn)
    /\ \A s \in Subs : WF_vars(FallsDue(s)) /\ SF_vars(BeginOf(s)) /\ SF_vars(ListOf(s))

FairSpec == Spec /\ Fairness

-----------------------------------------------------------------------------
(* Properties.                                                             *)

Subscriptions ==
    [state : {"absent", "present", "deleted"}, enabled : BOOLEAN,
     watch_future : BOOLEAN, due : BOOLEAN]

Rows == [owner : Subs, status : Statuses]
          \union {NoRow, [owner |-> NoSub, status |-> "QUEUED"]}

Decisions == UNION {[entries -> Statuses] : entries \in SUBSET Videos}

Scans == [pc : {"idle", "waiting"} \union Inside, sub : Subs \union {NoSub},
          initial : BOOLEAN, listing : SUBSET Videos, decided : Decisions]

OneScanEach ==
    \A k, l \in Scanners :
        IsInside(k) /\ IsInside(l) /\ scanner[k].sub = scanner[l].sub => k = l

(* Every variable has its type, and a subscription is scanned by one       *)
(* coroutine at a time.                                                    *)
TypeOK ==
    /\ sub \in [Subs -> Subscriptions]
    /\ row \in [Videos -> Rows]
    /\ listed \in [Subs -> SUBSET Videos] /\ seen \in [Subs -> SUBSET Videos]
    /\ \A s \in Subs : listed[s] \subseteq Playlist[s]
    /\ iterating \in BOOLEAN /\ plan \subseteq Subs
    /\ raises \in Nat /\ restarts \in Nat
    /\ scanner \in [Scanners -> Scans]
    /\ OneScanEach

(* The videos that a step inserts for a subscription.                      *)
Inserted(s) == {v \in Videos : row[v] = NoRow /\ row'[v].owner = s}

(* The catalogue remembers: once a subscription has a row, no scan of it   *)
(* takes what it finds for old history, whichever scan was first, failed   *)
(* or was cut short.                                                       *)
HistoryComesFirst ==
    [][\A s \in Subs : \A v \in Inserted(s) :
          row'[v].status = "IGNORED_INITIAL_HISTORY" => Own(s) = {}]_vars

(* Initial "last N" newest videos (README.md:8): what the first rows of a  *)
(* subscription queue are at most N, and newer than the rest of them.      *)
FirstRowsAreLastN ==
    [][\A s \in Subs :
          Own(s) = {} =>
             LET queued == {v \in Inserted(s) : row'[v].status = "QUEUED"} IN
             /\ Cardinality(queued) <= LastN[s]
             /\ \A v \in queued, w \in Inserted(s) :
                   row'[w].status = "IGNORED_INITIAL_HISTORY" => w < v]_vars

(* Future discovery with remembered history (README.md:9): what a scan of  *)
(* a subscription has once dealt with, as old history or in any other way, *)
(* no later scan of it takes for new, whoever scans and whatever fails in  *)
(* between.  Only the rows remember: it is said as long as no subscription *)
(* has been deleted, for the rows of a shared video may go with another.   *)
SeenIsNotNew ==
    [][(\A t \in Subs : sub[t].state # "deleted") =>
          \A s \in Subs : Inserted(s) \intersect seen[s] = {}]_vars

(* Every video of a subscription that stays enabled gets its row.          *)
VideosAreFound ==
    \A s \in Subs, v \in Videos :
        Exists(s) /\ v \in listed[s] ~> row[v] # NoRow \/ ~sub[s].enabled

(* One exception in a scan ends the whole iteration, and a request may     *)
(* hold the lock that a scan of the scheduler waits for: the download      *)
(* behind the scans still gets its turn again and again, while only        *)
(* finitely many scans raise.                                              *)
DownloadsGetTheirTurn == []<><<DownloadsTurn>>_vars
=============================================================================
