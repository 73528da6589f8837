------------------------ MODULE SubscriptionScanProofs ------------------------
(* What holds of scans for any subscriptions, playlists and requests.      *)
EXTENDS SubscriptionScan, FiniteSetTheorems, TLAPS

(* A step, by what it does to the scanners and the rows.                   *)
LEMMA StepsOfTheScans ==
    ASSUME Next
    PROVE  \/ \E k \in Scanners : \/ Begin(k) \/ ListPlaylist(k) \/ ListFails(k)
                                  \/ Decide(k) \/ Insert(k) \/ ScanRaises(k)
           \/ PickDue \/ StartNext \/ DownloadsTurn
           \/ \E k \in Requests, s \in Subs : AddSubscription(k, s) \/ ScanNow(k, s)
           \/ \E s \in Subs : UpdateProfile(s) \/ DeleteSubscription(s) \/ FallsDue(s)
           \/ \E v \in Videos : AddOneOff(v)
           \/ \E s \in Subs, v \in Videos : EnterPlaylist(s, v)
           \/ Restart
BY DEF Next, ScanStep

-----------------------------------------------------------------------------
(* Types and the lock.                                                     *)

(* Nothing scans a subscription before it is there.                        *)
ScannedExist ==
    \A k \in Scanners :
        /\ scanner[k].pc = "idle" <=> scanner[k].sub = NoSub
        /\ scanner[k].sub # NoSub => sub[scanner[k].sub].state # "absent"

PlannedExist == \A s \in plan : sub[s].state # "absent"

TypeInv == TypeOK /\ ScannedExist /\ PlannedExist

LEMMA IdleIsAScan == Idle \in Scans /\ Idle.pc = "idle" /\ Idle.sub = NoSub
<1> DEFINE none == [v \in {} |-> "QUEUED"]
<1>1. none \in [{} -> Statuses]
  OBVIOUS
<1>2. none \in Decisions
  BY <1>1 DEF Decisions
<1> QED
  BY <1>2 DEF Idle, Scans

(* What a scan and a user write to a subscription.                         *)
LEMMA UpdatedSubscription ==
    ASSUME NEW r \in Subscriptions, NEW w \in BOOLEAN, NEW e \in BOOLEAN
    PROVE  /\ [r EXCEPT !.due = FALSE] \in Subscriptions
           /\ [r EXCEPT !.due = FALSE].state = r.state
           /\ [r EXCEPT !.watch_future = w, !.enabled = e] \in Subscriptions
           /\ [r EXCEPT !.watch_future = w, !.enabled = e].state = r.state
           /\ [r EXCEPT !.due = TRUE] \in Subscriptions
           /\ [r EXCEPT !.due = TRUE].state = r.state
BY DEF Subscriptions

(* A scan writes when it is due next, and a user what shall be downloaded. *)
LEMMA ScansKeepTheState ==
    ASSUME TypeOK, NEW k \in Scanners, Insert(k) \/ ListFails(k)
    PROVE  /\ sub' \in [Subs -> Subscriptions]
           /\ \A t \in Subs : sub'[t].state = sub[t].state
<1> DEFINE s == scanner[k].sub
<1>1. UNCHANGED sub \/ sub' = [sub EXCEPT ![s] = [sub[s] EXCEPT !.due = FALSE]]
  BY DEF Insert, ListFails, store
<1>2. \A t \in Subs : /\ [sub[t] EXCEPT !.due = FALSE] \in Subscriptions
                        /\ [sub[t] EXCEPT !.due = FALSE].state = sub[t].state
  BY UpdatedSubscription DEF TypeOK
<1>3. CASE UNCHANGED sub
  BY <1>3 DEF TypeOK
<1>4. CASE sub' = [sub EXCEPT ![s] = [sub[s] EXCEPT !.due = FALSE]]
  <2>1. sub' = [t \in Subs |-> IF t = s THEN [sub[t] EXCEPT !.due = FALSE] ELSE sub[t]]
    BY <1>4 DEF TypeOK
  <2> QED
    BY <1>2, <2>1 DEF TypeOK
<1> QED
  BY <1>1, <1>3, <1>4

LEMMA UsersKeepTheState ==
    ASSUME TypeOK, NEW s \in Subs, UpdateProfile(s) \/ FallsDue(s)
    PROVE  /\ sub' \in [Subs -> Subscriptions]
           /\ \A t \in Subs : sub'[t].state = sub[t].state
<1>1. PICK x \in Subscriptions : x.state = sub[s].state /\ sub' = [sub EXCEPT ![s] = x]
  <2>1. CASE UpdateProfile(s)
    <3>1. PICK w \in BOOLEAN, e \in BOOLEAN :
             sub' = [sub EXCEPT ![s] = [sub[s] EXCEPT !.watch_future = w, !.enabled = e]]
      BY <2>1 DEF UpdateProfile
    <3> DEFINE x == [sub[s] EXCEPT !.watch_future = w, !.enabled = e]
    <3>2. x \in Subscriptions /\ x.state = sub[s].state
      BY UpdatedSubscription DEF TypeOK
    <3>3. sub' = [sub EXCEPT ![s] = x]
      BY <3>1
    <3> HIDE DEF x
    <3> QED
      BY <3>2, <3>3
  <2>2. CASE FallsDue(s)
    <3> DEFINE x == [sub[s] EXCEPT !.due = TRUE]
    <3>1. x \in Subscriptions /\ x.state = sub[s].state
      BY UpdatedSubscription DEF TypeOK
    <3>2. sub' = [sub EXCEPT ![s] = x]
      BY <2>2 DEF FallsDue
    <3> HIDE DEF x
    <3> QED
      BY <3>1, <3>2
  <2> QED
    BY <2>1, <2>2
<1> QED
  BY <1>1 DEF TypeOK

(* A decision is a status for each of some videos.                         *)
LEMMA DecidedIsADecision ==
    ASSUME TypeOK, NEW k \in Scanners, NEW rejected
    PROVE  Decided(k, rejected) \in Decisions
<1> DEFINE s == scanner[k].sub
           listing == scanner[k].listing
           entries == {w \in listing : row[w] = NoRow}
<1>1. entries \in SUBSET Videos
  BY DEF TypeOK, Scans
<1>2. \A v \in entries : Status(s, v, IsInitial(k), listing, rejected) \in Statuses
  BY DEF Status, Statuses
<1>3. [v \in entries |-> Status(s, v, IsInitial(k), listing, rejected)] \in [entries -> Statuses]
  BY <1>2
<1> QED
  BY <1>1, <1>3 DEF Decided, Decisions

(* One scanner moves, and takes the lock only if no other has it.          *)
LEMMA OneScannerMoves ==
    ASSUME TypeInv, NEW k \in Scanners, NEW x \in Scans,
           scanner' = [scanner EXCEPT ![k] = x],
           x.pc = "idle" <=> x.sub = NoSub,
           x.sub # NoSub => sub'[x.sub].state # "absent",
           x.pc \in Inside => \A l \in Scanners :
               l # k /\ IsInside(l) => scanner[l].sub # x.sub,
           \A s \in Subs : sub'[s].state = "absent" => sub[s].state = "absent"
    PROVE  /\ scanner' \in [Scanners -> Scans]
           /\ OneScanEach'
           /\ ScannedExist'
<1>1. /\ scanner' \in [Scanners -> Scans]
      /\ scanner'[k] = x
      /\ \A l \in Scanners : l # k => scanner'[l] = scanner[l]
  BY DEF TypeInv, TypeOK
<1>2. OneScanEach'
  BY <1>1 DEF TypeInv, TypeOK, OneScanEach, IsInside
<1>3. ScannedExist'
  <2>1. \A l \in Scanners : scanner[l].sub \in Subs \union {NoSub}
    BY DEF TypeInv, TypeOK, Scans
  <2> QED
    BY <1>1, <2>1 DEF TypeInv, ScannedExist
<1> QED
  BY <1>1, <1>2, <1>3

(* A scanner stops.                                                        *)
LEMMA OneScannerEnds ==
    ASSUME TypeInv, NEW k \in Scanners, End(k),
           \A s \in Subs : sub'[s].state = "absent" => sub[s].state = "absent"
    PROVE  /\ scanner' \in [Scanners -> Scans]
           /\ OneScanEach'
           /\ ScannedExist'
BY OneScannerMoves, IdleIsAScan DEF End, Inside

(* A scanner that is at work goes on with the same subscription.           *)
LEMMA OneScannerGoesOn ==
    ASSUME TypeInv, NEW k \in Scanners, UNCHANGED sub, NEW x \in Scans,
           scanner' = [scanner EXCEPT ![k] = x],
           x.sub = scanner[k].sub, x.pc # "idle", scanner[k].pc # "idle",
           \/ scanner[k].pc \in Inside
           \/ ~Locked(scanner[k].sub)
    PROVE  /\ scanner' \in [Scanners -> Scans]
           /\ OneScanEach'
           /\ ScannedExist'
<1>1. \A l \in Scanners : l # k /\ IsInside(l) => scanner[l].sub # x.sub
  BY DEF TypeInv, TypeOK, OneScanEach, Locked, IsInside
<1>2. x.sub # NoSub /\ sub'[x.sub].state # "absent"
  BY DEF TypeInv, ScannedExist
<1> QED
  BY <1>1, <1>2, OneScannerMoves

(* Every step keeps the types, and the lock with one scan.                 *)
LEMMA TypesStep ==
    ASSUME TypeInv, [Next]_vars
    PROVE  TypeInv'
<1> USE ScanAssumption, IdleIsAScan DEF TypeInv, PlannedExist, loop, GiveUp
<1>1. CASE UNCHANGED vars
  BY <1>1 DEF vars, store, loop, TypeOK, OneScanEach, ScannedExist, IsInside
<1>2. ASSUME NEW k \in Scanners, Begin(k)
      PROVE  TypeInv'
  <2> DEFINE x == [scanner[k] EXCEPT !.pc = "listing"]
  <2>1. CASE Exists(scanner[k].sub) /\ sub[scanner[k].sub].enabled
    <3>1. x \in Scans /\ x.sub = scanner[k].sub /\ x.pc = "listing"
      BY DEF TypeOK, Scans, Inside
    <3>2. scanner' = [scanner EXCEPT ![k] = x] /\ UNCHANGED <<store, listed, loop, raises, restarts, seen>>
      BY <1>2, <2>1 DEF Begin
    <3>3. scanner' \in [Scanners -> Scans] /\ OneScanEach' /\ ScannedExist'
      BY <1>2, <3>1, <3>2, OneScannerGoesOn DEF Begin, At, store
    <3> QED
      BY <3>2, <3>3 DEF store, TypeOK
  <2>2. CASE ~(Exists(scanner[k].sub) /\ sub[scanner[k].sub].enabled)
    BY <1>2, <2>2, OneScannerEnds DEF Begin, store, TypeOK
  <2> QED
    BY <2>1, <2>2
<1>3. ASSUME NEW k \in Scanners, ListPlaylist(k)
      PROVE  TypeInv'
  <2>1. PICK listing \in SUBSET listed[scanner[k].sub] :
           scanner' = [scanner EXCEPT ![k].pc = "deciding", ![k].listing = listing]
    BY <1>3 DEF ListPlaylist
  <2> DEFINE x == [scanner[k] EXCEPT !.pc = "deciding", !.listing = listing]
  <2>2. listing \subseteq Videos
    <3>1. scanner[k].sub \in Subs
      BY <1>3 DEF ListPlaylist, At, TypeOK, Scans, ScannedExist
    <3> QED
      BY <3>1 DEF TypeOK
  <2>3. x \in Scans /\ x.sub = scanner[k].sub /\ x.pc = "deciding"
    BY <2>2 DEF TypeOK, Scans, Inside
  <2>4. scanner' \in [Scanners -> Scans] /\ OneScanEach' /\ ScannedExist'
    BY ZenonT(60), <1>3, <2>1, <2>3, OneScannerGoesOn DEF ListPlaylist, At, Inside, store
  <2> QED
    BY <1>3, <2>4 DEF ListPlaylist, store, TypeOK
<1>4. ASSUME NEW k \in Scanners, ListFails(k)
      PROVE  TypeInv'
  <2>1. /\ sub' \in [Subs -> Subscriptions]
        /\ \A s \in Subs : sub'[s].state = sub[s].state
    BY <1>4, ScansKeepTheState
  <2> QED
    BY <1>4, <2>1, OneScannerEnds DEF ListFails, TypeOK
<1>5. ASSUME NEW k \in Scanners, Decide(k)
      PROVE  TypeInv'
  <2>1. CASE Exists(scanner[k].sub)
    <3>1. PICK rejected : scanner' = [scanner EXCEPT ![k].pc = "inspecting",
                                                     ![k].decided = Decided(k, rejected)]
      BY <1>5, <2>1 DEF Decide
    <3> DEFINE x == [scanner[k] EXCEPT !.pc = "inspecting", !.decided = Decided(k, rejected)]
    <3>2. Decided(k, rejected) \in Decisions
      BY DecidedIsADecision
    <3>3. x \in Scans /\ x.sub = scanner[k].sub /\ x.pc = "inspecting"
      BY <3>2 DEF TypeOK, Scans, Inside
    <3>4. scanner' \in [Scanners -> Scans] /\ OneScanEach' /\ ScannedExist'
      BY <1>5, <3>1, <3>3, OneScannerGoesOn DEF Decide, At, Inside, store
    <3> QED
      BY <1>5, <3>4 DEF Decide, store, TypeOK
  <2>2. CASE ~Exists(scanner[k].sub)
    BY <1>5, <2>2, OneScannerEnds DEF Decide, store, TypeOK
  <2> QED
    BY <2>1, <2>2
<1>6. ASSUME NEW k \in Scanners, Insert(k)
      PROVE  TypeInv'
  <2>1. row' \in [Videos -> Rows]
    <3>1. \A v \in DOMAIN scanner[k].decided : scanner[k].decided[v] \in Statuses
      BY DEF TypeOK, Scans, Decisions
    <3>2. scanner[k].sub \in Subs
      BY <1>6 DEF Insert, At, TypeOK, Scans, ScannedExist
    <3> QED
      BY <1>6, <3>1, <3>2 DEF Insert, store, TypeOK, Rows
  <2>2. /\ sub' \in [Subs -> Subscriptions]
        /\ \A s \in Subs : sub'[s].state = sub[s].state
    BY <1>6, ScansKeepTheState
  <2>3. End(k) /\ UNCHANGED <<listed, loop, raises, restarts>>
    BY <1>6 DEF Insert
  <2>4. scanner' \in [Scanners -> Scans] /\ OneScanEach' /\ ScannedExist'
    BY <2>2, <2>3, OneScannerEnds
  <2>5. seen' \in [Subs -> SUBSET Videos]
    <3>1. scanner[k].listing \subseteq Videos
      BY DEF TypeOK, Scans
    <3> QED
      BY <1>6, <3>1 DEF Insert, TypeOK
  <2> QED
    BY <2>1, <2>2, <2>3, <2>4, <2>5 DEF TypeOK
<1>7. ASSUME NEW k \in Scanners, ScanRaises(k)
      PROVE  TypeInv'
  <2>1. End(k) /\ UNCHANGED <<sub, row, listed, restarts, seen>> /\ raises' = raises + 1
    BY <1>7 DEF ScanRaises, store
  <2>2. iterating' \in BOOLEAN /\ plan' \subseteq plan
    BY <1>7 DEF ScanRaises, TypeOK
  <2>3. scanner' \in [Scanners -> Scans] /\ OneScanEach' /\ ScannedExist'
    BY <2>1, OneScannerEnds
  <2> QED
    BY <2>1, <2>2, <2>3 DEF TypeOK
<1>8. CASE PickDue
  BY <1>8 DEF PickDue, Due, Exists, store, TypeOK, OneScanEach, ScannedExist, IsInside
<1>9. CASE StartNext
  <2>1. PICK s \in plan : scanner' = [scanner EXCEPT ![Scheduler] =
                                         [Idle EXCEPT !.pc = "waiting", !.sub = s]]
    BY <1>9 DEF StartNext
  <2> DEFINE x == [Idle EXCEPT !.pc = "waiting", !.sub = s]
  <2>2. Scheduler \in Scanners /\ s \in Subs /\ x \in Scans /\ x.sub = s /\ x.pc = "waiting"
    BY DEF Scanners, Scans, TypeOK
  <2>3. sub[s].state # "absent"
    OBVIOUS
  <2>4. scanner' \in [Scanners -> Scans] /\ OneScanEach' /\ ScannedExist'
    BY <1>9, <2>1, <2>2, <2>3, OneScannerMoves DEF StartNext, Inside, store
  <2> QED
    BY <1>9, <2>4 DEF StartNext, store, TypeOK
<1>10. ASSUME NEW k \in Requests, NEW s \in Subs, AddSubscription(k, s)
       PROVE  TypeInv'
  <2> DEFINE x == [Idle EXCEPT !.pc = "listing", !.sub = s, !.initial = TRUE]
  <2>1. k \in Scanners /\ x \in Scans /\ x.sub = s /\ x.pc = "listing"
    BY DEF Scanners, Scans, Inside
  <2>2. /\ sub' \in [Subs -> Subscriptions]
        /\ sub'[s].state = "present"
        /\ \A t \in Subs : t # s => sub'[t] = sub[t]
    BY <1>10 DEF AddSubscription, TypeOK, Subscriptions
  <2>3. \A l \in Scanners : scanner[l].sub # s
    BY <1>10 DEF AddSubscription, ScannedExist
  <2>4. scanner' \in [Scanners -> Scans] /\ OneScanEach' /\ ScannedExist'
    BY <1>10, <2>1, <2>2, <2>3, OneScannerMoves DEF AddSubscription
  <2> QED
    BY <1>10, <2>2, <2>4 DEF AddSubscription, TypeOK
<1>11. ASSUME NEW k \in Requests, NEW s \in Subs, ScanNow(k, s)
       PROVE  TypeInv'
  <2> DEFINE x == [Idle EXCEPT !.pc = "waiting", !.sub = s]
  <2>1. k \in Scanners /\ x \in Scans /\ x.sub = s /\ x.pc = "waiting"
    BY DEF Scanners, Scans
  <2>2. scanner' \in [Scanners -> Scans] /\ OneScanEach' /\ ScannedExist'
    BY <1>11, <2>1, OneScannerMoves DEF ScanNow, Exists, Inside, store
  <2> QED
    BY <1>11, <2>2 DEF ScanNow, store, TypeOK
<1>12. ASSUME NEW s \in Subs, UpdateProfile(s)
       PROVE  TypeInv'
  <2>1. /\ sub' \in [Subs -> Subscriptions]
        /\ \A t \in Subs : sub'[t].state = sub[t].state
    BY <1>12, UsersKeepTheState
  <2>2. UNCHANGED <<row, listed, scanner, loop, raises, restarts, seen>>
    BY <1>12 DEF UpdateProfile
  <2> QED
    BY <2>1, <2>2 DEF TypeOK, OneScanEach, ScannedExist, IsInside, Scans
<1>13. ASSUME NEW s \in Subs, DeleteSubscription(s)
       PROVE  TypeInv'
  <2>1. /\ sub' \in [Subs -> Subscriptions]
        /\ \A t \in Subs : sub'[t].state = "absent" => sub[t].state = "absent"
    BY <1>13 DEF DeleteSubscription, NotYet, TypeOK, Subscriptions
  <2>2. row' \in [Videos -> Rows] /\ UNCHANGED <<listed, scanner, loop, raises, restarts, seen>>
    BY <1>13 DEF DeleteSubscription, Rows, TypeOK
  <2> QED
    BY <2>1, <2>2 DEF TypeOK, OneScanEach, ScannedExist, IsInside, Scans
<1>14. ASSUME NEW s \in Subs, FallsDue(s)
       PROVE  TypeInv'
  <2>1. /\ sub' \in [Subs -> Subscriptions]
        /\ \A t \in Subs : sub'[t].state = sub[t].state
    BY <1>14, UsersKeepTheState
  <2>2. UNCHANGED <<row, listed, scanner, loop, raises, restarts, seen>>
    BY <1>14 DEF FallsDue
  <2> QED
    BY <2>1, <2>2 DEF TypeOK, OneScanEach, ScannedExist, IsInside, Scans
<1>15. ASSUME NEW v \in Videos, AddOneOff(v)
       PROVE  TypeInv'
  BY <1>15 DEF AddOneOff, Rows, TypeOK, OneScanEach, ScannedExist, IsInside
<1>16. ASSUME NEW s \in Subs, NEW v \in Videos, EnterPlaylist(s, v)
       PROVE  TypeInv'
  BY <1>16 DEF EnterPlaylist, store, TypeOK, OneScanEach, ScannedExist, IsInside
<1>17. CASE Restart
  <2>1. scanner' = [k \in Scanners |-> Idle] /\ plan' = {} /\ restarts' = restarts + 1
    BY <1>17 DEF Restart
  <2>2. UNCHANGED <<sub, row, listed, raises, seen>>
    BY <1>17 DEF Restart, store
  <2>3. iterating' \in BOOLEAN
    BY <1>17 DEF Restart
  <2>4. scanner' \in [Scanners -> Scans] /\ OneScanEach' /\ ScannedExist'
    BY <2>1 DEF OneScanEach, ScannedExist, IsInside, Inside
  <2> QED
    BY <2>1, <2>2, <2>3, <2>4 DEF TypeOK
<1>18. CASE DownloadsTurn
  BY <1>18 DEF DownloadsTurn, store, TypeOK, OneScanEach, ScannedExist, IsInside
<1> QED
  BY <1>1, <1>2, <1>3, <1>4, <1>5, <1>6, <1>7, <1>8, <1>9, <1>10, <1>11, <1>12,
     <1>13, <1>14, <1>15, <1>16, <1>17, <1>18, StepsOfTheScans

LEMMA TypesInit == Init => TypeInv
<1> SUFFICES ASSUME Init PROVE TypeInv
  OBVIOUS
<1>1. sub \in [Subs -> Subscriptions] /\ row \in [Videos -> Rows]
  BY DEF Init, NotYet, Subscriptions, Rows
<1>2. scanner \in [Scanners -> Scans] /\ OneScanEach /\ ScannedExist
  BY IdleIsAScan DEF Init, OneScanEach, ScannedExist, IsInside, Inside
<1>3. /\ listed \in [Subs -> SUBSET Videos] /\ \A s \in Subs : listed[s] \subseteq Playlist[s]
      /\ seen \in [Subs -> SUBSET Videos]
      /\ plan = {} /\ raises \in Nat /\ restarts \in Nat
  BY DEF Init
<1>4. iterating \in BOOLEAN
  BY DEF Init
<1> QED
  BY <1>1, <1>2, <1>3, <1>4 DEF TypeInv, TypeOK, PlannedExist

LEMMA TypesAlways == Spec => []TypeInv
<1>1. TypeInv /\ [Next]_vars => TypeInv'
  BY TypesStep
<1> QED
  BY <1>1, TypesInit, PTL DEF Spec

(* Every variable has its type, and no two coroutines scan a subscription  *)
(* at the same time.                                                       *)
THEOREM ScanTypeCorrect == Spec => []TypeOK
<1>1. TypeInv => TypeOK
  BY DEF TypeInv
<1> QED
  BY <1>1, TypesAlways, PTL

-----------------------------------------------------------------------------
(* The order of history.                                                   *)

History == "IGNORED_INITIAL_HISTORY"

(* A scan that is initial, or that has decided on old history.             *)
LooksBack(k) ==
    /\ IsInside(k)
    /\ \/ scanner[k].initial
       \/ /\ At(k, "inspecting")
          /\ \E v \in DOMAIN scanner[k].decided : scanner[k].decided[v] = History

(* Its subscription has no row, up to the moment when it inserts.          *)
HistoryInv ==
    /\ \A s \in Subs : sub[s].state = "absent" => Own(s) = {}
    /\ \A k \in Scanners : At(k, "waiting") => ~scanner[k].initial
    /\ \A k \in Scanners : LooksBack(k) => Own(scanner[k].sub) = {}

(* Nothing changes but one scanner, which looks back only if it may.       *)
LEMMA OneScannerLooks ==
    ASSUME TypeOK, HistoryInv, UNCHANGED row, NEW k \in Scanners, NEW x,
           scanner' = [scanner EXCEPT ![k] = x],
           \A s \in Subs : sub'[s].state = "absent" => sub[s].state = "absent",
           x.pc = "waiting" => ~x.initial,
           LooksBack(k)' => Own(x.sub) = {}
    PROVE  HistoryInv'
<1>1. /\ scanner'[k] = x
      /\ \A l \in Scanners : l # k => scanner'[l] = scanner[l]
  BY DEF TypeOK
<1>2. \A t : Own(t)' = Own(t)
  BY DEF Own
<1>3. ASSUME NEW l \in Scanners, LooksBack(l)'
      PROVE  (Own(scanner[l].sub) = {})'
  <2>1. CASE l = k
    BY <1>1, <1>2, <1>3, <2>1 DEF Own
  <2>2. CASE l # k
    <3>1. LooksBack(l)
      BY <1>1, <1>3, <2>2 DEF LooksBack, IsInside, At
    <3>2. Own(scanner[l].sub) = {}
      BY <3>1 DEF HistoryInv
    <3> QED
      BY <1>1, <2>2, <3>2 DEF Own
  <2> QED
    BY <2>1, <2>2
<1>4. ASSUME NEW l \in Scanners, At(l, "waiting")'
      PROVE  (~scanner[l].initial)'
  BY <1>1, <1>4 DEF HistoryInv, At
<1>5. ASSUME NEW s \in Subs, sub'[s].state = "absent"
      PROVE  (Own(s) = {})'
  BY <1>2, <1>5 DEF HistoryInv
<1> QED
  BY <1>3, <1>4, <1>5 DEF HistoryInv

(* The scanners stay as they are, and no subscription gets a row.          *)
LEMMA NoScannerLooks ==
    ASSUME TypeInv, HistoryInv, UNCHANGED scanner,
           \A s \in Subs : sub'[s].state = "absent" => sub[s].state = "absent",
           \A s \in Subs : Own(s)' \subseteq Own(s)
    PROVE  HistoryInv'
<1>1. ASSUME NEW l \in Scanners, LooksBack(l)'
      PROVE  (Own(scanner[l].sub) = {})'
  <2>1. LooksBack(l)
    BY <1>1 DEF LooksBack, IsInside, At
  <2>2. Own(scanner[l].sub) = {}
    BY <2>1 DEF HistoryInv
  <2>3. scanner[l].sub \in Subs
    BY <2>1 DEF TypeInv, TypeOK, Scans, ScannedExist, LooksBack, IsInside, Inside
  <2>4. Own(scanner[l].sub)' = {}
    BY <2>2, <2>3 DEF Own
  <2> QED
    BY <2>4 DEF Own
<1> QED
  BY <1>1 DEF HistoryInv, At

(* Every step keeps the order of history.                                  *)
LEMMA HistoryStep ==
    ASSUME TypeInv, TypeInv', HistoryInv, [Next]_vars
    PROVE  HistoryInv'
<1> USE ScanAssumption DEF TypeInv
<1>a. \A k \in Scanners : At(k, "waiting") \/ IsInside(k) => scanner[k].sub \in Subs
  BY DEF TypeOK, Scans, ScannedExist, IsInside, Inside, At
<1>b. Idle.pc = "idle" /\ Idle.initial = FALSE
  BY DEF Idle
<1>c. ASSUME NEW k \in Scanners, End(k), UNCHANGED row,
             \A s \in Subs : sub'[s].state = "absent" => sub[s].state = "absent"
      PROVE  HistoryInv'
  <2>1. ~LooksBack(k)'
    BY <1>c, <1>b DEF End, LooksBack, IsInside, Inside, TypeOK
  <2> QED
    BY <1>c, <1>b, <2>1, OneScannerLooks DEF End
<1>1. CASE UNCHANGED vars
  BY <1>1, NoScannerLooks DEF vars, store, loop, Own
<1>2. ASSUME NEW k \in Scanners, Begin(k)
      PROVE  HistoryInv'
  <2> DEFINE x == [scanner[k] EXCEPT !.pc = "listing"]
  <2>1. CASE Exists(scanner[k].sub) /\ sub[scanner[k].sub].enabled
    <3>1. scanner' = [scanner EXCEPT ![k] = x] /\ UNCHANGED store
      BY <1>2, <2>1 DEF Begin
    <3>2. x.pc = "listing" /\ x.initial = scanner[k].initial
      BY DEF TypeOK, Scans
    <3>3. ~x.initial
      BY <1>2, <3>2 DEF Begin, HistoryInv
    <3>4. ~LooksBack(k)'
      BY <3>1, <3>2, <3>3 DEF LooksBack, TypeOK, At
    <3> QED
      BY <3>1, <3>2, <3>4, OneScannerLooks DEF store
  <2>2. CASE ~(Exists(scanner[k].sub) /\ sub[scanner[k].sub].enabled)
    BY <1>2, <2>2, <1>c DEF Begin, store
  <2> QED
    BY <2>1, <2>2
<1>3. ASSUME NEW k \in Scanners, ListPlaylist(k)
      PROVE  HistoryInv'
  <2>1. PICK listing :
           scanner' = [scanner EXCEPT ![k].pc = "deciding", ![k].listing = listing]
    BY <1>3 DEF ListPlaylist
  <2> DEFINE x == [scanner[k] EXCEPT !.pc = "deciding", !.listing = listing]
  <2>2. /\ scanner' = [scanner EXCEPT ![k] = x]
        /\ x.pc = "deciding" /\ x.initial = scanner[k].initial /\ x.sub = scanner[k].sub
    BY <2>1 DEF TypeOK, Scans
  <2>3. LooksBack(k)' => LooksBack(k)
    BY <1>3, <2>2 DEF ListPlaylist, LooksBack, IsInside, Inside, At, TypeOK
  <2> QED
    BY <1>3, <2>2, <2>3, OneScannerLooks DEF ListPlaylist, HistoryInv, store
<1>4. ASSUME NEW k \in Scanners, ListFails(k)
      PROVE  HistoryInv'
  <2>1. \A s \in Subs : sub'[s].state = sub[s].state
    BY <1>4, ScansKeepTheState
  <2> QED
    BY <1>4, <2>1, <1>c DEF ListFails
<1>5. ASSUME NEW k \in Scanners, Decide(k)
      PROVE  HistoryInv'
  <2>1. CASE Exists(scanner[k].sub)
    <3>1. PICK rejected : scanner' = [scanner EXCEPT ![k].pc = "inspecting",
                                                     ![k].decided = Decided(k, rejected)]
      BY <1>5, <2>1 DEF Decide
    <3> DEFINE d == Decided(k, rejected)
    <3> DEFINE x == [scanner[k] EXCEPT !.pc = "inspecting", !.decided = d]
    <3>2. /\ scanner' = [scanner EXCEPT ![k] = x]
          /\ x.pc = "inspecting" /\ x.initial = scanner[k].initial
          /\ x.sub = scanner[k].sub /\ x.decided = d
      BY <3>1 DEF TypeOK, Scans
    <3>3. (\E v \in DOMAIN d : d[v] = History) => IsInitial(k)
      BY DEF Decided, Status, History
    <3>4. IsInside(k)
      BY <1>5 DEF Decide, At, IsInside, Inside
    <3>5. scanner[k].initial => Own(scanner[k].sub) = {}
      BY <3>4 DEF HistoryInv, LooksBack
    <3>6. LooksBack(k)' => Own(x.sub) = {}
      <4>1. scanner'[k] = x
        BY <3>2 DEF TypeOK
      <4> HIDE DEF d, x
      <4>2. LooksBack(k)' => scanner[k].initial \/ \E v \in DOMAIN d : d[v] = History
        BY <3>2, <4>1 DEF LooksBack
      <4> QED
        BY <3>2, <3>3, <3>5, <4>2 DEF IsInitial
    <3>7. UNCHANGED store
      BY <1>5 DEF Decide
    <3> HIDE DEF d, x
    <3> QED
      BY <3>2, <3>6, <3>7, OneScannerLooks DEF store
  <2>2. CASE ~Exists(scanner[k].sub)
    BY <1>5, <2>2, <1>c DEF Decide, store
  <2> QED
    BY <2>1, <2>2
<1>6. ASSUME NEW k \in Scanners, Insert(k)
      PROVE  HistoryInv'
  <2> DEFINE t == scanner[k].sub
  <2>1. t \in Subs /\ IsInside(k) /\ End(k)
    BY <1>6, <1>a DEF Insert, At, IsInside, Inside
  <2>2. \A s \in Subs : sub'[s].state = sub[s].state
    BY <1>6, ScansKeepTheState
  <2>3. CASE ~Exists(t)
    BY <1>6, <1>c, <2>1, <2>2, <2>3 DEF Insert, store
  <2>4. CASE Exists(t)
    <3>1. \A s \in Subs : s # t => Own(s)' = Own(s)
      <4>1. \A v \in Videos : \/ row'[v] = row[v]
                              \/ row[v].owner = NoSub /\ row'[v].owner = t
        BY <1>6, <2>4 DEF Insert, NoRow
      <4> HIDE DEF t
      <4> QED
        BY <4>1 DEF Own
    <3>2. /\ scanner'[k] = Idle
          /\ \A l \in Scanners : l # k => scanner'[l] = scanner[l]
      BY <2>1 DEF End, TypeOK
    <3>3. ASSUME NEW s \in Subs, sub'[s].state = "absent"
          PROVE  (Own(s) = {})'
      BY <2>2, <2>4, <3>1, <3>3 DEF Exists, HistoryInv
    <3>4. ASSUME NEW l \in Scanners, LooksBack(l)'
          PROVE  (Own(scanner[l].sub) = {})'
      <4>1. l # k /\ LooksBack(l)
        BY <1>b, <3>2, <3>4 DEF LooksBack, IsInside, Inside, At
      <4>2. scanner[l].sub # t /\ scanner[l].sub \in Subs
        BY <1>a, <2>1, <4>1 DEF OneScanEach, TypeOK, LooksBack
      <4>3. Own(scanner[l].sub)' = {}
        <5>1. Own(scanner[l].sub) = {}
          BY <4>1 DEF HistoryInv
        <5>2. PICK s \in Subs : s = scanner[l].sub /\ s # t
          BY <4>2
        <5>3. scanner'[l].sub = s
          BY <3>2, <4>1, <5>2
        <5> QED
          BY <3>1, <5>1, <5>2, <5>3 DEF Own
      <4> QED
        BY <4>3 DEF Own
    <3>5. ASSUME NEW l \in Scanners, At(l, "waiting")'
          PROVE  (~scanner[l].initial)'
      BY <1>b, <3>2, <3>5 DEF HistoryInv, At
    <3> QED
      BY <3>3, <3>4, <3>5 DEF HistoryInv
  <2> QED
    BY <2>3, <2>4
<1>7. ASSUME NEW k \in Scanners, ScanRaises(k)
      PROVE  HistoryInv'
  BY <1>7, <1>c DEF ScanRaises, store
<1>8. CASE PickDue
  BY <1>8, NoScannerLooks DEF PickDue, store, Own
<1>9. CASE StartNext
  <2>1. PICK s \in plan : scanner' = [scanner EXCEPT ![Scheduler] =
                                         [Idle EXCEPT !.pc = "waiting", !.sub = s]]
    BY <1>9 DEF StartNext
  <2> DEFINE x == [Idle EXCEPT !.pc = "waiting", !.sub = s]
  <2>2. Scheduler \in Scanners /\ x.pc = "waiting" /\ ~x.initial
    BY DEF Scanners, Idle
  <2>3. ~LooksBack(Scheduler)'
    BY <2>1, <2>2 DEF LooksBack, IsInside, Inside, TypeOK
  <2> QED
    BY <1>9, <2>1, <2>2, <2>3, OneScannerLooks DEF StartNext, store
<1>10. ASSUME NEW k \in Requests, NEW s \in Subs, AddSubscription(k, s)
       PROVE  HistoryInv'
  <2> DEFINE x == [Idle EXCEPT !.pc = "listing", !.sub = s, !.initial = TRUE]
  <2>1. k \in Scanners /\ x.sub = s /\ x.pc = "listing"
    BY DEF Scanners, Idle
  <2>2. Own(s) = {}
    BY <1>10 DEF AddSubscription, HistoryInv
  <2>3. \A t \in Subs : sub'[t].state = "absent" => sub[t].state = "absent"
    BY <1>10 DEF AddSubscription, TypeOK
  <2> QED
    BY <1>10, <2>1, <2>2, <2>3, OneScannerLooks DEF AddSubscription
<1>11. ASSUME NEW k \in Requests, NEW s \in Subs, ScanNow(k, s)
       PROVE  HistoryInv'
  <2> DEFINE x == [Idle EXCEPT !.pc = "waiting", !.sub = s]
  <2>1. k \in Scanners /\ x.pc = "waiting" /\ ~x.initial
    BY DEF Scanners, Idle
  <2>2. ~LooksBack(k)'
    BY <1>11, <2>1 DEF ScanNow, LooksBack, IsInside, Inside, TypeOK
  <2> QED
    BY <1>11, <2>1, <2>2, OneScannerLooks DEF ScanNow, store
<1>12. ASSUME NEW s \in Subs, UpdateProfile(s)
       PROVE  HistoryInv'
  <2>1. \A t \in Subs : sub'[t].state = sub[t].state
    BY <1>12, UsersKeepTheState
  <2> QED
    BY <1>12, <2>1, NoScannerLooks DEF UpdateProfile, Own
<1>13. ASSUME NEW s \in Subs, DeleteSubscription(s)
       PROVE  HistoryInv'
  <2>1. \A t \in Subs : sub'[t].state = "absent" => sub[t].state = "absent"
    BY <1>13 DEF DeleteSubscription, NotYet, TypeOK, Subscriptions
  <2>2. \A t \in Subs : Own(t)' \subseteq Own(t)
    BY <1>13 DEF DeleteSubscription, Own, NoRow
  <2> QED
    BY <1>13, <2>1, <2>2, NoScannerLooks DEF DeleteSubscription
<1>14. ASSUME NEW s \in Subs, FallsDue(s)
       PROVE  HistoryInv'
  <2>1. \A t \in Subs : sub'[t].state = sub[t].state
    BY <1>14, UsersKeepTheState
  <2> QED
    BY <1>14, <2>1, NoScannerLooks DEF FallsDue, Own
<1>15. ASSUME NEW v \in Videos, AddOneOff(v)
       PROVE  HistoryInv'
  <2>1. \A t \in Subs : Own(t)' \subseteq Own(t)
    BY <1>15 DEF AddOneOff, Own, TypeOK
  <2> QED
    BY <1>15, <2>1, NoScannerLooks DEF AddOneOff
<1>16. ASSUME NEW s \in Subs, NEW v \in Videos, EnterPlaylist(s, v)
       PROVE  HistoryInv'
  BY <1>16, NoScannerLooks DEF EnterPlaylist, store, Own
<1>17. CASE Restart
  BY <1>17, <1>b DEF Restart, store, HistoryInv, LooksBack, IsInside, Inside, At, Own
<1>18. CASE DownloadsTurn
  BY <1>18, NoScannerLooks DEF DownloadsTurn, store, Own
<1> QED
  BY <1>1, <1>2, <1>3, <1>4, <1>5, <1>6, <1>7, <1>8, <1>9, <1>10, <1>11, <1>12,
     <1>13, <1>14, <1>15, <1>16, <1>17, <1>18, StepsOfTheScans

LEMMA HistoryInit == Init => HistoryInv
BY ScanAssumption DEF Init, HistoryInv, Own, NoRow, Idle, At, LooksBack, IsInside, Inside

(* Rows of old history come from Insert alone, by a scan that looks back.  *)
LEMMA InsertKeepsOrder ==
    ASSUME TypeInv, HistoryInv, [Next]_vars,
           NEW s \in Subs, NEW v \in Inserted(s), row'[v].status = History
    PROVE  Own(s) = {}
<1> USE ScanAssumption DEF TypeInv
<1>1. v \in Videos /\ row[v] = NoRow /\ row'[v].owner = s
  BY DEF Inserted
<1>2. row'[v] # row[v]
  BY <1>1 DEF NoRow
<1>3. ASSUME NEW k \in Scanners, Insert(k)
      PROVE  Own(s) = {}
  <2>1. /\ s = scanner[k].sub
        /\ v \in DOMAIN scanner[k].decided /\ scanner[k].decided[v] = History
    BY <1>1, <1>2, <1>3 DEF Insert, store
  <2>2. LooksBack(k)
    BY <1>3, <2>1 DEF Insert, LooksBack, IsInside, Inside, At
  <2> QED
    BY <2>1, <2>2 DEF HistoryInv
<1>4. ASSUME NEW t \in Subs, DeleteSubscription(t)
      PROVE  row'[v] = row[v]
  BY <1>1, <1>4 DEF DeleteSubscription
<1>5. ASSUME NEW w \in Videos, AddOneOff(w)
      PROVE  row'[v].owner \in {NoSub, row[v].owner}
  BY <1>1, <1>5 DEF AddOneOff, TypeOK
<1>6. row'[v].owner # row[v].owner
  BY <1>1 DEF NoRow
<1>7. ~UNCHANGED row
  BY <1>2
<1>8. \/ \E k \in Scanners : Insert(k)
      \/ \E t \in Subs : DeleteSubscription(t)
      \/ \E w \in Videos : AddOneOff(w)
  BY <1>7, StepsOfTheScans
  DEF vars, store, loop, Begin, ListPlaylist, ListFails, Decide, ScanRaises, PickDue,
      StartNext, DownloadsTurn, GiveUp, AddSubscription, ScanNow, UpdateProfile, FallsDue, EnterPlaylist, Restart
<1> QED
  BY <1>1, <1>2, <1>3, <1>4, <1>5, <1>6, <1>8

(* Once a subscription has a row of its own, no scan writes off as old     *)
(* history what it finds: the lock, the order of the creation and of the   *)
(* first scan, and the test for own rows make it so, whatever fails.       *)
THEOREM HistoryIsFirst == Spec => HistoryComesFirst
<1>1. TypeInv /\ TypeInv' /\ HistoryInv /\ [Next]_vars => HistoryInv'
  BY HistoryStep
<1>2. TypeInv /\ HistoryInv /\ [Next]_vars =>
         [\A s \in Subs : \A v \in Inserted(s) :
             row'[v].status = "IGNORED_INITIAL_HISTORY" => Own(s) = {}]_vars
  BY InsertKeepsOrder DEF History
<1> QED
  BY <1>1, <1>2, HistoryInit, TypesAlways, PTL DEF Spec, HistoryComesFirst

-----------------------------------------------------------------------------
(* What a scan has dealt with.                                             *)

NoneDeleted == \A t \in Subs : sub[t].state # "deleted"

(* Each video of the listing has a row or gets one.                        *)
CoversListing(k) ==
    \A v \in scanner[k].listing : v \in DOMAIN scanner[k].decided \/ row[v] # NoRow

(* So all that a scan has dealt with has its row.                          *)
SeenInv ==
    NoneDeleted =>
       /\ \A s \in Subs : \A v \in seen[s] : row[v] # NoRow
       /\ \A k \in Scanners : At(k, "inspecting") => CoversListing(k)

(* A deleted subscription stays deleted, and rows stay without a deletion. *)
LEMMA RowsStay ==
    ASSUME TypeInv, [Next]_vars, NoneDeleted'
    PROVE  /\ NoneDeleted
           /\ \A v \in Videos : row[v] # NoRow => row'[v] = row[v]
<1> DEFINE Goal == /\ NoneDeleted
                   /\ \A v \in Videos : row[v] # NoRow => row'[v] = row[v]
<1> USE DEF NoneDeleted
<1>1. ASSUME NEW k \in Scanners, Insert(k) \/ ListFails(k)
      PROVE  Goal
  <2>1. \A t \in Subs : sub'[t].state = sub[t].state
    BY <1>1, ScansKeepTheState DEF TypeInv
  <2>2. \A v \in Videos : row[v] # NoRow => row'[v] = row[v]
    BY <1>1 DEF Insert, ListFails, store
  <2> QED
    BY <2>1, <2>2
<1>2. ASSUME NEW w \in Videos, AddOneOff(w)
      PROVE  Goal
  BY <1>2 DEF AddOneOff, TypeInv, TypeOK
<1>3. ASSUME NEW s \in Subs, DeleteSubscription(s)
      PROVE  FALSE
  BY <1>3 DEF DeleteSubscription, NotYet, TypeInv, TypeOK
<1>4. ASSUME NEW s \in Subs, UpdateProfile(s) \/ FallsDue(s)
      PROVE  Goal
  <2>1. \A t \in Subs : sub'[t].state = sub[t].state
    BY <1>4, UsersKeepTheState DEF TypeInv
  <2>2. UNCHANGED row
    BY <1>4 DEF UpdateProfile, FallsDue
  <2> QED
    BY <2>1, <2>2
<1>5. ASSUME NEW k \in Requests, NEW s \in Subs, AddSubscription(k, s)
      PROVE  Goal
  BY <1>5 DEF AddSubscription, TypeInv, TypeOK
<1>6. UNCHANGED store => Goal
  BY DEF store
<1> HIDE DEF Goal
<1> QED
  BY <1>1, <1>2, <1>3, <1>4, <1>5, <1>6, StepsOfTheScans
  DEF Goal, vars, Begin, ListPlaylist, Decide, ScanRaises, PickDue, StartNext,
      DownloadsTurn, ScanNow, EnterPlaylist, Restart

(* Only the end of a scan adds to what has been dealt with.                *)
LEMMA SeenGrows ==
    ASSUME [Next]_vars, ~UNCHANGED seen
    PROVE  \E k \in Scanners : Insert(k)
BY StepsOfTheScans
DEF vars, Begin, ListPlaylist, ListFails, Decide, ScanRaises, PickDue, StartNext,
    DownloadsTurn, AddSubscription, ScanNow, UpdateProfile, DeleteSubscription,
    FallsDue, AddOneOff, EnterPlaylist, Restart

(* Only a listing and a decision lead a scan to where it works on entries. *)
LEMMA ScannersProgress ==
    ASSUME TypeInv, [Next]_vars, NEW l \in Scanners
    PROVE  \/ scanner'[l] = scanner[l]
           \/ scanner'[l].pc \notin {"deciding", "inspecting"}
           \/ ListPlaylist(l) \/ Decide(l)
<1> USE ScanAssumption
<1> DEFINE Goal == \/ scanner'[l] = scanner[l]
                   \/ scanner'[l].pc \notin {"deciding", "inspecting"}
                   \/ ListPlaylist(l) \/ Decide(l)
<1>i. scanner \in [Scanners -> Scans] /\ Idle.pc = "idle"
  BY IdleIsAScan DEF TypeInv, TypeOK
<1>w. ASSUME NEW k \in Scanners, NEW x, scanner' = [scanner EXCEPT ![k] = x],
             x.pc \notin {"deciding", "inspecting"}
      PROVE  Goal
  BY <1>i, <1>w
<1>1. ASSUME NEW k \in Scanners, End(k)
      PROVE  Goal
  BY <1>i, <1>1 DEF End
<1>2. ASSUME NEW k \in Scanners, Begin(k)
      PROVE  Goal
  <2> DEFINE x == [scanner[k] EXCEPT !.pc = "listing"]
  <2>1. End(k) \/ scanner' = [scanner EXCEPT ![k] = x]
    BY <1>2 DEF Begin
  <2>2. x.pc = "listing"
    BY <1>i DEF Scans
  <2> HIDE DEF x
  <2> QED
    BY <1>1, <1>w, <2>1, <2>2
<1>3. ASSUME NEW k \in Scanners, ListPlaylist(k) \/ Decide(k)
      PROVE  Goal
  <2>1. CASE k = l
    BY <1>3, <2>1
  <2>2. CASE k # l
    BY <1>i, <1>3, <2>2 DEF ListPlaylist, Decide, End
  <2> QED
    BY <2>1, <2>2
<1>4. ASSUME NEW k \in Scanners, ListFails(k) \/ Insert(k) \/ ScanRaises(k)
      PROVE  Goal
  BY <1>1, <1>4 DEF ListFails, Insert, ScanRaises
<1>5. CASE StartNext
  <2>1. PICK s \in plan : scanner' = [scanner EXCEPT ![Scheduler] =
                                         [Idle EXCEPT !.pc = "waiting", !.sub = s]]
    BY <1>5 DEF StartNext
  <2>2. Scheduler \in Scanners /\ [Idle EXCEPT !.pc = "waiting", !.sub = s].pc = "waiting"
    BY DEF Scanners, Idle
  <2> QED
    BY <1>w, <2>1, <2>2
<1>6. ASSUME NEW k \in Requests, NEW s \in Subs, AddSubscription(k, s)
      PROVE  Goal
  <2>1. k \in Scanners /\ [Idle EXCEPT !.pc = "listing", !.sub = s, !.initial = TRUE].pc = "listing"
    BY DEF Scanners, Idle
  <2>2. scanner' = [scanner EXCEPT ![k] = [Idle EXCEPT !.pc = "listing", !.sub = s, !.initial = TRUE]]
    BY <1>6 DEF AddSubscription
  <2> QED
    BY <1>w, <2>1, <2>2
<1>7. ASSUME NEW k \in Requests, NEW s \in Subs, ScanNow(k, s)
      PROVE  Goal
  <2>1. k \in Scanners /\ [Idle EXCEPT !.pc = "waiting", !.sub = s].pc = "waiting"
    BY DEF Scanners, Idle
  <2>2. scanner' = [scanner EXCEPT ![k] = [Idle EXCEPT !.pc = "waiting", !.sub = s]]
    BY <1>7 DEF ScanNow
  <2> QED
    BY <1>w, <2>1, <2>2
<1>8. CASE Restart
  BY <1>i, <1>8 DEF Restart
<1>9. ASSUME NEW s \in Subs, UpdateProfile(s) \/ DeleteSubscription(s) \/ FallsDue(s)
      PROVE  UNCHANGED scanner
  BY <1>9 DEF UpdateProfile, DeleteSubscription, FallsDue
<1>10. ASSUME NEW v \in Videos, AddOneOff(v)
       PROVE  UNCHANGED scanner
  BY <1>10 DEF AddOneOff
<1>11. PickDue \/ DownloadsTurn \/ UNCHANGED vars => UNCHANGED scanner
  BY DEF PickDue, DownloadsTurn, vars
<1>12. ASSUME NEW s \in Subs, NEW v \in Videos, EnterPlaylist(s, v)
       PROVE  UNCHANGED scanner
  BY <1>12 DEF EnterPlaylist
<1> QED
  BY <1>2, <1>3, <1>4, <1>5, <1>6, <1>7, <1>8, <1>9, <1>10, <1>11,
     <1>12, StepsOfTheScans

LEMMA SeenStep ==
    ASSUME TypeInv, TypeInv', SeenInv, [Next]_vars
    PROVE  SeenInv'
<1> USE ScanAssumption
<1> SUFFICES ASSUME NoneDeleted'
             PROVE  /\ \A s \in Subs : \A v \in seen'[s] : row'[v] # NoRow
                    /\ \A k \in Scanners : At(k, "inspecting")' => CoversListing(k)'
  BY DEF SeenInv
<1>0. /\ NoneDeleted
      /\ \A v \in Videos : row[v] # NoRow => row'[v] # NoRow
  BY RowsStay
<1>1. ASSUME NEW s \in Subs, NEW v \in seen'[s]
      PROVE  row'[v] # NoRow
  <2>1. CASE v \in seen[s]
    BY <1>0, <2>1 DEF SeenInv, TypeInv, TypeOK
  <2>2. CASE v \notin seen[s]
    <3>1. PICK k \in Scanners : Insert(k)
      BY <1>1, <2>2, SeenGrows
    <3>2. /\ s = scanner[k].sub /\ v \in scanner[k].listing /\ v \in Videos
          /\ row' = [w \in Videos |->
                        IF w \in DOMAIN scanner[k].decided /\ row[w] = NoRow
                        THEN [owner |-> s, status |-> scanner[k].decided[w]]
                        ELSE row[w]]
      BY <1>1, <2>2, <3>1 DEF Insert, TypeInv, TypeOK
    <3>3. v \in DOMAIN scanner[k].decided \/ row[v] # NoRow
      BY <1>0, <3>1, <3>2 DEF Insert, SeenInv, CoversListing
    <3>4. \A x : [owner |-> s, status |-> x] # NoRow
      BY DEF NoRow
    <3> QED
      BY <3>2, <3>3, <3>4
  <2> QED
    BY <2>1, <2>2
<1>2. ASSUME NEW l \in Scanners, At(l, "inspecting")'
      PROVE  CoversListing(l)'
  <2>1. CASE scanner'[l] = scanner[l]
    <3>1. CoversListing(l) /\ scanner[l].listing \subseteq Videos
      BY <1>0, <1>2, <2>1 DEF SeenInv, At, TypeInv, TypeOK, Scans
    <3> QED
      BY <1>0, <2>1, <3>1 DEF CoversListing
  <2>2. ~ListPlaylist(l)
    BY <1>2 DEF ListPlaylist, At, TypeInv, TypeOK, Scans
  <2>3. CASE Decide(l)
    <3>1. Exists(scanner[l].sub)
      BY <1>2, <2>3, IdleIsAScan DEF Decide, End, At, TypeInv, TypeOK
    <3>2. PICK rejected : scanner' = [scanner EXCEPT ![l].pc = "inspecting",
                                                     ![l].decided = Decided(l, rejected)]
      BY <2>3, <3>1 DEF Decide
    <3> DEFINE d == Decided(l, rejected)
    <3>3. DOMAIN d = {v \in scanner[l].listing : row[v] = NoRow}
      BY DEF Decided
    <3> HIDE DEF d
    <3>4. scanner'[l].listing = scanner[l].listing /\ scanner'[l].decided = d
      BY <3>2 DEF TypeInv, TypeOK, Scans, d
    <3>5. UNCHANGED row
      BY <2>3 DEF Decide, store
    <3> QED
      BY <3>3, <3>4, <3>5 DEF CoversListing
  <2> QED
    BY <1>2, <2>1, <2>2, <2>3, ScannersProgress DEF At
<1> QED
  BY <1>1, <1>2

(* While no subscription is deleted, a scan never gives a row to a video   *)
(* that an earlier scan of the subscription has dealt with: what one scan  *)
(* decides minutes before it inserts, and what others insert or fail to    *)
(* insert meanwhile, leaves no listed video without its row.               *)
THEOREM SeenStaysSeen == Spec => SeenIsNotNew
<1>1. Init => SeenInv
  BY DEF Init, SeenInv, Idle, At
<1>2. TypeInv /\ TypeInv' /\ SeenInv /\ [Next]_vars => SeenInv'
  BY SeenStep
<1>3. TypeInv /\ SeenInv /\ [Next]_vars =>
         [(\A t \in Subs : sub[t].state # "deleted") =>
             \A s \in Subs : Inserted(s) \intersect seen[s] = {}]_vars
  BY DEF SeenInv, NoneDeleted, Inserted
<1> QED
  BY <1>1, <1>2, <1>3, TypesAlways, PTL DEF Spec, SeenIsNotNew
-----------------------------------------------------------------------------
(* The first rows of a subscription.                                       *)

(* What is newer than v in a listing.                                      *)
Newer(listing, v) == {w \in listing : w > v}

LEMMA NewerIsFinite ==
    ASSUME NEW listing \in SUBSET Videos, NEW v
    PROVE  IsFiniteSet(Newer(listing, v)) /\ Cardinality(Newer(listing, v)) \in Nat
<1>1. IsFiniteSet(Videos)
  BY FS_Interval, ScanAssumption DEF Videos
<1>2. Newer(listing, v) \in SUBSET Videos
  BY DEF Newer
<1> QED
  BY <1>1, <1>2, FS_Subset, FS_CardinalityType

(* Of two entries, the older one has more entries that are newer.          *)
LEMMA OlderHasMoreNewer ==
    ASSUME NEW listing \in SUBSET Videos, NEW v \in listing, NEW w \in listing, v < w
    PROVE  Cardinality(Newer(listing, w)) < Cardinality(Newer(listing, v))
<1>1. Newer(listing, w) \in SUBSET Newer(listing, v)
  <2>1. \A u \in listing : u \in Int
    BY DEF Videos
  <2>2. \A u \in Newer(listing, w) : u \in Newer(listing, v)
    BY <2>1 DEF Newer
  <2> QED
    BY <2>2
<1>2. w \in Newer(listing, v) /\ w \notin Newer(listing, w)
  BY ScanAssumption DEF Newer, Videos
<1>3. Cardinality(Newer(listing, w)) <= Cardinality(Newer(listing, v))
  BY <1>1, NewerIsFinite, FS_Subset
<1>4. Cardinality(Newer(listing, w)) # Cardinality(Newer(listing, v))
  BY <1>1, <1>2, NewerIsFinite, FS_Subset
<1> QED
  BY <1>3, <1>4, NewerIsFinite

(* The newest N of a listing are N at most: no two of them have as many    *)
(* newer entries, and none has N.                                          *)
LEMMA NewestAreFew ==
    ASSUME NEW listing \in SUBSET Videos, NEW n \in Nat
    PROVE  /\ IsFiniteSet(Newest(listing, n))
           /\ Cardinality(Newest(listing, n)) <= n
<1> DEFINE age == [v \in Newest(listing, n) |-> Cardinality(Newer(listing, v))]
<1>1. \A v \in Newest(listing, n) : v \in listing /\ age[v] < n
  BY DEF Newest, Newer
<1>2. \A v \in Newest(listing, n) : age[v] \in 0..(n - 1)
  BY <1>1, NewerIsFinite
<1>3. ASSUME NEW v \in Newest(listing, n), NEW w \in Newest(listing, n), age[v] = age[w]
      PROVE  v = w
  <2>1. v \in listing /\ w \in listing
    BY <1>1
  <2>2. ~(v < w) /\ ~(w < v)
    BY <1>3, <2>1, OlderHasMoreNewer, NewerIsFinite
  <2> QED
    BY <2>1, <2>2, ScanAssumption DEF Videos
<1>4. age \in Injection(Newest(listing, n), 0..(n - 1))
  BY <1>2, <1>3 DEF Injection, IsInjective
<1>5. IsFiniteSet(0..(n - 1)) /\ Cardinality(0..(n - 1)) = n
  BY FS_Interval
<1> QED
  BY <1>4, <1>5, FS_Injection

(* What is not among the newest is older than all of them.                 *)
LEMMA NewestAreNewest ==
    ASSUME NEW listing \in SUBSET Videos, NEW n \in Nat,
           NEW v \in Newest(listing, n), NEW w \in listing, w \notin Newest(listing, n)
    PROVE  w < v
<1>1. v \in listing /\ Cardinality(Newer(listing, v)) < n
      /\ ~(Cardinality(Newer(listing, w)) < n)
  BY DEF Newest, Newer
<1>2. ~(v < w)
  BY <1>1, OlderHasMoreNewer, NewerIsFinite
<1>3. v # w
  OBVIOUS
<1> QED
  BY <1>1, <1>2, <1>3, ScanAssumption DEF Videos

(* While a subscription has no row, a scan of it that has decided has made *)
(* history of all but the newest N of its listing.                         *)
DecidedByAge(k) ==
    LET s == scanner[k].sub IN
    /\ DOMAIN scanner[k].decided \subseteq scanner[k].listing
    /\ \A v \in DOMAIN scanner[k].decided :
          scanner[k].decided[v] = History
             <=> v \notin Newest(scanner[k].listing, LastN[s])

FirstRowsInv ==
    \A k \in Scanners :
        At(k, "inspecting") /\ Exists(scanner[k].sub) /\ Own(scanner[k].sub) = {}
            => DecidedByAge(k)

(* A subscription keeps its rows as long as it exists.                     *)
LEMMA OwnRowsStay ==
    ASSUME TypeInv, [Next]_vars, NEW s \in Subs, sub[s].state # "absent", Exists(s)'
    PROVE  Exists(s) /\ Own(s) \subseteq Own(s)'
<1> USE ScanAssumption
<1>1. ASSUME NEW t \in Subs, DeleteSubscription(t)
      PROVE  Exists(s) /\ Own(s) \subseteq Own(s)'
  <2>1. s # t
    BY <1>1 DEF DeleteSubscription, Exists, NotYet, TypeInv, TypeOK
  <2> QED
    BY <1>1, <2>1 DEF DeleteSubscription, Exists, Own, NotYet, TypeInv, TypeOK
<1>2. CASE UNCHANGED store
  BY <1>2 DEF store, Exists, Own
<1>3. ASSUME NEW k \in Scanners, Insert(k) \/ ListFails(k)
      PROVE  Exists(s) /\ Own(s) \subseteq Own(s)'
  <2>1. \A t \in Subs : sub'[t].state = sub[t].state
    BY <1>3, ScansKeepTheState DEF TypeInv
  <2>2. Own(s) \subseteq Own(s)'
    BY <1>3 DEF Insert, ListFails, store, Own, NoRow
  <2> QED
    BY <2>1, <2>2 DEF Exists
<1>4. ASSUME NEW k \in Requests, NEW t \in Subs, AddSubscription(k, t)
      PROVE  Exists(s) /\ Own(s) \subseteq Own(s)'
  BY <1>4 DEF AddSubscription, Exists, Own, TypeInv, TypeOK
<1>5. ASSUME NEW t \in Subs, UpdateProfile(t) \/ FallsDue(t)
      PROVE  Exists(s) /\ Own(s) \subseteq Own(s)'
  BY <1>5, UsersKeepTheState DEF UpdateProfile, FallsDue, Exists, Own, TypeInv
<1>6. ASSUME NEW v \in Videos, AddOneOff(v)
      PROVE  Exists(s) /\ Own(s) \subseteq Own(s)'
  BY <1>6 DEF AddOneOff, Exists, Own, NoRow, TypeInv, TypeOK
<1> QED
  BY <1>1, <1>2, <1>3, <1>4, <1>5, <1>6, StepsOfTheScans
  DEF vars, Begin, ListPlaylist, Decide, ScanRaises, PickDue, StartNext, DownloadsTurn,
      ScanNow, EnterPlaylist, Restart

(* An initial scan decides by age alone what is history.                   *)
LEMMA InitialScansDecideByAge ==
    ASSUME TypeInv, NEW k \in Scanners, NEW rejected, IsInitial(k)
    PROVE  /\ DOMAIN Decided(k, rejected) \subseteq scanner[k].listing
           /\ \A v \in DOMAIN Decided(k, rejected) :
                 Decided(k, rejected)[v] = History
                    <=> v \notin Newest(scanner[k].listing, LastN[scanner[k].sub])
<1> DEFINE s == scanner[k].sub
           listing == scanner[k].listing
<1>1. \A v : Status(s, v, IsInitial(k), listing, rejected) = History
               <=> v \notin Newest(listing, LastN[s])
  <2> DEFINE initial == IsInitial(k)
  <2>1. initial \in BOOLEAN
    BY DEF IsInitial
  <2>2. initial
    OBVIOUS
  <2> HIDE DEF initial
  <2> SUFFICES ASSUME NEW v
               PROVE  Status(s, v, initial, listing, rejected) = History
                         <=> v \notin Newest(listing, LastN[s])
    BY DEF initial
  <2>3. CASE v \notin Newest(listing, LastN[s])
    BY <2>2, <2>3 DEF Status, History
  <2>4. CASE v \in Newest(listing, LastN[s])
    BY <2>2, <2>4 DEF Status, History
  <2> QED
    BY <2>3, <2>4
<1> QED
  BY <1>1 DEF Decided

LEMMA FirstRowsStep ==
    ASSUME TypeInv, TypeInv', FirstRowsInv, [Next]_vars
    PROVE  FirstRowsInv'
<1> SUFFICES ASSUME NEW k \in Scanners, At(k, "inspecting")',
                    Exists(scanner[k].sub)', Own(scanner[k].sub)' = {}
             PROVE  DecidedByAge(k)'
  BY DEF FirstRowsInv
<1>1. CASE scanner'[k] = scanner[k]
  <2> DEFINE s == scanner[k].sub
  <2>1. s \in Subs /\ sub[s].state # "absent" /\ At(k, "inspecting")
    BY <1>1 DEF TypeInv, TypeOK, Scans, ScannedExist, At
  <2>2. Exists(s) /\ Own(s) = {}
    BY <1>1, <2>1, OwnRowsStay DEF Exists, Own
  <2>3. DecidedByAge(k)
    BY <2>1, <2>2 DEF FirstRowsInv
  <2> QED
    BY <1>1, <2>3 DEF DecidedByAge, Newest
<1>2. CASE Decide(k)
  <2>1. PICK rejected \in SUBSET scanner[k].listing :
           scanner' = [scanner EXCEPT ![k].pc = "inspecting",
                                      ![k].decided = Decided(k, rejected)]
    BY <1>2, IdleIsAScan DEF Decide, End, At, TypeInv, TypeOK
  <2>2. /\ scanner'[k].sub = scanner[k].sub /\ scanner'[k].listing = scanner[k].listing
        /\ scanner'[k].decided = Decided(k, rejected)
    BY <2>1 DEF TypeInv, TypeOK, Scans
  <2>3. IsInitial(k)
    BY <1>2, <2>2 DEF Decide, IsInitial, Own, store
  <2> QED
    BY <2>2, <2>3, InitialScansDecideByAge DEF DecidedByAge, Newest
<1>3. ~ListPlaylist(k)
  BY DEF ListPlaylist, At, TypeInv, TypeOK, Scans
<1> QED
  BY <1>1, <1>2, <1>3, ScannersProgress DEF At

(* The rows of a subscription are inserted by a scan of it, as decided.    *)
LEMMA InsertedByAScan ==
    ASSUME TypeInv, [Next]_vars, NEW s \in Subs, NEW v \in Inserted(s)
    PROVE  \E k \in Scanners :
              /\ Insert(k) /\ s = scanner[k].sub /\ Exists(s)
              /\ v \in DOMAIN scanner[k].decided
              /\ row'[v].status = scanner[k].decided[v]
<1> USE ScanAssumption DEF TypeInv
<1>1. v \in Videos /\ row[v] = NoRow /\ row'[v].owner = s
  BY DEF Inserted
<1>2. row'[v].owner # row[v].owner
  BY <1>1 DEF NoRow
<1>3. ASSUME NEW t \in Subs, DeleteSubscription(t)
      PROVE  FALSE
  BY <1>1, <1>2, <1>3 DEF DeleteSubscription
<1>4. ASSUME NEW w \in Videos, AddOneOff(w)
      PROVE  FALSE
  BY <1>1, <1>2, <1>4 DEF AddOneOff, TypeOK
<1>5. PICK k \in Scanners : Insert(k)
  BY <1>2, <1>3, <1>4, StepsOfTheScans
  DEF vars, store, Begin, ListPlaylist, ListFails, Decide, ScanRaises, PickDue,
      StartNext, DownloadsTurn, GiveUp, AddSubscription, ScanNow, UpdateProfile, FallsDue,
      EnterPlaylist, Restart
<1>6. Exists(scanner[k].sub)
  BY <1>2, <1>5 DEF Insert, store
<1>7. row' = [w \in Videos |-> IF w \in DOMAIN scanner[k].decided /\ row[w] = NoRow
                               THEN [owner |-> scanner[k].sub,
                                     status |-> scanner[k].decided[w]]
                               ELSE row[w]]
  BY <1>5, <1>6 DEF Insert
<1>8. /\ s = scanner[k].sub /\ v \in DOMAIN scanner[k].decided
      /\ row'[v].status = scanner[k].decided[v]
  BY <1>1, <1>2, <1>7
<1> QED
  BY <1>5, <1>6, <1>8

(* What a subscription without rows is given: by one scan, by age.         *)
LEMMA FirstRowsAreByAge ==
    ASSUME TypeInv, FirstRowsInv, [Next]_vars, NEW s \in Subs, Own(s) = {}
    PROVE  LET queued == {v \in Inserted(s) : row'[v].status = "QUEUED"} IN
           /\ Cardinality(queued) <= LastN[s]
           /\ \A v \in queued, w \in Inserted(s) : row'[w].status = History => w < v
<1> DEFINE queued == {v \in Inserted(s) : row'[v].status = "QUEUED"}
<1>0. LastN[s] \in Nat
  BY ScanAssumption
<1>1. CASE Inserted(s) = {}
  <2>1. queued = {}
    BY <1>1
  <2> HIDE DEF queued
  <2>2. Cardinality(queued) <= LastN[s]
    BY <1>0, <2>1, FS_EmptySet
  <2> QED
    BY <1>1, <2>1, <2>2 DEF queued
<1>2. ASSUME NEW u \in Inserted(s)
      PROVE  /\ Cardinality(queued) <= LastN[s]
             /\ \A v \in queued, w \in Inserted(s) : row'[w].status = History => w < v
  <2>1. PICK k \in Scanners : Insert(k) /\ s = scanner[k].sub /\ Exists(s)
    BY <1>2, InsertedByAScan
  <2> DEFINE listing == scanner[k].listing
             newest == Newest(listing, LastN[s])
  <2>2. listing \in SUBSET Videos
    BY DEF TypeInv, TypeOK, Scans
  <2>3. DecidedByAge(k)
    BY <2>1 DEF FirstRowsInv, Insert
  <2>4. \A v \in Inserted(s) : /\ v \in DOMAIN scanner[k].decided
                               /\ row'[v].status = scanner[k].decided[v]
    BY <2>1, ScanAssumption DEF Insert, store, Inserted, NoRow
  <2>5. \A v \in Inserted(s) : /\ v \in listing
                               /\ row'[v].status = History <=> v \notin newest
    BY <2>1, <2>3, <2>4 DEF DecidedByAge
  <2>6. queued \in SUBSET newest
    BY <2>5 DEF History
  <2>7. IsFiniteSet(newest) /\ Cardinality(newest) <= LastN[s]
    BY <1>0, <2>2, NewestAreFew
  <2>8. Cardinality(queued) <= LastN[s]
    <3> HIDE DEF queued, newest
    <3>1. Cardinality(queued) <= Cardinality(newest) /\ IsFiniteSet(queued)
      BY <2>6, <2>7, FS_Subset
    <3>2. Cardinality(queued) \in Nat /\ Cardinality(newest) \in Nat
      BY <2>7, <3>1, FS_CardinalityType
    <3> QED
      BY <1>0, <2>7, <3>1, <3>2
  <2>9. ASSUME NEW v \in queued, NEW w \in Inserted(s), row'[w].status = History
        PROVE  w < v
    BY <1>0, <2>2, <2>5, <2>6, <2>9, NewestAreNewest
  <2> QED
    BY <2>8, <2>9
<1> QED
  BY <1>1, <1>2

(* The first rows a subscription is given queue its N newest videos, or    *)
(* what the filters leave of them, and write off only what is older: in    *)
(* whatever order its scans run, fail and are cut short, and whatever the  *)
(* others insert meanwhile.                                                *)
THEOREM FirstRowsAreNewest == Spec => FirstRowsAreLastN
<1>1. TypeInv /\ TypeInv' /\ FirstRowsInv /\ [Next]_vars => FirstRowsInv'
  BY FirstRowsStep
<1>2. Init => FirstRowsInv
  BY DEF Init, FirstRowsInv, Idle, At
<1>3. TypeInv /\ FirstRowsInv /\ [Next]_vars =>
        [\A s \in Subs :
            Own(s) = {} =>
               LET queued == {v \in Inserted(s) : row'[v].status = "QUEUED"} IN
               /\ Cardinality(queued) <= LastN[s]
               /\ \A v \in queued, w \in Inserted(s) :
                     row'[w].status = "IGNORED_INITIAL_HISTORY" => w < v]_vars
  BY FirstRowsAreByAge DEF History
<1> QED
  BY <1>1, <1>2, <1>3, TypesAlways, PTL DEF Spec, FirstRowsAreLastN
=============================================================================
