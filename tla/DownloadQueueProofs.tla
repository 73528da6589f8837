------------------------- MODULE DownloadQueueProofs -------------------------
(***************************************************************************)
(* Proofs about DownloadQueue for every set of videos and handlers, every  *)
(* waiting time and every number of restarts: type correctness, and what   *)
(* moves, retries and insertions make of the order of the queue.           *)
(***************************************************************************)
EXTENDS DownloadQueueRefinement, FiniteSetTheorems, TLAPS

-----------------------------------------------------------------------------
(* Pending writes.                                                         *)

(* Assigning one value to some rows is a partial function into its type.   *)
LEMMA AssignIsPartial ==
    ASSUME NEW T, NEW x \in T, NEW S \in SUBSET Videos
    PROVE  PartialFunction(Assign(S, x), T)
BY DEF PartialFunction, Assign

(* So is the part of such an assignment that changes anything.             *)
LEMMA ChangeIsPartial ==
    ASSUME NEW T, NEW x \in T, NEW S \in SUBSET Videos, NEW column
    PROVE  PartialFunction(Change(column, S, x), T)
BY DEF PartialFunction, Change, Assign

LEMMA NoWriteIsPartial ==
    ASSUME NEW T
    PROVE  PartialFunction(NoWrite, T)
BY DEF PartialFunction, NoWrite

LEMMA NoWritesIsSession == IsSession(NoWrites)
BY NoWriteIsPartial DEF IsSession, NoWrites

(* Committing well-typed writes keeps the column's type.                   *)
LEMMA OverwrittenType ==
    ASSUME NEW T, NEW U \in SUBSET T, NEW column \in [Videos -> T],
           NEW writes, PartialFunction(writes, U)
    PROVE  Overwritten(column, writes) \in [Videos -> T]
BY DEF PartialFunction, Overwritten

(* The positions of a listing are natural numbers.                         *)
LEMMA PositionType ==
    ASSUME NEW listing, DOMAIN listing \subseteq Nat \ {0},
           NEW v, InListing(listing, v)
    PROVE  Position(listing, v) \in Nat \ {0} /\ listing[Position(listing, v)] = v
BY DEF InListing, Position

LEMMA RankChangesIsPartial ==
    ASSUME NEW listing, DOMAIN listing \subseteq Nat \ {0},
           NEW rank \in [Videos -> Nat]
    PROVE  PartialFunction(RankChanges(listing, rank), Nat)
<1> DEFINE after == Renumbered(listing, rank)
           changed == {v \in Videos : after[v] # rank[v]}
<1>1. \A v \in Videos : after[v] \in Nat
  BY PositionType DEF Renumbered
<1>2. RankChanges(listing, rank) = [v \in changed |-> after[v]]
  BY DEF RankChanges
<1> QED
  BY <1>1, <1>2 DEF PartialFunction

-----------------------------------------------------------------------------
(* Type correctness.                                                       *)

(* A session is five partial functions; the rest of NoWrites stays as is.  *)
LEMMA SessionFromParts ==
    ASSUME NEW st, PartialFunction(st, AssignedStatuses),
           NEW due, PartialFunction(due, Nat),
           NEW rank, PartialFunction(rank, Nat),
           NEW path, PartialFunction(path, {"none", "media"}),
           NEW pause \in Nat
    PROVE  IsSession([status |-> st, next_attempt_at |-> due, queue_rank |-> rank,
                      local_path |-> path, cooldown |-> pause])
BY DEF IsSession

(* What the assignments of the scheduler and of the handlers write.        *)
LEMMA StatusAssigned ==
    /\ {"QUEUED", "FAILED_TEMPORARY", "PAUSED", "COMPLETED", "EXPIRED",
        "IGNORED_MANUAL"} \subseteq AssignedStatuses
    /\ AssignedStatuses \subseteq Statuses
    /\ {"QUEUED", "DOWNLOADING", IgnoredByScan, "DELETED"} \subseteq Statuses
BY DEF AssignedStatuses, Statuses, ActiveStatuses, IgnoredByScan

(* A commit of well-typed writes keeps the stored columns well-typed.      *)
LEMMA FlushTypes ==
    ASSUME StoredTypes, NEW writes, IsSession(writes), Flush(writes),
           UNCHANGED queue_paused
    PROVE  StoredTypes'
<1>1. status' \in [Videos -> Statuses]
  BY OverwrittenType, StatusAssigned DEF StoredTypes, IsSession, Flush
<1>2. next_attempt_at' \in [Videos -> Nat \union {NoTime}]
  BY OverwrittenType DEF StoredTypes, IsSession, Flush
<1>3. queue_rank' \in [Videos -> Nat]
  BY OverwrittenType DEF StoredTypes, IsSession, Flush
<1>4. local_path' \in [Videos -> {"none", "media", "stream"}]
  BY OverwrittenType, {"none", "media"} \subseteq {"none", "media", "stream"}
  DEF StoredTypes, IsSession, Flush
<1>5. cooldown' \in Nat
  BY DEF StoredTypes, IsSession, Flush
<1> QED
  BY <1>1, <1>2, <1>3, <1>4, <1>5 DEF StoredTypes

(* A step of the scheduler that commits nothing of its own.                *)
LEMMA QuietLoopStep ==
    ASSUME TypeOK, UNCHANGED <<rows, state, request, bounds>>, LoopTypes'
    PROVE  TypeOK'
BY DEF TypeOK, StoredTypes, RequestTypes, rows, state, bounds

(* A commit of the scheduler's session.                                    *)
LEMMA LoopCommitTypes ==
    ASSUME TypeOK, NEW from, NEW to, LoopCommit(from, to),
           to \in {"pick", "gap", "tidy", "sleep"}
    PROVE  TypeOK'
<1>1. StoredTypes'
  <2>1. CASE Flush(session)
    BY <2>1, FlushTypes DEF TypeOK, LoopTypes, LoopCommit
  <2>2. CASE UNCHANGED <<rows, cooldown>>
    BY <2>2 DEF TypeOK, StoredTypes, LoopCommit, rows
  <2> QED  BY <2>1, <2>2 DEF LoopCommit
<1>2. LoopTypes'
  BY NoWritesIsSession DEF LoopTypes, LoopCommit, WithJob, AwaitPoints
<1> QED
  BY <1>1, <1>2 DEF TypeOK, RequestTypes, LoopCommit, bounds

(* Every step of the scheduler keeps the types.                            *)
LEMMA LoopStepTypes ==
    ASSUME TypeOK, LoopStep
    PROVE  TypeOK'
<1> USE DEF Rows, AwaitPoints, WithJob
<1>1. CASE RecoverRead
  <2>1. IsSession(session')
    <3> DEFINE chosen == Rows({"DOWNLOADING"})
    <3>1. chosen \in SUBSET Videos
      OBVIOUS
    <3>2. PartialFunction(Assign(chosen, "FAILED_TEMPORARY"), AssignedStatuses)
      BY <3>1, AssignIsPartial, StatusAssigned
    <3>3. PartialFunction(Assign(chosen, 0), Nat)
      BY <3>1, AssignIsPartial
    <3> DEFINE opened == [NoWrites EXCEPT
                              !.status = Assign(chosen, "FAILED_TEMPORARY"),
                              !.next_attempt_at = Assign(chosen, 0)]
    <3>4. IsSession(opened)
      BY <3>2, <3>3, NoWriteIsPartial DEF IsSession, NoWrites
    <3>5. session' = NoWrites \/ session' = opened
      BY <1>1 DEF RecoverRead
    <3> QED
      BY <3>4, <3>5, NoWritesIsSession
  <2> QED  BY <1>1, <2>1, QuietLoopStep DEF RecoverRead, TypeOK, LoopTypes
<1>2. CASE RecoverCommit
  <2>1. StoredTypes'
    <3>1. CASE Flush(session)
      BY <1>2, <3>1, FlushTypes DEF TypeOK, LoopTypes, RecoverCommit
    <3>2. CASE UNCHANGED <<rows, cooldown>>
      BY <1>2, <3>2 DEF TypeOK, StoredTypes, RecoverCommit, rows
    <3> QED  BY <1>2, <3>1, <3>2 DEF RecoverCommit
  <2>2. LoopTypes'
    BY <1>2, NoWritesIsSession DEF LoopTypes, RecoverCommit
  <2> QED
    BY <1>2, <2>1, <2>2 DEF TypeOK, RequestTypes, RecoverCommit, bounds
<1>3. CASE ReleaseRead
  <2>1. IsSession(session')
    <3> DEFINE chosen == {v \in Rows({"COMPLETED"}) : local_path[v] = "stream"}
    <3>1. chosen \in SUBSET Videos
      OBVIOUS
    <3>2. PartialFunction(Assign(chosen, "QUEUED"), AssignedStatuses)
      BY <3>1, AssignIsPartial, StatusAssigned
    <3>3. PartialFunction(Assign(chosen, 0), Nat)
      BY <3>1, AssignIsPartial
    <3>4. PartialFunction(Assign(chosen, "none"), {"none", "media"})
      BY <3>1, AssignIsPartial
    <3> QED
      BY <1>3, <3>2, <3>3, <3>4, NoWriteIsPartial DEF ReleaseRead, IsSession, NoWrites
  <2> QED  BY <1>3, <2>1, QuietLoopStep DEF ReleaseRead, TypeOK, LoopTypes
<1>4. CASE PickNothing
  BY <1>4, QuietLoopStep DEF PickNothing, TypeOK, LoopTypes
<1>5. CASE StorageFails
  BY <1>5, WaitsAssumption
  DEF StorageFails, TypeOK, StoredTypes, LoopTypes, RequestTypes, rows, bounds
<1>6. CASE PickJob
  BY <1>6, QuietLoopStep DEF PickJob, Due, TypeOK, LoopTypes
<1>7. CASE Recheck
  BY <1>7, QuietLoopStep DEF Recheck, GiveUpJob, TypeOK, LoopTypes
<1>8. CASE FindNoFile
  BY <1>8, QuietLoopStep DEF FindNoFile, TypeOK, LoopTypes
<1>9. CASE AdoptRead
  <2>1. IsSession(session')
    <3> DEFINE chosen == {job}
    <3>1. chosen \in SUBSET Videos
      BY <1>9 DEF AdoptRead, TypeOK, LoopTypes
    <3>2. PartialFunction(Assign(chosen, "COMPLETED"), AssignedStatuses)
      BY <3>1, AssignIsPartial, StatusAssigned
    <3>4. PartialFunction(Assign(chosen, "media"), {"none", "media"})
      BY <3>1, AssignIsPartial
    <3> DEFINE opened == [NoWrites EXCEPT
                              !.status = Assign(chosen, "COMPLETED"),
                              !.local_path = Assign(chosen, "media")]
    <3>5. IsSession(opened)
      BY <3>2, <3>4, NoWriteIsPartial DEF IsSession, NoWrites
    <3>6. session' = session \/ session' = opened
      BY <1>9 DEF AdoptRead, GiveUpJob
    <3> QED
      BY <3>5, <3>6 DEF TypeOK, LoopTypes
  <2> QED  BY <1>9, <2>1, QuietLoopStep DEF AdoptRead, GiveUpJob, TypeOK, LoopTypes
<1>10. CASE Claim
  BY <1>10, StatusAssigned
  DEF Claim, GiveUpJob, TypeOK, StoredTypes, LoopTypes, RequestTypes, state, bounds
<1>11. CASE ConfirmClaim
  BY <1>11, QuietLoopStep DEF ConfirmClaim, GiveUpJob, TypeOK, LoopTypes
<1>12. CASE TransferSucceeds
  <2>1. IsSession(session')
    <3> DEFINE chosen == {job}
    <3>1. chosen \in SUBSET Videos
      BY <1>12 DEF TransferSucceeds, TypeOK, LoopTypes
    <3>2. PartialFunction(Change(status, chosen, "COMPLETED"), AssignedStatuses)
      BY <3>1, ChangeIsPartial, StatusAssigned
    <3>4. PartialFunction(Assign(chosen, "media"), {"none", "media"})
      BY <3>1, AssignIsPartial
    <3> QED
      BY <1>12, <3>2, <3>4, NoWriteIsPartial DEF TransferSucceeds, IsSession, NoWrites
  <2> QED  BY <1>12, <2>1, QuietLoopStep DEF TransferSucceeds, TypeOK, LoopTypes
<1>13. ASSUME NEW wait \in Nat, NEW pause \in Nat, TransferFails(wait, pause)
       PROVE  TypeOK'
  <2>1. IsSession(session')
    <3> DEFINE chosen == {job}
    <3>1. chosen \in SUBSET Videos
      BY <1>13 DEF TransferFails, TypeOK, LoopTypes
    <3>2. PartialFunction(Change(status, chosen, "FAILED_TEMPORARY"), AssignedStatuses)
      BY <3>1, ChangeIsPartial, StatusAssigned
    <3>3. PartialFunction(Assign(chosen, wait), Nat)
      BY <3>1, AssignIsPartial
    <3> QED
      BY <1>13, <3>2, <3>3, NoWriteIsPartial DEF TransferFails, IsSession, NoWrites
  <2> QED  BY <1>13, <2>1, QuietLoopStep DEF TransferFails, TypeOK, LoopTypes
<1>14. CASE TransferOrphaned
  BY <1>14, QuietLoopStep DEF TransferOrphaned, GiveUpJob, TypeOK, LoopTypes
<1>15. CASE StartGap
  BY <1>15, WaitsAssumption
  DEF StartGap, TypeOK, StoredTypes, LoopTypes, RequestTypes, rows, bounds
<1>16. CASE RetentionRead
  <2>1. IsSession(session')
    <3> PICK overdue \in SUBSET Rows({"COMPLETED"}) :
          session' = [NoWrites EXCEPT
              !.status = Assign(overdue, "EXPIRED"),
              !.local_path = Assign(overdue, "none")]
      BY <1>16 DEF RetentionRead
    <3> DEFINE chosen == overdue
    <3>1. chosen \in SUBSET Videos
      BY <1>16 DEF RetentionRead, TypeOK, LoopTypes
    <3>2. PartialFunction(Assign(chosen, "EXPIRED"), AssignedStatuses)
      BY <3>1, AssignIsPartial, StatusAssigned
    <3>4. PartialFunction(Assign(chosen, "none"), {"none", "media"})
      BY <3>1, AssignIsPartial
    <3> QED
      BY <1>16, <3>2, <3>4, NoWriteIsPartial DEF IsSession, NoWrites
  <2> QED  BY <1>16, <2>1, QuietLoopStep DEF RetentionRead, TypeOK, LoopTypes
<1>17. CASE ReleaseCommit \/ AdoptCommit \/ CompleteCommit \/ FailCommit \/ RetentionCommit
  BY <1>17, LoopCommitTypes
  DEF ReleaseCommit, AdoptCommit, CompleteCommit, FailCommit, RetentionCommit
<1> QED
  BY <1>1, <1>2, <1>3, <1>4, <1>5, <1>6, <1>7, <1>8, <1>9, <1>10, <1>11, <1>12,
     <1>13, <1>14, <1>15, <1>16, <1>17, WaitsAssumption
  DEF LoopStep, TransferFailsTemporarily, TransferIsRefused

-----------------------------------------------------------------------------
(* The handlers and the environment.                                       *)

(* A handler that opens with well-typed writes and changes no row.         *)
LEMMA OpenTypes ==
    ASSUME TypeOK, NEW h \in Handlers, NEW kind \in {"thread", "coroutine"},
           NEW writes, IsSession(writes), Open(h, kind, writes),
           UNCHANGED <<loop, bounds>>, StoredTypes'
    PROVE  TypeOK'
<1>1. RequestTypes'
  BY DEF TypeOK, RequestTypes, Open
<1> QED
  BY <1>1 DEF TypeOK, LoopTypes, loop, bounds

(* Listings of the queue are functions on positions 1, 2, ...              *)
LEMMA ListingDomains ==
    /\ \A S, rank, due : \A q \in Listings(S, rank, due) :
          DOMAIN q \subseteq Nat \ {0}
    /\ \A S, v, running, rank, due : \A q \in RetryListings(S, v, running, rank, due) :
          DOMAIN q \subseteq Nat \ {0}
    /\ \A q, v, delta : DOMAIN Moved(q, v, delta) = DOMAIN q
<1>1. \A S, rank, due : \A q \in Listings(S, rank, due) :
         DOMAIN q \subseteq Nat \ {0}
  BY DEF Listings
<1>2. \A S, v, running, rank, due : \A q \in RetryListings(S, v, running, rank, due) :
         DOMAIN q \subseteq Nat \ {0}
  BY DEF RetryListings
<1>3. \A q, v, delta : DOMAIN Moved(q, v, delta) = DOMAIN q
  BY DEF Moved
<1> QED
  BY <1>1, <1>2, <1>3

LEMMA RetryWritesType ==
    ASSUME NEW v \in Videos, NEW st, PartialFunction(st, AssignedStatuses),
           NEW listing, DOMAIN listing \subseteq Nat \ {0},
           NEW rank \in [Videos -> Nat]
    PROVE  IsSession(RetryWrites(v, st, listing, rank))
<1>1. PartialFunction(Assign({v}, 0), Nat)
  BY AssignIsPartial
<1>2. PartialFunction(RankChanges(listing, rank), Nat)
  BY RankChangesIsPartial
<1> QED
  BY <1>1, <1>2, NoWriteIsPartial DEF RetryWrites, IsSession, NoWrites

(* The next rank is a natural number.                                      *)
LEMMA NextRankType ==
    ASSUME NEW S \in SUBSET Videos, NEW rank \in [Videos -> Nat]
    PROVE  NextRanks(S, rank) \subseteq Nat
BY DEF NextRanks

(* Every step of a handler keeps the types.                                *)
LEMMA HandlerStepTypes ==
    ASSUME TypeOK, NEW h \in Handlers, HandlerStep(h)
    PROVE  TypeOK'
<1> USE DEF Rows, Active
<1>1. ASSUME UNCHANGED <<rows, state>>  PROVE StoredTypes'
  BY <1>1 DEF TypeOK, StoredTypes, rows, state
<1>2. CASE CommitRequest(h)
  <2>1. StoredTypes'
    <3>1. CASE Flush(request[h].writes)
      BY <1>2, <3>1, FlushTypes DEF TypeOK, RequestTypes, CommitRequest
    <3>2. CASE UNCHANGED <<rows, cooldown>>
      BY <1>2, <3>2 DEF TypeOK, StoredTypes, CommitRequest, rows
    <3> QED  BY <1>2, <3>1, <3>2 DEF CommitRequest
  <2>2. RequestTypes'
    BY <1>2, NoWritesIsSession DEF TypeOK, RequestTypes, CommitRequest, Idle
  <2> QED
    BY <1>2, <2>1, <2>2 DEF TypeOK, LoopTypes, CommitRequest, loop, bounds
<1>3. ASSUME NEW v \in Videos, RetryNow(h, v)  PROVE TypeOK'
  <2>1. PICK kind \in {"thread", "coroutine"}, listing \in WithFirst(v) :
           Open(h, kind,
                RetryWrites(v, Change(status, {v}, "QUEUED"), listing, queue_rank))
    BY <1>3 DEF RetryNow
  <2>2. DOMAIN listing \subseteq Nat \ {0}
    BY ListingDomains DEF WithFirst
  <2>3. PartialFunction(Change(status, {v}, "QUEUED"), AssignedStatuses)
    BY ChangeIsPartial, StatusAssigned
  <2>4. IsSession(RetryWrites(v, Change(status, {v}, "QUEUED"), listing, queue_rank))
    BY <2>2, <2>3, RetryWritesType DEF TypeOK, StoredTypes
  <2> QED
    BY <1>1, <1>3, <2>1, <2>4, OpenTypes DEF RetryNow
<1>4. ASSUME NEW v \in Videos, AddOneOff(h, v)  PROVE TypeOK'
  <2>1. PICK rank \in NextRanks(Active, queue_rank) :
           queue_rank' = [queue_rank EXCEPT ![v] = rank]
    BY <1>4 DEF AddOneOff
  <2>2. rank \in Nat
    BY <2>1, NextRankType DEF TypeOK, StoredTypes
  <2>3. StoredTypes'
    BY <1>4, <2>1, <2>2, StatusAssigned DEF AddOneOff, TypeOK, StoredTypes, state
  <2>4. PICK listing \in WithFirst(v) :
           Open(h, "coroutine", RetryWrites(v, NoWrite, listing, queue_rank'))
    BY <1>4 DEF AddOneOff
  <2>5. DOMAIN listing \subseteq Nat \ {0}
    BY ListingDomains DEF WithFirst
  <2>6. IsSession(RetryWrites(v, NoWrite, listing, queue_rank'))
    BY <2>3, <2>5, NoWriteIsPartial, RetryWritesType DEF StoredTypes
  <2> QED
    BY <1>4, <2>3, <2>4, <2>6, OpenTypes DEF AddOneOff
<1>5. ASSUME NEW v \in Videos, PauseItem(h, v)  PROVE TypeOK'
  <2>1. PartialFunction(Assign({v}, "PAUSED"), AssignedStatuses)
    BY AssignIsPartial, StatusAssigned
  <2>2. IsSession([NoWrites EXCEPT !.status = Assign({v}, "PAUSED")])
    BY <2>1, NoWriteIsPartial DEF IsSession, NoWrites
  <2> QED
    BY <1>1, <1>5, <2>2, OpenTypes DEF PauseItem
<1>6. ASSUME NEW v \in Videos, ResumeItem(h, v)  PROVE TypeOK'
  <2> DEFINE undated == {u \in {v} : next_attempt_at[u] = NoTime}
             resumed == [NoWrites EXCEPT !.status = Assign({v}, "QUEUED"),
                                         !.next_attempt_at = Assign(undated, 0)]
  <2>1. PartialFunction(Assign({v}, "QUEUED"), AssignedStatuses)
    BY AssignIsPartial, StatusAssigned
  <2>2. undated \in SUBSET Videos
    OBVIOUS
  <2>3. PartialFunction(Assign(undated, 0), Nat)
    BY <2>2, AssignIsPartial
  <2>4. IsSession(resumed)
    BY <2>1, <2>3, NoWriteIsPartial DEF IsSession, NoWrites
  <2> QED
    BY <1>1, <1>6, <2>4, OpenTypes DEF ResumeItem
<1>7. ASSUME NEW v \in Videos, DeleteFromQueue(h, v) \/ IgnoreVideo(h, v)
      PROVE  TypeOK'
  <2>1. PartialFunction(Change(status, {v}, "IGNORED_MANUAL"), AssignedStatuses)
    BY ChangeIsPartial, StatusAssigned
  <2>2. IsSession(IgnoreWrites(v))
    BY <2>1, NoWriteIsPartial DEF IgnoreWrites, IsSession, NoWrites
  <2> QED
    BY <1>1, <1>7, <2>2, OpenTypes DEF DeleteFromQueue, IgnoreVideo
<1>8. ASSUME NEW v \in Videos, MoveItem(h, v)  PROVE TypeOK'
  <2>1. PICK listing \in Listings(Active, queue_rank, next_attempt_at),
             delta \in {-1, 1} :
           Open(h, "thread", [NoWrites EXCEPT
                  !.queue_rank = RankChanges(Moved(listing, v, delta), queue_rank)])
    BY <1>8 DEF MoveItem
  <2>2. DOMAIN Moved(listing, v, delta) \subseteq Nat \ {0}
    BY ListingDomains
  <2>3. PartialFunction(RankChanges(Moved(listing, v, delta), queue_rank), Nat)
    BY <2>2, RankChangesIsPartial DEF TypeOK, StoredTypes
  <2>4. IsSession([NoWrites EXCEPT
                  !.queue_rank = RankChanges(Moved(listing, v, delta), queue_rank)])
    BY <2>3, NoWriteIsPartial DEF IsSession, NoWrites
  <2> QED
    BY <1>1, <1>8, <2>1, <2>4, OpenTypes DEF MoveItem
<1> QED
  BY <1>2, <1>3, <1>4, <1>5, <1>6, <1>7, <1>8 DEF HandlerStep

(* The steps of the environment keep the types.                            *)
LEMMA EnvironmentStepTypes ==
    ASSUME TypeOK,
           \/ SetQueuePaused \/ DeleteSubscription \/ ScanInserts
           \/ LoopError \/ Crash \/ Restart \/ Tick
    PROVE  TypeOK'
<1> USE DEF Rows, AwaitPoints, WithJob
<1>1. CASE SetQueuePaused
  BY <1>1 DEF SetQueuePaused, TypeOK, StoredTypes, LoopTypes, RequestTypes, rows, loop, bounds
<1>2. CASE DeleteSubscription
  <2>1. {v \in Subscribed : Exists(v)} \in SUBSET Videos
    BY VideosAssumption
  <2>2. status' \in [Videos -> Statuses]
    BY <1>2, <2>1, StatusAssigned DEF DeleteSubscription, Overwritten, Assign, TypeOK, StoredTypes
  <2>3. next_attempt_at' \in [Videos -> Nat \union {NoTime}]
    BY <1>2, <2>1 DEF DeleteSubscription, Overwritten, Assign, TypeOK, StoredTypes
  <2>4. queue_rank' \in [Videos -> Nat]
    BY <1>2, <2>1 DEF DeleteSubscription, Overwritten, Assign, TypeOK, StoredTypes
  <2>5. local_path' \in [Videos -> {"none", "media", "stream"}]
    BY <1>2, <2>1 DEF DeleteSubscription, Overwritten, Assign, TypeOK, StoredTypes
  <2> QED
    BY <1>2, <2>2, <2>3, <2>4, <2>5
    DEF DeleteSubscription, TypeOK, StoredTypes, LoopTypes, RequestTypes, state, loop, bounds
<1>3. CASE ScanInserts
  <2>1. PICK queued \in SUBSET Rows({"ABSENT"}), filtered \in SUBSET Rows({"ABSENT"}),
             unwatched \in SUBSET Rows({"ABSENT"}) :
          /\ status' = Overwritten(Overwritten(Overwritten(
                           status, Assign(queued, "QUEUED")),
                           Assign(filtered, IgnoredByScan)),
                           Assign(unwatched, "IGNORED_MANUAL"))
          /\ next_attempt_at' = Overwritten(next_attempt_at, Assign(queued, ScanWait))
          /\ \E rank \in NextRanks(Active, queue_rank),
                order \in Listings(queued, queue_rank, next_attempt_at) :
                queue_rank' = [v \in Videos |->
                    IF InListing(order, v) THEN rank + Position(order, v) - 1
                    ELSE queue_rank[v]]
    BY <1>3 DEF ScanInserts
  <2>2. status' \in [Videos -> Statuses]
    BY <2>1, StatusAssigned DEF Overwritten, Assign, TypeOK, StoredTypes
  <2>3. next_attempt_at' \in [Videos -> Nat \union {NoTime}]
    BY <2>1, WaitsAssumption DEF Overwritten, Assign, TypeOK, StoredTypes
  <2>4. queue_rank' \in [Videos -> Nat]
    <3>1. PICK rank \in NextRanks(Active, queue_rank),
               order \in Listings(queued, queue_rank, next_attempt_at) :
             queue_rank' = [v \in Videos |->
                    IF InListing(order, v) THEN rank + Position(order, v) - 1
                    ELSE queue_rank[v]]
      BY <2>1
    <3>2. rank \in Nat
      BY NextRankType DEF Active, TypeOK, StoredTypes
    <3>3. \A v : InListing(order, v) => Position(order, v) \in Nat \ {0}
      BY ListingDomains, PositionType
    <3> QED
      BY <3>1, <3>2, <3>3 DEF TypeOK, StoredTypes
  <2> QED
    BY <1>3, <2>2, <2>3, <2>4
    DEF ScanInserts, TypeOK, StoredTypes, LoopTypes, RequestTypes, state, loop, bounds
<1>4. CASE LoopError
  BY <1>4, NoWritesIsSession
  DEF LoopError, TypeOK, StoredTypes, LoopTypes, RequestTypes, rows, state, bounds
<1>5. CASE Crash
  BY <1>5, NoWritesIsSession
  DEF Crash, Idle, TypeOK, StoredTypes, LoopTypes, RequestTypes, rows, state, bounds
<1>6. CASE Restart
  BY <1>6 DEF Restart, TypeOK, StoredTypes, LoopTypes, RequestTypes, rows, state, bounds
<1>7. CASE Tick
  BY <1>7
  DEF Tick, Elapsed, NoTime, TypeOK, StoredTypes, LoopTypes, RequestTypes, loop, bounds
<1> QED
  BY <1>1, <1>2, <1>3, <1>4, <1>5, <1>6, <1>7

(* Every step keeps the types.                                             *)
LEMMA StepTypes ==
    ASSUME TypeOK, [Next]_vars
    PROVE  TypeOK'
<1>1. CASE Next
  BY <1>1, LoopStepTypes, HandlerStepTypes, EnvironmentStepTypes DEF Next
<1>2. CASE UNCHANGED vars
  BY <1>2
  DEF vars, rows, state, loop, bounds, TypeOK, StoredTypes, LoopTypes, RequestTypes
<1> QED
  BY <1>1, <1>2

LEMMA InitTypes == Init => TypeOK
<1> SUFFICES ASSUME Init PROVE TypeOK
  OBVIOUS
<1>1. StoredTypes
  BY DEF Init, StoredTypes, Statuses, ActiveStatuses
<1>2. LoopTypes
  BY NoWritesIsSession DEF Init, LoopTypes, AwaitPoints, WithJob
<1>3. RequestTypes
  BY NoWritesIsSession DEF Init, RequestTypes, Idle
<1> QED
  BY <1>1, <1>2, <1>3 DEF Init, TypeOK

(* TypeOK holds of every behaviour.                                        *)
THEOREM TypeCorrect == Spec => []TypeOK
<1>1. TypeOK /\ [Next]_vars => TypeOK'
  BY StepTypes
<1> QED
  BY <1>1, InitTypes, PTL DEF Spec
-----------------------------------------------------------------------------
(* The order of the queue.                                                 *)

(* A listing of S in the order in which before[w] come before w.           *)
FollowsOrder(q, S, before) ==
    /\ q \in [1 .. Cardinality(S) -> S]
    /\ \A i, j \in DOMAIN q : i < j => q[i] # q[j] /\ q[i] \in before[q[j]]

(* A finite set that is strictly ordered can be listed.                    *)
LEMMA OrderedSetsCanBeListed ==
    ASSUME NEW S, IsFiniteSet(S), NEW before \in [S -> SUBSET S],
           \A v \in S : v \notin before[v],
           \A v, w \in S : v \in before[w] => before[v] \subseteq before[w],
           \A v, w \in S : v # w => v \in before[w] \/ w \in before[v]
    PROVE  \E q : FollowsOrder(q, S, before)
<1> DEFINE n     == Cardinality(S)
           place == [v \in S |-> Cardinality(before[v]) + 1]
<1>1. n \in Nat
  BY FS_CardinalityType
<1>2. \A v \in S : IsFiniteSet(before[v]) /\ Cardinality(before[v]) \in Nat
  BY FS_Subset, FS_CardinalityType
<1>3. ASSUME NEW v \in S, NEW w \in S, v \in before[w]
      PROVE  place[v] < place[w]
  <2>1. before[v] \in SUBSET before[w] /\ before[v] # before[w]
    BY <1>3
  <2>2. Cardinality(before[v]) <= Cardinality(before[w])
        /\ Cardinality(before[v]) # Cardinality(before[w])
    BY <1>2, <2>1, FS_Subset
  <2> QED
    BY <1>2, <2>2
<1>4. ASSUME NEW v \in S
      PROVE  place[v] \in 1..n
  <2>1. before[v] \in SUBSET S /\ before[v] # S
    OBVIOUS
  <2>2. Cardinality(before[v]) <= n /\ Cardinality(before[v]) # n
    BY <2>1, FS_Subset
  <2> QED
    BY <1>1, <1>2, <2>2
<1>5. place \in Injection(S, 1..n)
  <2>1. \A v, w \in S : place[v] = place[w] => v = w
    BY <1>3, <1>4
  <2> QED
    BY <1>4, <2>1 DEF Injection, IsInjective
<1>6. place \in Surjection(S, 1..n)
  <2>1. IsFiniteSet(1..n) /\ Cardinality(1..n) = n
    BY <1>1, FS_Interval
  <2> HIDE DEF place, n
  <2> QED
    BY <1>5, <2>1, FS_Injection DEF n
<1> DEFINE q == [i \in 1..n |-> CHOOSE v \in S : place[v] = i]
<1>7. \A i \in 1..n : q[i] \in S /\ place[q[i]] = i
  <2> HIDE DEF place
  <2> QED
    BY <1>6 DEF Surjection
<1>8. \A i, j \in 1..n : i < j => q[i] # q[j] /\ q[i] \in before[q[j]]
  <2> HIDE DEF q, place
  <2> SUFFICES ASSUME NEW i \in 1..n, NEW j \in 1..n, i < j
               PROVE  q[i] # q[j] /\ q[i] \in before[q[j]]
    OBVIOUS
  <2>1. q[i] # q[j]
    BY <1>7
  <2>2. q[j] \notin before[q[i]]
    BY <1>3, <1>7
  <2> QED
    BY <1>7, <2>1, <2>2
<1>9. q \in [1..n -> S] /\ DOMAIN q = 1..n
  BY <1>7
<1> HIDE DEF q
<1>10. FollowsOrder(q, S, before)
  BY <1>8, <1>9 DEF FollowsOrder
<1> QED
  BY <1>10

Increasing(f, n) == \A i, j \in 1..n : i < j => f[i] < f[j]

(* A strictly increasing sequence of n positions among n is 1, 2, ..., n.  *)
LEMMA IncreasingPositions ==
    ASSUME NEW n \in Nat, NEW f \in [1..n -> 1..n],
           Increasing(f, n), NEW i \in 1..n
    PROVE  f[i] = i
<1>0. \A j, k \in 1..n : f[j] = f[k] => j = k
  <2> SUFFICES ASSUME NEW j \in 1..n, NEW k \in 1..n, f[j] = f[k]
               PROVE  j = k
    OBVIOUS
  <2>1. f[j] \in Int /\ f[k] \in Int
    OBVIOUS
  <2>2. ~(j < k) /\ ~(k < j)
    BY <2>1 DEF Increasing
  <2> QED
    BY <2>2
<1>1. i <= f[i]
  <2> DEFINE low == [j \in 1..i |-> f[j]]
  <2>1. low \in Injection(1..i, 1..f[i])
    <3>1. ASSUME NEW j \in 1..i
          PROVE  f[j] \in 1..f[i]
      <4>1. j \in 1..n /\ f[j] \in 1..n /\ f[i] \in 1..n
        OBVIOUS
      <4>2. j < i => f[j] < f[i]
        BY <4>1 DEF Increasing
      <4>3. j < i \/ j = i
        OBVIOUS
      <4>4. f[j] <= f[i]
        <5>1. CASE i = j
          BY <4>1, <5>1
        <5>2. CASE i # j
          BY <4>1, <4>2, <4>3, <5>2
        <5> QED
          BY <5>1, <5>2
      <4> QED
        BY <4>1, <4>4
    <3>2. \A j \in 1..i : j \in 1..n
      OBVIOUS
    <3>3. \A j, k \in 1..i : f[j] = f[k] => j = k
      BY <1>0, <3>2, Zenon
    <3> QED
      BY <3>1, <3>3 DEF Injection, IsInjective
  <2> QED
    BY <2>1, FS_Injection, FS_Interval
<1>2. f[i] <= i
  <2> DEFINE high == [j \in i..n |-> f[j]]
  <2>1. high \in Injection(i..n, f[i]..n)
    <3>1. ASSUME NEW j \in i..n
          PROVE  f[j] \in f[i]..n
      <4>1. j \in 1..n /\ f[j] \in 1..n /\ f[i] \in 1..n
        OBVIOUS
      <4>2. i < j => f[i] < f[j]
        BY <4>1 DEF Increasing
      <4>3. i < j \/ i = j
        OBVIOUS
      <4>4. f[i] <= f[j]
        <5>1. CASE i = j
          BY <4>1, <5>1
        <5>2. CASE i # j
          BY <4>1, <4>2, <4>3, <5>2
        <5> QED
          BY <5>1, <5>2
      <4> QED
        BY <4>1, <4>4
    <3>2. \A j \in i..n : j \in 1..n
      OBVIOUS
    <3>3. \A j, k \in i..n : f[j] = f[k] => j = k
      BY <1>0, <3>2, Zenon
    <3> QED
      BY <3>1, <3>3 DEF Injection, IsInjective
  <2>2. Cardinality(i..n) <= Cardinality(f[i]..n)
    BY <2>1, FS_Injection, FS_Interval
  <2>3. Cardinality(i..n) = n - i + 1 /\ Cardinality(f[i]..n) = n - f[i] + 1
    BY FS_Interval
  <2> QED
    BY <2>2, <2>3
<1> QED
  BY <1>1, <1>2

(* A sequence of as many rows as there are, none of them twice.            *)
IsListing(q, S) ==
    /\ q \in [1 .. Cardinality(S) -> S]
    /\ \A i, j \in DOMAIN q : i < j => q[i] # q[j]

(* The positions of a sequence are those of the rows in S, one of each.    *)
PositionsFit(q, S) ==
    /\ Cardinality(S) \in Nat
    /\ DOMAIN q = 1 .. Cardinality(S)
    /\ \A i \in DOMAIN q : q[i] \in S /\ Position(q, q[i]) = i
    /\ \A v : InListing(q, v) <=> v \in S
    /\ \A v \in S : Position(q, v) \in DOMAIN q /\ q[Position(q, v)] = v

(* A listing names each of its rows once.                                  *)
LEMMA ListedOnce ==
    ASSUME NEW S \in SUBSET Videos, NEW q, IsListing(q, S)
    PROVE  PositionsFit(q, S)
<1>1. IsFiniteSet(S) /\ Cardinality(S) \in Nat
  BY VideosAssumption, FS_Subset, FS_CardinalityType
<1>2. q \in [1 .. Cardinality(S) -> S]
  BY DEF IsListing
<1>3. \A i, j \in DOMAIN q : q[i] = q[j] => i = j
  BY <1>1, <1>2 DEF IsListing
<1>4. q \in Surjection(1 .. Cardinality(S), S)
  <2>1. q \in Injection(1 .. Cardinality(S), S)
    BY <1>2, <1>3 DEF Injection, IsInjective
  <2>2. Cardinality(1 .. Cardinality(S)) = Cardinality(S)
    BY <1>1, FS_Interval
  <2> QED
    BY <1>1, <2>1, <2>2, FS_Injection
<1>5. \A v \in S : \E i \in DOMAIN q : q[i] = v
  BY <1>2, <1>4 DEF Surjection
<1>6. \A i \in DOMAIN q : q[i] \in S /\ Position(q, q[i]) = i
  BY <1>2, <1>3 DEF Position
<1>7. \A v \in S : Position(q, v) \in DOMAIN q /\ q[Position(q, v)] = v
  BY <1>5 DEF Position
<1> QED
  BY <1>1, <1>2, <1>5, <1>6, <1>7 DEF InListing, PositionsFit

(* Once a listing is renumbered, it is what the queue lists, whatever the  *)
(* due times are.                                                          *)
LEMMA RenumberedIsListed ==
    ASSUME NEW S \in SUBSET Videos, NEW q, IsListing(q, S),
           NEW rank \in [Videos -> Nat], NEW due
    PROVE  Listings(S, Renumbered(q, rank), due) = {q}
<1> DEFINE after == Renumbered(q, rank)
           n     == Cardinality(S)
<1>1. n \in Nat /\ DOMAIN q = 1..n /\ q \in [1..n -> S]
  BY ListedOnce DEF IsListing, PositionsFit
<1>2. \A v \in S : after[v] = Position(q, v) /\ after[v] \in 1..n /\ q[after[v]] = v
  BY <1>1, ListedOnce DEF Renumbered, PositionsFit
<1>3. \A i \in 1..n : after[q[i]] = i
  BY <1>1, <1>2, ListedOnce DEF PositionsFit
<1> HIDE DEF after
<1>4. q \in Listings(S, after, due)
  <2>1. \A i, j \in 1..n : i < j => q[i] # q[j] /\ ~SortsBefore(after, due, q[j], q[i])
    BY <1>1, <1>3 DEF SortsBefore
  <2> QED
    BY <1>1, <2>1 DEF Listings
<1>5. ASSUME NEW r \in Listings(S, after, due)
      PROVE  r = q
  <2>1. r \in [1..n -> S] /\ \A i, j \in 1..n :
            i < j => r[i] # r[j] /\ ~SortsBefore(after, due, r[j], r[i])
    BY DEF Listings
  <2> DEFINE f == [i \in 1..n |-> after[r[i]]]
  <2>2. f \in [1..n -> 1..n]
    BY <1>2, <2>1
  <2>3. \A i, j \in 1..n : i < j => f[i] < f[j]
    <3> SUFFICES ASSUME NEW i \in 1..n, NEW j \in 1..n, i < j
                 PROVE  f[i] < f[j]
      OBVIOUS
    <3>1. after[r[i]] # after[r[j]]
      BY <1>2, <2>1
    <3>2. ~(after[r[j]] < after[r[i]])
      BY <2>1 DEF SortsBefore
    <3> QED
      BY <2>2, <3>1, <3>2
  <2>4. \A i \in 1..n : f[i] = i
    <3> HIDE DEF f, n
    <3> QED
      BY <1>1, <2>2, <2>3, IncreasingPositions DEF Increasing
  <2>5. \A i \in 1..n : r[i] = q[i]
    BY <1>2, <2>1, <2>4
  <2> QED
    BY <1>1, <2>1, <2>5
<1> QED
  BY <1>4, <1>5 DEF after

(* The writes of a renumbering, committed at once, are the renumbering.    *)
LEMMA RankChangesRenumber ==
    ASSUME NEW q, NEW rank \in [Videos -> Nat]
    PROVE  Overwritten(rank, RankChanges(q, rank)) = Renumbered(q, rank)
BY DEF Overwritten, RankChanges, Renumbered
(* A listing of the queue is a listing of each of its rows.                *)
LEMMA ListingsAreListings ==
    ASSUME NEW S \in SUBSET Videos, NEW rank, NEW due, NEW q \in Listings(S, rank, due)
    PROVE  IsListing(q, S)
BY DEF Listings, IsListing

(* A listing in the order of three columns, whatever comes of ties.        *)
FollowsColumns(q, S, place, rank, due) ==
    /\ q \in [1 .. Cardinality(S) -> S]
    /\ \A i, j \in DOMAIN q :
          i < j => /\ q[i] # q[j]
                   /\ \/ place[q[i]] < place[q[j]]
                      \/ /\ place[q[i]] = place[q[j]]
                         /\ ~SortsBefore(rank, due, q[j], q[i])

LEMMA RowsCanBeListed ==
    ASSUME NEW S \in SUBSET Videos, NEW place \in [Videos -> Nat],
           NEW rank \in [Videos -> Nat], NEW due \in [Videos -> Int]
    PROVE  \E q : FollowsColumns(q, S, place, rank, due)
<1>1. IsFiniteSet(S)
  BY VideosAssumption, FS_Subset
<1>2. PICK id \in [Videos -> Nat] : \A v, w \in Videos : id[v] = id[w] => v = w
  <2>1. PICK f \in [1 .. Cardinality(Videos) -> Videos] :
           \A v \in Videos : \E i \in 1 .. Cardinality(Videos) : f[i] = v
    BY VideosAssumption, FS_CardinalityType DEF ExistsBijection, Bijection, Surjection
  <2> DEFINE id == [v \in Videos |-> CHOOSE i \in 1 .. Cardinality(Videos) : f[i] = v]
  <2>2. \A v \in Videos : id[v] \in Nat /\ f[id[v]] = v
    <3>1. Cardinality(Videos) \in Nat
      BY VideosAssumption, FS_CardinalityType
    <3>2. \A v \in Videos : id[v] \in 1 .. Cardinality(Videos) /\ f[id[v]] = v
      BY <2>1
    <3> QED
      BY <3>1, <3>2
  <2>3. id \in [Videos -> Nat] /\ \A v, w \in Videos : id[v] = id[w] => v = w
    BY <2>2
  <2> QED
    BY <2>3
<1> DEFINE Precedes(v, w) ==
              \/ place[v] < place[w]
              \/ place[v] = place[w] /\ rank[v] < rank[w]
              \/ place[v] = place[w] /\ rank[v] = rank[w] /\ due[v] < due[w]
              \/ /\ place[v] = place[w] /\ rank[v] = rank[w] /\ due[v] = due[w]
                 /\ id[v] < id[w]
           before == [w \in S |-> {v \in S : Precedes(v, w)}]
<1>3. \A v \in S : v \notin before[v]
  OBVIOUS
<1>4. \A v, w \in S : v \in before[w] => before[v] \subseteq before[w]
  <2> SUFFICES ASSUME NEW v \in S, NEW w \in S, v \in before[w], NEW u \in before[v]
               PROVE  u \in before[w]
    OBVIOUS
  <2>1. Precedes(v, w) /\ Precedes(u, v) /\ u \in S
    OBVIOUS
  <2>2. Precedes(u, w)
    BY <2>1
  <2> QED
    BY <2>1, <2>2
<1>5. \A v, w \in S : v # w => v \in before[w] \/ w \in before[v]
  BY <1>2
<1>6. before \in [S -> SUBSET S]
  OBVIOUS
<1>7. PICK q : FollowsOrder(q, S, before)
  <2> HIDE DEF before
  <2> QED
    BY <1>1, <1>3, <1>4, <1>5, <1>6, OrderedSetsCanBeListed
<1>8. \A v, w \in S : v \in before[w] =>
         \/ place[v] < place[w]
         \/ place[v] = place[w] /\ ~SortsBefore(rank, due, w, v)
  BY DEF SortsBefore
<1> HIDE DEF before, Precedes
<1>9. FollowsColumns(q, S, place, rank, due)
  BY <1>7, <1>8 DEF FollowsOrder, FollowsColumns
<1> QED
  BY <1>9

(* The queue can always be listed, as it is and with any row first, and    *)
(* next_queue_rank has one answer, which is behind every rank in use: no   *)
(* request and no scan is held up for want of an order, and a row that is  *)
(* appended is last.                                                       *)
THEOREM TheQueueHasAnOrder ==
    ASSUME TypeOK
    PROVE  /\ Listings(Active, queue_rank, next_attempt_at) # {}
           /\ \A v \in Videos : WithFirst(v) # {}
           /\ \E rank \in Nat : /\ NextRanks(Active, queue_rank) = {rank}
                                /\ \A v \in Active : queue_rank[v] < rank
<1>1. /\ Active \in SUBSET Videos /\ queue_rank \in [Videos -> Nat]
      /\ next_attempt_at \in [Videos -> Int]
  BY DEF TypeOK, StoredTypes, Active, Rows, NoTime
<1>2. Listings(Active, queue_rank, next_attempt_at) # {}
  <2> DEFINE place == [v \in Videos |-> 0]
  <2>1. place \in [Videos -> Nat]
    OBVIOUS
  <2>2. PICK q : FollowsColumns(q, Active, place, queue_rank, next_attempt_at)
    <3> HIDE DEF place
    <3> QED
      BY <1>1, <2>1, RowsCanBeListed
  <2>3. \A i \in DOMAIN q : q[i] \in Videos
    BY <1>1, <2>2 DEF FollowsColumns
  <2>4. q \in Listings(Active, queue_rank, next_attempt_at)
    BY <2>2, <2>3 DEF FollowsColumns, Listings
  <2> QED
    BY <2>4
<1>3. ASSUME NEW v \in Videos
      PROVE  WithFirst(v) # {}
  <2> DEFINE downloading == Rows({"DOWNLOADING"})
             all   == (Active \ {v}) \union {v}
             place == [w \in Videos |->
                          IF w = v THEN 2 ELSE IF w \in downloading THEN 1 ELSE 3]
  <2>1. place \in [Videos -> Nat] /\ all \in SUBSET Videos
    BY <1>1
  <2>2. PICK q : FollowsColumns(q, all, place, queue_rank, next_attempt_at)
    <3> HIDE DEF place, all
    <3> QED
      BY <1>1, <2>1, RowsCanBeListed
  <2>3. \A i \in DOMAIN q : q[i] \in Videos
    BY <2>1, <2>2 DEF FollowsColumns
  <2> HIDE DEF downloading
  <2>4. \A i \in DOMAIN q :
           place[q[i]] = IF q[i] = v THEN 2 ELSE IF q[i] \in downloading THEN 1 ELSE 3
    BY <2>3
  <2> HIDE DEF place
  <2>5. q \in RetryListings(Active \ {v}, v, downloading, queue_rank, next_attempt_at)
    <3> DEFINE spot(w) == IF w = v THEN 2 ELSE IF w \in downloading THEN 1 ELSE 3
    <3>1. ASSUME NEW i \in DOMAIN q, NEW j \in DOMAIN q, i < j
          PROVE  /\ q[i] # q[j]
                 /\ \/ spot(q[i]) < spot(q[j])
                    \/ /\ spot(q[i]) = spot(q[j])
                       /\ ~SortsBefore(queue_rank, next_attempt_at, q[j], q[i])
      <4> HIDE DEF spot
      <4>1. place[q[i]] = spot(q[i]) /\ place[q[j]] = spot(q[j])
        BY <2>4 DEF spot
      <4> QED
        BY <2>2, <3>1, <4>1 DEF FollowsColumns
    <3>2. q \in [1 .. Cardinality(all) -> all]
      BY <2>2 DEF FollowsColumns
    <3> QED
      BY <3>1, <3>2 DEF RetryListings
  <2> QED
    BY <2>5 DEF WithFirst, downloading
<1>4. \E rank \in Nat : /\ NextRanks(Active, queue_rank) = {rank}
                        /\ \A v \in Active : queue_rank[v] < rank
  <2>1. CASE Active = {}
    BY <2>1 DEF NextRanks
  <2>2. CASE Active # {}
    <3>1. PICK q \in Listings(Active, queue_rank, next_attempt_at) : TRUE
      BY <1>2
    <3> DEFINE n == Cardinality(Active)
               last == q[n]
    <3>2. /\ n \in Nat /\ DOMAIN q = 1..n /\ \A i \in DOMAIN q : q[i] \in Active
          /\ \A v \in Active : Position(q, v) \in DOMAIN q /\ q[Position(q, v)] = v
      BY <1>1, <3>1, ListingsAreListings, ListedOnce DEF PositionsFit
    <3>3. \A i, j \in 1..n : i < j => ~(queue_rank[q[j]] < queue_rank[q[i]])
      BY <3>1 DEF Listings, SortsBefore
    <3>4. n \in 1..n /\ last \in Active
      BY <2>2, <3>2
    <3>5. \A v \in Active : queue_rank[v] <= queue_rank[last]
      <4> SUFFICES ASSUME NEW v \in Active
                   PROVE  queue_rank[v] <= queue_rank[last]
        OBVIOUS
      <4>1. CASE Position(q, v) = n
        BY <1>1, <3>2, <4>1
      <4>2. CASE Position(q, v) < n
        BY <1>1, <3>2, <3>3, <3>4, <4>2
      <4> QED
        BY <3>2, <3>4, <4>1, <4>2
    <3> HIDE DEF last
    <3>6. NextRanks(Active, queue_rank) = {queue_rank[last] + 1}
      <4>1. \A u \in Active : (\A w \in Active : queue_rank[w] <= queue_rank[u])
                                 => queue_rank[u] = queue_rank[last]
        BY <1>1, <3>4, <3>5
      <4> QED
        BY <2>2, <3>4, <3>5, <4>1 DEF NextRanks
    <3>7. \A v \in Active : queue_rank[v] < queue_rank[last] + 1
      BY <1>1, <3>4, <3>5
    <3> QED
      BY <1>1, <3>4, <3>6, <3>7
  <2> QED
    BY <2>1, <2>2
<1> QED
  BY <1>2, <1>3, <1>4
(* move_queue_item, committed before anything else changes the ranks: the  *)
(* queue is then listed in one order, ties and all, in which v and the     *)
(* neighbour are exchanged and every other row is where it was.  Moving v  *)
(* back restores the listing.                                              *)
THEOREM MovesExchangeNeighbours ==
    ASSUME TypeOK,
           NEW listing \in Listings(Active, queue_rank, next_attempt_at),
           NEW v \in Active, NEW delta \in {-1, 1}, CanMove(listing, v, delta)
    PROVE  LET here  == Position(listing, v)
               moved == Moved(listing, v, delta)
               after == Overwritten(queue_rank, RankChanges(moved, queue_rank))
           IN  /\ \A due : Listings(Active, after, due) = {moved}
               /\ moved[here + delta] = v /\ moved[here] = listing[here + delta]
               /\ \A i \in DOMAIN listing \ {here, here + delta} : moved[i] = listing[i]
               /\ CanMove(moved, v, -delta) /\ Moved(moved, v, -delta) = listing
<1> DEFINE here  == Position(listing, v)
           there == here + delta
           n     == Cardinality(Active)
           moved == Moved(listing, v, delta)
           after == Overwritten(queue_rank, RankChanges(moved, queue_rank))
<1>1. Active \in SUBSET Videos /\ queue_rank \in [Videos -> Nat]
  BY DEF TypeOK, StoredTypes, Active, Rows
<1>2. IsListing(listing, Active)
  BY <1>1, ListingsAreListings
<1>3. PositionsFit(listing, Active)
  BY <1>1, <1>2, ListedOnce
<1>4. /\ n \in Nat /\ listing \in [1..n -> Active] /\ DOMAIN listing = 1..n
      /\ here \in 1..n /\ there \in 1..n /\ there # here /\ listing[here] = v
  BY <1>2, <1>3 DEF CanMove, IsListing, PositionsFit
<1>5. \A i, j \in 1..n : listing[i] = listing[j] => i = j
  BY <1>3, <1>4 DEF PositionsFit
<1> HIDE DEF here, n
<1>6. /\ moved \in [1..n -> Active] /\ DOMAIN moved = 1..n
      /\ moved[there] = v /\ moved[here] = listing[there]
      /\ \A i \in 1..n \ {here, there} : moved[i] = listing[i]
  BY <1>4 DEF Moved, here
<1> HIDE DEF moved
<1>7. \A i, j \in 1..n : moved[i] = moved[j] => i = j
  BY <1>4, <1>5, <1>6
<1>8. IsListing(moved, Active)
  BY <1>4, <1>6, <1>7 DEF IsListing, n
<1>9. \A due : Listings(Active, after, due) = {moved}
  BY <1>1, <1>8, RenumberedIsListed, RankChangesRenumber
<1>10. Position(moved, v) = there
  <2>1. PositionsFit(moved, Active)
    BY <1>1, <1>8, ListedOnce
  <2> QED
    BY <1>4, <1>6, <2>1 DEF PositionsFit
<1>11. CanMove(moved, v, -delta)
  BY <1>4, <1>6, <1>10 DEF CanMove, InListing
<1>12. Moved(moved, v, -delta) = listing
  <2>1. there + (-delta) = here
    BY <1>4
  <2>2. Moved(moved, v, -delta) = [moved EXCEPT ![there] = moved[here], ![here] = moved[there]]
    BY <1>10, <2>1 DEF Moved
  <2> QED
    BY <1>4, <1>6, <2>2
<1> QED
  BY <1>4, <1>6, <1>9, <1>11, <1>12 DEF here, moved

(* retry_now, committed before anything else changes the rows: the row is  *)
(* behind what downloads and ahead of all that waits, both in the order    *)
(* they had, and the queue with it is listed in that one order.            *)
THEOREM RetriesGoFirst ==
    ASSUME TypeOK, NEW v \in Videos, NEW listing \in WithFirst(v)
    PROVE  LET rest  == Active \ {v}
               after == Overwritten(queue_rank, RankChanges(listing, queue_rank))
           IN  /\ \A due : Listings(rest \union {v}, after, due) = {listing}
               /\ \A w \in rest : IF status[w] = "DOWNLOADING" THEN after[w] < after[v]
                                                               ELSE after[v] < after[w]
               /\ \A w, u \in rest :
                     /\ status[w] = "DOWNLOADING" <=> status[u] = "DOWNLOADING"
                     /\ SortsBefore(queue_rank, next_attempt_at, w, u)
                     => after[w] < after[u]
<1> DEFINE rest  == Active \ {v}
           all   == rest \union {v}
           n     == Cardinality(all)
           down  == Rows({"DOWNLOADING"})
           place(w) == IF w = v THEN 2 ELSE IF w \in down THEN 1 ELSE 3
           after == Overwritten(queue_rank, RankChanges(listing, queue_rank))
<1>1. all \in SUBSET Videos /\ queue_rank \in [Videos -> Nat]
  BY DEF TypeOK, StoredTypes, Active, Rows
<1>2. /\ listing \in [1..n -> all]
      /\ \A i, j \in DOMAIN listing :
            i < j => /\ listing[i] # listing[j]
                     /\ \/ place(listing[i]) < place(listing[j])
                        \/ /\ place(listing[i]) = place(listing[j])
                           /\ ~SortsBefore(queue_rank, next_attempt_at, listing[j], listing[i])
  BY DEF WithFirst, RetryListings
<1>3. IsListing(listing, all)
  BY <1>2 DEF IsListing
<1>4. after = Renumbered(listing, queue_rank)
  BY <1>1, RankChangesRenumber
<1> HIDE DEF all
<1>5. \A due : Listings(all, after, due) = {listing}
  BY <1>1, <1>3, <1>4, RenumberedIsListed
<1>6. /\ n \in Nat /\ DOMAIN listing = 1..n
      /\ \A w \in all : /\ after[w] = Position(listing, w) /\ after[w] \in 1..n
                        /\ listing[after[w]] = w
  <2>1. PositionsFit(listing, all)
    BY <1>1, <1>3, ListedOnce
  <2> QED
    BY <1>1, <1>4, <2>1 DEF Renumbered, PositionsFit
<1> HIDE DEF after, n, down
<1>7. ASSUME NEW w \in all, NEW u \in all, w # u,
             ~(place(u) < place(w)),
             place(w) < place(u) \/ SortsBefore(queue_rank, next_attempt_at, w, u)
      PROVE  after[w] < after[u]
  <2>1. after[w] # after[u]
    BY <1>6, <1>7
  <2>2. ~(after[u] < after[w])
    BY <1>2, <1>6, <1>7
  <2> QED
    BY <1>6, <2>1, <2>2
<1>8. ASSUME NEW w \in rest
      PROVE  IF status[w] = "DOWNLOADING" THEN after[w] < after[v] ELSE after[v] < after[w]
  <2>1. w \in all /\ v \in all /\ w # v /\ (w \in down <=> status[w] = "DOWNLOADING")
    BY <1>1 DEF all, down, Rows
  <2>2. CASE status[w] = "DOWNLOADING"
    BY <1>7, <2>1, <2>2
  <2>3. CASE status[w] # "DOWNLOADING"
    BY <1>7, <2>1, <2>3
  <2> QED
    BY <2>2, <2>3
<1>9. ASSUME NEW w \in rest, NEW u \in rest,
             status[w] = "DOWNLOADING" <=> status[u] = "DOWNLOADING",
             SortsBefore(queue_rank, next_attempt_at, w, u)
      PROVE  after[w] < after[u]
  <2>1. w \in all /\ u \in all /\ w # v /\ u # v /\ (w \in down <=> u \in down)
    BY <1>1, <1>9 DEF all, down, Rows
  <2>2. w # u
    BY <1>9 DEF SortsBefore, TypeOK, StoredTypes, Active, Rows, NoTime
  <2> QED
    BY <1>7, <1>9, <2>1, <2>2
<1> QED
  BY <1>5, <1>8, <1>9 DEF all, after

(* The rows that a scan or a one-off appends are behind every row of the   *)
(* queue, whose ranks they leave alone.                                    *)
THEOREM NewRowsGoLast ==
    ASSUME TypeOK, ScanInserts \/ \E h \in Handlers, v \in Videos : AddOneOff(h, v),
           NEW v \in Active, NEW w \in Active' \ Active
    PROVE  queue_rank'[v] = queue_rank[v] /\ queue_rank'[v] < queue_rank'[w]
<1>1. PICK last \in Nat : /\ NextRanks(Active, queue_rank) = {last}
                          /\ \A u \in Active : queue_rank[u] < last
  BY TheQueueHasAnOrder
<1>2. v \in Videos /\ w \in Videos /\ queue_rank[v] \in Nat
  BY DEF TypeOK, StoredTypes, Active, Rows
<1>3. ASSUME NEW h \in Handlers, NEW u \in Videos, AddOneOff(h, u)
      PROVE  queue_rank'[v] = queue_rank[v] /\ queue_rank'[v] < queue_rank'[w]
  <2>1. w = u /\ v # u
    BY <1>3 DEF AddOneOff, Active, Rows, ActiveStatuses, TypeOK, StoredTypes
  <2>2. queue_rank' = [queue_rank EXCEPT ![u] = last]
    BY <1>1, <1>3 DEF AddOneOff
  <2> QED
    BY <1>1, <1>2, <2>1, <2>2 DEF TypeOK, StoredTypes
<1>4. ASSUME ScanInserts
      PROVE  queue_rank'[v] = queue_rank[v] /\ queue_rank'[v] < queue_rank'[w]
  <2>1. PICK queued \in SUBSET Rows({"ABSENT"}),
             filtered \in SUBSET Rows({"ABSENT"}), unwatched \in SUBSET Rows({"ABSENT"}) :
           /\ status' = Overwritten(Overwritten(Overwritten(
                            status, Assign(queued, "QUEUED")),
                            Assign(filtered, IgnoredByScan)),
                            Assign(unwatched, "IGNORED_MANUAL"))
           /\ \E rank \in NextRanks(Active, queue_rank),
                 order \in Listings(queued, queue_rank, next_attempt_at) :
                 queue_rank' = [u \in Videos |->
                     IF InListing(order, u) THEN rank + Position(order, u) - 1
                     ELSE queue_rank[u]]
    BY <1>4 DEF ScanInserts
  <2>2. PICK order \in Listings(queued, queue_rank, next_attempt_at) :
           queue_rank' = [u \in Videos |->
               IF InListing(order, u) THEN last + Position(order, u) - 1
               ELSE queue_rank[u]]
    BY <1>1, <2>1
  <2>3. queued \in SUBSET Videos /\ v \notin queued
    BY <2>1 DEF Active, Rows, ActiveStatuses
  <2>4. w \in queued
    BY <1>2, <2>1
    DEF Active, Rows, ActiveStatuses, Overwritten, Assign, IgnoredByScan
  <2>5. ~InListing(order, v) /\ InListing(order, w) /\ Position(order, w) \in Nat \ {0}
    <3>1. PositionsFit(order, queued)
      BY <2>3, ListingsAreListings, ListedOnce
    <3> QED
      BY <2>3, <2>4, <3>1 DEF PositionsFit
  <2> QED
    BY <1>1, <1>2, <2>2, <2>5
<1> QED
  BY <1>3, <1>4
(* The scheduler picks what the page shows first of the rows that are due, *)
(* but for rows that share the rank of the one it picks.                   *)
THEOREM TheFirstDueRowIsPicked ==
    ASSUME TypeOK, PickJob,
           NEW listing \in Listings(Active, queue_rank, next_attempt_at),
           NEW w \in Due, queue_rank[w] # queue_rank[job']
    PROVE  Position(listing, job') < Position(listing, w)
<1>1. Active \in SUBSET Videos /\ queue_rank \in [Videos -> Nat] /\ Due \in SUBSET Active
  BY DEF TypeOK, StoredTypes, Active, Rows, Due, ActiveStatuses, RunnableStatuses
<1>2. job' \in Due /\ queue_rank[job'] <= queue_rank[w]
  BY DEF PickJob
<1>3. PositionsFit(listing, Active)
  BY <1>1, ListingsAreListings, ListedOnce
<1>4. ~SortsBefore(queue_rank, next_attempt_at, w, job')
      /\ SortsBefore(queue_rank, next_attempt_at, job', w)
  BY <1>1, <1>2 DEF SortsBefore
<1>5. \A i, j \in DOMAIN listing :
         i < j => ~SortsBefore(queue_rank, next_attempt_at, listing[j], listing[i])
  BY DEF Listings
<1> DEFINE i == Position(listing, job')
           j == Position(listing, w)
<1>6. /\ i \in Int /\ j \in Int /\ i \in DOMAIN listing /\ j \in DOMAIN listing
      /\ listing[i] = job' /\ listing[j] = w
  BY <1>1, <1>2, <1>3 DEF PositionsFit
<1>7. i # j
  BY <1>2, <1>6
<1>8. ~(j < i)
  BY <1>4, <1>5, <1>6
<1> QED
  BY <1>6, <1>7, <1>8
=============================================================================
