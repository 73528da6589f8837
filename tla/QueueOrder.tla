------------------------------ MODULE QueueOrder ------------------------------
(***************************************************************************)
(* The order of the download queue (src/app/queue.py): which rows are in   *)
(* it, the order in which they are listed, and the ranks that a move, a    *)
(* retry or an insertion gives them.  Pure operators, no state.            *)
(*                                                                         *)
(* A queue listing is a sequence without repetition; queue_rank and        *)
(* next_attempt_at are passed as functions from videos.  A due time is the *)
(* number of ticks until it, 0 once it has passed, NoTime for SQL NULL.    *)
(***************************************************************************)
EXTENDS Integers, Sequences, FiniteSets

ActiveStatuses == {"QUEUED", "DOWNLOADING", "FAILED_TEMPORARY", "PAUSED"}

(* Faulty variant: expired rows can be picked again.                       *)
RunnableStatusesWithExpired == {"QUEUED", "FAILED_TEMPORARY", "EXPIRED"}

RunnableStatuses == {"QUEUED", "FAILED_TEMPORARY"}

NoTime == -1

(* ORDER BY queue_rank, next_attempt_at, id.  NULL sorts first, as NoTime  *)
(* does.  Rows that agree on both columns come in either order: ids, and   *)
(* how long ago a due time passed, are not represented.                    *)
SortsBefore(rank, due, v, w) ==
    \/ rank[v] < rank[w]
    \/ rank[v] = rank[w] /\ due[v] < due[w]

(* Every listing of the rows S that queue_order() allows.                  *)
Listings(S, rank, due) ==
    {q \in [1 .. Cardinality(S) -> S] :
        \A i, j \in DOMAIN q :
            i < j => q[i] # q[j] /\ ~SortsBefore(rank, due, q[j], q[i])}

InListing(q, v) == \E i \in DOMAIN q : q[i] = v

Position(q, v) == CHOOSE i \in DOMAIN q : q[i] = v

(* _renumber: ranks 1, 2, ... down the listing, every other rank kept.     *)
Renumbered(q, rank) ==
    [v \in DOMAIN rank |-> IF InListing(q, v) THEN Position(q, v) ELSE rank[v]]

(* move_queue_item: the listing with v exchanged with its neighbour at     *)
(* distance delta; CanMove is the code's refusal outside the listing.      *)
CanMove(q, v, delta) == InListing(q, v) /\ Position(q, v) + delta \in DOMAIN q

Moved(q, v, delta) ==
    LET here  == Position(q, v)
        there == here + delta
    IN  [q EXCEPT ![here] = q[there], ![there] = q[here]]

(* retry_now: v behind what downloads and ahead of everything that waits,  *)
(* both in the order they had.                                             *)
RetryListings(rest, v, downloading, rank, due) ==
    LET all == rest \union {v}
        place(w) == IF w = v THEN 2 ELSE IF w \in downloading THEN 1 ELSE 3
    IN  {q \in [1 .. Cardinality(all) -> all] :
            \A i, j \in DOMAIN q :
                i < j => /\ q[i] # q[j]
                         /\ \/ place(q[i]) < place(q[j])
                            \/ /\ place(q[i]) = place(q[j])
                               /\ ~SortsBefore(rank, due, q[j], q[i])}

(* next_queue_rank, as the set of its one value: one more than the largest *)
(* rank in the queue, or 1.                                                *)
NextRanks(active, rank) ==
    IF active = {} THEN {1}
    ELSE {rank[v] + 1 : v \in {u \in active : \A w \in active : rank[w] <= rank[u]}}
=============================================================================
