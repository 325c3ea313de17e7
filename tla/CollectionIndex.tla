--------------------------- MODULE CollectionIndex ---------------------------
(***************************************************************************)
(* The points of one collection (crates/core/src/collection.rs), their     *)
(* HNSW index with its tombstones (search.rs), the cache of search         *)
(* results, and the jobs that rebuild the index in the background          *)
(* (crates/server/src/handlers/reindex.rs).                                *)
(*                                                                         *)
(* An index has rows, of which none is ever taken out: a removed id gets a *)
(* tombstone, and an id that is inserted again gets one more row.  The     *)
(* search is exhaustive (k is the number of rows), on one query: which     *)
(* rows a smaller k or the approximation of the graph would miss is left   *)
(* out.  Every handler works under the collection's lock and is one step;  *)
(* a reindex job takes the lock three times.                               *)
(***************************************************************************)
EXTENDS Naturals, FiniteSets, Bags

CONSTANTS
    Ids,         \* storage ids of points
    Namespaced,  \* those with a namespace: their p.id is not their storage id
    Vectors,
    Refused,     \* vectors that cannot be normalised (all zero, under cosine)
    Jobs,        \* reindex jobs that may be under way at a time
    NoPoint,
    NoAnswer,
    BatchMax,    \* BATCH_REBUILD_THRESHOLD: larger batches rebuild the index
    ScanMax,     \* BRUTE_FORCE_THRESHOLD: fewer points are all looked at
    DeadRatio,   \* 1 / AUTO_REINDEX_TOMBSTONE_RATIO
    MaxCalls     \* bound: insertions and removals

ASSUME CollectionIndexAssumption ==
    /\ Namespaced \subseteq Ids /\ Refused \subseteq Vectors
    /\ NoPoint \notin Vectors
    /\ BatchMax \in Nat /\ ScanMax \in Nat /\ DeadRatio \in Nat \ {0}
    /\ MaxCalls \in Nat

VARIABLES
    points,    \* the HashMap of points, by storage id
    index,     \* the index in use: its rows and its tombstones
    cache,     \* the cached answer to the query
    jobs,      \* the reindex jobs: stage, snapshot, and the index they build
    removed,   \* ghost: ids removed since the points in the index were read
    gone,      \* ghost: ids removed and not inserted since
    stray,     \* ghost: rows that batches which failed left in the index
    calls

vars == <<points, index, cache, jobs, removed, gone, stray, calls>>

-----------------------------------------------------------------------------
(* The index *)

Rows == [id : Ids, vec : Vectors]
Empty == [rows |-> EmptyBag, dead |-> {}]
Present == {id \in Ids : points[id] # NoPoint}
PointRows(at) == {[id |-> id, vec |-> at[id]] : id \in {i \in Ids : at[i] # NoPoint}}

(* remove_point leaves the rows, and marks the id if it has any. *)
RemovePoints(idx, ids) ==
    [idx EXCEPT !.dead = @ \cup {id \in ids : \E r \in BagToSet(idx.rows) : r.id = id}]

Build(rows) == [Empty EXCEPT !.rows = rows]

(* An id gets its row before the vector is normalised: a refused vector    *)
(* leaves a row that no node of the graph has.                             *)
Search(idx) == {r \in BagToSet(idx.rows) : r.vec \notin Refused /\ r.id \notin idx.dead}

(* Few points are looked at one by one, if the index has as many rows.     *)
Scans ==
    /\ Cardinality(Present) <= ScanMax
    /\ Cardinality(Present) = BagCardinality(index.rows) - Cardinality(index.dead)

Answers ==
    IF Scans THEN PointRows(points) ELSE IF cache # NoAnswer THEN cache ELSE Search(index)

(* tombstone_count / (len + tombstone_count) is over 1 / DeadRatio. *)
NeedsReindex ==
    Cardinality(index.dead) > (Cardinality(Present) + Cardinality(index.dead)) \div DeadRatio

NoJob == [stage |-> "none", snapshot |-> [id \in Ids |-> NoPoint], index |-> Empty, removed |-> {}]
HasRunningJob == \E j \in Jobs : jobs[j].stage \in {"building", "built", "swapped"}

Init ==
    /\ points = [id \in Ids |-> NoPoint]
    /\ index = Empty
    /\ cache = NoAnswer
    /\ jobs = [j \in Jobs |-> NoJob]
    /\ removed = {} /\ gone = {} /\ stray = {}
    /\ calls = 0

-----------------------------------------------------------------------------
(* Operations on the collection *)

Called == calls < MaxCalls /\ calls' = calls + 1

(* insert_batch, up to BatchMax points: one by one, in the order they were *)
(* sent.  The first refused vector ends it, and what was added to the      *)
(* index before stays there, without its point.                            *)
InsertBatch(batch, sent) ==
    LET bad == {id \in DOMAIN batch : batch[id] \in Refused}
        row(id) == [id |-> id, vec |-> batch[id]] IN
    /\ Called
    /\ Cardinality(DOMAIN batch) <= BatchMax
    /\ IF bad = {} THEN sent = DOMAIN batch
       ELSE sent \subseteq DOMAIN batch /\ Cardinality(sent \cap bad) = 1
    /\ index' = [index EXCEPT !.rows = @ (+) SetToBag({row(id) : id \in sent})]
    /\ IF bad = {}
       THEN /\ points' = [id \in Ids |-> IF id \in DOMAIN batch THEN batch[id] ELSE points[id]]
            /\ cache' = NoAnswer
            /\ gone' = gone \ sent
            /\ UNCHANGED stray
       ELSE /\ stray' = stray \cup {row(id) : id \in sent \ bad}
            /\ UNCHANGED <<points, cache, gone>>
    /\ UNCHANGED <<jobs, removed>>

(* A larger batch is normalised first, and then the index is built again   *)
(* of the points there were and of the batch.                              *)
InsertLargeBatch(batch) ==
    /\ Called
    /\ Cardinality(DOMAIN batch) > BatchMax
    /\ \A id \in DOMAIN batch : batch[id] \notin Refused
    /\ points' = [id \in Ids |-> IF id \in DOMAIN batch THEN batch[id] ELSE points[id]]
    /\ index' = Build(SetToBag(PointRows(points))
                      (+) SetToBag({[id |-> id, vec |-> batch[id]] : id \in DOMAIN batch}))
    /\ cache' = NoAnswer
    /\ removed' = {}
    /\ gone' = gone \ DOMAIN batch /\ stray' = {}
    /\ UNCHANGED jobs

(* delete_points_batch, and the vacuum of expired points. *)
Remove(ids) ==
    /\ Called
    /\ ids \cap Present # {}
    /\ points' = [id \in Ids |-> IF id \in ids THEN NoPoint ELSE points[id]]
    /\ index' = RemovePoints(index, ids \cap Present)
    /\ cache' = NoAnswer
    /\ removed' = removed \cup (ids \cap Present)
    /\ gone' = gone \cup (ids \cap Present)
    /\ stray' = {r \in stray : r.id \notin ids \cap Present}
    /\ jobs' = [j \in Jobs |-> IF jobs[j].stage \in {"snapshot", "building", "built"}
                               THEN [jobs[j] EXCEPT !.removed = @ \cup (ids \cap Present)]
                               ELSE jobs[j]]

(* A search that the cache does not answer fills it. *)
SearchFills ==
    /\ ~Scans /\ cache = NoAnswer
    /\ cache' = Search(index)
    /\ UNCHANGED <<points, index, jobs, removed, gone, stray, calls>>

-----------------------------------------------------------------------------
(* Reindex jobs *)

SetStage(j, stage) == jobs' = [jobs EXCEPT ![j].stage = stage]

(* start_reindex looks for a job under way before it makes one. *)
StartReindex(j) ==
    /\ jobs[j].stage = "none" /\ ~HasRunningJob
    /\ SetStage(j, "starting")
    /\ UNCHANGED <<points, index, cache, removed, gone, stray, calls>>

(* maybe_auto_reindex: after a removal, and every 30 minutes. *)
AutoReindex(j) ==
    /\ jobs[j].stage = "none" /\ NeedsReindex /\ ~HasRunningJob
    /\ SetStage(j, "starting")
    /\ UNCHANGED <<points, index, cache, removed, gone, stray, calls>>

(* Under a read lock. *)
Snapshot(j) ==
    /\ jobs[j].stage = "starting"
    /\ jobs' = [jobs EXCEPT ![j] = [NoJob EXCEPT !.stage = "snapshot", !.snapshot = points]]
    /\ UNCHANGED <<points, index, cache, removed, gone, stray, calls>>

(* From here on other starts see it. *)
Register(j) ==
    /\ jobs[j].stage = "snapshot"
    /\ SetStage(j, "building")
    /\ UNCHANGED <<points, index, cache, removed, gone, stray, calls>>

BuildIndex(j) ==
    /\ jobs[j].stage = "building"
    /\ jobs' = [jobs EXCEPT ![j].stage = "built",
                            ![j].index = Build(SetToBag(PointRows(jobs[j].snapshot)))]
    /\ UNCHANGED <<points, index, cache, removed, gone, stray, calls>>

(* Mutant of BuildFails: the job is not marked as failed. *)
BuildFailsUnmarked(j) ==
    /\ jobs[j].stage = "building"
    /\ SetStage(j, "left")
    /\ UNCHANGED <<points, index, cache, removed, gone, stray, calls>>

(* An error, or the task panics: the job is marked as failed. *)
BuildFails(j) ==
    /\ jobs[j].stage = "building"
    /\ jobs' = [jobs EXCEPT ![j] = NoJob]
    /\ UNCHANGED <<points, index, cache, removed, gone, stray, calls>>

(* Mutants of ApplyDelta: without what was removed, and without what was   *)
(* added.                                                                  *)
ApplyAdded(idx, snapshot) ==
    LET added == {id \in Present : snapshot[id] = NoPoint} IN
    [idx EXCEPT !.rows = @ (+) SetToBag({[id |-> id, vec |-> points[id]] : id \in added})]

ApplyLost(idx, snapshot) ==
    RemovePoints(idx, {id \in Ids : snapshot[id] # NoPoint /\ points[id] = NoPoint})

(* The snapshot is keyed by storage id, the current points by p.id: a      *)
(* namespaced point looks added, and removed.  An updated one looks the    *)
(* same.  (No plain point has the p.id of a namespaced one here.)            *)
ApplyDelta(idx, snapshot) ==
    LET was == {id \in Ids : snapshot[id] # NoPoint}
        added == {id \in Present : id \notin was \/ id \in Namespaced}
        lost == {id \in was : id \notin Present \/ id \in Namespaced} IN
    RemovePoints([idx EXCEPT !.rows = @ (+) SetToBag({[id |-> id, vec |-> points[id]] : id \in added})],
                 lost)

(* Under the write lock. *)
Swap(j) ==
    /\ jobs[j].stage = "built"
    /\ index' = ApplyDelta(jobs[j].index, jobs[j].snapshot)
    /\ cache' = NoAnswer
    /\ removed' = jobs[j].removed /\ stray' = {}
    /\ jobs' = [jobs EXCEPT ![j] = [NoJob EXCEPT !.stage = "swapped"]]
    /\ UNCHANGED <<points, gone, calls>>

Complete(j) ==
    /\ jobs[j].stage = "swapped"
    /\ jobs' = [jobs EXCEPT ![j] = NoJob]
    /\ UNCHANGED <<points, index, cache, removed, gone, stray, calls>>

-----------------------------------------------------------------------------
Batches == UNION {[ids -> Vectors] : ids \in SUBSET Ids \ {{}}}

Operation ==
    \/ \E batch \in Batches : \/ \E sent \in SUBSET Ids : InsertBatch(batch, sent)
                              \/ InsertLargeBatch(batch)
    \/ \E ids \in SUBSET Ids : Remove(ids)
    \/ SearchFills

JobStep(j) ==
    \/ Snapshot(j) \/ Register(j) \/ BuildIndex(j) \/ BuildFails(j)
    \/ Swap(j) \/ Complete(j)

Next == Operation \/ \E j \in Jobs : StartReindex(j) \/ AutoReindex(j) \/ JobStep(j)

Spec == Init /\ [][Next]_vars

(* A job's task runs on, and the worker looks at the collection every 30   *)
(* minutes; no request is assumed.                                         *)
Fairness ==
    /\ \A j \in Jobs : WF_vars(JobStep(j))
    /\ WF_vars(\E j \in Jobs : AutoReindex(j))

FairSpec == Spec /\ Fairness

-----------------------------------------------------------------------------
(***************************************************************************)
(* Properties                                                              *)
(***************************************************************************)
(* The variables keep their types.  A tombstone is of an id with a row, so *)
(* that the number of rows less that of tombstones is never negative.      *)
TypeOK ==
    /\ points \in [Ids -> Vectors \cup {NoPoint}]
    /\ IsABag(index.rows) /\ BagToSet(index.rows) \subseteq Rows
    /\ index.dead \subseteq {r.id : r \in BagToSet(index.rows)}
    /\ cache = NoAnswer \/ cache \subseteq Rows
    /\ \A j \in Jobs :
          jobs[j].stage \in {"none", "starting", "snapshot", "building", "built", "swapped"}
    /\ removed \subseteq Ids /\ gone \subseteq Ids /\ stray \subseteq Rows
    /\ calls \in 0..MaxCalls

(* A removed point is in no answer, whether the cache, the index or the    *)
(* scan gives it, and however removals, insertions and reindex jobs that   *)
(* began before or after interleave ("filter at search time").  Only the   *)
(* row that a batch which failed left for its id may be there instead.     *)
NoResurrection == \A r \in Answers : r.id \in gone => r \in stray

(* So it is, and the variables keep their types.                           *)
IndexInv == TypeOK /\ NoResurrection

(* A point of the collection is in the answer, unless its id was removed   *)
(* since the points in the index were read: then its tombstone hides the   *)
(* new row as well.  A reindex makes it appear again, and loses none that  *)
(* came while it was built.                                                *)
Found == \A id \in Present \ removed : \E r \in Answers : r.id = id

(* A reindex job ends, and lets the next one start. *)
JobsEnd == \A j \in Jobs : jobs[j].stage # "none" ~> jobs[j].stage = "none"

(* The tombstones are again and again below their limit: the removals that *)
(* a job finds when it swaps are left to the next one, which the worker    *)
(* starts ("Automatic reindex when tombstone ratio > 20%"), and so is what *)
(* a job that failed did not do, unless builds fail again and again.       *)
Compacted == []<>~NeedsReindex \/ []<><<\E j \in Jobs : BuildFails(j)>>_vars

(* Jobs come to an end, and so do the tombstones.                          *)
ReindexProgress == JobsEnd /\ Compacted
=============================================================================
