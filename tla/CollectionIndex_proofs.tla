------------------------ MODULE CollectionIndex_proofs ------------------------
(* Proofs about CollectionIndex. *)
EXTENDS CollectionIndex, TLAPS

USE CollectionIndexAssumption

-----------------------------------------------------------------------------
(***************************************************************************)
(* The inductive invariant.  What an answer must not show is said of the   *)
(* points, of the rows of the index and of the cache, and of the rows that *)
(* a job has built and will put in the index's place.                      *)
(***************************************************************************)
AllRows(idx) == BagToSet(idx.rows)
RowIds(idx) == {r.id : r \in AllRows(idx)}

RowBags == UNION {[rows -> Nat \ {0}] : rows \in SUBSET Rows}
Indices == [rows : RowBags, dead : SUBSET Ids]
Maps == [Ids -> Vectors \cup {NoPoint}]
Stages == {"none", "starting", "snapshot", "building", "built", "swapped"}

(* TypeOK, and what it leaves out of the jobs.                             *)
Typed ==
    /\ points \in Maps
    /\ index \in Indices /\ index.dead \subseteq RowIds(index)
    /\ cache = NoAnswer \/ cache \subseteq Rows
    /\ jobs \in [Jobs -> [stage : Stages, snapshot : Maps, index : Indices, removed : SUBSET Ids]]
    /\ removed \subseteq Ids /\ gone \subseteq Ids /\ stray \subseteq Rows
    /\ calls \in 0..MaxCalls

(* The delta knows which rows the built index has: those of the snapshot.  *)
BuiltFromSnapshot ==
    \A j \in Jobs : jobs[j].stage = "built" =>
        jobs[j].index = Build(SetToBag(PointRows(jobs[j].snapshot)))

Hidden ==
    /\ Present \cap gone = {}
    /\ \A r \in Search(index) : r.id \in gone => r \in stray
    /\ cache # NoAnswer => \A r \in cache : r.id \in gone => r \in stray

IInv == Typed /\ BuiltFromSnapshot /\ Hidden

-----------------------------------------------------------------------------
(* What the operations on indices do.                                      *)

(* add: the rows join those there are, and the tombstones stay.            *)
LEMMA AddedRows ==
    ASSUME NEW idx \in Indices, NEW rows \in SUBSET Rows,
           NEW added, added = [idx EXCEPT !.rows = @ (+) SetToBag(rows)]
    PROVE  /\ added \in Indices
           /\ AllRows(added) = AllRows(idx) \cup rows
           /\ added.dead = idx.dead
<1> DEFINE both == idx.rows (+) SetToBag(rows)
<1>1. PICK old \in SUBSET Rows : idx.rows \in [old -> Nat \ {0}]
  BY DEF Indices, RowBags
<1>2. both \in [old \cup rows -> Nat \ {0}]
  BY <1>1 DEF SetToBag, (+)
<1>3. both \in RowBags
  BY <1>1, <1>2 DEF RowBags
<1>4. added = [rows |-> both, dead |-> idx.dead]
  BY DEF Indices
<1> QED
  BY <1>1, <1>2, <1>3, <1>4 DEF Indices, AllRows, BagToSet

(* HnswIndex::new and add: a new index has the rows it is given, and no    *)
(* tombstone.                                                              *)
LEMMA BuiltRows ==
    ASSUME NEW rows \in SUBSET Rows
    PROVE  /\ Build(SetToBag(rows)) \in Indices
           /\ AllRows(Build(SetToBag(rows))) = rows
           /\ Build(SetToBag(rows)).dead = {}
<1>1. SetToBag(rows) \in [rows -> Nat \ {0}]
  BY DEF SetToBag
<1>2. SetToBag(rows) \in RowBags
  BY <1>1 DEF RowBags
<1>3. Build(SetToBag(rows)) = [rows |-> SetToBag(rows), dead |-> {}]
  BY DEF Build, Empty
<1> QED
  BY <1>1, <1>2, <1>3 DEF Indices, AllRows, BagToSet

(* remove_point: every id that has a row gets a tombstone.                 *)
LEMMA RemovedRows ==
    ASSUME NEW idx \in Indices, NEW ids \in SUBSET Ids
    PROVE  /\ RemovePoints(idx, ids) \in Indices
           /\ AllRows(RemovePoints(idx, ids)) = AllRows(idx)
           /\ RemovePoints(idx, ids).dead = idx.dead \cup (ids \cap RowIds(idx))
<1>1. {id \in ids : \E r \in BagToSet(idx.rows) : r.id = id} = ids \cap RowIds(idx)
  BY DEF RowIds, AllRows
<1>2. RemovePoints(idx, ids) = [idx EXCEPT !.dead = @ \cup (ids \cap RowIds(idx))]
  BY <1>1 DEF RemovePoints
<1>3. idx = [rows |-> idx.rows, dead |-> idx.dead]
  BY DEF Indices
<1>4. RemovePoints(idx, ids) = [rows |-> idx.rows, dead |-> idx.dead \cup (ids \cap RowIds(idx))]
  BY <1>2, <1>3
<1> QED
  BY <1>4 DEF Indices, AllRows

(* The rows of a map of points have its ids, and their vectors.            *)
LEMMA RowsOfPoints ==
    ASSUME NEW at \in Maps
    PROVE  /\ PointRows(at) \subseteq Rows
           /\ \A r \in PointRows(at) : r.id \in Ids /\ at[r.id] # NoPoint /\ r.vec = at[r.id]
           /\ \A id \in Ids : at[id] # NoPoint => \E r \in PointRows(at) : r.id = id
<1>1. \A id \in Ids : at[id] # NoPoint => at[id] \in Vectors
  BY DEF Maps
<1>2. \A r \in PointRows(at) : \E id \in Ids :
         at[id] # NoPoint /\ r = [id |-> id, vec |-> at[id]]
  BY DEF PointRows
<1>3. \A id \in Ids : at[id] # NoPoint => [id |-> id, vec |-> at[id]] \in PointRows(at)
  BY DEF PointRows
<1>4. \A r \in PointRows(at) :
         r.id \in Ids /\ at[r.id] # NoPoint /\ r.vec = at[r.id] /\ r \in Rows
  BY <1>1, <1>2 DEF Rows
<1> QED
  BY <1>3, <1>4

-----------------------------------------------------------------------------
(* What a larger batch builds: the rows of the points, and of the batch.   *)
LEMMA RebuiltRows ==
    ASSUME NEW old \in SUBSET Rows, NEW new \in SUBSET Rows,
           NEW idx, idx = Build(SetToBag(old) (+) SetToBag(new))
    PROVE  idx \in Indices /\ AllRows(idx) = old \cup new /\ idx.dead = {}
<1>1. Build(SetToBag(old)).rows = SetToBag(old)
  BY DEF Build, Empty
<1>2. [Build(SetToBag(old)) EXCEPT !.rows = @ (+) SetToBag(new)] = idx
  BY <1>1 DEF Build, Empty
<1> QED
  BY <1>2, BuiltRows, AddedRows

(* The rows a batch brings.                                                *)
BatchRows(batch, ids) == {[id |-> id, vec |-> batch[id]] : id \in ids}

LEMMA RowsOfBatch ==
    ASSUME NEW batch \in Batches, NEW ids \in SUBSET DOMAIN batch
    PROVE  /\ BatchRows(batch, ids) \in SUBSET Rows
           /\ \A r \in BatchRows(batch, ids) : r.id \in ids /\ r.vec = batch[r.id]
           /\ \A id \in ids : \E r \in BatchRows(batch, ids) : r.id = id
           /\ DOMAIN batch \subseteq Ids
           /\ \A id \in DOMAIN batch : batch[id] \in Vectors
<1>1. PICK all \in SUBSET Ids : batch \in [all -> Vectors]
  BY DEF Batches
<1>2. \A r \in BatchRows(batch, ids) : \E id \in ids : r = [id |-> id, vec |-> batch[id]]
  BY DEF BatchRows
<1>3. \A id \in ids : [id |-> id, vec |-> batch[id]] \in BatchRows(batch, ids)
  BY DEF BatchRows
<1>4. \A r \in BatchRows(batch, ids) : r.id \in ids /\ r.vec = batch[r.id] /\ r \in Rows
  BY <1>1, <1>2 DEF Rows
<1> QED
  BY <1>1, <1>3, <1>4

(* The points after a batch.                                               *)
LEMMA InsertedPoints ==
    ASSUME points \in Maps, NEW batch \in Batches,
           points' = [id \in Ids |-> IF id \in DOMAIN batch THEN batch[id] ELSE points[id]]
    PROVE  points' \in Maps /\ Present' = Present \cup DOMAIN batch
<1>1. DOMAIN batch \subseteq Ids /\ \A id \in DOMAIN batch : batch[id] \in Vectors
  BY RowsOfBatch
<1> QED
  BY <1>1 DEF Maps, Present

-----------------------------------------------------------------------------
LEMMA InsertBatchKeeps ==
    ASSUME IInv, NEW batch \in Batches, NEW sent \in SUBSET Ids, InsertBatch(batch, sent)
    PROVE  IInv'
<1> DEFINE bad == {id \in DOMAIN batch : batch[id] \in Refused}
           rows == BatchRows(batch, sent)
<1>1. sent \subseteq DOMAIN batch
  BY DEF InsertBatch
<1>2. /\ rows \in SUBSET Rows
      /\ \A r \in rows : r.id \in sent /\ r.vec = batch[r.id]
  BY <1>1, RowsOfBatch
<1>3. index' = [index EXCEPT !.rows = @ (+) SetToBag(rows)]
  BY DEF InsertBatch, BatchRows
<1>4. /\ index' \in Indices
      /\ AllRows(index') = AllRows(index) \cup rows
      /\ index'.dead = index.dead
  BY <1>2, <1>3, AddedRows DEF IInv, Typed
<1>5. UNCHANGED <<jobs, removed>> /\ calls' \in 0..MaxCalls
  BY DEF InsertBatch, Called, IInv, Typed
<1>6. CASE bad = {}
  <2>1. sent = DOMAIN batch /\ cache' = NoAnswer /\ gone' = gone \ sent /\ UNCHANGED stray
    BY <1>6 DEF InsertBatch
  <2>2. points' \in Maps /\ Present' = Present \cup DOMAIN batch
    BY <1>6, InsertedPoints DEF InsertBatch, IInv, Typed
  <2>3. Typed'
    BY <1>4, <1>5, <2>1, <2>2 DEF IInv, Typed, RowIds
  <2>4. Hidden'
    BY <1>2, <1>4, <2>1, <2>2 DEF IInv, Hidden, Search, AllRows
  <2> QED
    BY <1>5, <2>3, <2>4 DEF IInv, BuiltFromSnapshot
<1>7. CASE bad # {}
  <2>1. stray' = stray \cup BatchRows(batch, sent \ bad) /\ UNCHANGED <<points, cache, gone>>
    BY <1>7 DEF InsertBatch, BatchRows
  <2>2. BatchRows(batch, sent \ bad) \in SUBSET Rows
    BY <1>1, RowsOfBatch
  <2>3. \A r \in rows : r.vec \notin Refused => r \in stray'
    <3> SUFFICES ASSUME NEW r \in rows, r.vec \notin Refused
                 PROVE  r \in BatchRows(batch, sent \ bad)
      BY <2>1
    <3>1. PICK id \in sent : r = [id |-> id, vec |-> batch[id]]
      BY DEF BatchRows
    <3> QED
      BY <3>1 DEF BatchRows
  <2>4. Typed'
    BY <1>4, <1>5, <2>1, <2>2 DEF IInv, Typed, RowIds
  <2>5. Hidden'
    BY <1>4, <2>1, <2>3 DEF IInv, Hidden, Search, AllRows, Present
  <2> QED
    BY <1>5, <2>4, <2>5 DEF IInv, BuiltFromSnapshot
<1> QED
  BY <1>6, <1>7

LEMMA InsertLargeBatchKeeps ==
    ASSUME IInv, NEW batch \in Batches, InsertLargeBatch(batch)
    PROVE  IInv'
<1> DEFINE rows == BatchRows(batch, DOMAIN batch)
<1>1. rows \in SUBSET Rows /\ \A r \in rows : r.id \in DOMAIN batch
  BY RowsOfBatch
<1>2. /\ PointRows(points) \in SUBSET Rows
      /\ \A r \in PointRows(points) : r.id \in Present
  BY RowsOfPoints DEF IInv, Typed, Present
<1>3. index' = Build(SetToBag(PointRows(points)) (+) SetToBag(rows))
  BY DEF InsertLargeBatch, BatchRows
<1>4. index' \in Indices /\ AllRows(index') = PointRows(points) \cup rows /\ index'.dead = {}
  BY <1>1, <1>2, <1>3, RebuiltRows
<1>5. points' \in Maps /\ Present' = Present \cup DOMAIN batch
  BY InsertedPoints DEF InsertLargeBatch, IInv, Typed
<1>6. /\ gone' = gone \ DOMAIN batch /\ stray' = {} /\ removed' = {} /\ cache' = NoAnswer
      /\ UNCHANGED jobs
  BY DEF InsertLargeBatch
<1>7. calls' \in 0..MaxCalls
  BY DEF InsertLargeBatch, Called, IInv, Typed
<1>8. Typed'
  BY <1>4, <1>5, <1>6, <1>7 DEF IInv, Typed, RowIds
<1>9. Hidden'
  <2>1. \A r \in AllRows(index') : r.id \notin gone'
    BY <1>1, <1>2, <1>4, <1>6 DEF IInv, Hidden
  <2> QED
    BY <1>5, <1>6, <2>1 DEF IInv, Hidden, Search, AllRows
<1> QED
  BY <1>6, <1>8, <1>9 DEF IInv, BuiltFromSnapshot

LEMMA RemoveKeeps ==
    ASSUME IInv, NEW ids \in SUBSET Ids, Remove(ids)
    PROVE  IInv'
<1> DEFINE out == ids \cap Present
<1>1. out \in SUBSET Ids
  OBVIOUS
<1>2. /\ index' \in Indices
      /\ AllRows(index') = AllRows(index)
      /\ index'.dead = index.dead \cup (out \cap RowIds(index))
  BY <1>1, RemovedRows DEF Remove, IInv, Typed
<1>3. points' \in Maps /\ Present' = Present \ ids
  BY DEF Remove, IInv, Typed, Maps, Present
<1>4. /\ gone' = gone \cup out /\ removed' = removed \cup out /\ cache' = NoAnswer
      /\ stray' = {r \in stray : r.id \notin out}
  BY DEF Remove
<1>5. /\ jobs' \in [Jobs -> [stage : Stages, snapshot : Maps, index : Indices, removed : SUBSET Ids]]
      /\ \A j \in Jobs : /\ jobs'[j].stage = jobs[j].stage
                         /\ jobs'[j].snapshot = jobs[j].snapshot
                         /\ jobs'[j].index = jobs[j].index
  BY <1>1 DEF Remove, IInv, Typed
<1>6. calls' \in 0..MaxCalls
  BY DEF Remove, Called, IInv, Typed
<1>7. Typed'
  BY <1>1, <1>2, <1>3, <1>4, <1>5, <1>6 DEF IInv, Typed, RowIds
<1>8. Hidden'
  BY <1>2, <1>3, <1>4 DEF IInv, Hidden, Search, AllRows, RowIds
<1> QED
  BY <1>5, <1>7, <1>8 DEF IInv, BuiltFromSnapshot

LEMMA SearchFillsKeeps ==
    ASSUME IInv, SearchFills
    PROVE  IInv'
<1>1. /\ UNCHANGED <<points, index, jobs, removed, gone, stray, calls>>
      /\ cache' = Search(index)
  BY DEF SearchFills
<1>2. Search(index) \subseteq Rows
  BY DEF Search, IInv, Typed, Indices, RowBags, BagToSet
<1>3. Typed'
  BY <1>1, <1>2 DEF IInv, Typed, RowIds, AllRows
<1>4. Hidden'
  BY <1>1 DEF IInv, Hidden, Search, Present
<1> QED
  BY <1>1, <1>3, <1>4 DEF IInv, BuiltFromSnapshot

-----------------------------------------------------------------------------
(* A step of a job before its swap, or after it, changes that job alone.   *)
LEMMA JobKeeps ==
    ASSUME IInv, NEW j \in Jobs,
           NEW job \in [stage : Stages, snapshot : Maps, index : Indices, removed : SUBSET Ids],
           jobs' = [jobs EXCEPT ![j] = job],
           job.stage = "built" => job.index = Build(SetToBag(PointRows(job.snapshot))),
           UNCHANGED <<points, index, cache, removed, gone, stray, calls>>
    PROVE  IInv'
<1>1. Typed'
  BY DEF IInv, Typed, RowIds, AllRows
<1>2. Hidden'
  BY DEF IInv, Hidden, Search, Present
<1>3. BuiltFromSnapshot'
  BY DEF IInv, Typed, BuiltFromSnapshot
<1> QED
  BY <1>1, <1>2, <1>3 DEF IInv

(* NoJob is a job. *)
LEMMA NoJobTyped ==
    NoJob \in [stage : Stages, snapshot : Maps, index : Indices, removed : SUBSET Ids]
<1>1. Empty \in Indices
  BY BuiltRows DEF Build, Empty, EmptyBag
<1>2. [id \in Ids |-> NoPoint] \in Maps
  BY DEF Maps
<1> QED
  BY <1>1, <1>2 DEF NoJob, Stages

LEMMA JobStepKeeps ==
    ASSUME IInv, NEW j \in Jobs,
           \/ StartReindex(j) \/ AutoReindex(j)
           \/ Snapshot(j) \/ Register(j) \/ BuildIndex(j) \/ BuildFails(j) \/ Complete(j)
    PROVE  IInv'
<1> DEFINE JobType == [stage : Stages, snapshot : Maps, index : Indices, removed : SUBSET Ids]
<1>0. jobs \in [Jobs -> JobType] /\ jobs[j] \in JobType
  BY DEF IInv, Typed
<1>1. ASSUME NEW stage \in Stages \ {"built"}, SetStage(j, stage)
      PROVE  /\ [jobs[j] EXCEPT !.stage = stage] \in JobType
             /\ jobs' = [jobs EXCEPT ![j] = [jobs[j] EXCEPT !.stage = stage]]
             /\ [jobs[j] EXCEPT !.stage = stage].stage # "built"
  BY <1>0, <1>1 DEF SetStage
<1>2. CASE StartReindex(j) \/ AutoReindex(j)
  <2>1. "starting" \in Stages \ {"built"} /\ SetStage(j, "starting")
    BY <1>2 DEF StartReindex, AutoReindex, Stages
  <2> QED
    BY <1>0, <1>1, <1>2, <2>1, JobKeeps DEF StartReindex, AutoReindex
<1>3. CASE Register(j)
  <2>1. "building" \in Stages \ {"built"} /\ SetStage(j, "building")
    BY <1>3 DEF Register, Stages
  <2> QED
    BY <1>0, <1>1, <1>3, <2>1, JobKeeps DEF Register
<1>4. CASE Snapshot(j)
  <2> DEFINE job == [NoJob EXCEPT !.stage = "snapshot", !.snapshot = points]
  <2>1. job \in JobType /\ job.stage # "built"
    BY NoJobTyped DEF IInv, Typed, Stages
  <2>2. jobs' = [jobs EXCEPT ![j] = job]
    BY <1>4 DEF Snapshot
  <2> HIDE DEF job
  <2> QED
    BY <1>0, <1>4, <2>1, <2>2, JobKeeps DEF Snapshot
<1>5. CASE BuildIndex(j)
  <2> DEFINE built == Build(SetToBag(PointRows(jobs[j].snapshot)))
             job == [jobs[j] EXCEPT !.stage = "built", !.index = built]
  <2>1. built \in Indices
    BY <1>0, RowsOfPoints, BuiltRows
  <2>2. jobs' = [jobs EXCEPT ![j] = [jobs[j] EXCEPT !.stage = "built", !.index = built]]
    BY <1>0, <1>5 DEF BuildIndex
  <2> HIDE DEF built
  <2>3. job \in JobType /\ job.index = built /\ job.snapshot = jobs[j].snapshot
    BY <1>0, <2>1 DEF Stages
  <2> HIDE DEF job
  <2> QED
    BY <1>0, <1>5, <2>2, <2>3, JobKeeps DEF BuildIndex, built, job
<1>6. CASE BuildFails(j) \/ Complete(j)
  <2>1. jobs' = [jobs EXCEPT ![j] = NoJob]
    BY <1>0, <1>6 DEF BuildFails, Complete
  <2>2. NoJob.stage # "built"
    BY DEF NoJob
  <2> QED
    BY <1>6, <2>1, <2>2, NoJobTyped, JobKeeps DEF BuildFails, Complete
<1> QED
  BY <1>2, <1>3, <1>4, <1>5, <1>6

-----------------------------------------------------------------------------
(* The index that a job puts in place: the rows of the snapshot and of     *)
(* what was added since, with a tombstone for what was lost since.         *)
LEMMA SwappedRows ==
    ASSUME IInv, NEW j \in Jobs, Swap(j)
    PROVE  LET was == {id \in Ids : jobs[j].snapshot[id] # NoPoint}
               added == {id \in Present : id \notin was \/ id \in Namespaced}
               lost == {id \in was : id \notin Present \/ id \in Namespaced}
           IN  /\ index' \in Indices
               /\ AllRows(index') = PointRows(jobs[j].snapshot) \cup BatchRows(points, added)
               /\ index'.dead = lost \cap RowIds(index')
<1> DEFINE snapshot == jobs[j].snapshot
           was == {id \in Ids : snapshot[id] # NoPoint}
           added == {id \in Present : id \notin was \/ id \in Namespaced}
           lost == {id \in was : id \notin Present \/ id \in Namespaced}
           base == Build(SetToBag(PointRows(snapshot)))
           more == [base EXCEPT !.rows = @ (+) SetToBag(BatchRows(points, added))]
<1>1. snapshot \in Maps /\ jobs[j].index = base
  BY DEF Swap, IInv, Typed, BuiltFromSnapshot
<1>2. base \in Indices /\ AllRows(base) = PointRows(snapshot) /\ base.dead = {}
  BY <1>1, RowsOfPoints, BuiltRows
<1>3. BatchRows(points, added) \in SUBSET Rows
  BY DEF BatchRows, Rows, Present, IInv, Typed, Maps
<1>4. index' = RemovePoints(more, lost)
  BY <1>1 DEF Swap, ApplyDelta, BatchRows
<1> HIDE DEF base, snapshot
<1>5. /\ more \in Indices
      /\ AllRows(more) = PointRows(snapshot) \cup BatchRows(points, added)
      /\ more.dead = {}
  BY <1>2, <1>3, AddedRows
<1> HIDE DEF more
<1>6. lost \in SUBSET Ids
  OBVIOUS
<1>7. index' \in Indices /\ AllRows(index') = AllRows(more) /\ index'.dead = lost \cap RowIds(more)
  BY <1>4, <1>5, <1>6, RemovedRows
<1> QED
  BY <1>5, <1>7 DEF RowIds, snapshot

LEMMA SwapKeeps ==
    ASSUME IInv, NEW j \in Jobs, Swap(j)
    PROVE  IInv'
<1> DEFINE snapshot == jobs[j].snapshot
           was == {id \in Ids : snapshot[id] # NoPoint}
           added == {id \in Present : id \notin was \/ id \in Namespaced}
           lost == {id \in was : id \notin Present \/ id \in Namespaced}
<1>1. /\ index' \in Indices
      /\ AllRows(index') = PointRows(snapshot) \cup BatchRows(points, added)
      /\ index'.dead = lost \cap RowIds(index')
  BY SwappedRows
<1>2. snapshot \in Maps /\ jobs[j].removed \subseteq Ids
  BY DEF IInv, Typed
<1>3. \A r \in AllRows(index') : r.id \in added \/ r.id \in was
  BY <1>1, <1>2, RowsOfPoints DEF BatchRows
<1>4. /\ cache' = NoAnswer /\ removed' = jobs[j].removed /\ stray' = {}
      /\ jobs' = [jobs EXCEPT ![j] = [NoJob EXCEPT !.stage = "swapped"]]
      /\ UNCHANGED <<points, gone, calls>>
  BY DEF Swap
<1>5. /\ jobs' \in [Jobs -> [stage : Stages, snapshot : Maps, index : Indices, removed : SUBSET Ids]]
      /\ BuiltFromSnapshot'
  <2>1. /\ [NoJob EXCEPT !.stage = "swapped"].stage = "swapped"
        /\ [NoJob EXCEPT !.stage = "swapped"]
             \in [stage : Stages, snapshot : Maps, index : Indices, removed : SUBSET Ids]
    BY NoJobTyped DEF Stages
  <2> QED
    BY <1>4, <2>1 DEF IInv, Typed, BuiltFromSnapshot
<1>6. Typed'
  BY <1>1, <1>2, <1>4, <1>5 DEF IInv, Typed
<1>7. Hidden'
  <2>1. ASSUME NEW r \in Search(index)', r.id \in gone PROVE FALSE
    <3>1. r \in AllRows(index') /\ r.id \notin index'.dead
      BY <2>1 DEF Search, AllRows
    <3>2. r.id \notin Present /\ r.id \in RowIds(index')
      BY <2>1, <3>1 DEF IInv, Hidden, RowIds
    <3> QED
      BY <1>1, <1>3, <3>1, <3>2
  <2> QED
    BY <1>4, <2>1 DEF IInv, Hidden, Present
<1> QED
  BY <1>5, <1>6, <1>7 DEF IInv

-----------------------------------------------------------------------------
LEMMA InitInv == Init => IInv
<1> SUFFICES ASSUME Init PROVE IInv
  OBVIOUS
<1>1. Empty \in Indices /\ AllRows(Empty) = {} /\ Empty.dead = {}
  BY BuiltRows DEF Build, Empty, EmptyBag
<1>2. Typed
  BY <1>1, NoJobTyped DEF Init, Typed, Maps
<1>3. BuiltFromSnapshot
  BY DEF Init, BuiltFromSnapshot, NoJob
<1>4. Hidden
  BY <1>1 DEF Init, Hidden, Search, AllRows
<1> QED
  BY <1>2, <1>3, <1>4 DEF IInv

LEMMA NextInv == IInv /\ [Next]_vars => IInv'
<1> SUFFICES ASSUME IInv, [Next]_vars PROVE IInv'
  OBVIOUS
<1>1. CASE Operation
  BY <1>1, InsertBatchKeeps, InsertLargeBatchKeeps, RemoveKeeps, SearchFillsKeeps DEF Operation
<1>2. ASSUME NEW j \in Jobs, StartReindex(j) \/ AutoReindex(j) \/ JobStep(j) PROVE IInv'
  BY <1>2, JobStepKeeps, SwapKeeps DEF JobStep
<1>3. CASE UNCHANGED vars
  <2>1. Typed'
    BY <1>3 DEF vars, IInv, Typed, RowIds, AllRows
  <2>2. BuiltFromSnapshot' /\ Hidden'
    BY <1>3 DEF vars, IInv, BuiltFromSnapshot, Hidden, Search, Present
  <2> QED
    BY <2>1, <2>2 DEF IInv
<1> QED
  BY <1>1, <1>2, <1>3 DEF Next

(* The index, the cache and the jobs stay as they should, for any ids,     *)
(* batches, removals and number of jobs at a time.                         *)
THEOREM Invariance == Spec => []IInv
  BY InitInv, NextInv, PTL DEF Spec

(* The run's invariant: what has been removed is not found, however        *)
(* searches, removals, insertions and reindex jobs interleave ("filter at  *)
(* search time").  All that may show of a removed id is a row which a      *)
(* batch that failed left for it after the removal.                        *)
THEOREM RemovedStaysHidden == Spec => []IndexInv
<1>1. IInv => TypeOK
  <2> SUFFICES ASSUME IInv PROVE TypeOK
    OBVIOUS
  <2>1. IsABag(index.rows) /\ BagToSet(index.rows) \subseteq Rows
    BY DEF IInv, Typed, Indices, RowBags, IsABag, BagToSet
  <2> QED
    BY <2>1 DEF IInv, Typed, TypeOK, Maps, Stages, RowIds, AllRows
<1>2. IInv => NoResurrection
  <2> SUFFICES ASSUME IInv, NEW r \in Answers PROVE r.id \in gone => r \in stray
    BY DEF NoResurrection
  <2>1. CASE Scans
    BY <2>1, RowsOfPoints DEF Answers, IInv, Typed, Hidden, Present
  <2>2. CASE ~Scans
    BY <2>2 DEF Answers, IInv, Hidden
  <2> QED
    BY <2>1, <2>2
<1> QED
  BY <1>1, <1>2, Invariance, PTL DEF IndexInv

-----------------------------------------------------------------------------
(***************************************************************************)
(* What an answer must show.  A tombstone is of an id removed since the    *)
(* points in the index were read; and a job's list of removed ids has all  *)
(* that its snapshot had and the collection has no more, so that the new   *)
(* index has no other tombstones either.                                   *)
(***************************************************************************)
Listed(ids, answer) == \A id \in ids : \E r \in answer : r.id = id

Shown ==
    /\ \A id \in Ids : points[id] \notin Refused
    /\ index.dead \subseteq removed
    /\ Listed(Present \ removed, Search(index))
    /\ cache # NoAnswer => Listed(Present \ removed, cache)
    /\ \A j \in Jobs : jobs[j].stage \in {"snapshot", "building", "built"} =>
          \A id \in Ids : /\ jobs[j].snapshot[id] \notin Refused
                          /\ jobs[j].snapshot[id] # NoPoint => id \in Present \cup jobs[j].removed

LEMMA InsertBatchShows ==
    ASSUME IInv, Shown, NEW batch \in Batches, NEW sent \in SUBSET Ids, InsertBatch(batch, sent)
    PROVE  Shown'
<1> DEFINE bad == {id \in DOMAIN batch : batch[id] \in Refused}
           rows == BatchRows(batch, sent)
<1>1. sent \subseteq DOMAIN batch
  BY DEF InsertBatch
<1>2. /\ rows \in SUBSET Rows
      /\ \A r \in rows : r.vec = batch[r.id]
      /\ Listed(sent, rows)
  BY <1>1, RowsOfBatch DEF Listed
<1>3. index' = [index EXCEPT !.rows = @ (+) SetToBag(rows)]
  BY DEF InsertBatch, BatchRows
<1>4. AllRows(index') = AllRows(index) \cup rows /\ index'.dead = index.dead
  BY <1>2, <1>3, AddedRows DEF IInv, Typed
<1>5. UNCHANGED <<jobs, removed>>
  BY DEF InsertBatch
<1>6. CASE bad = {}
  <2>1. sent = DOMAIN batch /\ cache' = NoAnswer
    BY <1>6 DEF InsertBatch
  <2>2. points' \in Maps /\ Present' = Present \cup sent
    BY <1>6, <2>1, InsertedPoints DEF InsertBatch, IInv, Typed
  <2>3. \A id \in Ids : points'[id] \notin Refused
    BY <1>6 DEF InsertBatch, Shown
  <2>4. \A r \in rows : r.id \in sent /\ r.vec \notin Refused
    BY <1>1, <1>2, <1>6, <2>1, RowsOfBatch
  <2>5. Listed(Present' \ removed', Search(index)')
    <3> SUFFICES ASSUME NEW id \in Present' \ removed'
                 PROVE  \E r \in Search(index)' : r.id = id
      BY DEF Listed
    <3>1. id \notin index'.dead
      BY <1>4, <1>5 DEF Shown
    <3>2. CASE id \in sent
      BY <1>2, <1>4, <2>4, <3>1, <3>2 DEF Listed, Search, AllRows
    <3>3. CASE id \notin sent
      BY <1>4, <1>5, <2>2, <3>3 DEF Shown, Listed, Search, AllRows
    <3> QED
      BY <3>2, <3>3
  <2> QED
    BY <1>4, <1>5, <2>1, <2>2, <2>3, <2>5 DEF Shown
<1>7. CASE bad # {}
  <2>1. UNCHANGED <<points, cache>>
    BY <1>7 DEF InsertBatch
  <2> QED
    BY <1>4, <1>5, <2>1 DEF Shown, Listed, Search, AllRows, Present
<1> QED
  BY <1>6, <1>7

LEMMA InsertLargeBatchShows ==
    ASSUME IInv, Shown, NEW batch \in Batches, InsertLargeBatch(batch)
    PROVE  Shown'
<1> DEFINE rows == BatchRows(batch, DOMAIN batch)
<1>1. /\ rows \in SUBSET Rows
      /\ \A r \in rows : r.vec \notin Refused
      /\ Listed(DOMAIN batch, rows)
  BY RowsOfBatch DEF InsertLargeBatch, Listed
<1>2. /\ PointRows(points) \in SUBSET Rows
      /\ \A r \in PointRows(points) : r.vec \notin Refused
      /\ Listed(Present, PointRows(points))
  BY RowsOfPoints DEF IInv, Typed, Present, Shown, Listed
<1>3. index' = Build(SetToBag(PointRows(points)) (+) SetToBag(rows))
  BY DEF InsertLargeBatch, BatchRows
<1>4. AllRows(index') = PointRows(points) \cup rows /\ index'.dead = {}
  BY <1>1, <1>2, <1>3, RebuiltRows
<1>5. points' \in Maps /\ Present' = Present \cup DOMAIN batch
  BY InsertedPoints DEF InsertLargeBatch, IInv, Typed
<1>6. removed' = {} /\ cache' = NoAnswer /\ UNCHANGED jobs
  BY DEF InsertLargeBatch
<1>7. \A id \in Ids : points'[id] \notin Refused
  BY DEF InsertLargeBatch, Shown
<1>8. Listed(Present' \ removed', Search(index)')
  BY <1>1, <1>2, <1>4, <1>5 DEF Listed, Search, AllRows
<1> QED
  BY <1>4, <1>5, <1>6, <1>7, <1>8 DEF Shown

LEMMA RemoveShows ==
    ASSUME IInv, Shown, NEW ids \in SUBSET Ids, Remove(ids)
    PROVE  Shown'
<1> DEFINE out == ids \cap Present
<1>1. out \in SUBSET Ids
  OBVIOUS
<1>2. /\ AllRows(index') = AllRows(index)
      /\ index'.dead = index.dead \cup (out \cap RowIds(index))
  BY <1>1, RemovedRows DEF Remove, IInv, Typed
<1>3. Present' = Present \ ids /\ \A id \in Ids : points'[id] \in {points[id], NoPoint}
  BY DEF Remove, IInv, Typed, Maps, Present
<1>4. removed' = removed \cup out /\ cache' = NoAnswer
  BY DEF Remove
<1>5. \A j \in Jobs : /\ jobs'[j].stage = jobs[j].stage
                      /\ jobs'[j].snapshot = jobs[j].snapshot
                      /\ jobs[j].stage \in {"snapshot", "building", "built"} =>
                            jobs'[j].removed = jobs[j].removed \cup out
  BY DEF Remove, IInv, Typed
<1>6. Listed(Present' \ removed', Search(index)')
  BY <1>2, <1>3, <1>4 DEF Shown, Listed, Search, AllRows
<1>7. \A id \in Ids : points'[id] \notin Refused
  BY <1>3 DEF Shown
<1> QED
  BY <1>2, <1>3, <1>4, <1>5, <1>6, <1>7 DEF Shown

LEMMA SearchFillsShows ==
    ASSUME IInv, Shown, SearchFills
    PROVE  Shown'
  BY DEF SearchFills, Shown, Search, Present

LEMMA JobStepShows ==
    ASSUME IInv, Shown, NEW j \in Jobs,
           \/ StartReindex(j) \/ AutoReindex(j)
           \/ Snapshot(j) \/ Register(j) \/ BuildIndex(j) \/ BuildFails(j) \/ Complete(j)
    PROVE  Shown'
<1>1. UNCHANGED <<points, index, cache, removed>>
  BY DEF StartReindex, AutoReindex, Snapshot, Register, BuildIndex, BuildFails, Complete
<1>2. jobs \in [Jobs -> [stage : Stages, snapshot : Maps, index : Indices, removed : SUBSET Ids]]
  BY DEF IInv, Typed
<1>3. \A i \in Jobs : i # j => jobs'[i] = jobs[i]
  BY <1>2 DEF StartReindex, AutoReindex, Snapshot, Register, BuildIndex, BuildFails, Complete, SetStage
<1>4. jobs'[j].stage \in {"snapshot", "building", "built"} =>
        \/ jobs'[j].snapshot = points
        \/ /\ jobs[j].stage \in {"snapshot", "building"}
           /\ jobs'[j].snapshot = jobs[j].snapshot /\ jobs'[j].removed = jobs[j].removed
  <2>1. CASE StartReindex(j) \/ AutoReindex(j)
    BY <1>2, <2>1 DEF StartReindex, AutoReindex, SetStage
  <2>2. CASE Snapshot(j)
    <3>1. jobs'[j] = [NoJob EXCEPT !.stage = "snapshot", !.snapshot = points]
      BY <1>2, <2>2 DEF Snapshot
    <3> QED
      BY <3>1 DEF NoJob
  <2>3. CASE Register(j)
    BY <1>2, <2>3 DEF Register, SetStage
  <2>4. CASE BuildIndex(j)
    BY <1>2, <2>4 DEF BuildIndex
  <2>5. CASE BuildFails(j) \/ Complete(j)
    <3>1. jobs'[j] = NoJob
      BY <1>2, <2>5 DEF BuildFails, Complete
    <3> QED
      BY <3>1 DEF NoJob
  <2> QED
    BY <2>1, <2>2, <2>3, <2>4, <2>5
<1>5. \A i \in Jobs : jobs'[i].stage \in {"snapshot", "building", "built"} =>
         \A id \in Ids : /\ jobs'[i].snapshot[id] \notin Refused
                         /\ jobs'[i].snapshot[id] # NoPoint => id \in Present' \cup jobs'[i].removed
  BY <1>1, <1>3, <1>4 DEF Shown, Present
<1> QED
  BY <1>1, <1>5 DEF Shown, Search, Present

LEMMA SwapShows ==
    ASSUME IInv, Shown, Namespaced = {}, NEW j \in Jobs, Swap(j)
    PROVE  Shown'
<1> DEFINE snapshot == jobs[j].snapshot
           was == {id \in Ids : snapshot[id] # NoPoint}
           added == {id \in Present : id \notin was \/ id \in Namespaced}
           lost == {id \in was : id \notin Present \/ id \in Namespaced}
<1>1. /\ AllRows(index') = PointRows(snapshot) \cup BatchRows(points, added)
      /\ index'.dead = lost \cap RowIds(index')
  BY SwappedRows
<1>2. snapshot \in Maps /\ jobs[j].stage = "built"
  BY DEF Swap, IInv, Typed
<1>3. /\ cache' = NoAnswer /\ removed' = jobs[j].removed /\ UNCHANGED points
      /\ \A i \in Jobs \ {j} : jobs'[i] = jobs[i]
      /\ jobs'[j].stage = "swapped"
  BY DEF Swap, NoJob, IInv, Typed
<1>8. \A id \in Ids : /\ snapshot[id] \notin Refused
                      /\ snapshot[id] # NoPoint => id \in Present \cup jobs[j].removed
  BY <1>2 DEF Shown
<1>4. lost \subseteq jobs[j].removed
  <2> SUFFICES ASSUME NEW id \in Ids, snapshot[id] # NoPoint, id \notin Present
               PROVE  id \in jobs[j].removed
    OBVIOUS
  <2> QED
    BY <1>8
<1>5. \A r \in AllRows(index') : r.vec \notin Refused
  <2>1. \A r \in PointRows(snapshot) : r.id \in Ids /\ r.vec = snapshot[r.id]
    BY <1>2, RowsOfPoints
  <2>2. \A r \in BatchRows(points, added) : r.vec \notin Refused
    BY DEF Shown, BatchRows, Present
  <2> QED
    BY <1>1, <1>8, <2>1, <2>2
<1>6. Listed(Present, AllRows(index'))
  <2>1. Listed(was, PointRows(snapshot))
    BY <1>2, RowsOfPoints DEF Listed
  <2>2. Listed(added, BatchRows(points, added))
    <3>1. \A id \in added : [id |-> id, vec |-> points[id]] \in BatchRows(points, added)
      BY DEF BatchRows
    <3> QED
      BY <3>1 DEF Listed
  <2> QED
    BY <1>1, <2>1, <2>2 DEF Listed, Present
<1>7. Listed(Present' \ removed', Search(index)')
  BY <1>1, <1>3, <1>4, <1>5, <1>6 DEF Listed, Search, AllRows, Present
<1> QED
  BY <1>1, <1>3, <1>4, <1>7 DEF Shown, Present

LEMMA InitShows == Init => Shown
<1>1. Empty.dead = {}
  BY DEF Empty
<1> QED
  BY <1>1 DEF Init, Shown, Listed, Present, NoJob

LEMMA NextShows == Namespaced = {} /\ IInv /\ Shown /\ [Next]_vars => Shown'
<1> SUFFICES ASSUME Namespaced = {}, IInv, Shown, [Next]_vars PROVE Shown'
  OBVIOUS
<1>1. CASE Operation
  BY <1>1, InsertBatchShows, InsertLargeBatchShows, RemoveShows, SearchFillsShows DEF Operation
<1>2. ASSUME NEW j \in Jobs, StartReindex(j) \/ AutoReindex(j) \/ JobStep(j) PROVE Shown'
  BY <1>2, JobStepShows, SwapShows DEF JobStep
<1>3. CASE UNCHANGED vars
  BY <1>3 DEF vars, Shown, Search, Present
<1> QED
  BY <1>1, <1>2, <1>3 DEF Next

(* Without namespaces, which the delta of a reindex confuses               *)
(* (apply_delta), a point that was not removed since its index was read is *)
(* found: no build, swap, cached answer or failing batch loses it.         *)
THEOREM KeptIsFound == ASSUME Namespaced = {} PROVE Spec => []Found
<1>1. IInv /\ Shown => Found
  <2> SUFFICES ASSUME IInv, Shown, NEW id \in Present \ removed
               PROVE  \E r \in Answers : r.id = id
    BY DEF Found
  <2>1. CASE Scans
    BY <2>1, RowsOfPoints DEF Answers, IInv, Typed, Present
  <2>2. CASE ~Scans
    BY <2>2 DEF Answers, Shown, Listed
  <2> QED
    BY <2>1, <2>2
<1>2. Namespaced = {}
  OBVIOUS
<1> QED
  BY <1>1, <1>2, InitShows, NextShows, Invariance, PTL DEF Spec
=============================================================================
