----------------------------- MODULE Retrieval -----------------------------
(***************************************************************************)
(* Searching a collection (crates/core/src/collection.rs) and the handlers *)
(* that do it (crates/server/src/handlers/points.rs, graph.rs): the points *)
(* with their nearest-neighbour index, their BM25 index (bm25.rs), the     *)
(* cache of search results and the relations between points; search with   *)
(* its filter, re-ranking and semaphore, hybrid search (fusion.rs),        *)
(* explain (explain.rs), and traversal (graph.rs).                         *)
(*                                                                         *)
(* A write holds the collection's lock and is one step.  A search request  *)
(* waits for a permit of the semaphore and is then one step under the read *)
(* lock.  What a search answers is the value of an operator, which the     *)
(* properties compare with a definition of their own in every state.       *)
(***************************************************************************)
EXTENDS AnnIndex

CONSTANTS
    Ids,         \* storage ids: pairs of a namespace and an id
    Docs,        \* what a point holds: vec, mark (a field of its metadata), words, ttl
    Batches,     \* what one upsert brings: sequences of an id and a doc
    Words,
    Filters,     \* what requests filter by: conditions and a namespace
    MarkSets,    \* the values that the restriction of a permission may allow
    NoPoint,
    Kinds,       \* the kinds of index
    Queries, Limits,
    Requests,    \* search requests under way
    Permits,     \* of search_semaphore: the number of processors
    CacheSize,   \* search_cache_size
    ScanMax,     \* BRUTE_FORCE_THRESHOLD
    BatchMax,    \* BATCH_REBUILD_THRESHOLD
    MaxCalls     \* bound: writes, and restarts

ASSUME RetrievalAssumption ==
    /\ MarkSets \subseteq SUBSET Nat
    /\ \A d \in Docs : d.vec \in Nat /\ d.mark \in Nat \cup {-1} /\ d.words \in [Words -> Nat]
    /\ Queries \subseteq Nat /\ Limits \subseteq Nat \ {0}
    /\ Permits \in Nat \ {0} /\ CacheSize \in Nat /\ ScanMax \in Nat /\ BatchMax \in Nat
    /\ Batches \subseteq Seq([id : Ids, doc : Docs]) /\ MaxCalls \in Nat

VARIABLES
    points,     \* the HashMap of points
    relations,  \* the relations field of each
    index,
    text,       \* the BM25 index: documents, document frequencies, number, total length
    cache,      \* the LRU cache of search results, the last used first
    stage,      \* of each search request
    queue,      \* requests that wait for a permit, in order
    permits,    \* free permits
    calls

vars == <<points, relations, index, text, cache, stage, queue, permits, calls>>

Present == {id \in Ids : points[id] # NoPoint}
Total(f, S) == MapThenSumSet(LAMBDA x : f[x], S)

-----------------------------------------------------------------------------
(* The BM25 index *)

NoText == [docs |-> [id \in Ids |-> NoPoint], freq |-> [w \in Words |-> 0], n |-> 0, len |-> 0]
Length(words) == Total(words, Words)
In(words, w) == IF words[w] > 0 THEN 1 ELSE 0

(* n, total_len and the document frequencies are kept up to date, not      *)
(* counted.                                                                *)
RemoveDocument(t, id) ==
    IF t.docs[id] = NoPoint THEN t
    ELSE [docs |-> [t.docs EXCEPT ![id] = NoPoint],
          freq |-> [w \in Words |-> t.freq[w] - In(t.docs[id], w)],
          n |-> t.n - 1, len |-> t.len - Length(t.docs[id])]

(* Mutant of IndexDocument: an update does not take out the old text. *)
IndexDocumentOver(t, id, words) ==
    [docs |-> [t.docs EXCEPT ![id] = words],
     freq |-> [w \in Words |-> t.freq[w] + In(words, w)],
     n |-> t.n + 1, len |-> t.len + Length(words)]

(* A point without text is not indexed, and leaves the index. *)
IndexDocument(t, id, words) ==
    LET u == RemoveDocument(t, id) IN
    IF Length(words) = 0 THEN u
    ELSE [docs |-> [u.docs EXCEPT ![id] = words],
          freq |-> [w \in Words |-> u.freq[w] + In(words, w)],
          n |-> u.n + 1, len |-> u.len + Length(words)]

RemoveDocuments(t, ids) == FoldSet(LAMBDA id, u : RemoveDocument(u, id), t, ids)

(* For a query of one word: no factor but the term frequency and the       *)
(* length differs between two documents, and scores are compared as        *)
(* fractions (k1 is 1.2, b is 3/4; the index's totals, not the true ones). *)
TextSearch(word, k) ==
    LET found == {id \in Ids : text.docs[id] # NoPoint /\ text.docs[id][word] > 0}
        tf(id) == text.docs[id][word]
        norm(id) == text.len + 3 * text.n * Length(text.docs[id])
        better(a, b) == tf(a) * norm(b) > tf(b) * norm(a) IN
    IF text.n = 0 \/ text.freq[word] > text.n THEN <<>>
    ELSE Take(Sorted(found, better), k)

-----------------------------------------------------------------------------
(* Filters: conditions on the one field that points have, which all must   *)
(* hold, and a namespace.  Only $ne holds of a point without the field.    *)

NoMark == -1
Holds(cond, mark) ==
    CASE cond.op = "$eq" -> mark = cond.value
      [] cond.op = "$ne" -> mark # cond.value
      [] cond.op = "$in" -> mark \in cond.value
      [] cond.op = "$gt" -> mark # NoMark /\ mark > cond.value
      [] cond.op = "$lt" -> mark # NoMark /\ mark < cond.value
      [] cond.op = "$gte" -> mark # NoMark /\ mark >= cond.value
      [] cond.op = "$lte" -> mark # NoMark /\ mark <= cond.value

EmptyFilter == [conditions |-> {}, ns |-> NoFilter]

(* Mutant of MergeRestriction: the request's own conditions win. *)
MergeRestrictionLast(f, allowed) ==
    IF allowed # NoFilter /\ f.conditions = {}
    THEN [f EXCEPT !.conditions = {[op |-> "$in", value |-> allowed]}] ELSE f

(* The restriction of a permission takes the place of what the request     *)
(* asked of its field.                                                     *)
MergeRestriction(f, allowed) ==
    IF allowed = NoFilter THEN f
    ELSE [f EXCEPT !.conditions = {[op |-> "$in", value |-> allowed]}]

MatchesPoint(f, id) ==
    /\ f.ns \in {NoFilter, id[1]}
    /\ \A cond \in f.conditions : Holds(cond, points[id].mark)

Wanted(f) == IF f = EmptyFilter THEN NoFilter ELSE {id \in Present : MatchesPoint(f, id)}

-----------------------------------------------------------------------------
(* Search *)

CountAlive == Len(index.rows) - Cardinality(index.dead)

(* Few points are all looked at, if the index has no others. *)
Scans(wanted) ==
    wanted = NoFilter /\ Cardinality(Present) <= ScanMax /\ Cardinality(Present) = CountAlive

Scan(q, k) ==
    LET order == Sorted(Present, LAMBDA a, b : Dist(q, points[a].vec) < Dist(q, points[b].vec)) IN
    [j \in 1..Lesser(k, Len(order)) |-> [id |-> order[j], dist |-> DistanceBetween(q, points[order[j]].vec)]]

Cached(q, k) == SelectInSeq(cache, LAMBDA e : e.q = q /\ e.k = k)

(* Mutant of UsesCache: a filtered search uses the cache as well. *)
UsesCacheAlways(wanted) == CacheSize > 0

UsesCache(wanted) == CacheSize > 0 /\ wanted = NoFilter

CollectionSearch(q, k, wanted) ==
    IF Scans(wanted) THEN Scan(q, k)
    ELSE IF UsesCache(wanted) /\ Cached(q, k) # 0 THEN cache[Cached(q, k)].hits
    ELSE SearchIndex(index, q, k, wanted)

(* A hit moves its entry to the front, a miss puts one there. *)
CacheAfter(q, k, wanted) ==
    IF Scans(wanted) \/ ~UsesCache(wanted) THEN cache
    ELSE LET i == Cached(q, k) IN
         IF i # 0 THEN <<cache[i]>> \o RemoveAt(cache, i)
         ELSE Take(<<[q |-> q, k |-> k, hits |-> SearchIndex(index, q, k, wanted)]>> \o cache, CacheSize)

(* What the reranker's model says of a vector. *)
Score(q, v) == v

(* search_with_rerank: five candidates for each place, without the cache. *)
RerankSearch(q, k, wanted) ==
    LET hits == SearchIndex(index, q, Lesser(5 * k, Greater(Cardinality(Present), 1)), wanted)
        known == SelectSeq(hits, LAMBDA h : h.id \in Present)
        score(h) == Score(q, points[h.id].vec)
        order == SortSeq(known, LAMBDA g, h : score(g) > score(h)) IN
    Take(order, k)

ExpandedLimit(limit) == Lesser(Greater(3 * limit, 50), Greater(Cardinality(Present), 1))

(* The handler drops the ids of no point. *)
Hydrated(hits) == SelectSeq(hits, LAMBDA h : h.id \in Present)

SearchPoints(q, k, f, allowed, rerank) ==
    LET wanted == Wanted(MergeRestriction(f, allowed)) IN
    Hydrated(IF rerank THEN RerankSearch(q, k, wanted) ELSE CollectionSearch(q, k, wanted))

-----------------------------------------------------------------------------
(* Writes *)

Row(id) == [id |-> id, vec |-> points[id].vec]
Reads == UNCHANGED <<stage, queue, permits>>

Init ==
    /\ points = [id \in Ids |-> NoPoint]
    /\ relations = [id \in Ids |-> {}]
    /\ \E kind \in Kinds : index = EmptyIndex(kind)
    /\ text = NoText
    /\ cache = <<>>
    /\ stage = [r \in Requests |-> "idle"]
    /\ queue = <<>>
    /\ permits = Permits
    /\ calls = 0

(* A small batch is added to the index; a large one has it built anew,     *)
(* from the points as they were and then the batch: an id in both has two  *)
(* rows.                                                                   *)
IndexBatch(rows) ==
    IF Len(rows) <= BatchMax
    THEN index' = AddRows(index, rows)
    ELSE \E old \in SetToSeqs(Present) :
            index' = BuildIndex(index.kind, [i \in DOMAIN old |-> Row(old[i])] \o rows)

InsertBatch(batch) ==
    LET last(id) == batch[SelectLastInSeq(batch, LAMBDA e : e.id = id)].doc
        ids == {batch[i].id : i \in DOMAIN batch} IN
    /\ IndexBatch([i \in DOMAIN batch |-> [id |-> batch[i].id, vec |-> batch[i].doc.vec]])
    /\ points' = [id \in Ids |-> IF id \in ids THEN last(id) ELSE points[id]]
    /\ text' = FoldLeft(LAMBDA t, e : IndexDocument(t, e.id, e.doc.words), text, batch)
    /\ relations' = [id \in Ids |-> IF id \in ids THEN {} ELSE relations[id]]
    /\ cache' = <<>>

(* A point that a request brings has no relations. *)
UpsertPoints(batch) ==
    /\ calls < MaxCalls
    /\ calls' = calls + 1
    /\ InsertBatch(batch)
    /\ Reads

Removed(ids) ==
    /\ points' = [id \in Ids |-> IF id \in ids THEN NoPoint ELSE points[id]]
    /\ relations' = [id \in Ids |-> IF id \in ids THEN {} ELSE relations[id]]
    /\ index' = RemoveIds(index, ids)
    /\ text' = RemoveDocuments(text, ids)

(* Mutant of DeletePointsBatch: the cache is left alone. *)
DeletePointsBatchCached(ids) == Removed(ids \cap Present) /\ UNCHANGED cache

(* Ids of no point are passed over. *)
DeletePointsBatch(ids) ==
    /\ Removed(ids \cap Present)
    /\ cache' = IF ids \cap Present = {} THEN cache ELSE <<>>

DeletePoints(ids) ==
    /\ calls < MaxCalls
    /\ calls' = calls + 1
    /\ DeletePointsBatch(ids)
    /\ Reads

(* The points whose time has come. *)
VacuumExpiredPoints ==
    /\ calls < MaxCalls
    /\ \E expired \in SUBSET {id \in Present : points[id].ttl} \ {{}} : Removed(expired)
    /\ calls' = calls + 1
    /\ cache' = <<>>
    /\ Reads

AddRelation(from, to) ==
    /\ from # to /\ {from, to} \subseteq Present
    /\ relations' = [relations EXCEPT ![from] = @ \cup {to}, ![to] = @ \cup {from}]
    /\ cache' = <<>>
    /\ UNCHANGED <<points, index, text>>

LinkPoints(from, to) ==
    /\ calls < MaxCalls
    /\ calls' = calls + 1
    /\ AddRelation(from, to)
    /\ Reads

(* from_points: the points are read back in any order. *)
Restart ==
    /\ calls < MaxCalls
    /\ calls' = calls + 1
    /\ \E order \in SetToSeqs(Present) :
           index' = BuildIndex(index.kind, [i \in DOMAIN order |-> Row(order[i])])
    /\ text' = FoldSet(LAMBDA id, t : IndexDocument(t, id, points[id].words), NoText, Present)
    /\ cache' = <<>>
    /\ stage' = [r \in Requests |-> "idle"]
    /\ queue' = <<>>
    /\ permits' = Permits
    /\ UNCHANGED <<points, relations>>

-----------------------------------------------------------------------------
(* Search requests *)

Writes == UNCHANGED <<points, relations, index, text, calls>>

Arrive(r) ==
    /\ stage[r] = "idle"
    /\ stage' = [stage EXCEPT ![r] = "queued"]
    /\ queue' = Append(queue, r)
    /\ UNCHANGED <<cache, permits>>
    /\ Writes

(* Permits are given out in order. *)
Acquire ==
    /\ queue # <<>> /\ permits > 0
    /\ permits' = permits - 1
    /\ queue' = Tail(queue)
    /\ stage' = [stage EXCEPT ![Head(queue)] = "running"]
    /\ UNCHANGED cache
    /\ Writes

EndSearch(r) ==
    /\ stage[r] \in {"running", "orphan"}
    /\ permits' = permits + (IF stage[r] = "running" THEN 1 ELSE 0)
    /\ stage' = [stage EXCEPT ![r] = "idle"]
    /\ UNCHANGED queue

CachesAfter == {CacheAfter(q, k, Wanted(f)) : q \in Queries, k \in Limits, f \in Filters}

(* The blocking task searches, with whatever was asked, and ends; so does  *)
(* one whose request is gone.                                              *)
RunSearch(r) == EndSearch(r) /\ cache' \in CachesAfter /\ Writes

(* A hybrid search, which asks for more, and the searches of gRPC take no  *)
(* permit.                                                                 *)
SearchWithoutPermit ==
    /\ cache' \in CachesAfter \cup {CacheAfter(q, ExpandedLimit(k), NoFilter) : q \in Queries, k \in Limits}
    /\ Writes
    /\ Reads

(* Mutant of Leave: only the end of the search returns the permit. *)
LeaveKeepsPermit(r) ==
    /\ stage[r] \in {"queued", "running"}
    /\ queue' = SelectSeq(queue, LAMBDA x : x # r)
    /\ stage' = [stage EXCEPT ![r] = IF @ = "running" THEN "orphan" ELSE "idle"]
    /\ UNCHANGED <<cache, permits>>
    /\ Writes

(* The client goes: the handler's future is dropped, and the permit with   *)
(* it; the blocking task goes on.                                          *)
Leave(r) ==
    /\ stage[r] \in {"queued", "running"}
    /\ queue' = SelectSeq(queue, LAMBDA x : x # r)
    /\ stage' = [stage EXCEPT ![r] = IF @ = "running" THEN "orphan" ELSE "idle"]
    /\ permits' = permits + (IF stage[r] = "running" THEN 1 ELSE 0)
    /\ UNCHANGED cache
    /\ Writes

Next ==
    \/ \E batch \in Batches : UpsertPoints(batch)
    \/ \E ids \in SUBSET Ids \ {{}} : DeletePoints(ids)
    \/ VacuumExpiredPoints
    \/ \E from, to \in Ids : LinkPoints(from, to)
    \/ Restart
    \/ \E r \in Requests : Arrive(r) \/ RunSearch(r) \/ Leave(r)
    \/ Acquire
    \/ SearchWithoutPermit

Spec == Init /\ [][Next]_vars

(* The runtime goes on with a waiting request once there is a permit, and  *)
(* a search, which loops over no more than the index, ends.                *)
FairSpec == Spec /\ WF_vars(Acquire) /\ \A r \in Requests : WF_<<stage, queue, permits>>(EndSearch(r))
=============================================================================
