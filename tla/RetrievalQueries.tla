-------------------------- MODULE RetrievalQueries --------------------------
(***************************************************************************)
(* What the other ways to read a collection answer in a state of           *)
(* Retrieval: explain, hybrid search, the traversal of relations, pages of *)
(* points, and the same by gRPC (crates/server/src/grpc.rs); and the       *)
(* properties of all answers.                                              *)
(***************************************************************************)
EXTENDS Retrieval

CONSTANTS
    RankBase,    \* DEFAULT_RRF_K
    Strategies,  \* of fusion: kind ("" if a request names none), and a pair of weights
    Hops,
    PageMax      \* points on a page: 1000

ASSUME QueriesAssumption ==
    RankBase \in Nat \ {0} /\ PageMax \in Nat \ {0} /\ Hops \subseteq Nat

-----------------------------------------------------------------------------
(* Explain *)

(* Mutant of SearchLimit: no more than the limit. *)
SearchLimitPlain(limit, f) == limit

(* build_search_explanation: ten times the limit if there is a filter,     *)
(* which is applied afterwards; what does not pass has the rank 0.         *)
SearchLimit(limit, f) ==
    IF f = EmptyFilter THEN limit
    ELSE Lesser(10 * limit, Greater(Cardinality(Present), limit))

FilterEvaluation(f, id) ==
    [conditions |-> {[cond |-> c, passed |-> Holds(c, points[id].mark)] : c \in f.conditions},
     passed |-> MatchesPoint(f, id)]

ExplainResults(raw, f) ==
    LET filter(j) == FilterEvaluation(f, raw[j].id) IN
    [j \in DOMAIN raw |->
        [id |-> raw[j].id, dist |-> raw[j].dist, filter |-> filter(j),
         rank |-> IF filter(j).passed THEN Cardinality({i \in 1..j : filter(i).passed}) ELSE 0]]

ExplainSearch(q, limit, f) ==
    ExplainResults(Hydrated(SearchIndex(index, q, SearchLimit(limit, f), NoFilter)), f)

Passed(e) == e.rank # 0
Ranked(results) == SelectSeq(results, Passed)

(* It tells how many it looked at and how many passed; the filter holds    *)
(* the namespace, which has a field of its own in the request.             *)
ExplainPoints(q, limit, f) ==
    LET response(results, scanned) ==
            [results |-> results, afterFilter |-> Len(Ranked(results)), scanned |-> scanned] IN
    response(ExplainSearch(q, limit, f), Len(SearchIndex(index, q, SearchLimit(limit, f), NoFilter)))

GrpcExplainSearch(q, limit, f) == ExplainPoints(q, limit, f)

-----------------------------------------------------------------------------
(* Hybrid search.  A ranking gives an id the last of its places (a map is  *)
(* filled in order); the reciprocal of a rank that is missing is too small *)
(* to count.  A score is the quotient of a pair.                           *)

Rank(ids, id) == IF Contains(ids, id) THEN SelectLastInSeq(ids, LAMBDA x : x = id) ELSE 0

(* Mutant of WeightedScore: what is in one ranking only counts as first in *)
(* the other.                                                              *)
WeightedScoreAbsent(byVector, byText, weight, id) ==
    LET v == RankBase + Rank(byVector, id)
        t == RankBase + Rank(byText, id) IN
    <<weight[1] * t + weight[2] * v, v * t>>

(* weight: a pair of naturals, for alpha and 1 - alpha. *)
WeightedScore(byVector, byText, weight, id) ==
    LET v == RankBase + Rank(byVector, id)
        t == RankBase + Rank(byText, id) IN
    <<(IF Contains(byVector, id) THEN weight[1] * t ELSE 0) + (IF Contains(byText, id) THEN weight[2] * v ELSE 0),
      v * t>>

(* Reciprocal rank fusion weighs the rankings alike. *)
FusedScore(byVector, byText, strategy, id) ==
    WeightedScore(byVector, byText, IF strategy.kind = "rrf" THEN <<1, 1>> ELSE strategy.weight, id)

Fused(byVector, byText, strategy, limit) ==
    LET score(id) == FusedScore(byVector, byText, strategy, id)
        better(a, b) == score(a)[1] * score(b)[2] > score(b)[1] * score(a)[2] IN
    Take(Sorted(ToSet(byVector) \cup ToSet(byText), better), limit)

VectorRanking(q, limit) ==
    LET hits == CollectionSearch(q, ExpandedLimit(limit), NoFilter) IN
    [j \in DOMAIN hits |-> hits[j].id]

HybridSearch(q, word, limit, strategy) ==
    Fused(VectorRanking(q, limit), TextSearch(word, ExpandedLimit(limit)), strategy, limit)

(* The namespace is looked at last. *)
SearchHybrid(q, word, limit, strategy, ns) ==
    SelectSeq(HybridSearch(q, word, limit, strategy), LAMBDA id : id \in Present /\ ns \in {NoFilter, id[1]})

(* By gRPC zero and no value are the same, so that a request that names no *)
(* strategy and weighs the vectors with zero has both weighed alike.       *)
GrpcStrategy(strategy) ==
    [kind |-> IF strategy.kind = "rrf" THEN "rrf" ELSE "weighted",
     weight |-> IF strategy.kind = "" /\ strategy.weight[1] = 0 THEN <<1, 1>> ELSE strategy.weight]

GrpcHybridSearch(q, word, limit, strategy, ns) ==
    SearchHybrid(q, word, limit, GrpcStrategy(strategy), ns)

-----------------------------------------------------------------------------
(* Points by name and by the page.  A page is cut from the points in the   *)
(* order of the HashMap, which stays as long as nothing is written.        *)

StorageId(ns, id) == <<ns, id>>

(* By gRPC a point comes without its relations. *)
GrpcGetPoint(ns, id) == points[StorageId(ns, id)]
GetPoint(ns, id) == [doc |-> points[StorageId(ns, id)], relations |-> relations[StorageId(ns, id)]]

(* The filter's conditions count, its namespace does not. *)
Listed(order, f) == SelectSeq(order, LAMBDA id : \A c \in f.conditions : Holds(c, points[id].mark))

Page(all, limit, offset) ==
    [points |-> SubSeq(all, offset + 1, Lesser(offset + limit, Len(all))),
     limit |-> limit, more |-> offset + limit < Len(all)]

ListPoints(order, f, limit, offset) == Page(Listed(order, f), Lesser(limit, PageMax), offset)
GrpcListPoints(order, f, limit, offset) ==
    Page(Listed(order, f), Greater(1, Lesser(limit, PageMax)), offset)

(* gRPC's own search takes no permit, merges no restriction, does not      *)
(* re-rank, and names a point by its namespace and id.                     *)
GrpcHits(hits) ==
    [j \in DOMAIN hits |-> [ns |-> hits[j].id[1], id |-> hits[j].id[2], dist |-> hits[j].dist]]
GrpcSearch(q, k, f) == GrpcHits(Hydrated(CollectionSearch(q, k, Wanted(f))))

(* A stream of requests is answered one after the other. *)
DoSearchSync(request) == GrpcSearch(request.q, request.k, request.f)
StreamSearch(requests) == [i \in DOMAIN requests |-> DoSearchSync(requests[i])]

(* The tool of the MCP server (mcp.rs), which has a channel of its own to   *)
(* clients that it trusts, tells more of each point.                       *)
DoSearchPoints(q, k, f) ==
    LET shown(hits) ==
            [j \in DOMAIN hits |-> [ns |-> hits[j].ns, id |-> hits[j].id, dist |-> hits[j].dist,
                                   mark |-> points[StorageId(hits[j].ns, hits[j].id)].mark]] IN
    shown(GrpcSearch(q, k, f))

-----------------------------------------------------------------------------
(* Traversal.  A point is marked before it is looked up; the relations of  *)
(* a point that is gone are gone with it, those that name it stay.         *)

RECURSIVE Traverse(_, _, _, _)
Traverse(waiting, visited, found, depth) ==
    IF waiting = <<>> THEN found
    ELSE LET at == Head(waiting)
             new == IF at.depth >= depth THEN {} ELSE relations[at.id] \ visited
             seen == new \cap Present IN
         Traverse(Tail(waiting) \o SetToSeq({[id |-> id, depth |-> at.depth + 1] : id \in seen}),
                  visited \cup new, found \cup seen, depth)

(* Mutant of TraverseBfs: a point at the last depth is still gone on from. *)
TraverseFar(start, depth) == Traverse(<<[id |-> start, depth |-> 0]>>, {start}, {start}, depth + 1)

TraverseBfs(start, depth) == Traverse(<<[id |-> start, depth |-> 0]>>, {start}, {start}, depth)

(* search_connected: the nearest of those. *)
SearchConnected(q, start, depth, k) ==
    LET order == Take(Sorted(TraverseBfs(start, depth),
                             LAMBDA a, b : Dist(q, points[a].vec) < Dist(q, points[b].vec)), k) IN
    [j \in DOMAIN order |-> [id |-> order[j], dist |-> DistanceBetween(q, points[order[j]].vec)]]

(* The edges of the subgraph around a centre: those between its nodes. *)
SubgraphEdges(nodes) == {<<a, b>> \in nodes \X nodes : b \in relations[a]}

-----------------------------------------------------------------------------
(* Properties *)

(* No id has two rows, and every present point is known by its name to an  *)
(* index that re-ranks: what the index looks up is then what the           *)
(* collection holds.  Neither holds after an update, or with namespaces in *)
(* an index that names its rows by the bare id.                            *)
OneRowPerId == \A i, j \in DOMAIN index.rows : index.rows[i].id = index.rows[j].id => i = j
NamesKnown ==
    \/ index.kind = "plain" \/ (index.kind = "scalar" /\ ~index.ready)
    \/ \A i \in DOMAIN index.rows :
          SelectInSeq(index.names, LAMBDA name : name = index.rows[i].id) = i

(* The k nearest members of S, nearest first, and how far they are on one  *)
(* of the two scales.                                                      *)
AreNearest(hits, q, k, S) ==
    LET ids == {hits[j].id : j \in DOMAIN hits}
        dist(id) == Dist(q, points[id].vec) IN
    /\ Len(hits) = Lesser(k, Cardinality(S)) /\ Cardinality(ids) = Len(hits) /\ ids \subseteq S
    /\ \/ \A j \in DOMAIN hits : hits[j].dist = dist(hits[j].id)
       \/ \A j \in DOMAIN hits : hits[j].dist = dist(hits[j].id) * dist(hits[j].id)
    /\ \A i, j \in DOMAIN hits : i < j => hits[i].dist <= hits[j].dist
    /\ \A id \in ids, other \in S \ ids : dist(id) <= dist(other)

(* A search returns the nearest points of those that the request's filter  *)
(* and the caller's restriction admit, as the collection is now: whether   *)
(* it scans, asks the index or answers from the cache, past deleted rows   *)
(* and rebuilds.  (Collection::search, HnswIndex::search, search_points)   *)
NearestFirst ==
    OneRowPerId /\ NamesKnown =>
        \A q \in Queries, k \in Limits, f \in Filters, allowed \in MarkSets \cup {NoFilter} :
            AreNearest(SearchPoints(q, k, f, allowed, FALSE), q, k,
                       {id \in Present :
                           /\ f.ns \in {NoFilter, id[1]}
                           /\ IF allowed = NoFilter THEN MatchesPoint(f, id) ELSE points[id].mark \in allowed})

(* A re-ranked search, too, returns no point of another namespace, and     *)
(* none that the caller's restriction withholds, whatever became of the    *)
(* index.  (search_with_rerank, merge_restriction_filter)                  *)
Withheld ==
    \A q \in Queries, f \in Filters, allowed \in MarkSets :
        LET hits == SearchPoints(q, Cardinality(Ids), f, allowed, TRUE) IN
        \A j \in DOMAIN hits :
            points[hits[j].id].mark \in allowed /\ f.ns \in {NoFilter, hits[j].id[1]}

(* So does a stream of searches by gRPC; the name that a hit has there     *)
(* leads back to the point that was found; and the MCP tool shows only     *)
(* points that pass.  (stream_search, get_point, mcp.rs do_search_points)  *)
StreamNearestFirst ==
    OneRowPerId /\ NamesKnown =>
        \A k \in Limits, f \in Filters :
            LET named(answer) ==
                    [j \in DOMAIN answer |-> [id |-> StorageId(answer[j].ns, answer[j].id), dist |-> answer[j].dist]]
                right(q, answer) ==
                    /\ AreNearest(named(answer), q, k, {id \in Present : MatchesPoint(f, id)})
                    /\ \A h \in ToSet(answer) :
                          /\ GrpcGetPoint(h.ns, h.id) = GetPoint(h.ns, h.id).doc
                          /\ h.dist \in {Dist(q, GetPoint(h.ns, h.id).doc.vec),
                                         DistanceBetween(q, GetPoint(h.ns, h.id).doc.vec)} IN
            /\ LET order == SetToSeq(Queries)
                   answers == StreamSearch([i \in DOMAIN order |-> [q |-> order[i], k |-> k, f |-> f]]) IN
               \A i \in DOMAIN order : right(order[i], answers[i])
            /\ \A q \in Queries : \A h \in ToSet(DoSearchPoints(q, k, f)) :
                  \A c \in f.conditions : Holds(c, h.mark)

(* Who asks for one page after the other, while a page says that there are *)
(* more, has been shown every point that the conditions admit, and each    *)
(* once.  (list_points)                                                    *)
PagesComplete ==
    \A order \in SetToSeqs(Present), f \in Filters, limit \in Limits :
        LET shown(list(_, _)) ==
                LET from[offset \in 0..Cardinality(Ids)] ==
                        LET page == list(limit, offset) IN
                        page.points \o (IF page.more THEN from[offset + page.limit] ELSE <<>>) IN
                from[0] IN
        /\ shown(LAMBDA n, offset : ListPoints(order, f, n, offset)) = Listed(order, f)
        /\ shown(LAMBDA n, offset : GrpcListPoints(order, f, n, offset)) = Listed(order, f)

(* What a search answers, and a listing shows, is right in all these       *)
(* respects, in every state that writes, searches and restarts lead to.    *)
(* (search_points, list_points, grpc.rs)                                   *)
SearchAnswers == NearestFirst /\ StreamNearestFirst /\ Withheld /\ PagesComplete

(* The points that explain ranks are, up to the limit, as near as those    *)
(* that a search returns, and as many as it says that pass the filter; it  *)
(* has scanned at least as many.  (build_search_explanation)               *)
ExplainAgrees ==
    OneRowPerId /\ NamesKnown =>
        \A q \in Queries, k \in Limits, f \in Filters :
            LET dist(hits) == [j \in DOMAIN hits |-> Dist(q, points[hits[j].id].vec)]
                right(ranked) ==
                    \A j \in DOMAIN ranked : ranked[j].rank = j /\ \A c \in ranked[j].filter.conditions : c.passed
                agrees(explained, hits) ==
                    /\ Take(dist(Ranked(explained.results)), k) = dist(hits)
                    /\ right(Ranked(explained.results))
                    /\ explained.afterFilter = Len(Ranked(explained.results))
                    /\ explained.scanned >= Len(explained.results) IN
            agrees(GrpcExplainSearch(q, k, f), SearchPoints(q, k, f, NoFilter, FALSE))

(* The BM25 statistics, which are only ever adjusted, are those of the     *)
(* points that are there.  (BM25Index::index_document, remove_document)    *)
TextCounted ==
    LET written == {id \in Present : Length(points[id].words) > 0} IN
    text = [docs |-> [id \in Ids |-> IF id \in written THEN points[id].words ELSE NoPoint],
            freq |-> [w \in Words |-> Cardinality({id \in written : points[id].words[w] > 0})],
            n |-> Cardinality(written),
            len |-> Total([id \in written |-> Length(points[id].words)], written)]

(* Of two points, one that is nearer and has the better text score is      *)
(* never behind the other in a hybrid search, nor left out for it.         *)
(* (weighted_fusion, reciprocal_rank_fusion, BM25Index::search)            *)
FusionKeepsOrder ==
    OneRowPerId /\ NamesKnown =>
        \A q \in Queries, w \in Words : \A a, b \in Present :
            LET has(id) == points[id].words[w] IN
            /\ Dist(q, points[a].vec) < Dist(q, points[b].vec)
            /\ has(a) > has(b) /\ Length(points[a].words) <= Length(points[b].words)
            => \A k \in Limits, strategy \in Strategies :
                  LET answer == GrpcHybridSearch(q, w, k, strategy, NoFilter) IN
                  Contains(answer, b) => Rank(answer, a) \in 1..(Rank(answer, b) - 1)

(* Traversal finds each point that a path of at most so many relations,    *)
(* over points that are there, leads to; so every node of a subgraph but   *)
(* its centre has an edge to another, and a connected search returns the   *)
(* nearest of those points.  (traverse_bfs, search_connected, get_subgraph) *)
Connected ==
    \A start \in Present, depth \in Hops :
        LET within[d \in Nat] ==
                IF d = 0 THEN {start}
                ELSE within[d - 1] \cup {id \in Present : \E from \in within[d - 1] : id \in relations[from]}
            nodes == TraverseBfs(start, depth) IN
        /\ nodes = within[depth]
        /\ \A q \in Queries, k \in Limits : AreNearest(SearchConnected(q, start, depth, k), q, k, nodes)
        /\ \A id \in nodes \ {start} : \E edge \in SubgraphEdges(nodes) : edge[2] = id

(* A search whose client waits is answered, and one whose client is gone   *)
(* ends: the permits come back.  (search_semaphore)                        *)
SearchesEnd == \A r \in Requests : stage[r] # "idle" ~> stage[r] = "idle"
=============================================================================
