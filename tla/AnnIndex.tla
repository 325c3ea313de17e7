------------------------------ MODULE AnnIndex ------------------------------
(***************************************************************************)
(* The three nearest-neighbour indices of a collection                     *)
(* (crates/core/src/search.rs): HnswIndex ("plain"), QuantizedHnswIndex    *)
(* ("scalar") and PolarQuantHnswIndex ("polar").  An index is a record:    *)
(*                                                                         *)
(*   rows   what HNSW holds, by data id; none is ever taken out            *)
(*   dead   the tombstones: storage ids                                    *)
(*   names  the quantized kinds' own list of ids, beside their vectors,    *)
(*          which are here those of the rows of the same positions         *)
(*   ready  whether a scalar index has been calibrated                     *)
(*                                                                         *)
(* The metric is Euclidean, on a line (vectors are naturals): no vector of *)
(* a point is refused.  The graph finds the nearest rows, and quantization *)
(* loses nothing: how far the answers are from that is left out.  The      *)
(* distance that HNSW gives is the root of the one computed here.          *)
(***************************************************************************)
EXTENDS Integers, Sequences, FiniteSets, SequencesExt

CONSTANT NoFilter   \* a search without predicate

Dist(q, v) == IF q > v THEN q - v ELSE v - q
DistanceBetween(q, v) == (q - v) * (q - v)
Lesser(a, b) == IF a < b THEN a ELSE b
Greater(a, b) == IF a < b THEN b ELSE a
Take(s, n) == SubSeq(s, 1, Lesser(n, Len(s)))

(* A storage id is a namespace and an id; a point without namespace is     *)
(* stored under its id alone, which is also what p.id of any point is.     *)
NoNamespace == "-"
PointId(id) == <<NoNamespace, id[2]>>

EmptyIndex(kind) == [kind |-> kind, rows |-> <<>>, dead |-> {}, names |-> <<>>, ready |-> FALSE]

(* HnswIndex: the row of a point that was there before stays.              *)
HnswAdd(idx, row) == [idx EXCEPT !.rows = Append(@, row)]
HnswBuild(idx, rows) == [idx EXCEPT !.rows = rows, !.dead = {}]

(* build of the quantized kinds takes p.id for the name of a row; so does  *)
(* add_point of a polar index, that of a scalar index takes the storage id. *)
BareNames(rows) == [i \in DOMAIN rows |-> PointId(rows[i].id)]

ScalarAdd(idx, row) == [HnswAdd(idx, row) EXCEPT !.names = Append(@, row.id)]
ScalarBuild(idx, rows) ==
    [HnswBuild(idx, rows) EXCEPT !.names = BareNames(rows), !.ready = rows # <<>>]

PolarAdd(idx, row) == [HnswAdd(idx, row) EXCEPT !.names = Append(@, PointId(row.id))]
PolarBuild(idx, rows) == [HnswBuild(idx, rows) EXCEPT !.names = BareNames(rows)]

BuildIndex(kind, rows) ==
    CASE kind = "plain" -> HnswBuild(EmptyIndex(kind), rows)
      [] kind = "scalar" -> ScalarBuild(EmptyIndex(kind), rows)
      [] kind = "polar" -> PolarBuild(EmptyIndex(kind), rows)

AddRow(idx, row) ==
    CASE idx.kind = "plain" -> HnswAdd(idx, row)
      [] idx.kind = "scalar" -> ScalarAdd(idx, row)
      [] idx.kind = "polar" -> PolarAdd(idx, row)

AddRows(idx, rows) == FoldLeft(AddRow, idx, rows)

RemoveIds(idx, ids) ==
    [idx EXCEPT !.dead = @ \cup {id \in ids : \E i \in DOMAIN idx.rows : idx.rows[i].id = id}]

-----------------------------------------------------------------------------
(* The members of S, the better first, equals in some order. *)
Sorted(S, better(_, _)) ==
    LET sorted[T \in SUBSET S] ==
            IF T = {} THEN <<>>
            ELSE LET best == CHOOSE x \in T : \A y \in T : ~better(y, x) IN
                 <<best>> \o sorted[T \ {best}] IN
    sorted[S]

(* The numbers 1 to n, those for which rank is least first. *)
Ordered(n, rank(_)) ==
    SortSeq([i \in 1..n |-> i], LAMBDA i, j : rank(i) < rank(j) \/ (rank(i) = rank(j) /\ i < j))

(* Without a predicate, as many rows more are asked for as there are       *)
(* tombstones.  Mutant of Extra: none.                                     *)
ExtraNone(idx) == 0

Extra(idx) == Cardinality(idx.dead)

Nearest(idx, q) == Ordered(Len(idx.rows), LAMBDA i : Dist(q, idx.rows[i].vec))

(* HnswIndex::search.  With a predicate, the rows it refuses and the dead  *)
(* ones are passed over; without, the dead ones are taken out of what      *)
(* comes.                                                                  *)
FilteredRows(idx, q, wanted) ==
    SelectSeq(Nearest(idx, q), LAMBDA i : idx.rows[i].id \in wanted /\ idx.rows[i].id \notin idx.dead)

UnfilteredRows(idx, q, n) ==
    SelectSeq(Take(Nearest(idx, q), n + Extra(idx)), LAMBDA i : idx.rows[i].id \notin idx.dead)

HnswSearch(idx, q, k, wanted) ==
    LET n == Lesser(k, Len(idx.rows))
        found == Take(IF wanted = NoFilter THEN UnfilteredRows(idx, q, n) ELSE FilteredRows(idx, q, wanted), n) IN
    [j \in DOMAIN found |-> [id |-> idx.rows[found[j]].id, dist |-> Dist(q, idx.rows[found[j]].vec)]]

(* rerank_asymmetric, and rerank_original where it keeps the vectors: the  *)
(* vector of an id is that of the first of its names, and a hit without a  *)
(* name is dropped.                                                        *)
Reranked(idx, q, hits, k) ==
    LET place(h) == SelectInSeq(idx.names, LAMBDA name : name = h.id)
        known == SelectSeq(hits, LAMBDA h : place(h) # 0)
        dist(h) == DistanceBetween(q, idx.rows[place(h)].vec)
        order == Ordered(Len(known), LAMBDA j : dist(known[j])) IN
    [j \in 1..Lesser(k, Len(order)) |->
        [id |-> known[order[j]].id, dist |-> dist(known[order[j]])]]

(* The quantized kinds ask for three times the rows, or ten more. *)
Candidates(k) == Greater(3 * k, k + 10)

PolarSearch(idx, q, k, wanted) == Reranked(idx, q, HnswSearch(idx, q, Candidates(k), wanted), k)

ScalarSearch(idx, q, k, wanted) ==
    IF idx.ready THEN Reranked(idx, q, HnswSearch(idx, q, Candidates(k), wanted), k)
    ELSE HnswSearch(idx, q, k, wanted)

SearchIndex(idx, q, k, wanted) ==
    CASE idx.kind = "plain" -> HnswSearch(idx, q, k, wanted)
      [] idx.kind = "scalar" -> ScalarSearch(idx, q, k, wanted)
      [] idx.kind = "polar" -> PolarSearch(idx, q, k, wanted)
=============================================================================
