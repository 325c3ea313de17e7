---------------------------- MODULE MCRetrieval ----------------------------
EXTENDS RetrievalQueries

(* Two points without namespace and one in "n" that has the id of the      *)
(* first.                                                                  *)
A == <<"-", "a">>
B == <<"-", "b">>
C == <<"n", "a">>
MCIds == {A, B, C}
MCWords == {"u", "w"}
Near == [vec |-> 1, mark |-> 2, words |-> [w \in MCWords |-> IF w = "w" THEN 2 ELSE 0], ttl |-> FALSE]
Far == [vec |-> 4, mark |-> NoMark, words |-> [w \in MCWords |-> 1], ttl |-> TRUE]
MCDocs == {Near, Far}
Entry(id, doc) == [id |-> id, doc |-> doc]
MCBatches ==
    {<<Entry(A, Far)>>, <<Entry(A, Near), Entry(B, Far)>>,
     <<Entry(A, Near), Entry(B, Far), Entry(C, Near)>>}
MCFilters ==
    {EmptyFilter,
     [conditions |-> {[op |-> "$ne", value |-> 2]}, ns |-> NoFilter],
     [conditions |-> {[op |-> "$gte", value |-> 2]}, ns |-> "n"]}
MCMarkSets == {{1}, {2}}
MCKinds == {"plain", "scalar", "polar"}
MCQueries == {0, 3}
MCLimits == {1, 2}
MCStrategies == {[kind |-> "rrf", weight |-> <<1, 1>>], [kind |-> "", weight |-> <<3, 1>>]}
MCHops == 1..2
=============================================================================
