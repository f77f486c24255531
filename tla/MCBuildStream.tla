--------------------------- MODULE MCBuildStream ---------------------------
(* BuildStream for TLC: every graph of three jobs, listed in every order,    *)
(* one of them perhaps in need of an artifact that is not in the graph.     *)
EXTENDS BuildStream

CONSTANTS a, b, c, x, nobody

\* a depends on nothing, c on any of the others: other graphs rename these.
Edges == {<<a, b>>, <<a, c>>, <<b, c>>}
Orders == {order \in [1..3 -> {a, b, c}] : ToSet(order) = {a, b, c}}

Listed(order, edges, needy) ==
  [i \in 1..3 |->
    [id |-> order[i],
     deps |-> (IF order[i] = needy THEN <<x>> ELSE <<>>)
              \o SetToSeq({d \in {a, b, c} : <<d, order[i]>> \in edges})]]

MCGraphs == {<<>>} \cup
  {Listed(order, edges, needy) :
     order \in Orders, edges \in SUBSET Edges, needy \in {a, b, c, nobody}}

(* TopSort sorts each of these graphs, the one with a dependency outside      *)
(* included.                                                                *)
ASSUME TopSortSorts == \A g \in MCGraphs : KeepsJobs(g) /\ SortsDeps(g)
=============================================================================
