------------------------------ MODULE MCTourSearch ------------------------------
(* Small instances of TourSearch.                                          *)
EXTENDS TourSearch

Around(n) == [i \in 1 .. n - 1 |-> i + 1]
Apart(n) == {<<a, b>> \in (1 .. n) \X (1 .. n) : a < b}
Ways(n) == {<<a, b>> \in (1 .. n) \X (1 .. n) : a # b}

Problem(n, edges, directed, kind, first) ==
  [n |-> n, edges |-> edges, directed |-> directed, kind |-> kind, first |-> first,
   around |-> Around(n)]

\* Undirected problems of four cities with any roads, and of five with one missing
\* at most; one-way problems of three; splits of up to six.
Few(n, costs) == UNION {[d -> costs] : d \in SUBSET Apart(n)}
Most(n, costs) == UNION {[d -> costs] : d \in {x \in SUBSET Apart(n) : Cardinality(x) = 9}}
MCProblems ==
  {Problem(4, e, FALSE, "tsp", f) : e \in Few(4, {1, 3}), f \in {0, 2, 4}}
  \cup {Problem(5, e, FALSE, "tsp", 0) : e \in {x \in [Apart(5) -> {1, 2, 4}] : x[<<1, 2>>] = 1 /\ x[<<2, 3>>] = 2}}
  \cup {Problem(5, e, FALSE, "tsp", 0) : e \in Most(5, {1, 3})}
  \cup {Problem(3, e, TRUE, "tsp", 0) : e \in UNION {[d -> {1, 3}] : d \in SUBSET Ways(3)}}
  \cup {Problem(4, e, FALSE, "impossible", 0) : e \in {[d \in Apart(3) |-> 1]}}
  \cup {Problem(n, [d \in Apart(n) |-> 1], FALSE, "vrp", 0) : n \in 2 .. 6}

\* One-way streets between ten cities among which 2-opt goes round in circles.
MCOneWay ==
  {Problem(10, [w \in Ways(10) |-> 1 + ((w[1] * (2 * w[2] + 1)) % 3)], TRUE, "tsp", 0)}
===============================================================================
