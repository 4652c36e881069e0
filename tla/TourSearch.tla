------------------------------- MODULE TourSearch -------------------------------
(***************************************************************************)
(* The routing specialists at work on one problem (app/solver/agents.py):  *)
(* exact enumeration for a few cities, nearest neighbour and 2-opt for     *)
(* many, a split for two vehicles; and the guardrail                       *)
(* (app/validation/guardrail.py), which judges any route it is given.      *)
(*                                                                         *)
(* Cities are 1 .. n in the order of their names, 1 is where tours start,  *)
(* costs are naturals.  Problems with ordering constraints are the matter  *)
(* of DependencyOrder.                                                     *)
(***************************************************************************)
EXTENDS Integers, Sequences, FiniteSets, Functions

CONSTANTS
  Problems,    \* the routing problems
  ExactLimit,  \* up to as many cities are enumerated: 9 in the code
  Capacity,    \* stops of a vehicle: 6 in the code
  Far          \* float("inf"): more than any cost

\* A problem: n cities; edges, the costs of the edges it lists; whether they are one
\* way; its kind; the city that must come first, or 0; the cities around the hub.
ProblemAssumption ==
  \A p \in Problems :
    /\ p.n \in Nat /\ p.n > 1 /\ p.first \in 0 .. p.n
    /\ p.directed \in BOOLEAN /\ p.kind \in {"tsp", "vrp", "impossible"}
    /\ DOMAIN p.edges \subseteq (1 .. p.n) \X (1 .. p.n)
    /\ \A e \in DOMAIN p.edges : p.edges[e] \in Nat /\ p.edges[e] < Far
    /\ p.directed \/ \A e \in DOMAIN p.edges : <<e[2], e[1]>> \notin DOMAIN p.edges
    /\ p.around \in Seq(2 .. p.n) /\ Len(p.around) = p.n - 1
    /\ \A i, j \in DOMAIN p.around : p.around[i] = p.around[j] => i = j
ASSUME TourAssumption == ProblemAssumption /\ {ExactLimit, Capacity, Far} \subseteq Nat

VARIABLES
  problem,
  phase,      \* planned, visiting, improving; how the specialists end; judged
  tour,       \* "visited", "current": the loop so far
  greedy,     \* the loop that 2-opt started from
  todo,       \* the pairs of legs that this pass of 2-opt has yet to look at
  improved,
  routes,     \* the stops of the two vehicles
  proposal, verdict  \* what the guardrail was asked, and said

search == <<tour, greedy, todo, improved, routes>>
vars == <<problem, phase, search, proposal, verdict>>

-----------------------------------------------------------------------------
(* The distance table and loops over it.                                   *)
City == 1 .. problem.n

\* "table": the edges of an undirected problem can be driven both ways.
Roads ==
  LET listed == DOMAIN problem.edges
  IN  listed \cup {<<e[2], e[1]>> : e \in {x \in listed : ~problem.directed}}

\* "table.get(..., inf)"
Cost(a, b) ==
  IF <<a, b>> \notin Roads THEN Far
  ELSE IF <<a, b>> \in DOMAIN problem.edges THEN problem.edges[<<a, b>>]
  ELSE problem.edges[<<b, a>>]

After(t, i) == t[(i % Len(t)) + 1]

\* "_cycle_cost" answers None, or the sum.
Drivable(t) == \A i \in DOMAIN t : <<t[i], After(t, i)>> \in Roads
LoopCost(t) ==
  LET upTo[i \in 0 .. Len(t)] == IF i = 0 THEN 0 ELSE upTo[i - 1] + Cost(t[i], After(t, i))
  IN  upTo[Len(t)]

\* Every city once, from the start.
Tours == {<<1>> \o t : t \in Injection(1 .. problem.n - 1, 2 .. problem.n)}

-----------------------------------------------------------------------------
(* The exact search.                                                       *)
Large == problem.n > ExactLimit

\* Of a loop and its reverse one is kept.  The mutant drops both of some pairs.
CanonicalMutant(t) == problem.directed \/ problem.n < 3 \/ t[2] + 1 < t[problem.n]
Canonical(t) == problem.directed \/ problem.n < 3 \/ t[2] < t[problem.n]

Loops ==
  {t \in Tours : Canonical(t) /\ (problem.first # 0 => t[2] = problem.first) /\ Drivable(t)}
\* "found.sort(...)": one of these is the first.
Cheapest == {t \in Loops : \A u \in Loops : LoopCost(t) <= LoopCost(u)}

Init ==
  /\ problem \in Problems
  /\ phase = "planned" /\ tour = <<1>> /\ greedy = <<>> /\ todo = {} /\ improved = FALSE
  /\ routes = <<{}, {}>> /\ proposal = <<>> /\ verdict = "none"

Enumerate ==
  /\ phase = "planned" /\ problem.kind # "vrp" /\ ~Large
  /\ phase' = "found" /\ tour' \in Cheapest
  /\ UNCHANGED <<problem, greedy, todo, improved, routes, proposal, verdict>>

NoLoop ==
  /\ phase = "planned" /\ problem.kind # "vrp" /\ ~Large /\ Loops = {}
  /\ phase' = "infeasible"
  /\ UNCHANGED <<problem, search, proposal, verdict>>

-----------------------------------------------------------------------------
(* Nearest neighbour.                                                      *)
\* "remaining".
Remaining == City \ {tour[i] : i \in DOMAIN tour}

\* The order of min(): the cost, then the name.
Here == tour[Len(tour)]
NoFarther(c, d) == Cost(Here, c) < Cost(Here, d) \/ (Cost(Here, c) = Cost(Here, d) /\ c <= d)

Greedy ==
  /\ phase = "planned" /\ problem.kind # "vrp" /\ Large
  /\ phase' = "visiting"
  /\ UNCHANGED <<problem, search, proposal, verdict>>

Visit(c) ==
  /\ phase = "visiting" /\ c \in Remaining /\ \A d \in Remaining : NoFarther(c, d)
  /\ tour' = Append(tour, c)
  /\ UNCHANGED <<problem, phase, greedy, todo, improved, routes, proposal, verdict>>

\* The pairs of legs that do not touch.
Pairs == {x \in City \X City : x[1] + 1 < x[2] /\ x # <<1, problem.n>>}

Smooth ==
  /\ phase = "visiting" /\ Remaining = {}
  /\ phase' = "improving" /\ greedy' = tour /\ todo' = Pairs /\ improved' = FALSE
  /\ UNCHANGED <<problem, tour, routes, proposal, verdict>>

-----------------------------------------------------------------------------
(* 2-opt.  Legs i and j become the legs between their first and between    *)
(* their last cities.                                                      *)
Due(i, j) ==
  /\ phase = "improving" /\ <<i, j>> \in todo
  /\ \A x \in todo : i < x[1] \/ (i = x[1] /\ j <= x[2])

\* The mutant counts a road that is missing as a long one.
OldLegsMutant(i, j) == {}
OldLegs(i, j) == {<<tour[i], After(tour, i)>>, <<tour[j], After(tour, j)>>}
NewLegs(i, j) == {<<tour[i], tour[j]>>, <<After(tour, i), After(tour, j)>>}

\* The mutant takes what costs the same.
CheaperMutant(i, j) ==
  Cost(tour[i], tour[j]) + Cost(After(tour, i), After(tour, j))
    <= Cost(tour[i], After(tour, i)) + Cost(tour[j], After(tour, j))
Cheaper(i, j) ==
  Cost(tour[i], tour[j]) + Cost(After(tour, i), After(tour, j))
    < Cost(tour[i], After(tour, i)) + Cost(tour[j], After(tour, j))

\* "current[i + 1 : j + 1] = reversed(...)".
Reversed(i, j) ==
  [k \in DOMAIN tour |-> IF k \in i + 1 .. j THEN tour[i + 1 + j - k] ELSE tour[k]]

Keep(i, j) ==
  /\ Due(i, j)
  /\ NewLegs(i, j) \subseteq Roads => OldLegs(i, j) \subseteq Roads /\ ~Cheaper(i, j)
  /\ todo' = todo \ {<<i, j>>}
  /\ UNCHANGED <<problem, phase, tour, greedy, improved, routes, proposal, verdict>>

Exchange(i, j) ==
  /\ Due(i, j) /\ NewLegs(i, j) \subseteq Roads /\ OldLegs(i, j) \subseteq Roads /\ Cheaper(i, j)
  /\ tour' = Reversed(i, j) /\ improved' = TRUE /\ todo' = todo \ {<<i, j>>}
  /\ UNCHANGED <<problem, phase, greedy, routes, proposal, verdict>>

\* "table[(a, b)]" of a leg that is no road: KeyError.
Raise(i, j) ==
  /\ Due(i, j) /\ NewLegs(i, j) \subseteq Roads /\ ~(OldLegs(i, j) \subseteq Roads)
  /\ phase' = "raised"
  /\ UNCHANGED <<problem, search, proposal, verdict>>

\* "while improved": another pass.  The mutant is content with one.
UnfinishedMutant == FALSE
Unfinished == improved

Again ==
  /\ phase = "improving" /\ todo = {} /\ Unfinished
  /\ todo' = Pairs /\ improved' = FALSE
  /\ UNCHANGED <<problem, phase, tour, greedy, routes, proposal, verdict>>

Settle ==
  /\ phase = "improving" /\ todo = {} /\ ~Unfinished
  /\ phase' = "found"
  /\ UNCHANGED <<problem, search, proposal, verdict>>

-----------------------------------------------------------------------------
(* Two vehicles: every other city around the hub.                          *)
Share(r) == {problem.around[i] : i \in {k \in DOMAIN problem.around : (k - r) % 2 = 0}}

Split ==
  /\ phase = "planned" /\ problem.kind = "vrp"
  /\ routes' = <<Share(1), Share(2)>> /\ phase' = "split"
  /\ UNCHANGED <<problem, tour, greedy, todo, improved, proposal, verdict>>

-----------------------------------------------------------------------------
(* The guardrail, given a route by anyone: the specialists', or that one   *)
(* from another city, reversed, cut short, with a city twice, or none.     *)
Base == IF phase = "found" THEN tour ELSE [i \in City |-> i]
Handed ==
  {Base, Tail(Base) \o <<1>>, [k \in City |-> Base[problem.n + 1 - k]],
   SubSeq(Base, 1, problem.n - 1), [Base EXCEPT ![problem.n] = Base[2]], <<>>}

\* "visited_cities != expected_cities or len(...) != len(...)"; the mutant counts only.
CompleteMutant(route) == Len(route) = problem.n
Complete(route) == Len(route) = problem.n /\ {route[i] : i \in DOMAIN route} = City

Acceptable(route) ==
  Complete(route) /\ (problem.first # 0 => route[2] = problem.first) /\ Drivable(route)

SplitOK ==
  /\ routes[1] \cap routes[2] = {} /\ routes[1] \cup routes[2] = City \ {1}
  /\ Cardinality(routes[1]) <= Capacity /\ Cardinality(routes[2]) <= Capacity

\* "is_heuristic or len(...) > 9", for one route.
Judgement(heuristic) == IF heuristic \/ Large THEN "unproven" ELSE "optimal"

Judge(ok, good, bad) ==
  /\ phase' = "judged" /\ verdict' = IF ok THEN good ELSE bad
  /\ UNCHANGED <<problem, search>>

JudgeFlagged ==
  /\ phase \in {"found", "infeasible"} /\ problem.kind = "impossible"
  /\ proposal' = <<>> /\ Judge(FALSE, "none", "impossible")

\* Asked before there is a split, the guardrail only says that one is needed.
JudgeNoSplit ==
  /\ phase = "planned" /\ problem.kind = "vrp"
  /\ proposal' = <<>> /\ Judge(TRUE, "feasible", "impossible")

JudgeSplit(heuristic) ==
  /\ phase = "split"
  /\ proposal' = <<>> /\ Judge(SplitOK, IF heuristic THEN "unproven" ELSE "feasible", "impossible")

JudgeRoute(route, heuristic) ==
  /\ phase \in {"found", "infeasible"} /\ problem.kind = "tsp"
  /\ proposal' = route /\ Judge(Acceptable(route), Judgement(heuristic), "impossible")

-----------------------------------------------------------------------------
Search ==
  \/ Enumerate \/ NoLoop \/ Greedy \/ Smooth \/ Again \/ Settle \/ Split
  \/ \E c \in City : Visit(c)
  \/ \E i, j \in City : Keep(i, j) \/ Exchange(i, j) \/ Raise(i, j)

Next ==
  \/ Search \/ JudgeFlagged \/ JudgeNoSplit
  \/ \E heuristic \in BOOLEAN :
       JudgeSplit(heuristic) \/ \E route \in Handed : JudgeRoute(route, heuristic)

Spec == Init /\ [][Next]_vars

\* The specialist is one call that keeps running; nobody has to ask the guardrail.
FairSpec == Spec /\ WF_vars(Search)

-----------------------------------------------------------------------------
\* Every variable has the type the code gives it.
TypeOK ==
  /\ tour \in Seq(City) /\ Len(tour) \in 1 .. problem.n /\ greedy \in Seq(City)
  /\ phase \in {"planned", "visiting", "improving", "found", "infeasible", "raised", "split", "judged"}
  /\ todo \subseteq City \X City /\ improved \in BOOLEAN
  /\ routes \in (SUBSET City) \X (SUBSET City)
  /\ proposal \in Seq(City) /\ verdict \in {"none", "feasible", "optimal", "unproven", "impossible"}

\* However often legs are exchanged, the loop starts where it should and visits each
\* city once.
StaysATour ==
  phase \in {"improving", "found"} =>
    /\ Len(tour) = problem.n /\ tour[1] = 1
    /\ \A i, j \in DOMAIN tour : tour[i] = tour[j] => i = j

\* The exact search: no loop is cheaper than the one that is named, and none exists if
\* none is named.  (Without a city that must come first: see the README.)
ExactIsBest ==
  problem.first = 0 /\ ~Large =>
    /\ phase = "found" =>
         Drivable(tour) /\ \A t \in Tours : Drivable(t) => LoopCost(tour) <= LoopCost(t)
    /\ phase = "infeasible" => \A t \in Tours : ~Drivable(t)

\* When 2-opt stops, reversing no part of an undirected loop makes it cheaper, however
\* the loop changed during the pass.
LocalOptimum ==
  phase = "found" /\ Large /\ ~problem.directed /\ Drivable(tour) =>
    \A i, j \in City : i < j /\ Drivable(Reversed(i, j)) => LoopCost(Reversed(i, j)) >= LoopCost(tour)

\* 2-opt does not find a way around a road that is missing, and does not lose one: the
\* result can be driven if and only if the greedy loop could.
BrokenStaysBroken ==
  phase = "found" /\ Large /\ ~problem.directed => (Drivable(tour) <=> Drivable(greedy))

\* Together: 2-opt changes the order of the visits and nothing else about a loop.
LoopSound == StaysATour /\ BrokenStaysBroken

\* The guardrail accepts a route if and only if it is one of the loops, wherever in it
\* the route starts.  (If a city must come first: for routes from the start.)
VerdictTruth ==
  phase = "judged" /\ problem.kind = "tsp" /\ (problem.first = 0 \/ (proposal # <<>> /\ proposal[1] = 1)) =>
    (verdict # "impossible" <=>
       \E t \in Tours, k \in 0 .. problem.n - 1 :
         /\ Drivable(t) /\ (problem.first # 0 => t[2] = problem.first)
         /\ proposal = [i \in City |-> t[((i + k - 1) % problem.n) + 1]])

\* The split serves everybody once, evenly; the guardrail refuses it if and only if there
\* are more stops than two vehicles have.
SplitFair ==
  /\ phase = "split" =>
       /\ routes[1] \cap routes[2] = {} /\ routes[1] \cup routes[2] = City \ {1}
       /\ Cardinality(routes[1]) - Cardinality(routes[2]) \in {0, 1}
  /\ phase = "judged" /\ problem.kind = "vrp" /\ routes # <<{}, {}>> =>
       (verdict = "impossible" <=> problem.n - 1 > 2 * Capacity)

\* Together: what the guardrail says of a route and of a split is what they are.
VerdictsTrue == VerdictTruth /\ SplitFair

Over == phase \in {"found", "infeasible", "raised", "split", "judged"}

\* The specialists of an undirected problem end.
TourEnds == ~problem.directed => <>Over

\* Refuted by the code: those of every problem end ("It never loops infinitely",
\* docs/DECISION_OWNERSHIP.md, section 3).
NeverLoops == <>Over
===============================================================================
