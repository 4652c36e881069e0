------------------------------- MODULE SolverTeam -------------------------------
(***************************************************************************)
(* The routing solver as its callers see it.  A session (app/solver,       *)
(* app/metrics.py) plans a team of specialists for a problem, has them     *)
(* work side by side, integrates what they say, judges the run, and later  *)
(* compares its runs with a golden record.  The registry service's         *)
(* POST /execute (registry-service/app/api/execution.py) answers the same  *)
(* benchmark problems without running a team, from its guardrail.          *)
(*                                                                         *)
(* A problem is what it declares (number of cities, kind, ordering, the    *)
(* "impossible" flag, the first stop, an expected route and its cost) and  *)
(* what is so (does a loop exist, does the enumeration find it, what       *)
(* becomes of the heuristic); the searches themselves are TourSearch and   *)
(* DependencyOrder.  A text is the set of things it says, and "cost" is    *)
(* one of them wherever the digits of the expected cost are printed.       *)
(*                                                                         *)
(* The names of the specification carry a prefix because SolverProofs      *)
(* extends this module beside DependencyOrder.                             *)
(***************************************************************************)
EXTENDS Integers, FiniteSets

CONSTANTS
  Others,     \* problems beyond the benchmark
  MaxRuns     \* bound: problems solved in two sessions

\* problems.py.  first: a first stop is asked for and the roads run both ways; roads: a
\* loop through all cities exists that meets it; listed: enumerate_loops returns one;
\* heuristic: what greedy and 2-opt end with; expected: no route, the cheapest loop's,
\* another one's or a cost that no loop has; echo: the digits of the expected cost occur
\* in a number that is not the cost of such a loop (a road's, n=, the number of loops, a
\* heuristic's cost); words: the groups of the analyzer's terms in title and notes.
Shape ==
  [id : Nat, cities : Nat, kind : {"tsp", "vrp", "precedence"},
   order : {"none", "consistent", "circular"}, flagged : BOOLEAN,
   first : BOOLEAN, roads : BOOLEAN, listed : BOOLEAN,
   heuristic : {"drivable", "broken", "raises"},
   expected : {"none", "cheapest", "dearer", "wrong"}, echo : BOOLEAN,
   words : SUBSET {"vehicles", "order", "graph", "tour"}]

\* A listed loop exists.  Of a loop and its reverse only one is looked at, and it is
\* dropped when the first stop comes last in it: without a first stop nothing is missed.
ASSUME TeamAssumption ==
  /\ Others \subseteq Shape /\ MaxRuns \in Nat
  /\ \A p \in Others : (p.listed => p.roads) /\ (p.roads /\ ~p.first => p.listed)

VARIABLES
  pc,          \* the session: idle, working, failed or compared
  problem, adapter, \* what is being solved, and by whom
  said,        \* what each member of the team has said so far
  runs,        \* the session's metrics, per problem
  golden,      \* the exported metrics of an earlier session
  regressions, \* what compare_metrics() reports
  response     \* what POST /execute answered last, before the session began

solving == <<pc, problem, adapter, said, runs, golden, regressions>>
teamVars == <<solving, response>>

-----------------------------------------------------------------------------
\* The problems of the benchmark.
Plain ==
  [id |-> 0, cities |-> 4, kind |-> "tsp", order |-> "none", flagged |-> FALSE,
   first |-> FALSE, roads |-> TRUE, listed |-> TRUE, heuristic |-> "drivable",
   expected |-> "cheapest", echo |-> FALSE, words |-> {"tour"}]

Problem1  == [Plain EXCEPT !.id = 1, !.cities = 3]
Problem2  == [Plain EXCEPT !.id = 2, !.words = {"graph", "tour"}]
Problem3  == [Plain EXCEPT !.id = 3]
Problem4  == [Plain EXCEPT !.id = 4, !.cities = 5]
Problem5  == [Plain EXCEPT !.id = 5, !.cities = 6, !.first = TRUE,
                           !.words = {"order", "tour"}]
Problem6  == [Plain EXCEPT !.id = 6, !.cities = 7]
Problem7  == [Plain EXCEPT !.id = 7, !.cities = 15, !.expected = "none", !.words = {}]
Problem8  == [Plain EXCEPT !.id = 8, !.cities = 10, !.kind = "vrp", !.expected = "none",
                           !.words = {"vehicles", "graph", "tour"}]
Problem9  == [Plain EXCEPT !.id = 9, !.flagged = TRUE, !.roads = FALSE, !.listed = FALSE,
                           !.heuristic = "broken", !.expected = "none", !.words = {"graph"}]
Problem10 == [Plain EXCEPT !.id = 10, !.cities = 3, !.kind = "precedence",
                           !.order = "circular", !.roads = FALSE, !.listed = FALSE,
                           !.heuristic = "broken", !.expected = "none", !.words = {"order"}]

Benchmark == {Problem1, Problem2, Problem3, Problem4, Problem5,
              Problem6, Problem7, Problem8, Problem9, Problem10}

Problems == Benchmark \cup Others
Large(p) == p.cities > 9

\* What is so, whatever anybody says: a vehicle takes six stops.
Solvable(p) ==
  IF p.order # "none" THEN p.order = "consistent"
  ELSE IF p.kind = "vrp" THEN p.cities - 1 <= 12 ELSE p.roads

-----------------------------------------------------------------------------
\* planner.plan_agents.
Team(p) ==
  IF p.order # "none" THEN {"dependency_checker", "order_reviewer"}
  ELSE IF p.flagged THEN {"graph_builder", "route_validator"}
  ELSE IF p.kind = "vrp" THEN {"vrp_splitter", "vrp_validator"}
  ELSE {"graph_builder", "tour_engine", "route_validator"}
       \cup (IF Large(p) THEN {"optimizer"} ELSE {})

\* heuristic_loop: a loop over a road that does not exist is named all the same, or
\* _two_opt raises on it.
Heuristic(p) == IF p.heuristic = "raises" THEN {"raised"} ELSE {"cities", "tour"}

\* Ranked by cost: the tour engine names all loops with their costs, the validator
\* the cheapest one.
TourEngine(p) ==
  IF Large(p) THEN Heuristic(p)
  ELSE IF ~p.listed THEN {}
  ELSE {"cities", "tour"} \cup (IF p.expected \in {"cheapest", "dearer"} THEN {"cost"} ELSE {})

\* The mutant takes an empty list of loops for a list it has checked.
NoLoopMutant(p) == p.flagged /\ ~p.listed
NoLoop(p) == ~p.listed

RouteValidator(p) ==
  IF Large(p) THEN Heuristic(p)
  ELSE IF NoLoop(p) THEN {"impossible"}
  ELSE {"cities", "tour"} \cup (IF p.expected = "cheapest" THEN {"cost"} ELSE {})

VrpValidator(p) == IF p.cities - 1 <= 12 THEN {"split"} ELSE {"no split"}
DependencyChecker(p) == IF p.order = "circular" THEN {"impossible", "circular"} ELSE {"consistent"}
OrderReviewer(p) == DependencyChecker(p)

\* _graph_builder names all cities, n= and every road with its cost.
GraphBuilder(p) == {"cities"} \cup (IF p.echo THEN {"cost"} ELSE {})

\* _vrp_splitter names all stops but the hub, and the costs of the two shares: an
\* expected route is found in that only by accident.
VrpSplitter(p) == {"split"} \cup (IF p.echo THEN {"cities", "cost"} ELSE {})

\* make_solver_factory.
Specialist(p, a) ==
  CASE a = "graph_builder" -> GraphBuilder(p)
    [] a = "tour_engine" -> TourEngine(p)
    [] a = "route_validator" -> RouteValidator(p)
    [] a = "optimizer" -> IF p.heuristic = "raises" THEN {"raised"} ELSE {"confirmed"}
    [] a = "vrp_splitter" -> VrpSplitter(p)
    [] a = "vrp_validator" -> VrpValidator(p)
    [] a = "dependency_checker" -> DependencyChecker(p)
    [] a = "order_reviewer" -> OrderReviewer(p)

\* llm.chat: any text that is not empty, or an LlmCallError.
ModelReplies == {{"raised"}, {"impossible"}, {"cities", "tour"}, {"cities", "tour", "cost"}}

-----------------------------------------------------------------------------
Nothing == [id |-> 0]
Empty == [i \in {} |-> Nothing]

TeamInit ==
  /\ pc = "idle" /\ problem = Nothing /\ adapter = "deterministic"
  /\ said = Empty /\ runs = Empty /\ golden = Empty
  /\ regressions = {} /\ response = Nothing

\* solve_problem: SOLVER_ADAPTER is read anew for each problem.
Plan(p, how) ==
  /\ pc = "idle" /\ Cardinality(DOMAIN runs) + Cardinality(DOMAIN golden) < MaxRuns
  /\ pc' = "working" /\ problem' = p /\ adapter' = how /\ said' = Empty
  /\ response' = Nothing /\ UNCHANGED <<runs, golden, regressions>>

\* The specialists' threads, in any order.
Work(a) ==
  /\ pc = "working" /\ a \in Team(problem) \ DOMAIN said
  /\ \E text \in (IF adapter = "llm" THEN ModelReplies ELSE {Specialist(problem, a)}) :
        said' = [b \in DOMAIN said \cup {a} |-> IF b = a THEN text ELSE said[b]]
  /\ UNCHANGED <<pc, problem, adapter, runs, golden, regressions, response>>

\* "Integrated decision: " and all recommendations: never empty, so the default
\* critic calls it valid in its first round; an error status is not looked at.
Decision == UNION {said[a] : a \in DOMAIN said}

\* SolutionRun.passed, by substrings of the decision; the mutant looks at the status
\* alone.
PassedMutant(p, decision) == decision # {"raised"}
Passed(p, decision) ==
  IF p.flagged \/ p.order # "none" THEN decision \cap {"impossible", "circular"} # {}
  ELSE IF p.expected = "none" THEN "impossible" \notin decision
  ELSE {"cities", "cost"} \subseteq decision

\* collect_run.
Metric(p, decision) ==
  [status |-> "completed", passed |-> Passed(p, decision), escalation |-> FALSE]

\* An exception of a specialist goes through the engine and ends the session.
Judge ==
  /\ pc = "working" /\ DOMAIN said = Team(problem)
  /\ IF "raised" \in Decision THEN pc' = "failed" /\ UNCHANGED runs
     ELSE /\ pc' = "idle"
          /\ runs' = [i \in DOMAIN runs \cup {problem.id} |->
                        IF i = problem.id THEN Metric(problem, Decision) ELSE runs[i]]
  /\ UNCHANGED <<problem, adapter, said, golden, regressions, response>>

\* export_metrics, then load_metrics in a later session.
Export ==
  /\ pc = "idle" /\ DOMAIN runs # {} /\ golden = Empty
  /\ golden' = runs
  /\ runs' = Empty /\ problem' = Nothing /\ said' = Empty
  /\ UNCHANGED <<pc, adapter, regressions, response>>

\* compare_metrics; the mutant does not report what the session has not run.
MissingMutant(i) == {}
Missing(i) == {<<i, "missing in current run">>}

Differences(m, g, i) ==
  {<<i, issue>> : issue \in
     (IF m.status # g.status THEN {"status change"} ELSE {})
     \cup (IF m.passed # g.passed THEN {"pass regression"} ELSE {})
     \cup (IF m.escalation # g.escalation THEN {"escalation drift"} ELSE {})}

Compare ==
  /\ pc = "idle" /\ golden # Empty /\ pc' = "compared"
  /\ regressions' = UNION {IF i \in DOMAIN runs THEN Differences(runs[i], golden[i], i)
                                                ELSE Missing(i) : i \in DOMAIN golden}
  /\ UNCHANGED <<problem, adapter, said, runs, golden, response>>

-----------------------------------------------------------------------------
\* TaskAnalyzer.analyze, and the agents execute_task names for the capabilities.
Capabilities(words) ==
  LET found == (IF "vehicles" \in words THEN {"vrp_partitioning", "constraint_reasoning"} ELSE {})
               \cup (IF "order" \in words THEN {"constraint_reasoning"} ELSE {})
               \cup (IF "graph" \in words THEN {"graph_analysis"} ELSE {})
               \cup (IF "tour" \in words THEN {"route_optimization"} ELSE {})
  IN  IF found = {} THEN {"route_optimization"} ELSE found

AgentFor ==
  [route_optimization |-> "route-optimizer", constraint_reasoning |-> "constraint-agent",
   graph_analysis |-> "graph-analysis-agent", vrp_partitioning |-> "vrp-agent"]
Scope(words) == {AgentFor[c] : c \in Capabilities(words)}
Scopes == {AgentFor[c] : c \in DOMAIN AgentFor}

\* DeterministicGuardrail.validate_proposal, called with problem.cities, with a split
\* after the fifth city, or with problem.expected; the mutant believes the flag only.
StateMutant(p) == IF p.flagged THEN "IMPOSSIBLE" ELSE "OPTIMAL"
State(p) ==
  IF p.order = "circular" \/ p.flagged THEN "IMPOSSIBLE"
  ELSE IF p.kind = "vrp" THEN (IF p.cities - 5 > 6 THEN "IMPOSSIBLE" ELSE "UNPROVEN")
  ELSE IF p.expected = "none" THEN "IMPOSSIBLE"
  ELSE IF Large(p) THEN "UNPROVEN" ELSE "OPTIMAL"

\* What each agent recommends, as far as it is about the problem as a whole.
Recommendation(p, a) ==
  CASE a = "route-optimizer" /\ State(p) = "IMPOSSIBLE" -> "impossible"
    [] a = "route-optimizer" /\ State(p) # "IMPOSSIBLE" -> "tour"
    [] a = "constraint-agent" -> IF p.order # "none" THEN "circular" ELSE "consistent"
    [] a = "graph-analysis-agent" -> IF p.flagged THEN "disconnected" ELSE "connected"
    [] a = "vrp-agent" -> "split"

\* Only a registered agent can be found disabled.
Barred(scope, registered, on) == (scope \cap registered) \ on # {}

\* execute_task: the registry is read once.  A free query is not validated at all.
\* It shares nothing with a session: it is answered before there is one.
Execute(p) ==
  /\ pc = "idle" /\ runs = Empty /\ golden = Empty
  /\ \E registered \in SUBSET Scopes : \E on \in SUBSET registered :
       LET scope == Scope(p.words)
           state == IF p \in Benchmark THEN State(p) ELSE "FEASIBLE"
       IN  response' =
             IF Barred(scope, registered, on)
             THEN [id |-> p.id, status |-> "rejected", state |-> "IMPOSSIBLE", says |-> {}]
             ELSE [id |-> p.id, state |-> state,
                   status |-> IF state = "IMPOSSIBLE" THEN "completed_abstained" ELSE "completed",
                   says |-> IF p \in Benchmark THEN {Recommendation(p, a) : a \in scope} ELSE {}]
  /\ UNCHANGED solving

Queries == {[id |-> 0, words |-> w] : w \in SUBSET {"vehicles", "order", "graph", "tour"}}

-----------------------------------------------------------------------------
TeamNext ==
  \/ \E p \in Problems, how \in {"deterministic", "llm"} : Plan(p, how)
  \/ \E a \in {"graph_builder", "tour_engine", "route_validator", "optimizer", "vrp_splitter",
               "vrp_validator", "dependency_checker", "order_reviewer"} : Work(a)
  \/ Judge \/ Export \/ Compare
  \/ \E p \in Benchmark \cup Queries : Execute(p)

TeamSpec == TeamInit /\ [][TeamNext]_teamVars

-----------------------------------------------------------------------------
Decided == pc = "idle" /\ problem # Nothing /\ adapter = "deterministic"

\* What the deterministic team says in the end is so: of up to nine cities it names
\* a tour only if there is one, "impossible" always when there is none, and one of the
\* two in any case; of an ordering likewise.  It may say "impossible" of a problem that
\* has a tour only where a first stop is asked for on roads both ways (enumerate_loops
\* drops one of each loop and its reverse before it looks at the first stop).  No two
\* members contradict one another.  (A split of more than twelve stops and a heuristic
\* over missing roads are excepted: the code presents them as solutions.)
DecisionRight ==
  Decided =>
    /\ ~({"tour", "impossible"} \subseteq Decision) /\ ~({"circular", "consistent"} \subseteq Decision)
    /\ problem.kind # "vrp" /\ ~Large(problem) =>
         /\ ~Solvable(problem) => "impossible" \in Decision
         /\ "impossible" \in Decision => ~Solvable(problem) \/ (problem.order = "none" /\ problem.first)
         /\ problem.order = "none" => /\ "tour" \in Decision => Solvable(problem)
                                      /\ Decision \cap {"tour", "impossible"} # {}

\* A run that counts as passed is one whose problem is what it declares itself to be:
\* an impossible one has no solution, one with an expected route has a loop, and a loop
\* of the expected cost.  Two accidents of passed() are all that is excepted: a flag on
\* a problem whose first stop hides its loops, and digits of the expected cost in other
\* numbers of the text.  The other way round, a deterministic run of the benchmark
\* passes.
PassIsEarned ==
  Decided =>
    /\ runs[problem.id].passed /\ problem.kind # "vrp" /\ ~Large(problem) =>
         IF problem.flagged \/ problem.order # "none"
         THEN ~Solvable(problem) \/ (problem.order = "none" /\ problem.first)
         ELSE \/ Solvable(problem) /\ problem.expected # "wrong"
              \/ problem.expected # "none" /\ problem.echo
    /\ problem \in Benchmark => runs[problem.id].passed

\* The two ways to a verdict agree: POST /execute abstains on a benchmark problem
\* with an expected route, a flag or an ordering exactly when the team's verdict is
\* that it is impossible, and its specialists do not say otherwise.
VerdictsAgree ==
  \A p \in Benchmark :
    response.id = p.id /\ response.status # "rejected"
      /\ (p.flagged \/ p.order # "none" \/ p.expected # "none" \/ p.kind = "vrp") =>
      LET team == UNION {Specialist(p, a) : a \in Team(p)}
      IN  /\ (response.status = "completed_abstained") <=> ("impossible" \in team)
          /\ "circular" \in response.says => "circular" \in team
          /\ "tour" \in response.says => team \cap {"tour", "split"} # {}

\* The comparison is silent exactly when every golden problem has been run and ended
\* as it did then; every report is about a golden problem.
ComparisonTells ==
  pc = "compared" =>
    /\ regressions = {} <=> \A i \in DOMAIN golden : i \in DOMAIN runs /\ runs[i] = golden[i]
    /\ \A r \in regressions : r[1] \in DOMAIN golden

\* docs/DECISION_OWNERSHIP.md: IMPOSSIBLE is said of a problem that is "mathematically
\* or topologically infeasible"; a rejection, which reports the same state, is excepted.
ImpossibleIsProven ==
  \A p \in Benchmark :
    response.id = p.id /\ response.status # "rejected" /\ response.state = "IMPOSSIBLE"
      => ~Solvable(p)
===============================================================================
