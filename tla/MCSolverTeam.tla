------------------------------ MODULE MCSolverTeam ------------------------------
(* Problems of the shapes the benchmark does not have: no loop although nobody   *)
(* says so, a consistent ordering, a dearer loop expected, a split of thirteen   *)
(* stops, heuristics over missing roads, a flag on a problem that has a loop, a  *)
(* first stop that hides all loops (18, and flagged 19), a cost that no loop has *)
(* (20), and expected costs printed as a road's where there is no loop (21), no  *)
(* such loop (22) or a split (23).                                               *)
EXTENDS SolverTeam

NoRoads == [Plain EXCEPT !.roads = FALSE, !.listed = FALSE]

MCOthers ==
  {[NoRoads EXCEPT !.id = 11, !.expected = "none"],
   [Plain EXCEPT !.id = 12, !.kind = "precedence", !.order = "consistent", !.expected = "none"],
   [Plain EXCEPT !.id = 13, !.expected = "dearer"],
   [Plain EXCEPT !.id = 14, !.cities = 14, !.kind = "vrp", !.expected = "none"],
   [NoRoads EXCEPT !.id = 15, !.cities = 12, !.heuristic = "broken", !.expected = "none"],
   [NoRoads EXCEPT !.id = 16, !.cities = 12, !.heuristic = "raises", !.expected = "none"],
   [Plain EXCEPT !.id = 17, !.flagged = TRUE, !.expected = "none"],
   [Plain EXCEPT !.id = 18, !.first = TRUE, !.listed = FALSE, !.expected = "none"],
   [Plain EXCEPT !.id = 19, !.first = TRUE, !.listed = FALSE, !.flagged = TRUE],
   [Plain EXCEPT !.id = 20, !.expected = "wrong"],
   [NoRoads EXCEPT !.id = 21, !.expected = "wrong", !.echo = TRUE],
   [Plain EXCEPT !.id = 22, !.expected = "wrong", !.echo = TRUE],
   [Plain EXCEPT !.id = 23, !.cities = 10, !.kind = "vrp", !.expected = "wrong", !.echo = TRUE]}
===============================================================================
