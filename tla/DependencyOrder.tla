---------------------------- MODULE DependencyOrder ----------------------------
(***************************************************************************)
(* Whether ordering constraints contradict each other: Kahn's algorithm,   *)
(* as the guardrail (_detect_dependency_cycle, app/validation/guardrail.py)*)
(* and the solver (_find_dependency_cycle, app/solver/agents.py) have it,  *)
(* and the walk along predecessors by which the solver names a cycle.      *)
(*                                                                         *)
(* The queue is filled from a set, in any order: it is a set here.  Names  *)
(* of cities are numbers, as far as they are compared.                     *)
(***************************************************************************)
EXTENDS Integers, Sequences, FiniteSets

CONSTANTS
  Cities,         \* names that constraints may mention
  MaxConstraints  \* bound: constraints of a problem

ASSUME OrderAssumption == Cities \subseteq Nat /\ MaxConstraints \in Nat

VARIABLES
  precedence,      \* the constraints: pairs <<before, after>>
  indegree, queue,
  order,           \* the nodes that were processed, in that order
  phase,           \* sorting, walking back, or the verdict: consistent, circular
  chain,           \* the walk
  reported         \* the cycle that the solver names

vars == <<precedence, indegree, queue, order, phase, chain, reported>>

-----------------------------------------------------------------------------
Constraints == DOMAIN precedence
Before(k) == precedence[k][1]
After(k)  == precedence[k][2]

Nodes     == {Before(k) : k \in Constraints} \cup {After(k) : k \in Constraints}
Processed == {order[i] : i \in DOMAIN order}
Leftover  == Nodes \ Processed

\* What is left of the indegree of m when its constraints behind n are met.  The
\* mutant counts n once even if it is constrained twice.
Met(n, m) == {k \in Constraints : Before(k) = n /\ After(k) = m}
ReducedOnceMutant(n, m) == indegree[m] - (IF Met(n, m) = {} THEN 0 ELSE 1)
Reduced(n, m) == indegree[m] - Cardinality(Met(n, m))

\* "if indegree[nxt] == 0".
Free(n, m) == Met(n, m) # {} /\ Reduced(n, m) = 0

Init ==
  /\ precedence \in UNION {[1..c -> Cities \X Cities] : c \in 1..MaxConstraints}
  /\ indegree = [n \in Nodes |-> Cardinality({k \in Constraints : After(k) = n})]
  /\ queue = {n \in Nodes : indegree[n] = 0}
  /\ order = <<>> /\ phase = "sorting" /\ chain = <<>> /\ reported = <<>>

\* One round of "while queue".
Process(n) ==
  /\ phase = "sorting" /\ n \in queue
  /\ order' = Append(order, n)
  /\ indegree' = [m \in Nodes |-> Reduced(n, m)]
  /\ queue' = (queue \ {n}) \cup {m \in Nodes : Free(n, m)}
  /\ UNCHANGED <<precedence, phase, chain, reported>>

\* Everything was processed.
Accept ==
  /\ phase = "sorting" /\ queue = {} /\ Leftover = {}
  /\ phase' = "consistent"
  /\ UNCHANGED <<precedence, indegree, queue, order, chain, reported>>

\* Something was not: the walk starts at the least of it.
StartWalk ==
  /\ phase = "sorting" /\ queue = {}
  /\ \E n \in Leftover : (\A m \in Leftover : n <= m) /\ chain' = <<n>>
  /\ phase' = "walking"
  /\ UNCHANGED <<precedence, indegree, queue, order, reported>>

-----------------------------------------------------------------------------
(* The walk: to the first candidate, until one comes again.                *)
Current == chain[Len(chain)]
Inward  == {k \in Constraints : After(k) = Current /\ Before(k) \in Leftover \ {Current}}
First(k) == k \in Inward /\ \A l \in Inward : k <= l

\* "if nxt in chain".
Visited(n) == \E i \in DOMAIN chain : chain[i] = n

Walk(k) ==
  /\ phase = "walking" /\ First(k) /\ ~Visited(Before(k))
  /\ chain' = Append(chain, Before(k))
  /\ UNCHANGED <<precedence, indegree, queue, order, phase, reported>>

\* "reversed(chain[idx:] + [nxt])"; the mutant forgets to reverse.
CycleMutant(idx, n) == Append(SubSeq(chain, idx, Len(chain)), n)
Cycle(idx, n) ==
  [i \in 1 .. Len(chain) - idx + 2 |-> IF i = 1 THEN n ELSE chain[Len(chain) + 2 - i]]

Close(k) ==
  /\ phase = "walking" /\ First(k) /\ Visited(Before(k))
  /\ \E idx \in DOMAIN chain : chain[idx] = Before(k) /\ reported' = Cycle(idx, Before(k))
  /\ phase' = "circular"
  /\ UNCHANGED <<precedence, indegree, queue, order, chain>>

\* "if not candidates: break": the leftover in sorted order.
Stuck == Inward = {}

GiveUp ==
  /\ phase = "walking" /\ Stuck
  /\ \E s \in [1..Cardinality(Leftover) -> Leftover] :
       (\A i, j \in DOMAIN s : i < j => s[i] < s[j]) /\ reported' = s
  /\ phase' = "circular"
  /\ UNCHANGED <<precedence, indegree, queue, order, chain>>

-----------------------------------------------------------------------------
Next ==
  \/ \E n \in Nodes : Process(n)
  \/ Accept \/ StartWalk
  \/ \E k \in Constraints : Walk(k) \/ Close(k)
  \/ GiveUp

Spec == Init /\ [][Next]_vars

-----------------------------------------------------------------------------
\* Every variable has the type the code gives it.
TypeOK ==
  /\ precedence \in Seq(Cities \X Cities) /\ indegree \in [Nodes -> Nat]
  /\ queue \subseteq Nodes /\ order \in Seq(Nodes)
  /\ phase \in {"sorting", "walking", "consistent", "circular"}
  /\ chain \in Seq(Nodes) /\ reported \in Seq(Nodes)

\* A set of constraints that is called consistent has an order: the one in which
\* the cities were processed has each of them once and meets every constraint.
OrderExists ==
  phase = "consistent" =>
    /\ Processed = Nodes
    /\ \A i, j \in DOMAIN order : order[i] = order[j] => i = j
    /\ \A k \in Constraints : \E i, j \in DOMAIN order :
         i < j /\ order[i] = Before(k) /\ order[j] = After(k)

\* One that is not called so has none: whatever ranks the cities get, some
\* constraint is not met.
NoOrderExists ==
  phase \in {"walking", "circular"} =>
    \A rank \in [Nodes -> 1..Cardinality(Nodes)] :
      \E k \in Constraints : rank[Before(k)] >= rank[After(k)]

\* The verdict is the truth: the constraints are called consistent if an order
\* meets them, and only then.
VerdictRight == OrderExists /\ NoOrderExists

\* Unless a city is constrained to come before itself, the cycle that is reported
\* is one: it ends where it begins, and each step is a constraint.
CycleIsOne ==
  phase = "circular" /\ (\A k \in Constraints : Before(k) # After(k)) =>
    /\ Len(reported) > 2 /\ reported[1] = reported[Len(reported)]
    /\ \A i \in 1 .. Len(reported) - 1 :
         \E k \in Constraints : Before(k) = reported[i] /\ After(k) = reported[i + 1]

\* "range(len(nodes) + 1)" rounds are enough: the walk comes back to a city before
\* it has taken that many steps.
WalkBounded == Len(chain) <= Cardinality(Nodes)

\* The walk comes back within its bound, and what it then names is a cycle.
CycleFound == CycleIsOne /\ WalkBounded
===============================================================================
