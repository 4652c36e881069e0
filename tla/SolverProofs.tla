------------------------------ MODULE SolverProofs ------------------------------
(***************************************************************************)
(* Theorems about the routing solver: its ordering check (DependencyOrder) *)
(* for any constraints, and its team (SolverTeam) for any problems beside  *)
(* the benchmark, any number of runs and any order of the members.         *)
(***************************************************************************)
EXTENDS DependencyOrder, SolverTeam, FiniteSetTheorems, WellFoundedInduction, TLAPS

\* What the city m still waits for.
Open(m) == {k \in Constraints : After(k) = m /\ Before(k) \notin Processed}

\* The counters count it, and the queue has the cities that wait for nothing.
CountInv ==
  \A m \in Nodes :
    /\ indegree[m] = Cardinality(Open(m))
    /\ m \in queue <=> (Open(m) = {} /\ m \notin Processed)

\* A city was processed once, after all that come before it.
OrderedInv ==
  /\ \A i, j \in DOMAIN order : order[i] = order[j] => i = j
  /\ \A i \in DOMAIN order, k \in Constraints : After(k) = order[i] =>
       \E j \in DOMAIN order : j < i /\ order[j] = Before(k)

Unsorted == phase \in {"walking", "circular"}

VerdictInv ==
  /\ phase = "consistent" => Leftover = {}
  /\ Unsorted => queue = {} /\ Leftover # {} /\ chain # <<>>

\* The walk goes against the constraints, among what is left, to a new city each time.
ChainInv ==
  /\ \A i \in DOMAIN chain : Unsorted /\ chain[i] \in Leftover
  /\ \A i, j \in DOMAIN chain : chain[i] = chain[j] => i = j
  /\ \A i \in DOMAIN chain : i + 1 \in DOMAIN chain =>
       \E k \in Constraints : Before(k) = chain[i + 1] /\ After(k) = chain[i]

SortInv == TypeOK /\ CountInv /\ OrderedInv
OrderInv == SortInv /\ VerdictInv /\ ChainInv /\ CycleIsOne

-----------------------------------------------------------------------------
(* Finite sets.                                                            *)
LEMMA FiniteConstraints ==
  ASSUME precedence \in Seq(Cities \X Cities)
  PROVE  /\ Constraints = 1 .. Len(precedence) /\ IsFiniteSet(Constraints)
         /\ \A k \in Constraints : Before(k) \in Nodes /\ After(k) \in Nodes
         /\ Nodes \subseteq Cities
<1>1. Constraints = 1 .. Len(precedence) /\ Len(precedence) \in Nat  BY DEF Constraints
<1>2. IsFiniteSet(1 .. Len(precedence))  BY <1>1, FS_Interval
<1>3. \A k \in Constraints : precedence[k] \in Cities \X Cities  BY <1>1
<1> QED  BY <1>1, <1>2, <1>3 DEF Nodes, Before, After

LEMMA FiniteNodes == ASSUME precedence \in Seq(Cities \X Cities) PROVE IsFiniteSet(Nodes)
<1> DEFINE f == [k \in Constraints |-> Before(k)]
           g == [k \in Constraints |-> After(k)]
           S == {Before(k) : k \in Constraints}
           T == {After(k) : k \in Constraints}
<1>1. f \in Surjection(Constraints, S)  BY DEF Surjection
<1>2. g \in Surjection(Constraints, T)  BY DEF Surjection
<1>3. IsFiniteSet(Constraints)  BY FiniteConstraints
<1> HIDE DEF f, g
<1>4. IsFiniteSet(S)  BY <1>1, <1>3, FS_Surjection
<1>5. IsFiniteSet(T)  BY <1>2, <1>3, FS_Surjection
<1> QED  BY <1>4, <1>5, FS_Union DEF Nodes

\* Counting what is left when a part is taken away.
LEMMA CountRest ==
  ASSUME NEW S, IsFiniteSet(S), NEW T \in SUBSET S
  PROVE  /\ IsFiniteSet(S \ T) /\ IsFiniteSet(T)
         /\ Cardinality(S) \in Nat /\ Cardinality(T) \in Nat
         /\ Cardinality(S \ T) = Cardinality(S) - Cardinality(T)
         /\ Cardinality(S) = 0 <=> S = {}
         /\ Cardinality(S \ T) = 0 <=> S \ T = {}
<1>1. IsFiniteSet(T) /\ IsFiniteSet(S \ T)  BY FS_Subset
<1>2. Cardinality(S) \in Nat /\ Cardinality(T) \in Nat /\ Cardinality(S \ T) \in Nat
  BY <1>1, FS_CardinalityType
<1>3. T \cup (S \ T) = S /\ T \cap (S \ T) = {}  OBVIOUS
<1>4. Cardinality(T \cup (S \ T))
        = Cardinality(T) + Cardinality(S \ T) - Cardinality(T \cap (S \ T))
  BY <1>1, FS_Union
<1>5. Cardinality(S) = Cardinality(T) + Cardinality(S \ T)
  <2>1. Cardinality(T \cap (S \ T)) = 0  BY <1>3, FS_EmptySet
  <2>2. Cardinality(T \cup (S \ T)) = Cardinality(S)  BY <1>3
  <2>3. QED  BY <1>2, <1>4, <2>1, <2>2
<1>6. \A U : IsFiniteSet(U) => (Cardinality(U) = 0 <=> U = {})  BY FS_EmptySet
<1>7. (Cardinality(S) = 0 <=> S = {}) /\ (Cardinality(S \ T) = 0 <=> S \ T = {})
  BY <1>1, <1>6
<1> QED  BY <1>1, <1>2, <1>5, <1>7

-----------------------------------------------------------------------------
(* The sort.                                                               *)
LEMMA SortInit == Init => SortInv
<1> SUFFICES ASSUME Init PROVE SortInv  OBVIOUS
<1>1. precedence \in Seq(Cities \X Cities)
  BY OrderAssumption DEF Init
<1>2. Processed = {} /\ order = <<>> /\ chain = <<>> /\ reported = <<>> /\ phase = "sorting"
  BY DEF Init, Processed
<1>3. \A m : Open(m) = {k \in Constraints : After(k) = m}  BY <1>2 DEF Open
<1>4. \A m : IsFiniteSet(Open(m))  BY <1>1, FiniteConstraints, FS_Subset DEF Open
<1>5. indegree = [n \in Nodes |-> Cardinality(Open(n))]  BY <1>3 DEF Init
<1>6. \A m : Cardinality(Open(m)) \in Nat /\ (Cardinality(Open(m)) = 0 <=> Open(m) = {})
  BY <1>4, FS_CardinalityType, FS_EmptySet
<1>7. TypeOK  BY <1>1, <1>2, <1>5, <1>6 DEF Init, TypeOK
<1>8. CountInv  BY <1>2, <1>5, <1>6 DEF CountInv, Init
<1>9. OrderedInv  BY <1>2 DEF OrderedInv
<1> QED  BY <1>7, <1>8, <1>9 DEF SortInv

\* Processing a city.
LEMMA SortProcess ==
  ASSUME SortInv, NEW n \in Nodes, Process(n)
  PROVE  SortInv'
<1> USE DEF SortInv
<1>1. /\ precedence \in Seq(Cities \X Cities) /\ order \in Seq(Nodes) /\ queue \subseteq Nodes
      /\ indegree \in [Nodes -> Nat] /\ chain \in Seq(Nodes) /\ reported \in Seq(Nodes)
  BY DEF TypeOK
<1>2. /\ n \in queue /\ order' = Append(order, n) /\ precedence' = precedence
      /\ indegree' = [m \in Nodes |-> Reduced(n, m)]
      /\ queue' = (queue \ {n}) \cup {m \in Nodes : Free(n, m)}
      /\ phase' = phase /\ chain' = chain /\ reported' = reported
  BY DEF Process
<1>3. Constraints' = Constraints /\ Nodes' = Nodes /\ \A k : Before(k)' = Before(k) /\ After(k)' = After(k)
  BY <1>2 DEF Constraints, Nodes, Before, After
<1>4. Processed' = Processed \cup {n}
  <2>1. DOMAIN order' = DOMAIN order \cup {Len(order) + 1}  BY <1>1, <1>2
  <2>2. order'[Len(order) + 1] = n /\ \A i \in DOMAIN order : order'[i] = order[i]
    BY <1>1, <1>2
  <2>3. QED  BY <2>1, <2>2 DEF Processed
<1>5. Open(n) = {} /\ n \notin Processed  BY <1>2 DEF CountInv
<1>6. \A m : Open(m)' = Open(m) \ Met(n, m) /\ Met(n, m) \subseteq Open(m)
  BY <1>3, <1>4, <1>5 DEF Open, Met
<1>7. \A m : IsFiniteSet(Open(m))  BY <1>1, FiniteConstraints, FS_Subset DEF Open
<1>8. ASSUME NEW m \in Nodes
      PROVE  /\ Reduced(n, m) = Cardinality(Open(m)') /\ Reduced(n, m) \in Nat
             /\ Reduced(n, m) = 0 <=> Open(m)' = {}
             /\ m \in queue' <=> (Open(m)' = {} /\ m \notin Processed')
  <2>1. indegree[m] = Cardinality(Open(m)) /\ (m \in queue <=> (Open(m) = {} /\ m \notin Processed))
    BY DEF CountInv
  <2>2. /\ Cardinality(Open(m) \ Met(n, m)) = Cardinality(Open(m)) - Cardinality(Met(n, m))
        /\ Cardinality(Open(m) \ Met(n, m)) = 0 <=> Open(m) \ Met(n, m) = {}
        /\ IsFiniteSet(Open(m) \ Met(n, m))
    BY <1>6, <1>7, CountRest
  <2>3. Reduced(n, m) = Cardinality(Open(m)') /\ (Reduced(n, m) = 0 <=> Open(m)' = {})
    BY <1>6, <2>1, <2>2 DEF Reduced
  <2>4. Reduced(n, m) \in Nat  BY <1>6, <2>2, <2>3, FS_CardinalityType
  <2>5. m \in Processed => Open(m) = {}
    BY <1>1 DEF OrderedInv, Processed, Open
  <2>6. Met(n, n) = {}  BY <1>5, <1>6
  <2>7. m \in queue' <=> (m \in queue /\ m # n) \/ (Met(n, m) # {} /\ Reduced(n, m) = 0)
    BY <1>2 DEF Free
  <2>8. QED  BY <1>4, <1>5, <1>6, <2>1, <2>3, <2>4, <2>5, <2>6, <2>7
<1>9. TypeOK'
  <2>1. order' \in Seq(Nodes)  BY <1>1, <1>2
  <2>2. queue' \subseteq Nodes  BY <1>1, <1>2
  <2>3. indegree' \in [Nodes -> Nat]  BY <1>2, <1>8
  <2>4. QED  BY <1>1, <1>2, <1>3, <2>1, <2>2, <2>3 DEF TypeOK
<1>10. CountInv'  BY <1>2, <1>3, <1>8 DEF CountInv
<1>11. OrderedInv'
  <2>1. DOMAIN order' = DOMAIN order \cup {Len(order) + 1} /\ Len(order) + 1 \notin DOMAIN order
    BY <1>1, <1>2
  <2>2. /\ order'[Len(order) + 1] = n
        /\ \A i \in DOMAIN order : order'[i] = order[i] /\ i < Len(order) + 1
    BY <1>1, <1>2
  <2>3. \A i \in DOMAIN order : order[i] # n  BY <1>5 DEF Processed
  <2>4. \A i, j \in DOMAIN order' : order'[i] = order'[j] => i = j
    BY <2>1, <2>2, <2>3 DEF OrderedInv
  <2>5. ASSUME NEW i \in DOMAIN order', NEW k \in Constraints, After(k) = order'[i]
        PROVE  \E j \in DOMAIN order' : j < i /\ order'[j] = Before(k)
    <3>1. CASE i \in DOMAIN order
      BY <2>1, <2>2, <2>5, <3>1 DEF OrderedInv
    <3>2. CASE i = Len(order) + 1
      <4>1. Before(k) \in Processed  BY <1>5, <2>2, <2>5, <3>2 DEF Open
      <4>2. QED  BY <2>1, <2>2, <3>2, <4>1 DEF Processed
    <3>3. QED  BY <2>1, <3>1, <3>2
  <2>6. QED  BY <1>3, <2>4, <2>5 DEF OrderedInv
<1> QED  BY <1>9, <1>10, <1>11

\* The rest of the check leaves the sort alone.
LEMMA SortKept ==
  ASSUME SortInv, UNCHANGED <<precedence, indegree, queue, order>>, TypeOK'
  PROVE  SortInv'
<1>1. Constraints' = Constraints /\ Nodes' = Nodes /\ Processed' = Processed
      /\ \A k : Before(k)' = Before(k) /\ After(k)' = After(k)
  BY DEF Constraints, Nodes, Processed, Before, After
<1>2. \A m : Open(m)' = Open(m)  BY <1>1 DEF Open
<1> QED  BY <1>1, <1>2 DEF SortInv, CountInv, OrderedInv

\* Whoever is left when nobody is free waits for another who is left.
LEMMA LeftoverWaits ==
  ASSUME SortInv, queue = {}, NEW m \in Leftover
  PROVE  \E k \in Constraints : After(k) = m /\ Before(k) \in Leftover
<1>1. m \in Nodes /\ m \notin Processed  BY DEF Leftover
<1>2. Open(m) # {}  BY <1>1 DEF SortInv, CountInv
<1>3. \A k \in Constraints : Before(k) \in Nodes  BY FiniteConstraints DEF SortInv, TypeOK
<1> QED  BY <1>2, <1>3 DEF Open, Leftover

-----------------------------------------------------------------------------
(* The verdict and the walk.                                               *)
LEMMA OrderInit == Init => OrderInv
<1> SUFFICES ASSUME Init PROVE OrderInv  OBVIOUS
<1>1. SortInv  BY SortInit
<1>2. VerdictInv /\ ChainInv /\ CycleIsOne
  BY DEF Init, VerdictInv, ChainInv, CycleIsOne, Unsorted
<1> QED  BY <1>1, <1>2 DEF OrderInv

\* Names for what does not change after the sort.
LEMMA SameProblem ==
  ASSUME UNCHANGED <<precedence, order>>
  PROVE  /\ Constraints' = Constraints /\ Nodes' = Nodes /\ Leftover' = Leftover
         /\ \A k : Before(k)' = Before(k) /\ After(k)' = After(k)
BY DEF Constraints, Nodes, Leftover, Processed, Before, After

\* Before the walk there is no chain.
LEMMA NotWalking ==
  ASSUME TypeOK, ChainInv, phase = "sorting"
  PROVE  chain = <<>>
<1>1. chain \in Seq(Nodes)  BY DEF TypeOK
<1>2. DOMAIN chain = {}  BY DEF ChainInv, Unsorted
<1>3. chain # <<>> => 1 \in DOMAIN chain  BY <1>1
<1> QED  BY <1>2, <1>3

LEMMA OrderProcess == ASSUME OrderInv, NEW n \in Nodes, Process(n) PROVE OrderInv'
<1>1. SortInv'  BY SortProcess DEF OrderInv
<1>2. phase = "sorting" /\ phase' = "sorting" /\ chain' = chain  BY DEF Process
<1>3. chain = <<>>  BY <1>2, NotWalking DEF OrderInv, SortInv
<1>4. VerdictInv' /\ ChainInv' /\ CycleIsOne'
  BY <1>2, <1>3 DEF VerdictInv, ChainInv, CycleIsOne, Unsorted
<1> QED  BY <1>1, <1>4 DEF OrderInv

LEMMA OrderAccept == ASSUME OrderInv, Accept PROVE OrderInv'
<1>1. /\ phase = "sorting" /\ phase' = "consistent" /\ Leftover = {}
      /\ UNCHANGED <<precedence, indegree, queue, order, chain, reported>>
  BY DEF Accept
<1>2. Nodes' = Nodes /\ Leftover' = {}  BY <1>1, SameProblem
<1>3. TypeOK'  BY <1>1, <1>2 DEF TypeOK, OrderInv, SortInv
<1>4. SortInv'  BY <1>1, <1>3, SortKept DEF OrderInv
<1>5. chain' = <<>>  BY <1>1, NotWalking DEF OrderInv, SortInv
<1>6. VerdictInv' /\ ChainInv' /\ CycleIsOne'
  BY <1>1, <1>2, <1>5 DEF VerdictInv, ChainInv, CycleIsOne, Unsorted
<1> QED  BY <1>4, <1>6 DEF OrderInv

LEMMA OrderStartWalk == ASSUME OrderInv, StartWalk PROVE OrderInv'
<1>1. /\ phase = "sorting" /\ phase' = "walking" /\ queue = {}
      /\ UNCHANGED <<precedence, indegree, queue, order, reported>>
  BY DEF StartWalk
<1>2. PICK n \in Leftover : chain' = <<n>>  BY DEF StartWalk
<1>3. Nodes' = Nodes /\ Leftover' = Leftover  BY <1>1, SameProblem
<1>4. n \in Nodes  BY DEF Leftover
<1>5. TypeOK'  BY <1>1, <1>2, <1>3, <1>4 DEF TypeOK, OrderInv, SortInv
<1>6. SortInv'  BY <1>1, <1>5, SortKept DEF OrderInv
<1>7. VerdictInv' /\ ChainInv' /\ CycleIsOne'
  BY <1>1, <1>2, <1>3 DEF VerdictInv, ChainInv, CycleIsOne, Unsorted
<1> QED  BY <1>6, <1>7 DEF OrderInv

LEMMA OrderWalk == ASSUME OrderInv, NEW k \in Constraints, Walk(k) PROVE OrderInv'
<1>1. /\ phase = "walking" /\ phase' = "walking" /\ chain' = Append(chain, Before(k))
      /\ UNCHANGED <<precedence, indegree, queue, order, reported>>
  BY DEF Walk
<1>2. /\ After(k) = chain[Len(chain)] /\ Before(k) \in Leftover
      /\ \A i \in DOMAIN chain : chain[i] # Before(k)
  BY DEF Walk, First, Inward, Current, Visited
<1>3. Nodes' = Nodes /\ Leftover' = Leftover /\ Constraints' = Constraints
      /\ \A l : Before(l)' = Before(l) /\ After(l)' = After(l)
  BY <1>1, SameProblem
<1>4. Before(k) \in Nodes  BY <1>2 DEF Leftover
<1>5. chain \in Seq(Nodes)  BY DEF OrderInv, SortInv, TypeOK
<1>6. /\ chain' \in Seq(Nodes) /\ chain' # <<>>
      /\ DOMAIN chain' = DOMAIN chain \cup {Len(chain) + 1} /\ Len(chain) + 1 \notin DOMAIN chain
      /\ DOMAIN chain = 1 .. Len(chain) /\ Len(chain) \in Nat
      /\ chain'[Len(chain) + 1] = Before(k) /\ \A i \in DOMAIN chain : chain'[i] = chain[i]
  BY <1>1, <1>4, <1>5
<1>7. TypeOK'  BY <1>1, <1>3, <1>6 DEF TypeOK, OrderInv, SortInv
<1>8. SortInv'  BY <1>1, <1>7, SortKept DEF OrderInv
<1>9. VerdictInv'  BY <1>1, <1>3, <1>6 DEF VerdictInv, Unsorted, OrderInv
<1>10. ChainInv'
  <2>1. \A i \in DOMAIN chain' : Unsorted' /\ chain'[i] \in Leftover'
    BY <1>1, <1>2, <1>3, <1>6 DEF OrderInv, ChainInv, Unsorted
  <2>2. \A i, j \in DOMAIN chain' : chain'[i] = chain'[j] => i = j
    BY <1>2, <1>6 DEF OrderInv, ChainInv
  <2>3. ASSUME NEW i \in DOMAIN chain', i + 1 \in DOMAIN chain'
        PROVE  \E l \in Constraints : Before(l) = chain'[i + 1] /\ After(l) = chain'[i]
    <3>1. CASE i + 1 \in DOMAIN chain
      <4>1. i \in DOMAIN chain  BY <1>6, <2>3, <3>1
      <4>2. QED  BY <1>6, <3>1, <4>1 DEF OrderInv, ChainInv
    <3>2. CASE i + 1 = Len(chain) + 1
      <4>1. i = Len(chain) /\ i \in DOMAIN chain  BY <1>6, <2>3, <3>2
      <4>2. QED  BY <1>2, <1>6, <3>2, <4>1
    <3>3. QED  BY <1>6, <2>3, <3>1, <3>2
  <2>4. QED  BY <1>3, <2>1, <2>2, <2>3 DEF ChainInv
<1>11. CycleIsOne'  BY <1>1 DEF CycleIsOne
<1> QED  BY <1>8, <1>9, <1>10, <1>11 DEF OrderInv

LEMMA OrderClose == ASSUME OrderInv, NEW k \in Constraints, Close(k) PROVE OrderInv'
<1>1. /\ phase = "walking" /\ phase' = "circular"
      /\ UNCHANGED <<precedence, indegree, queue, order, chain>>
  BY DEF Close
<1>2. PICK idx \in DOMAIN chain : chain[idx] = Before(k) /\ reported' = Cycle(idx, Before(k))
  BY DEF Close
<1>3. After(k) = chain[Len(chain)] /\ Before(k) # chain[Len(chain)]
  BY DEF Close, First, Inward, Current
<1>4. Nodes' = Nodes /\ Leftover' = Leftover /\ Constraints' = Constraints
      /\ \A l : Before(l)' = Before(l) /\ After(l)' = After(l)
  BY <1>1, SameProblem
<1>5. /\ chain \in Seq(Nodes) /\ DOMAIN chain = 1 .. Len(chain) /\ Len(chain) \in Nat
      /\ idx \in Nat /\ 1 <= idx /\ idx < Len(chain)
  BY <1>2, <1>3 DEF OrderInv, SortInv, TypeOK
<1> DEFINE L == Len(chain) - idx + 2
<1>6. L \in Nat /\ L > 2 /\ L <= Len(chain) + 1  BY <1>5
<1>7. /\ reported' \in Seq(Nodes) /\ Len(reported') = L
      /\ reported'[1] = chain[idx] /\ \A i \in 2 .. L : reported'[i] = chain[Len(chain) + 2 - i]
  <2>1. \A i \in 2 .. L : Len(chain) + 2 - i \in DOMAIN chain  BY <1>5
  <2>2. reported' = [i \in 1 .. L |-> IF i = 1 THEN chain[idx] ELSE chain[Len(chain) + 2 - i]]
    BY <1>2 DEF Cycle
  <2>3. \A i \in 1 .. L : reported'[i] \in Nodes  BY <1>2, <1>5, <2>1, <2>2
  <2>4. reported' \in Seq(Nodes) /\ Len(reported') = L  BY <1>6, <2>2, <2>3
  <2>5. QED  BY <1>6, <2>2, <2>4
<1>8. TypeOK'  BY <1>1, <1>4, <1>7 DEF TypeOK, OrderInv, SortInv
<1>9. SortInv'  BY <1>1, <1>8, SortKept DEF OrderInv
<1>10. VerdictInv' /\ ChainInv'
  BY <1>1, <1>4 DEF OrderInv, VerdictInv, ChainInv, Unsorted
<1>11. CycleIsOne'
  <2>1. reported'[L] = chain[idx]  BY <1>5, <1>6, <1>7
  <2>2. ASSUME NEW i \in 1 .. L - 1
        PROVE  \E l \in Constraints : Before(l) = reported'[i] /\ After(l) = reported'[i + 1]
    <3>1. CASE i = 1
      <4>1. reported'[2] = chain[Len(chain)]  BY <1>5, <1>6, <1>7
      <4>2. QED  BY <1>2, <1>3, <1>7, <3>1, <4>1
    <3>2. CASE i # 1
      <4> DEFINE j == Len(chain) + 1 - i
      <4>1. j \in DOMAIN chain /\ j + 1 \in DOMAIN chain  BY <1>5, <1>6, <2>2, <3>2
      <4>2. reported'[i] = chain[j + 1] /\ reported'[i + 1] = chain[j]
        <5>1. i \in 2 .. L /\ i + 1 \in 2 .. L  BY <1>6, <2>2, <3>2
        <5>2. Len(chain) + 2 - i = j + 1 /\ Len(chain) + 2 - (i + 1) = j  BY <1>5, <5>1
        <5>3. QED  BY <1>7, <5>1, <5>2
      <4>3. QED  BY <4>1, <4>2 DEF OrderInv, ChainInv
    <3>3. QED  BY <3>1, <3>2
  <2>3. QED  BY <1>4, <1>6, <1>7, <2>1, <2>2 DEF CycleIsOne
<1> QED  BY <1>9, <1>10, <1>11 DEF OrderInv

LEMMA OrderGiveUp == ASSUME OrderInv, GiveUp PROVE OrderInv'
<1>1. /\ phase = "walking" /\ phase' = "circular" /\ Inward = {}
      /\ UNCHANGED <<precedence, indegree, queue, order, chain>>
  BY DEF GiveUp, Stuck
<1>2. PICK s \in [1 .. Cardinality(Leftover) -> Leftover] : reported' = s
  BY DEF GiveUp
<1>3. Nodes' = Nodes /\ Leftover' = Leftover /\ Constraints' = Constraints
      /\ \A l : Before(l)' = Before(l) /\ After(l)' = After(l)
  BY <1>1, SameProblem
<1>4. Cardinality(Leftover) \in Nat
  <2>1. IsFiniteSet(Leftover)
    BY FiniteNodes, FS_Subset DEF OrderInv, SortInv, TypeOK, Leftover
  <2>2. QED  BY <2>1, FS_CardinalityType
<1>5. reported' \in Seq(Nodes)
  <2>1. Leftover \subseteq Nodes  BY DEF Leftover
  <2>2. \A i \in 1 .. Cardinality(Leftover) : s[i] \in Nodes  BY <2>1
  <2>3. s \in [1 .. Cardinality(Leftover) -> Nodes]  BY <2>2
  <2>4. QED  BY <1>2, <1>4, <2>3
<1>6. TypeOK'  BY <1>1, <1>3, <1>5 DEF TypeOK, OrderInv, SortInv
<1>7. SortInv'  BY <1>1, <1>6, SortKept DEF OrderInv
<1>8. VerdictInv' /\ ChainInv'
  BY <1>1, <1>3 DEF OrderInv, VerdictInv, ChainInv, Unsorted
<1>9. \E k \in Constraints : Before(k) = After(k)
  <2>1. /\ chain \in Seq(Nodes) /\ chain # <<>> /\ queue = {}
    BY <1>1 DEF OrderInv, SortInv, TypeOK, VerdictInv, Unsorted
  <2>2. Current \in Leftover
    <3>1. Len(chain) \in DOMAIN chain  BY <2>1
    <3>2. QED  BY <3>1 DEF OrderInv, ChainInv, Current
  <2>3. PICK k \in Constraints : After(k) = Current /\ Before(k) \in Leftover
    BY <2>1, <2>2, LeftoverWaits DEF OrderInv
  <2>4. QED  BY <1>1, <2>3 DEF Inward
<1>10. CycleIsOne'  BY <1>3, <1>9 DEF CycleIsOne
<1> QED  BY <1>7, <1>8, <1>10 DEF OrderInv

LEMMA OrderNext == OrderInv /\ [Next]_vars => OrderInv'
<1> SUFFICES ASSUME OrderInv, [Next]_vars PROVE OrderInv'  OBVIOUS
<1>1. CASE UNCHANGED vars
  <2>1. UNCHANGED <<precedence, indegree, queue, order, phase, chain, reported>>
    BY <1>1 DEF vars
  <2>2. Nodes' = Nodes /\ Leftover' = Leftover /\ Constraints' = Constraints
        /\ \A l : Before(l)' = Before(l) /\ After(l)' = After(l)
    BY <2>1, SameProblem
  <2>3. TypeOK'  BY <2>1, <2>2 DEF TypeOK, OrderInv, SortInv
  <2>4. SortInv'  BY <2>1, <2>3, SortKept DEF OrderInv
  <2>5. VerdictInv' /\ ChainInv' /\ CycleIsOne'
    BY <2>1, <2>2 DEF OrderInv, VerdictInv, ChainInv, CycleIsOne, Unsorted
  <2>6. QED  BY <2>4, <2>5 DEF OrderInv
<1>2. CASE Next
  BY <1>2, OrderProcess, OrderAccept, OrderStartWalk, OrderWalk, OrderClose, OrderGiveUp DEF Next
<1> QED  BY <1>1, <1>2

\* Every step of the construction and of the cycle walk keeps its invariant.
THEOREM OrderInvariant == Spec => []OrderInv
<1>1. Init => OrderInv  BY OrderInit
<1>2. OrderInv /\ [Next]_vars => OrderInv'  BY OrderNext
<1> QED  BY <1>1, <1>2, PTL DEF Spec

-----------------------------------------------------------------------------
(* What follows.                                                           *)
\* Every variable has its type, whatever the constraints.
THEOREM OrderTypeCorrect == Spec => []TypeOK
<1>1. OrderInv => TypeOK  BY DEF OrderInv, SortInv
<1> QED  BY <1>1, OrderInvariant, PTL

LEMMA ConsistentHasOrder == OrderInv => OrderExists
<1> SUFFICES ASSUME OrderInv, phase = "consistent"
             PROVE  /\ Processed = Nodes
                    /\ \A i, j \in DOMAIN order : order[i] = order[j] => i = j
                    /\ \A k \in Constraints : \E i, j \in DOMAIN order :
                         i < j /\ order[i] = Before(k) /\ order[j] = After(k)
  BY DEF OrderExists
<1>1. Processed = Nodes
  BY DEF OrderInv, SortInv, TypeOK, VerdictInv, Leftover, Processed
<1>2. ASSUME NEW k \in Constraints
      PROVE  \E i, j \in DOMAIN order : i < j /\ order[i] = Before(k) /\ order[j] = After(k)
  <2>1. After(k) \in Processed  BY <1>1, FiniteConstraints DEF OrderInv, SortInv, TypeOK
  <2>2. QED  BY <2>1 DEF OrderInv, SortInv, OrderedInv, Processed
<1> QED  BY <1>1, <1>2 DEF OrderInv, SortInv, OrderedInv

\* Constraints that are called consistent have an order.
THEOREM ConsistentOrdered == Spec => []OrderExists
BY ConsistentHasOrder, OrderInvariant, PTL

LEMMA CircularHasNone == OrderInv => NoOrderExists
<1> SUFFICES ASSUME OrderInv, phase \in {"walking", "circular"},
                    NEW rank \in [Nodes -> 1 .. Cardinality(Nodes)],
                    \A k \in Constraints : ~(rank[Before(k)] >= rank[After(k)])
             PROVE  FALSE
  BY DEF NoOrderExists
<1>1. queue = {} /\ Leftover # {} /\ Leftover \subseteq Nodes
  BY DEF OrderInv, VerdictInv, Unsorted, Leftover
<1>2. Cardinality(Nodes) \in Nat
  BY FiniteNodes, FS_CardinalityType DEF OrderInv, SortInv, TypeOK
<1>3. \A m \in Nodes : rank[m] \in Nat  BY <1>2
<1> DEFINE Lower(m) == {l \in Nodes : rank[l] < rank[m]}
           Lowers == {Lower(m) : m \in Leftover}
<1>4. IsWellFoundedOn(StrictSubsetOrdering(Nodes), FiniteSubsetsOf(Nodes))
  BY FS_StrictSubsetOrderingWellFounded
<1>5. Lowers \subseteq FiniteSubsetsOf(Nodes) /\ Lowers # {}
  <2>1. IsFiniteSet(Nodes)  BY FiniteNodes DEF OrderInv, SortInv, TypeOK
  <2>2. FiniteSubsetsOf(Nodes) = SUBSET Nodes  BY <2>1, FS_FiniteSubsetsOfFinite
  <2>3. \A m : Lower(m) \in SUBSET Nodes  OBVIOUS
  <2>4. Lowers \subseteq SUBSET Nodes /\ Lowers # {}  BY <1>1, <2>3
  <2>5. QED  BY <2>2, <2>4
<1>6. PICK x \in Lowers : \A y \in Lowers : <<y, x>> \notin StrictSubsetOrdering(Nodes)
  <2> HIDE DEF Lowers
  <2> QED  BY <1>4, <1>5, WFMin
<1>7. PICK m \in Leftover : x = Lower(m)  OBVIOUS
<1>8. PICK k \in Constraints : After(k) = m /\ Before(k) \in Leftover
  BY <1>1, LeftoverWaits DEF OrderInv
<1>9. rank[Before(k)] < rank[m]  BY <1>1, <1>3, <1>8
<1>10. Lower(Before(k)) \subseteq Lower(m)  BY <1>1, <1>3, <1>8, <1>9
<1>11. Before(k) \in Lower(m) /\ Before(k) \notin Lower(Before(k))  BY <1>1, <1>3, <1>8, <1>9
<1>12. <<Lower(Before(k)), Lower(m)>> \in StrictSubsetOrdering(Nodes)
  BY <1>10, <1>11 DEF StrictSubsetOrdering
<1> QED  BY <1>6, <1>7, <1>8, <1>12

\* Constraints that are not called consistent have none.
THEOREM CircularUnordered == Spec => []NoOrderExists
BY CircularHasNone, OrderInvariant, PTL

\* The cycle that is named is one.
THEOREM CycleNamed == Spec => []CycleIsOne
<1>1. OrderInv => CycleIsOne  BY DEF OrderInv
<1> QED  BY <1>1, OrderInvariant, PTL

LEMMA ChainIsShort == OrderInv => WalkBounded
<1> SUFFICES ASSUME OrderInv PROVE Len(chain) <= Cardinality(Nodes)  BY DEF WalkBounded
<1>1. chain \in Seq(Nodes) /\ Len(chain) \in Nat /\ DOMAIN chain = 1 .. Len(chain)
  BY DEF OrderInv, SortInv, TypeOK
<1>2. chain \in Injection(1 .. Len(chain), Nodes)
  BY <1>1 DEF Injection, IsInjective, OrderInv, ChainInv
<1>3. Cardinality(1 .. Len(chain)) = Len(chain)  BY <1>1, FS_Interval
<1>4. IsFiniteSet(Nodes)  BY FiniteNodes DEF OrderInv, SortInv, TypeOK
<1>5. Cardinality(1 .. Len(chain)) <= Cardinality(Nodes)  BY <1>2, <1>4, FS_Injection
<1> QED  BY <1>3, <1>5

\* The bound on the rounds of the walk is never reached.
THEOREM WalkComesBack == Spec => []WalkBounded
BY ChainIsShort, OrderInvariant, PTL

\* The verdict of the check is the truth, for any constraints on any cities (while
\* queue, leftover).
THEOREM VerdictIsRight == Spec => []VerdictRight
<1>1. OrderExists /\ NoOrderExists => VerdictRight  BY DEF VerdictRight
<1> QED  BY <1>1, ConsistentOrdered, CircularUnordered, PTL

\* The walk finds its cycle in time, for any constraints without self-references
\* (for _ in range(len(nodes) + 1)).
THEOREM CycleIsFound == Spec => []CycleFound
<1>1. CycleIsOne /\ WalkBounded => CycleFound  BY DEF CycleFound
<1> QED  BY <1>1, CycleNamed, WalkComesBack, PTL

-----------------------------------------------------------------------------
(* The team.                                                               *)
\* What the members of a deterministic team say of p, all together.
TeamSays(p) == UNION {Specialist(p, a) : a \in Team(p)}

\* Metrics of runs that have completed.
Completed == [status : {"completed"}, passed : BOOLEAN, escalation : {FALSE}]
MetricsInv ==
  /\ \A i \in DOMAIN runs : runs[i] \in Completed
  /\ \A i \in DOMAIN golden : golden[i] \in Completed

\* Between two problems the session still has what the last team said, and has
\* judged it; only the members of the team have spoken.
SessionInv ==
  /\ pc = "working" => problem \in Problems /\ DOMAIN said \subseteq Team(problem)
  /\ pc = "idle" /\ problem # Nothing =>
       /\ problem \in Problems /\ DOMAIN said = Team(problem)
       /\ problem.id \in DOMAIN runs /\ runs[problem.id] = Metric(problem, Decision)
  /\ adapter = "deterministic" => \A a \in DOMAIN said : said[a] = Specialist(problem, a)

\* The last answer of POST /execute, if it is about a problem of the benchmark.
ResponseInv ==
  \A p \in Benchmark : response.id = p.id =>
    \/ response.status = "rejected"
    \/ /\ response.status = (IF State(p) = "IMPOSSIBLE" THEN "completed_abstained"
                                                        ELSE "completed")
       /\ response.says = {Recommendation(p, a) : a \in Scope(p.words)}

\* What a problem declares, and whether it has a loop that is found; the shapes the
\* benchmark has.
Declares(p, kind, ordering, flagged, roads, expected) ==
  /\ p.kind = kind /\ p.order = ordering /\ p.flagged = flagged /\ p.roads = roads
  /\ p.listed = roads /\ p.expected = expected

Small(p)   == p.cities \in 3..7 /\ Declares(p, "tsp", "none", FALSE, TRUE, "cheapest")
Big(p)     == p.cities = 15 /\ Declares(p, "tsp", "none", FALSE, TRUE, "none")
              /\ p.heuristic = "drivable"
Split(p)   == p.cities = 10 /\ Declares(p, "vrp", "none", FALSE, TRUE, "none")
Islands(p) == p.cities = 4 /\ Declares(p, "tsp", "none", TRUE, FALSE, "none")
Loop(p)    == p.cities = 3 /\ Declares(p, "precedence", "circular", FALSE, FALSE, "none")

TeamInv == MetricsInv /\ SessionInv /\ ResponseInv /\ ComparisonTells

-----------------------------------------------------------------------------
(* Problems.                                                               *)
\* The five shapes of the problems of the benchmark.
LEMMA BenchmarkTable ==
  \A p \in Benchmark : Small(p) \/ Big(p) \/ Split(p) \/ Islands(p) \/ Loop(p)
<1>1. Small(Problem1)  BY DEF Problem1, Plain, Small, Declares
<1>2. Small(Problem2)  BY DEF Problem2, Plain, Small, Declares
<1>3. Small(Problem3)  BY DEF Problem3, Plain, Small, Declares
<1>4. Small(Problem4)  BY DEF Problem4, Plain, Small, Declares
<1>5. Small(Problem5)  BY DEF Problem5, Plain, Small, Declares
<1>6. Small(Problem6)  BY DEF Problem6, Plain, Small, Declares
<1>7. Big(Problem7)  BY DEF Problem7, Plain, Big, Declares
<1>8. Split(Problem8)  BY DEF Problem8, Plain, Split, Declares
<1>9. Islands(Problem9)  BY DEF Problem9, Plain, Islands, Declares
<1>10. Loop(Problem10)  BY DEF Problem10, Plain, Loop, Declares
<1> QED  BY <1>1, <1>2, <1>3, <1>4, <1>5, <1>6, <1>7, <1>8, <1>9, <1>10 DEF Benchmark

LEMMA BenchmarkIds == \A p, q \in Benchmark : p.id # 0 /\ (p.id = q.id => p = q)
<1>1. Problem1.id = 1  BY DEF Problem1, Plain
<1>2. Problem2.id = 2  BY DEF Problem2, Plain
<1>3. Problem3.id = 3  BY DEF Problem3, Plain
<1>4. Problem4.id = 4  BY DEF Problem4, Plain
<1>5. Problem5.id = 5  BY DEF Problem5, Plain
<1>6. Problem6.id = 6  BY DEF Problem6, Plain
<1>7. Problem7.id = 7  BY DEF Problem7, Plain
<1>8. Problem8.id = 8  BY DEF Problem8, Plain
<1>9. Problem9.id = 9  BY DEF Problem9, Plain
<1>10. Problem10.id = 10  BY DEF Problem10, Plain
<1> QED  BY <1>1, <1>2, <1>3, <1>4, <1>5, <1>6, <1>7, <1>8, <1>9, <1>10 DEF Benchmark

LEMMA ProblemTyped ==
  ASSUME NEW p \in Problems
  PROVE  /\ p.order \in {"none", "consistent", "circular"} /\ p.cities \in Nat
         /\ p.flagged \in BOOLEAN /\ p.roads \in BOOLEAN /\ p.listed \in BOOLEAN
         /\ p.expected \in {"none", "cheapest", "dearer", "wrong"}
         /\ p.listed => p.roads
         /\ p.roads /\ ~p.first => p.listed
<1>1. CASE p \in Benchmark
  <2> DEFINE Told == /\ p.flagged \in BOOLEAN /\ p.roads \in BOOLEAN /\ p.listed \in BOOLEAN
                     /\ (p.listed => p.roads) /\ (p.roads => p.listed)
             Numbers == /\ p.order \in {"none", "consistent", "circular"} /\ p.cities \in Nat
                        /\ p.expected \in {"none", "cheapest", "dearer", "wrong"}
  <2>1. Small(p) => Told  BY Zenon DEF Small, Declares
  <2>2. Big(p) => Told  BY Zenon DEF Big, Declares
  <2>3. Split(p) => Told  BY Zenon DEF Split, Declares
  <2>4. Islands(p) => Told  BY Zenon DEF Islands, Declares
  <2>5. Loop(p) => Told  BY Zenon DEF Loop, Declares
  <2>6. Small(p) => Numbers  BY DEF Small, Declares
  <2>7. Big(p) => Numbers  BY DEF Big, Declares
  <2>8. Split(p) => Numbers  BY DEF Split, Declares
  <2>9. Islands(p) => Numbers  BY DEF Islands, Declares
  <2>10. Loop(p) => Numbers  BY DEF Loop, Declares
  <2> HIDE DEF Told, Numbers
  <2>11. Told /\ Numbers
    BY <1>1, <2>1, <2>2, <2>3, <2>4, <2>5, <2>6, <2>7, <2>8, <2>9, <2>10, BenchmarkTable
  <2> QED  BY <2>11 DEF Told, Numbers
<1>2. CASE p \in Others  BY <1>2, TeamAssumption DEF Shape
<1> QED  BY <1>1, <1>2 DEF Problems

\* What a team says of each kind of problem.
LEMMA TeamsSay ==
  ASSUME NEW p \in Problems
  PROVE  /\ p.order # "none" => TeamSays(p) = DependencyChecker(p)
         /\ p.order = "none" /\ p.flagged => TeamSays(p) = GraphBuilder(p) \cup RouteValidator(p)
         /\ p.order = "none" /\ ~p.flagged /\ p.kind = "vrp" =>
              TeamSays(p) = VrpSplitter(p) \cup VrpValidator(p)
         /\ p.order = "none" /\ ~p.flagged /\ p.kind # "vrp" /\ ~Large(p) =>
              TeamSays(p) = GraphBuilder(p) \cup TourEngine(p) \cup RouteValidator(p)
         /\ p.order = "none" /\ ~p.flagged /\ p.kind # "vrp" /\ Large(p) =>
              TeamSays(p) = GraphBuilder(p) \cup Heuristic(p) \cup Specialist(p, "optimizer")
<1>1. Specialist(p, "graph_builder") = GraphBuilder(p)
      /\ Specialist(p, "tour_engine") = TourEngine(p)
      /\ Specialist(p, "route_validator") = RouteValidator(p)
      /\ Specialist(p, "vrp_splitter") = VrpSplitter(p)
      /\ Specialist(p, "vrp_validator") = VrpValidator(p)
      /\ Specialist(p, "dependency_checker") = DependencyChecker(p)
      /\ Specialist(p, "order_reviewer") = DependencyChecker(p)
  BY DEF Specialist, OrderReviewer
<1>2. Large(p) => TourEngine(p) = Heuristic(p) /\ RouteValidator(p) = Heuristic(p)
  BY DEF TourEngine, RouteValidator
<1>3. CASE p.order # "none"
  <2>1. Team(p) = {"dependency_checker", "order_reviewer"}  BY <1>3 DEF Team
  <2> QED  BY <1>1, <1>3, <2>1 DEF TeamSays
<1>4. CASE p.order = "none" /\ p.flagged
  <2>1. Team(p) = {"graph_builder", "route_validator"}  BY <1>4 DEF Team
  <2> QED  BY <1>1, <1>4, <2>1 DEF TeamSays
<1>5. CASE p.order = "none" /\ ~p.flagged /\ p.kind = "vrp"
  <2>1. Team(p) = {"vrp_splitter", "vrp_validator"}  BY <1>5 DEF Team
  <2> QED  BY <1>1, <1>5, <2>1 DEF TeamSays
<1>6. CASE p.order = "none" /\ ~p.flagged /\ p.kind # "vrp" /\ ~Large(p)
  <2>1. Team(p) = {"graph_builder", "tour_engine", "route_validator"}  BY <1>6 DEF Team
  <2> QED  BY <1>1, <1>6, <2>1 DEF TeamSays
<1>7. CASE p.order = "none" /\ ~p.flagged /\ p.kind # "vrp" /\ Large(p)
  <2>1. Team(p) = {"graph_builder", "tour_engine", "route_validator", "optimizer"}
    BY <1>7 DEF Team
  <2> QED  BY <1>1, <1>2, <1>7, <2>1 DEF TeamSays
<1> QED  BY <1>3, <1>4, <1>5, <1>6, <1>7, ProblemTyped

\* No team contradicts itself, and what it says of a problem that is neither a split
\* nor large is true, "impossible" of one with a first stop excepted.
LEMMA TeamIsRight ==
  ASSUME NEW p \in Problems
  PROVE  LET S == TeamSays(p)
         IN  /\ ~({"tour", "impossible"} \subseteq S) /\ ~({"circular", "consistent"} \subseteq S)
             /\ p.kind # "vrp" /\ ~Large(p) =>
                  /\ ~Solvable(p) => "impossible" \in S
                  /\ "impossible" \in S => ~Solvable(p) \/ (p.order = "none" /\ p.first)
                  /\ p.order = "none" => /\ "tour" \in S => Solvable(p)
                                         /\ S \cap {"tour", "impossible"} # {}
<1> DEFINE S == TeamSays(p)
<1>1. CASE p.order # "none"
  <2>1. S = DependencyChecker(p)  BY <1>1, TeamsSay
  <2> QED  BY <1>1, <2>1, ProblemTyped DEF DependencyChecker, Solvable
<1>2. CASE p.order = "none" /\ p.flagged
  <2>1. S = GraphBuilder(p) \cup RouteValidator(p)  BY <1>2, TeamsSay
  <2> QED  BY <1>2, <2>1, ProblemTyped DEF GraphBuilder, RouteValidator, Heuristic, NoLoop, Solvable
<1>3. CASE p.order = "none" /\ ~p.flagged /\ p.kind = "vrp"
  <2>1. S = VrpSplitter(p) \cup VrpValidator(p)  BY <1>3, TeamsSay
  <2> QED  BY <1>3, <2>1 DEF VrpSplitter, VrpValidator
<1>4. CASE p.order = "none" /\ ~p.flagged /\ p.kind # "vrp" /\ ~Large(p)
  <2>1. S = GraphBuilder(p) \cup TourEngine(p) \cup RouteValidator(p)  BY <1>4, TeamsSay
  <2> QED  BY <1>4, <2>1, ProblemTyped DEF GraphBuilder, RouteValidator, TourEngine, NoLoop, Solvable
<1>5. CASE p.order = "none" /\ ~p.flagged /\ p.kind # "vrp" /\ Large(p)
  <2>1. S = GraphBuilder(p) \cup Heuristic(p) \cup Specialist(p, "optimizer")  BY <1>5, TeamsSay
  <2> QED  BY <1>5, <2>1 DEF GraphBuilder, Heuristic, Specialist
<1> QED  BY <1>1, <1>2, <1>3, <1>4, <1>5, ProblemTyped

\* What passes has been declared for what it is, or passes by one of two accidents.
LEMMA PassingIsRight ==
  ASSUME NEW p \in Problems, Passed(p, TeamSays(p)), p.kind # "vrp", ~Large(p)
  PROVE  IF p.flagged \/ p.order # "none"
         THEN ~Solvable(p) \/ (p.order = "none" /\ p.first)
         ELSE \/ Solvable(p) /\ p.expected # "wrong"
              \/ p.expected # "none" /\ p.echo
<1> DEFINE S == TeamSays(p)
<1>1. CASE p.order # "none"
  <2>1. S = DependencyChecker(p)  BY <1>1, TeamsSay
  <2> QED  BY <1>1, <2>1, ProblemTyped DEF DependencyChecker, Solvable, Passed
<1>2. CASE p.order = "none" /\ p.flagged
  <2>1. S = GraphBuilder(p) \cup RouteValidator(p)  BY <1>2, TeamsSay
  <2> QED  BY <1>2, <2>1, ProblemTyped DEF GraphBuilder, RouteValidator, NoLoop, Solvable, Passed
<1>3. CASE p.order = "none" /\ ~p.flagged
  <2>1. S = GraphBuilder(p) \cup TourEngine(p) \cup RouteValidator(p)  BY <1>3, TeamsSay
  <2> QED  BY <1>3, <2>1, ProblemTyped DEF GraphBuilder, RouteValidator, TourEngine, NoLoop, Solvable, Passed
<1> QED  BY <1>1, <1>2, <1>3, ProblemTyped

LEMMA BenchmarkPasses == ASSUME NEW p \in Benchmark PROVE Passed(p, TeamSays(p))
<1> DEFINE S == TeamSays(p)
<1>0. p \in Problems  BY DEF Problems
<1>1. CASE Small(p)
  <2>1. S = GraphBuilder(p) \cup TourEngine(p) \cup RouteValidator(p)
    BY <1>0, <1>1, TeamsSay DEF Small, Declares, Large
  <2> QED  BY <1>1, <2>1 DEF GraphBuilder, Small, Declares, Large, TourEngine, Passed
<1>2. CASE Big(p)
  <2>1. S = GraphBuilder(p) \cup Heuristic(p) \cup Specialist(p, "optimizer")
    BY <1>0, <1>2, TeamsSay DEF Big, Declares, Large
  <2> QED  BY <1>2, <2>1 DEF GraphBuilder, Big, Declares, Heuristic, Specialist, Passed
<1>3. CASE Split(p)
  <2>1. S = VrpSplitter(p) \cup VrpValidator(p)  BY <1>0, <1>3, TeamsSay DEF Split, Declares
  <2> QED  BY <1>3, <2>1 DEF VrpSplitter, Split, Declares, VrpValidator, Passed
<1>4. CASE Islands(p)
  <2>1. S = GraphBuilder(p) \cup RouteValidator(p)  BY <1>0, <1>4, TeamsSay DEF Islands, Declares
  <2> QED  BY <1>4, <2>1 DEF GraphBuilder, Islands, Declares, Large, RouteValidator, NoLoop, Passed
<1>5. CASE Loop(p)
  <2>1. S = DependencyChecker(p)  BY <1>0, <1>5, TeamsSay DEF Loop, Declares
  <2> QED  BY <1>5, <2>1 DEF Loop, Declares, DependencyChecker, Passed
<1> QED  BY <1>1, <1>2, <1>3, <1>4, <1>5, BenchmarkTable

\* What the specialists of POST /execute recommend.
LEMMA SpecialistsSay ==
  ASSUME NEW p
  PROVE  LET says == {Recommendation(p, a) : a \in Scope(p.words)}
         IN  /\ "circular" \in says => p.order # "none"
             /\ "tour" \in says => State(p) # "IMPOSSIBLE"
<1>1. Capabilities(p.words) \subseteq DOMAIN AgentFor  BY DEF Capabilities, AgentFor
<1>2. \A c \in DOMAIN AgentFor :
        AgentFor[c] \in {"route-optimizer", "constraint-agent", "graph-analysis-agent", "vrp-agent"}
  BY DEF AgentFor
<1>3. \A a \in Scope(p.words) :
        a \in {"route-optimizer", "constraint-agent", "graph-analysis-agent", "vrp-agent"}
  BY <1>1, <1>2 DEF Scope
<1>4. \A a \in Scope(p.words) : Recommendation(p, a) = "circular" => p.order # "none"
  BY <1>3 DEF Recommendation
<1>5. \A a \in Scope(p.words) : Recommendation(p, a) = "tour" => State(p) # "IMPOSSIBLE"
  BY <1>3 DEF Recommendation
<1> QED  BY <1>4, <1>5

-----------------------------------------------------------------------------
(* The session keeps its invariant.                                        *)
LEMMA MetricCompleted == \A p, d : Metric(p, d) \in Completed
<1>1. \A p, d : Passed(p, d) \in BOOLEAN  BY DEF Passed
<1> QED  BY <1>1 DEF Metric, Completed

LEMMA DifferencesTell ==
  ASSUME NEW m \in Completed, NEW g \in Completed, NEW i
  PROVE  /\ Differences(m, g, i) = {} <=> m = g
         /\ \A r \in Differences(m, g, i) : r[1] = i
<1>1. m = g <=> m.status = g.status /\ m.passed = g.passed /\ m.escalation = g.escalation
  BY DEF Completed
<1>2. m = g => Differences(m, g, i) = {}  BY DEF Differences
<1>3. ASSUME m # g PROVE Differences(m, g, i) # {}
  <2>1. \E issue : <<i, issue>> \in Differences(m, g, i)  BY <1>1, <1>3 DEF Differences
  <2> QED  BY <2>1
<1>4. \A S : \A r \in {<<i, issue>> : issue \in S} : r[1] = i  OBVIOUS
<1>5. \A r \in Differences(m, g, i) : r[1] = i  BY ONLY <1>4 DEF Differences
<1> QED  BY <1>2, <1>3, <1>5

LEMMA TeamStarts == TeamInit => TeamInv
<1> SUFFICES ASSUME TeamInit PROVE TeamInv  OBVIOUS
<1>1. DOMAIN Empty = {}  BY DEF Empty
<1>2. MetricsInv  BY <1>1 DEF TeamInit, MetricsInv
<1>3. SessionInv  BY <1>1 DEF TeamInit, SessionInv
<1>4. ResponseInv  BY BenchmarkIds DEF TeamInit, ResponseInv, Nothing
<1>5. ComparisonTells  BY DEF TeamInit, ComparisonTells
<1> QED  BY <1>2, <1>3, <1>4, <1>5 DEF TeamInv

LEMMA TeamPlan ==
  ASSUME TeamInv, NEW p \in Problems, NEW how, Plan(p, how)
  PROVE  TeamInv'
<1> USE DEF TeamInv, Plan
<1>1. MetricsInv'  BY DEF MetricsInv
<1>2. SessionInv'  BY DEF SessionInv, Empty
<1>3. ResponseInv'  BY BenchmarkIds DEF ResponseInv, Nothing
<1>4. ComparisonTells'  BY DEF ComparisonTells
<1> QED  BY <1>1, <1>2, <1>3, <1>4

LEMMA TeamWork == ASSUME TeamInv, NEW a, Work(a) PROVE TeamInv'
<1> USE DEF TeamInv, Work
<1>1. MetricsInv'  BY DEF MetricsInv
<1>2. SessionInv'
  <2>1. DOMAIN said' = DOMAIN said \cup {a} /\ a \in Team(problem)  OBVIOUS
  <2>2. adapter = "deterministic" => said'[a] = Specialist(problem, a)  OBVIOUS
  <2>3. \A b \in DOMAIN said : b # a => said'[b] = said[b]  OBVIOUS
  <2> QED  BY <2>1, <2>2, <2>3 DEF SessionInv
<1>3. ResponseInv'  BY DEF ResponseInv
<1>4. ComparisonTells'  BY DEF ComparisonTells
<1> QED  BY <1>1, <1>2, <1>3, <1>4

LEMMA TeamJudge == ASSUME TeamInv, Judge PROVE TeamInv'
<1> USE DEF TeamInv, Judge
<1>1. MetricsInv'  BY MetricCompleted DEF MetricsInv
<1>2. SessionInv'
  <2>1. Decision' = Decision  BY DEF Decision
  <2> QED  BY <2>1 DEF SessionInv
<1>3. ResponseInv'  BY DEF ResponseInv
<1>4. ComparisonTells'  BY DEF ComparisonTells
<1> QED  BY <1>1, <1>2, <1>3, <1>4

LEMMA TeamExport == ASSUME TeamInv, Export PROVE TeamInv'
<1> USE DEF TeamInv, Export
<1>1. MetricsInv'  BY DEF MetricsInv, Empty
<1>2. SessionInv'  BY DEF SessionInv, Empty
<1>3. ResponseInv'  BY DEF ResponseInv
<1>4. ComparisonTells'  BY DEF ComparisonTells
<1> QED  BY <1>1, <1>2, <1>3, <1>4

LEMMA TeamCompare == ASSUME TeamInv, Compare PROVE TeamInv'
<1> USE DEF TeamInv, Compare
<1>1. MetricsInv'  BY DEF MetricsInv
<1>2. SessionInv'  BY DEF SessionInv
<1>3. ResponseInv'  BY DEF ResponseInv
<1>4. ComparisonTells'
  <2> DEFINE D(i) == IF i \in DOMAIN runs THEN Differences(runs[i], golden[i], i) ELSE Missing(i)
  <2>1. ASSUME NEW i \in DOMAIN golden
        PROVE  /\ D(i) = {} <=> i \in DOMAIN runs /\ runs[i] = golden[i]
               /\ \A r \in D(i) : r[1] = i
    <3>1. CASE i \in DOMAIN runs  BY <3>1, DifferencesTell DEF MetricsInv
    <3>2. CASE i \notin DOMAIN runs
      <4>1. <<i, "missing in current run">>[1] = i  OBVIOUS
      <4>2. \A r \in Missing(i) : r[1] = i  BY ONLY <4>1 DEF Missing
      <4>3. Missing(i) # {}  BY DEF Missing
      <4> QED  BY <3>2, <4>2, <4>3
    <3> QED  BY <3>1, <3>2
  <2>2. regressions' = UNION {D(i) : i \in DOMAIN golden}  OBVIOUS
  <2> HIDE DEF D
  <2>3. regressions' = {} <=> \A i \in DOMAIN golden : D(i) = {}  BY <2>2
  <2>4. \A r \in regressions' : \E i \in DOMAIN golden : r \in D(i)  BY <2>2
  <2>5. \A r \in regressions' : r[1] \in DOMAIN golden  BY <2>1, <2>4
  <2> QED  BY <2>1, <2>3, <2>5 DEF ComparisonTells
<1> QED  BY <1>1, <1>2, <1>3, <1>4

LEMMA TeamExecute ==
  ASSUME TeamInv, NEW q \in Benchmark \cup Queries, Execute(q)
  PROVE  TeamInv'
<1>1. UNCHANGED solving  BY DEF Execute
<1>2. MetricsInv' /\ SessionInv' /\ ComparisonTells'
  BY <1>1 DEF solving, TeamInv, MetricsInv, SessionInv, Decision, ComparisonTells
<1>3. ResponseInv'
  <2> SUFFICES ASSUME NEW p \in Benchmark, response'.id = p.id
               PROVE  \/ response'.status = "rejected"
                      \/ /\ response'.status = (IF State(p) = "IMPOSSIBLE" THEN "completed_abstained"
                                                                          ELSE "completed")
                         /\ response'.says = {Recommendation(p, a) : a \in Scope(p.words)}
    BY DEF ResponseInv
  <2>1. PICK registered, on :
          LET scope == Scope(q.words)
              state == IF q \in Benchmark THEN State(q) ELSE "FEASIBLE"
          IN  response' =
                IF Barred(scope, registered, on)
                THEN [id |-> q.id, status |-> "rejected", state |-> "IMPOSSIBLE", says |-> {}]
                ELSE [id |-> q.id, state |-> state,
                      status |-> IF state = "IMPOSSIBLE" THEN "completed_abstained" ELSE "completed",
                      says |-> IF q \in Benchmark THEN {Recommendation(q, a) : a \in scope} ELSE {}]
    BY DEF Execute
  <2>2. response'.id = q.id  BY <2>1
  <2>3. q \in Queries => q.id = 0  BY DEF Queries
  <2>4. q = p  BY <2>2, <2>3, BenchmarkIds
  <2> QED  BY <2>1, <2>4
<1> QED  BY <1>2, <1>3 DEF TeamInv

LEMMA TeamStep == TeamInv /\ [TeamNext]_teamVars => TeamInv'
<1> SUFFICES ASSUME TeamInv, [TeamNext]_teamVars PROVE TeamInv'  OBVIOUS
<1>1. CASE \E p \in Problems, how \in {"deterministic", "llm"} : Plan(p, how)  BY <1>1, TeamPlan
<1>2. CASE \E a : Work(a)  BY <1>2, TeamWork
<1>3. CASE Judge  BY <1>3, TeamJudge
<1>4. CASE Export  BY <1>4, TeamExport
<1>5. CASE Compare  BY <1>5, TeamCompare
<1>6. CASE \E p \in Benchmark \cup Queries : Execute(p)  BY <1>6, TeamExecute
<1>7. CASE UNCHANGED teamVars
  BY <1>7 DEF teamVars, solving, TeamInv, MetricsInv, SessionInv, Decision, ResponseInv, ComparisonTells
<1> QED  BY <1>1, <1>2, <1>3, <1>4, <1>5, <1>6, <1>7 DEF TeamNext

-----------------------------------------------------------------------------
\* The session keeps the metrics of the runs it has judged, the last one as its team
\* has said it, and the service the verdict on the last problem it was asked about.
THEOREM TeamInvariant == TeamSpec => []TeamInv
<1> QED  BY TeamStarts, TeamStep, PTL DEF TeamSpec

\* What is left to be judged is what the deterministic team says.
LEMMA DecisionIsTeams ==
  ASSUME SessionInv, Decided
  PROVE  /\ problem \in Problems /\ Decision = TeamSays(problem)
         /\ runs[problem.id].passed = Passed(problem, TeamSays(problem))
<1>1. Decision = TeamSays(problem)
  <2>1. {said[a] : a \in DOMAIN said} = {Specialist(problem, a) : a \in Team(problem)}
    BY DEF SessionInv, Decided
  <2> QED  BY <2>1 DEF Decision, TeamSays
<1> QED  BY <1>1 DEF SessionInv, Decided, Metric

\* DecisionRight, of any problems: the deterministic team never contradicts itself,
\* and what it says of a problem that is neither a split nor large is true, except that
\* it may overlook the loops of one with a first stop on roads both ways.
THEOREM DecisionIsRight == TeamSpec => []DecisionRight
<1>1. TeamInv => DecisionRight
  BY DecisionIsTeams, TeamIsRight DEF TeamInv, DecisionRight
<1> QED  BY <1>1, TeamInvariant, PTL

\* PassIsEarned, of any problems: a deterministic run passes only if the problem is
\* what it declares itself to be, loops hidden by a first stop and costs echoed by
\* other numbers excepted, and those of the benchmark do.
THEOREM PassingIsEarned == TeamSpec => []PassIsEarned
<1>1. TeamInv => PassIsEarned
  BY DecisionIsTeams, PassingIsRight, BenchmarkPasses DEF TeamInv, PassIsEarned
<1> QED  BY <1>1, TeamInvariant, PTL

\* ComparisonTells, of any number of runs: the comparison with a golden record is
\* silent exactly when all of it was run again and ended as it did then.
THEOREM ComparisonIsFaithful == TeamSpec => []ComparisonTells
<1>1. TeamInv => ComparisonTells  BY DEF TeamInv
<1> QED  BY <1>1, TeamInvariant, PTL

\* The two ways to a verdict, for one problem.
LEMMA WaysAgree ==
  ASSUME NEW p \in Benchmark, ~Big(p)
  PROVE  /\ State(p) = "IMPOSSIBLE" <=> "impossible" \in TeamSays(p)
         /\ p.order # "none" => "circular" \in TeamSays(p)
         /\ State(p) # "IMPOSSIBLE" => TeamSays(p) \cap {"tour", "split"} # {}
<1> DEFINE S == TeamSays(p)
<1>0. p \in Problems  BY DEF Problems
<1>1. CASE Small(p)
  <2>1. S = GraphBuilder(p) \cup TourEngine(p) \cup RouteValidator(p)
    BY <1>0, <1>1, TeamsSay DEF Small, Declares, Large
  <2> QED  BY <1>1, <2>1 DEF GraphBuilder, Small, Declares, Large, TourEngine, RouteValidator, NoLoop, State
<1>2. CASE Split(p)
  <2>1. S = VrpSplitter(p) \cup VrpValidator(p)  BY <1>0, <1>2, TeamsSay DEF Split, Declares
  <2> QED  BY <1>2, <2>1 DEF VrpSplitter, Split, Declares, VrpValidator, State
<1>3. CASE Islands(p)
  <2>1. S = GraphBuilder(p) \cup RouteValidator(p)  BY <1>0, <1>3, TeamsSay DEF Islands, Declares
  <2> QED  BY <1>3, <2>1 DEF GraphBuilder, Islands, Declares, Large, RouteValidator, NoLoop, State
<1>4. CASE Loop(p)
  <2>1. S = DependencyChecker(p)  BY <1>0, <1>4, TeamsSay DEF Loop, Declares
  <2> QED  BY <1>4, <2>1 DEF Loop, Declares, DependencyChecker, State
<1> QED  BY <1>1, <1>2, <1>3, <1>4, BenchmarkTable

\* VerdictsAgree, whatever agents are registered and on: POST /execute abstains on a
\* problem of the benchmark exactly when its team says that it is impossible.
THEOREM VerdictsDoAgree == TeamSpec => []VerdictsAgree
<1>1. ASSUME ResponseInv, NEW p \in Benchmark, response.id = p.id,
             response.status # "rejected",
             p.flagged \/ p.order # "none" \/ p.expected # "none" \/ p.kind = "vrp"
      PROVE  /\ (response.status = "completed_abstained") <=> ("impossible" \in TeamSays(p))
             /\ "circular" \in response.says => "circular" \in TeamSays(p)
             /\ "tour" \in response.says => TeamSays(p) \cap {"tour", "split"} # {}
  <2>1. ~Big(p)  BY <1>1 DEF Big, Declares
  <2>2. /\ response.status = (IF State(p) = "IMPOSSIBLE" THEN "completed_abstained" ELSE "completed")
        /\ response.says = {Recommendation(p, a) : a \in Scope(p.words)}
    BY <1>1 DEF ResponseInv
  <2> QED  BY <2>1, <2>2, WaysAgree, SpecialistsSay
<1>2. TeamInv => VerdictsAgree  BY <1>1 DEF TeamInv, VerdictsAgree, TeamSays
<1> QED  BY <1>2, TeamInvariant, PTL
=================================================================================
