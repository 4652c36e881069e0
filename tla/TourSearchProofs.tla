---------------------------- MODULE TourSearchProofs ----------------------------
(* Theorems about TourSearch for any problems and limits.                   *)
EXTENDS TourSearch, FiniteSetTheorems, WellFoundedInduction, TLAPS

\* The state by itself: a loop without repetition from the start, complete once it is
\* being improved; pairs of legs that do not touch.
StateInv ==
  /\ problem \in Problems
  /\ phase \in {"planned", "visiting", "improving", "found", "infeasible", "raised", "split", "judged"}
  /\ tour \in Seq(City) /\ tour # <<>> /\ tour[1] = 1
  /\ \A i, j \in DOMAIN tour : tour[i] = tour[j] => i = j
  /\ phase \in {"improving", "found"} => Len(tour) = problem.n
  /\ greedy \in Seq(City)
  /\ phase = "improving" => greedy # <<>>
  /\ todo \subseteq Pairs /\ improved \in BOOLEAN

\* What the vehicles have been given, and what the guardrail was asked and said.
JudgeInv ==
  /\ routes \in {<<{}, {}>>, <<Share(1), Share(2)>>}
  /\ phase = "planned" => routes = <<{}, {}>>
  /\ phase = "split" => problem.kind = "vrp" /\ routes = <<Share(1), Share(2)>>
  /\ proposal \in Seq(City)
  /\ verdict \in {"none", "feasible", "optimal", "unproven", "impossible"}
  /\ phase = "judged" /\ problem.kind = "tsp" => (verdict # "impossible" <=> Acceptable(proposal))
  /\ phase = "judged" /\ problem.kind = "vrp" /\ routes # <<{}, {}>> =>
       (verdict = "impossible" <=> ~SplitOK)

\* Whether the loop can be driven has not changed since 2-opt began.
BrokenInv ==
  Large /\ ~problem.directed /\ phase \in {"improving", "found"} =>
    (Drivable(tour) <=> Drivable(greedy))

\* Legs i and j were looked at and stay as they are.
Kept(i, j) == NewLegs(i, j) \subseteq Roads => OldLegs(i, j) \subseteq Roads /\ ~Cheaper(i, j)

\* A pass that has changed nothing has left nothing to change among the pairs it has
\* looked at, and after the last pass that is all of them.
KeptInv ==
  /\ phase = "improving" /\ ~improved => \A x \in Pairs \ todo : Kept(x[1], x[2])
  /\ phase = "found" /\ Large => \A x \in Pairs : Kept(x[1], x[2])

\* Few cities are enumerated.
ExactInv ==
  /\ phase \in {"visiting", "improving"} => Large
  /\ phase = "found" /\ ~Large => tour \in Cheapest
  /\ phase = "infeasible" => ~Large /\ Loops = {}

\* 2-opt never makes an undirected loop dearer than the one it began with.
SavedInv ==
  Large /\ ~problem.directed /\ phase \in {"improving", "found"} => LoopCost(tour) <= LoopCost(greedy)

IInv == StateInv /\ JudgeInv /\ BrokenInv /\ KeptInv /\ ExactInv /\ SavedInv

-----------------------------------------------------------------------------
(* Lemmas about loops.                                                     *)

\* A problem has cities, and its loops are over them.
LEMMA ProblemFacts ==
  ASSUME problem \in Problems
  PROVE  /\ problem.n \in Nat /\ problem.n > 1 /\ City = 1 .. problem.n
         /\ problem.directed \in BOOLEAN
         /\ problem.first \in 0 .. problem.n
         /\ problem.kind \in {"tsp", "vrp", "impossible"}
         /\ problem.around \in Seq(2 .. problem.n) /\ Len(problem.around) = problem.n - 1
         /\ \A i, j \in DOMAIN problem.around : problem.around[i] = problem.around[j] => i = j
         /\ IsFiniteSet(City) /\ Cardinality(City) = problem.n
<1>1. problem.n \in Nat /\ problem.n > 1 /\ City = 1 .. problem.n
  BY TourAssumption DEF ProblemAssumption, City
<1>2. IsFiniteSet(City) /\ Cardinality(City) = problem.n
  BY <1>1, FS_Interval
<1> QED
  BY <1>1, <1>2, TourAssumption DEF ProblemAssumption

\* A loop without repetition is no longer than there are cities.
LEMMA NoLongerThanCities ==
  ASSUME problem \in Problems, NEW t \in Seq(City),
         \A i, j \in DOMAIN t : t[i] = t[j] => i = j
  PROVE  Len(t) <= problem.n
<1>1. t \in Injection(DOMAIN t, City)
  BY DEF Injection, IsInjective
<1>2. Cardinality(DOMAIN t) <= Cardinality(City)
  BY <1>1, ProblemFacts, FS_Injection
<1>3. DOMAIN t = 1 .. Len(t) /\ Len(t) \in Nat
  OBVIOUS
<1>4. Cardinality(1 .. Len(t)) = Len(t)
  BY <1>3, FS_Interval
<1> QED
  BY <1>2, <1>3, <1>4, ProblemFacts

\* A sequence that has every city is at least as long as there are cities.
LEMMA NoShorterThanCities ==
  ASSUME problem \in Problems, NEW t \in Seq(City), City \subseteq {t[i] : i \in DOMAIN t}
  PROVE  Len(t) >= problem.n
<1>1. t \in Surjection(DOMAIN t, City)
  BY DEF Surjection
<1>2. DOMAIN t = 1 .. Len(t) /\ Len(t) \in Nat
  OBVIOUS
<1>3. IsFiniteSet(DOMAIN t) /\ Cardinality(DOMAIN t) = Len(t)
  BY <1>2, FS_Interval
<1> QED
  BY <1>1, <1>3, ProblemFacts, FS_Surjection

\* A loop of as many places as cities has every city if and only if it has none twice.
LEMMA FullIffOnce ==
  ASSUME problem \in Problems, NEW t \in Seq(City), Len(t) = problem.n
  PROVE  City \subseteq {t[i] : i \in DOMAIN t} <=> \A i, j \in DOMAIN t : t[i] = t[j] => i = j
<1>1. DOMAIN t = City /\ t \in [City -> City]
  BY ProblemFacts
<1>2. CASE City \subseteq {t[i] : i \in DOMAIN t}
  <2>1. t \in Surjection(City, City)
    BY <1>1, <1>2 DEF Surjection
  <2>2. t \in Injection(City, City)
    BY <2>1, ProblemFacts, FS_SurjSameCardinalityImpliesInj
  <2> QED
    BY <1>1, <1>2, <2>2 DEF Injection, IsInjective
<1>3. CASE \A i, j \in DOMAIN t : t[i] = t[j] => i = j
  <2>1. t \in Injection(City, City)
    BY <1>1, <1>3 DEF Injection, IsInjective
  <2>2. t \in Surjection(City, City)
    BY <2>1, ProblemFacts, FS_Injection
  <2> QED
    BY <1>1, <1>3, <2>2 DEF Surjection
<1> QED
  BY <1>2, <1>3

\* What the enumeration permutes.
LEMMA ToursAreLoops ==
  ASSUME problem \in Problems, NEW t \in Tours
  PROVE  /\ t \in Seq(City) /\ Len(t) = problem.n /\ t[1] = 1
         /\ \A i, j \in DOMAIN t : t[i] = t[j] => i = j
<1>1. PICK u \in Injection(1 .. problem.n - 1, 2 .. problem.n) : t = <<1>> \o u
  BY DEF Tours
<1>2. problem.n \in Nat /\ problem.n > 1 /\ City = 1 .. problem.n
  BY ProblemFacts
<1>3. /\ u \in [1 .. problem.n - 1 -> 2 .. problem.n]
      /\ \A i, j \in 1 .. problem.n - 1 : u[i] = u[j] => i = j
  BY <1>1 DEF Injection, IsInjective
<1>4. u \in Seq(City) /\ Len(u) = problem.n - 1
  BY <1>2, <1>3
<1>5. t \in Seq(City) /\ Len(t) = problem.n
  BY <1>1, <1>2, <1>4
<1>6. \A i \in 1 .. problem.n : t[i] = IF i = 1 THEN 1 ELSE u[i - 1]
  BY <1>1, <1>2, <1>4
<1>7. \A i, j \in 1 .. problem.n : t[i] = t[j] => i = j
  BY <1>2, <1>3, <1>6
<1> QED
  BY <1>2, <1>5, <1>6, <1>7

\* The city after: the next, and the first after the last.
LEMMA AfterIs ==
  ASSUME NEW t, NEW i \in Nat, Len(t) \in Nat, i \in 1 .. Len(t)
  PROVE  After(t, i) = IF i = Len(t) THEN t[1] ELSE t[i + 1]
<1>1. CASE i = Len(t)
  <2>1. i % Len(t) = 0
    BY <1>1
  <2> QED
    BY <1>1, <2>1 DEF After
<1>2. CASE i # Len(t)
  <2>1. i % Len(t) = i
    BY <1>2
  <2> QED
    BY <1>2, <2>1 DEF After
<1> QED
  BY <1>1, <1>2

\* A list over a set.
LEMMA ListIsSeq ==
  ASSUME NEW S, NEW m \in Nat, NEW f \in [1 .. m -> S]
  PROVE  f \in Seq(S) /\ Len(f) = m
OBVIOUS

\* A loop with its places i + 1 to j in the opposite order.
Flipped(t, i, j) ==
  [k \in DOMAIN t |-> IF k \in i + 1 .. j THEN t[i + 1 + j - k] ELSE t[k]]

\* Reversing a part of a loop, not its first city, keeps it a loop.
LEMMA FlippedIsLoop ==
  ASSUME problem \in Problems, NEW t \in Seq(City), Len(t) = problem.n, t[1] = 1,
         \A k, l \in DOMAIN t : t[k] = t[l] => k = l,
         NEW i \in City, NEW j \in City, i < j
  PROVE  /\ Flipped(t, i, j) \in Seq(City) /\ Len(Flipped(t, i, j)) = problem.n
         /\ DOMAIN Flipped(t, i, j) = 1 .. problem.n
         /\ Flipped(t, i, j)[1] = 1
         /\ \A k, l \in 1 .. problem.n : Flipped(t, i, j)[k] = Flipped(t, i, j)[l] => k = l
<1> DEFINE r == Flipped(t, i, j)
<1>1. problem.n \in Nat /\ City = 1 .. problem.n
  BY ProblemFacts
<1>2. i \in Nat /\ j \in Nat /\ 1 <= i /\ i < j /\ j <= problem.n
  BY <1>1
<1>3. DOMAIN t = 1 .. problem.n /\ \A k \in 1 .. problem.n : t[k] \in City
  BY <1>1
<1>4. \A k \in 1 .. problem.n : r[k] = IF k \in i + 1 .. j THEN t[i + 1 + j - k] ELSE t[k]
  BY <1>3 DEF Flipped
<1>5. DOMAIN r = 1 .. problem.n
  BY <1>3 DEF Flipped
<1>6. \A k \in i + 1 .. j : i + 1 + j - k \in i + 1 .. j /\ i + 1 + j - k \in 1 .. problem.n
  BY <1>1, <1>2
<1>7. \A k \in 1 .. problem.n : r[k] \in City
  <2> HIDE DEF r
  <2> QED
    BY <1>3, <1>4, <1>6
<1>8. r \in [1 .. problem.n -> City]
  <2> HIDE DEF r
  <2>1. r = [k \in 1 .. problem.n |-> r[k]]
    BY <1>3, <1>5 DEF r, Flipped
  <2> QED
    BY <1>7, <2>1
<1>9. r[1] = 1
  <2> HIDE DEF r
  <2>1. 1 \in 1 .. problem.n /\ 1 \notin i + 1 .. j
    BY <1>1, <1>2
  <2> QED
    BY <1>4, <2>1
<1>10. \A k, l \in 1 .. problem.n : t[k] = t[l] => k = l
  BY <1>3
<1>11. \A k, l \in 1 .. problem.n : r[k] = r[l] => k = l
  <2> HIDE DEF r
  <2> TAKE k, l \in 1 .. problem.n
  <2> DEFINE from(x) == IF x \in i + 1 .. j THEN i + 1 + j - x ELSE x
  <2>1. r[k] = t[from(k)] /\ r[l] = t[from(l)]
    BY <1>4
  <2>2. from(k) \in 1 .. problem.n /\ from(l) \in 1 .. problem.n
    BY <1>6
  <2>3. r[k] = r[l] => from(k) = from(l)
    BY <1>10, <2>1, <2>2
  <2>4. from(k) = from(l) => k = l
    BY <1>1, <1>2
  <2> QED
    BY <2>3, <2>4
<1>12. r \in Seq(City) /\ Len(r) = problem.n
  <2> HIDE DEF r
  <2> QED
    BY <1>1, <1>8, ListIsSeq
<1> QED
  BY <1>5, <1>9, <1>11, <1>12

\* The initial state.
LEMMA StateInit ==
  ASSUME Init
  PROVE  StateInv
<1>1. problem.n \in Nat /\ City = 1 .. problem.n /\ problem.n > 1
  BY ProblemFacts DEF Init
<1>2. tour = <<1>> /\ DOMAIN tour = {1} /\ Len(tour) = 1 /\ tour[1] = 1
  BY DEF Init
<1>3. tour \in Seq(City) /\ greedy \in Seq(City) /\ tour # <<>>
  BY <1>1 DEF Init
<1>4. problem \in Problems /\ todo \subseteq Pairs /\ improved \in BOOLEAN /\ phase = "planned"
  BY DEF Init
<1>5. \A i, j \in DOMAIN tour : tour[i] = tour[j] => i = j
  BY <1>2
<1> QED
  BY <1>2, <1>3, <1>4, <1>5 DEF StateInv

\* The loop visits no city twice, whatever step is taken.
LEMMA StateNext ==
  ASSUME StateInv, [Next]_vars
  PROVE  StateInv'
<1>1. problem.n \in Nat /\ City = 1 .. problem.n /\ problem.n > 1
  BY ProblemFacts DEF StateInv
<1>2. CASE Enumerate
  <2>1. PICK t \in Tours : tour' = t
    BY <1>2 DEF Enumerate, Cheapest, Loops
  <2>2. /\ tour' \in Seq(City) /\ Len(tour') = problem.n /\ tour'[1] = 1
        /\ \A k, l \in DOMAIN tour' : tour'[k] = tour'[l] => k = l
    BY <2>1, ToursAreLoops DEF StateInv
  <2>3. tour' # <<>>
    BY <1>1, <2>2
  <2> QED
    BY <1>2, <2>2, <2>3 DEF Enumerate, StateInv, City, Pairs
<1>3. CASE NoLoop \/ Greedy
  BY <1>3 DEF NoLoop, Greedy, StateInv, search, City, Pairs
<1>4. ASSUME NEW c \in City, Visit(c) PROVE StateInv'
  <2>1. tour' = Append(tour, c) /\ c \in City /\ \A k \in DOMAIN tour : tour[k] # c
    BY <1>4 DEF Visit, Remaining
  <2>2. Len(tour) \in Nat /\ Len(tour) > 0 /\ DOMAIN tour = 1 .. Len(tour)
    BY DEF StateInv
  <2>3. tour' \in Seq(City) /\ Len(tour') = Len(tour) + 1 /\ DOMAIN tour' = 1 .. Len(tour) + 1
    BY <2>1, <2>2 DEF StateInv
  <2>4. \A k \in 1 .. Len(tour) + 1 : tour'[k] = IF k <= Len(tour) THEN tour[k] ELSE c
    BY <2>1, <2>2 DEF StateInv
  <2>5. \A k, l \in DOMAIN tour' : tour'[k] = tour'[l] => k = l
    BY <2>1, <2>2, <2>3, <2>4 DEF StateInv
  <2>6. tour'[1] = 1 /\ tour' # <<>>
    BY <2>2, <2>3, <2>4 DEF StateInv
  <2> QED
    BY <1>4, <2>3, <2>5, <2>6 DEF Visit, StateInv, City, Pairs
<1>5. CASE Smooth
  <2>1. City \subseteq {tour[k] : k \in DOMAIN tour}
    BY <1>5 DEF Smooth, Remaining
  <2>2. Len(tour) >= problem.n
    BY <2>1, NoShorterThanCities DEF StateInv
  <2>3. Len(tour) <= problem.n
    BY NoLongerThanCities DEF StateInv
  <2>4. Len(tour) = problem.n
    BY <1>1, <2>2, <2>3 DEF StateInv
  <2> QED
    BY <1>5, <2>4 DEF Smooth, StateInv, City, Pairs
<1>6. ASSUME NEW i \in City, NEW j \in City, Keep(i, j) PROVE StateInv'
  BY <1>6 DEF Keep, Due, StateInv, City, Pairs
<1>7. ASSUME NEW i \in City, NEW j \in City, Exchange(i, j) PROVE StateInv'
  <2>1. phase = "improving" /\ <<i, j>> \in Pairs /\ tour' = Reversed(i, j)
    BY <1>7 DEF Exchange, Due, StateInv
  <2>2. i < j /\ Len(tour) = problem.n /\ Reversed(i, j) = Flipped(tour, i, j)
    BY <1>1, <2>1 DEF StateInv, Pairs, Reversed, Flipped
  <2>3. /\ tour' \in Seq(City) /\ Len(tour') = problem.n /\ tour'[1] = 1
        /\ \A k, l \in DOMAIN tour' : tour'[k] = tour'[l] => k = l
    BY <2>1, <2>2, FlippedIsLoop DEF StateInv
  <2>4. tour' # <<>>
    BY <1>1, <2>3
  <2> QED
    BY <1>7, <2>3, <2>4 DEF Exchange, StateInv, City, Pairs
<1>8. ASSUME NEW i \in City, NEW j \in City, Raise(i, j) PROVE StateInv'
  BY <1>8 DEF Raise, Due, StateInv, search, City, Pairs
<1>9. CASE Again
  BY <1>9 DEF Again, StateInv, City, Pairs
<1>10. CASE Settle
  BY <1>10 DEF Settle, StateInv, search, City, Pairs
<1>11. CASE Split
  BY <1>11 DEF Split, StateInv, City, Pairs
<1>12. CASE JudgeFlagged \/ JudgeNoSplit
  BY <1>12 DEF JudgeFlagged, JudgeNoSplit, Judge, StateInv, search, City, Pairs
<1>13. ASSUME NEW heuristic \in BOOLEAN, JudgeSplit(heuristic) PROVE StateInv'
  BY <1>13 DEF JudgeSplit, Judge, StateInv, search, City, Pairs
<1>14. ASSUME NEW heuristic \in BOOLEAN, NEW route \in Handed, JudgeRoute(route, heuristic)
       PROVE  StateInv'
  BY <1>14 DEF JudgeRoute, Judge, StateInv, search, City, Pairs
<1>15. CASE UNCHANGED vars
  BY <1>15 DEF vars, search, StateInv, City, Pairs
<1> QED
  BY <1>2, <1>3, <1>4, <1>5, <1>6, <1>7, <1>8, <1>9, <1>10, <1>11, <1>12, <1>13, <1>14, <1>15
     DEF Next, Search

-----------------------------------------------------------------------------
(* Lemmas about the split.                                                 *)

\* The number of the first m naturals.
LEMMA Firsts ==
  ASSUME NEW m \in Nat
  PROVE  IsFiniteSet(1 .. m) /\ Cardinality(1 .. m) = m
BY FS_Interval

\* The vehicles of a problem of n cities have n \div 2 and (n - 1) \div 2 stops, and
\* together all of them.
LEMMA Shares ==
  ASSUME problem \in Problems
  PROVE  /\ Share(1) \subseteq City /\ Share(2) \subseteq City
         /\ Share(1) # {}
         /\ Share(1) \cap Share(2) = {} /\ Share(1) \cup Share(2) = City \ {1}
         /\ Cardinality(Share(1)) = problem.n \div 2
         /\ Cardinality(Share(2)) = (problem.n - 1) \div 2
<1> DEFINE n == problem.n
           around == problem.around
           left == 1 .. (n \div 2)
           right == 1 .. ((n - 1) \div 2)
<1>1. /\ n \in Nat /\ n > 1 /\ City = 1 .. n
      /\ around \in Seq(2 .. n) /\ Len(around) = n - 1
      /\ \A i, j \in DOMAIN around : around[i] = around[j] => i = j
  BY ProblemFacts
<1> HIDE DEF n, around
<1>2. DOMAIN around = 1 .. n - 1 /\ around \in [1 .. n - 1 -> 2 .. n]
  BY <1>1
<1>3. Share(1) = {around[i] : i \in {k \in 1 .. n - 1 : (k - 1) % 2 = 0}}
  BY <1>2 DEF Share, around
<1>4. Share(2) = {around[i] : i \in {k \in 1 .. n - 1 : (k - 2) % 2 = 0}}
  BY <1>2 DEF Share, around
<1>5. \A k \in 1 .. n - 1 : (k - 1) % 2 = 0 <=> (k - 2) % 2 # 0
  BY <1>1
<1>6. Share(1) \cap Share(2) = {}
  BY <1>1, <1>2, <1>3, <1>4, <1>5
<1>7. Share(1) \cup Share(2) = City \ {1}
  <2>1. IsFiniteSet(2 .. n) /\ Cardinality(2 .. n) = n - 1
    BY <1>1, FS_Interval
  <2>2. Cardinality(1 .. n - 1) = n - 1
    BY <1>1, FS_Interval
  <2>3. around \in Injection(1 .. n - 1, 2 .. n)
    BY <1>1, <1>2 DEF Injection, IsInjective
  <2>4. around \in Surjection(1 .. n - 1, 2 .. n)
    BY <2>1, <2>2, <2>3, FS_Injection
  <2>5. \A c \in 2 .. n : \E i \in 1 .. n - 1 : around[i] = c
    BY <1>2, <2>4 DEF Surjection
  <2>6. Share(1) \cup Share(2) = 2 .. n
    BY <1>2, <1>3, <1>4, <1>5, <2>5
  <2>7. City \ {1} = 2 .. n
    BY <1>1
  <2> QED
    BY <2>6, <2>7
<1>8. Cardinality(Share(1)) = n \div 2
  <2> DEFINE f == [k \in left |-> around[2 * k - 1]]
  <2>1. \A k \in left : 2 * k - 1 \in 1 .. n - 1 /\ (2 * k - 1 - 1) % 2 = 0
    BY <1>1
  <2>2. \A x \in 1 .. n - 1 : (x - 1) % 2 = 0 => \E k \in left : x = 2 * k - 1
    <3> SUFFICES ASSUME NEW x \in 1 .. n - 1, (x - 1) % 2 = 0
                 PROVE  (x - 1) \div 2 + 1 \in left /\ x = 2 * ((x - 1) \div 2 + 1) - 1
      OBVIOUS
    <3> QED
      BY <1>1
  <2>3. f \in [left -> Share(1)]
    BY <1>3, <2>1
  <2>4. \A x \in Share(1) : \E k \in left : f[k] = x
    BY <1>3, <2>2
  <2>5. \A k, l \in left : f[k] = f[l] => k = l
    BY <1>1, <1>2, <2>1
  <2>6. f \in Bijection(left, Share(1))
    BY <2>3, <2>4, <2>5 DEF Bijection, Injection, Surjection, IsInjective
  <2>7. IsFiniteSet(left) /\ Cardinality(left) = n \div 2
    <3>1. n \div 2 \in Nat
      BY <1>1
    <3> QED
      BY <3>1, Firsts
  <2> QED
    BY <2>6, <2>7, FS_Bijection DEF ExistsBijection
<1>9. Cardinality(Share(2)) = (n - 1) \div 2
  <2> DEFINE f == [k \in right |-> around[2 * k]]
  <2>1. \A k \in right : 2 * k \in 1 .. n - 1 /\ (2 * k - 2) % 2 = 0
    BY <1>1
  <2>2. \A x \in 1 .. n - 1 : (x - 2) % 2 = 0 => \E k \in right : x = 2 * k
    <3> SUFFICES ASSUME NEW x \in 1 .. n - 1, (x - 2) % 2 = 0
                 PROVE  x \div 2 \in right /\ x = 2 * (x \div 2)
      OBVIOUS
    <3> QED
      BY <1>1
  <2>3. f \in [right -> Share(2)]
    BY <1>4, <2>1
  <2>4. \A x \in Share(2) : \E k \in right : f[k] = x
    BY <1>4, <2>2
  <2>5. \A k, l \in right : f[k] = f[l] => k = l
    BY <1>1, <1>2, <2>1
  <2>6. f \in Bijection(right, Share(2))
    BY <2>3, <2>4, <2>5 DEF Bijection, Injection, Surjection, IsInjective
  <2>7. IsFiniteSet(right) /\ Cardinality(right) = (n - 1) \div 2
    <3>1. (n - 1) \div 2 \in Nat
      BY <1>1
    <3> QED
      BY <3>1, Firsts
  <2> QED
    BY <2>6, <2>7, FS_Bijection DEF ExistsBijection
<1>10. Share(1) # {}
  <2>1. 1 \in 1 .. n - 1 /\ (1 - 1) % 2 = 0
    BY <1>1
  <2> QED
    BY <1>3, <2>1
<1> QED
  BY <1>6, <1>7, <1>8, <1>9, <1>10 DEF n

-----------------------------------------------------------------------------
(* The guardrail.                                                          *)

\* Whatever it is handed goes through cities of the problem.
LEMMA HandedAreRoutes ==
  ASSUME StateInv, phase \in {"found", "infeasible"}, NEW route \in Handed
  PROVE  route \in Seq(City)
<1>1. problem.n \in Nat /\ problem.n > 1 /\ City = 1 .. problem.n
  BY ProblemFacts DEF StateInv
<1>2. Base \in Seq(City) /\ Len(Base) = problem.n
  <2>1. CASE phase = "found"
    BY <2>1 DEF Base, StateInv
  <2>2. CASE phase # "found"
    <3>1. Base = [i \in 1 .. problem.n |-> i]
      BY <1>1, <2>2 DEF Base
    <3> QED
      BY <1>1, <3>1
  <2> QED
    BY <2>1, <2>2
<1> HIDE DEF Base
<1>3. DOMAIN Base = 1 .. problem.n /\ \A k \in 1 .. problem.n : Base[k] \in City
  BY <1>1, <1>2
<1>4. Tail(Base) \o <<1>> \in Seq(City)
  <2>1. Tail(Base) \in Seq(City)
    BY <1>1, <1>2
  <2> QED
    BY <1>1, <2>1
<1>5. [k \in City |-> Base[problem.n + 1 - k]] \in Seq(City)
  <2> DEFINE r == [k \in City |-> Base[problem.n + 1 - k]]
  <2>1. \A k \in City : problem.n + 1 - k \in 1 .. problem.n
    BY <1>1
  <2>2. r \in [1 .. problem.n -> City]
    BY <1>1, <1>3, <2>1
  <2> HIDE DEF r
  <2>3. r \in Seq(City)
    BY <1>1, <2>2
  <2> QED
    BY <2>3 DEF r
<1>6. SubSeq(Base, 1, problem.n - 1) \in Seq(City)
  BY <1>1, <1>2
<1>7. [Base EXCEPT ![problem.n] = Base[2]] \in Seq(City)
  <2> DEFINE r == [Base EXCEPT ![problem.n] = Base[2]]
  <2>1. Base[2] \in City
    BY <1>1, <1>3
  <2>2. r \in [1 .. problem.n -> City]
    BY <1>1, <1>2, <1>3, <2>1
  <2> HIDE DEF r
  <2>3. r \in Seq(City)
    BY <1>1, <2>2
  <2> QED
    BY <2>3 DEF r
<1>8. <<>> \in Seq(City)
  OBVIOUS
<1> QED
  BY <1>2, <1>4, <1>5, <1>6, <1>7, <1>8, Zenon DEF Handed

\* What the guardrail says is what it found.
LEMMA JudgeNext ==
  ASSUME StateInv, JudgeInv, [Next]_vars
  PROVE  JudgeInv'
<1> USE DEF JudgeInv
<1>1. problem' = problem /\ Share(1)' = Share(1) /\ Share(2)' = Share(2) /\ City' = City
  <2>1. problem' = problem
    BY DEF Next, Search, Enumerate, NoLoop, Greedy, Visit, Smooth, Keep, Exchange, Raise, Again,
      Settle, Split, JudgeFlagged, JudgeNoSplit, JudgeSplit, JudgeRoute, Judge, vars
  <2> QED
    BY <2>1 DEF Share, City
<1>2. ASSUME UNCHANGED <<routes, proposal, verdict>>, phase' \notin {"planned", "split", "judged"}
      PROVE  JudgeInv'
  BY <1>1, <1>2
<1>3. CASE Enumerate \/ NoLoop \/ Greedy \/ Smooth \/ Again \/ Settle
  BY <1>2, <1>3 DEF Enumerate, NoLoop, Greedy, Smooth, Again, Settle, search
<1>4. ASSUME NEW c \in City, Visit(c) PROVE JudgeInv'
  BY <1>2, <1>4 DEF Visit
<1>5. ASSUME NEW i \in City, NEW j \in City, Keep(i, j) \/ Exchange(i, j) \/ Raise(i, j)
      PROVE  JudgeInv'
  BY <1>2, <1>5 DEF Keep, Exchange, Raise, Due, search
<1>6. CASE Split
  BY <1>1, <1>6 DEF Split
<1>7. CASE JudgeFlagged
  BY <1>1, <1>7 DEF JudgeFlagged, Judge, search
<1>8. CASE JudgeNoSplit
  <2>1. /\ UNCHANGED routes /\ proposal' = <<>> /\ verdict' = "feasible"
        /\ phase' = "judged" /\ problem.kind = "vrp" /\ phase = "planned"
    BY <1>8 DEF JudgeNoSplit, Judge, search
  <2> QED
    BY <1>1, <2>1
<1>9. ASSUME NEW heuristic \in BOOLEAN, JudgeSplit(heuristic) PROVE JudgeInv'
  <2>1. /\ UNCHANGED routes /\ proposal' = <<>> /\ phase' = "judged" /\ phase = "split"
        /\ verdict' = IF SplitOK THEN IF heuristic THEN "unproven" ELSE "feasible" ELSE "impossible"
    BY <1>9 DEF JudgeSplit, Judge, search
  <2>2. SplitOK' <=> SplitOK
    BY <1>1, <2>1 DEF SplitOK
  <2> QED
    BY <1>1, <2>1, <2>2
<1>10. ASSUME NEW heuristic \in BOOLEAN, NEW route \in Handed, JudgeRoute(route, heuristic)
       PROVE  JudgeInv'
  <2>1. /\ UNCHANGED routes /\ proposal' = route /\ phase' = "judged" /\ problem.kind = "tsp"
        /\ verdict' = IF Acceptable(route) THEN Judgement(heuristic) ELSE "impossible"
        /\ phase \in {"found", "infeasible"}
    BY <1>10 DEF JudgeRoute, Judge, search
  <2>2. proposal' \in Seq(City)
    BY <2>1, HandedAreRoutes
  <2>3. Acceptable(proposal)' <=> Acceptable(route)
    BY <1>1, <2>1 DEF Acceptable, Complete, Drivable, Roads, After
  <2>4. Judgement(heuristic) \in {"unproven", "optimal"}
    BY DEF Judgement
  <2> QED
    BY <1>1, <2>1, <2>2, <2>3, <2>4
<1>11. CASE UNCHANGED vars
  <2>1. UNCHANGED <<routes, proposal, verdict, phase>>
    BY <1>11 DEF vars, search
  <2>2. SplitOK' <=> SplitOK
    BY <1>1, <2>1 DEF SplitOK
  <2>3. Acceptable(proposal)' <=> Acceptable(proposal)
    BY <1>1, <2>1 DEF Acceptable, Complete, Drivable, Roads, After
  <2> QED
    BY <1>1, <2>1, <2>2, <2>3
<1> QED
  BY <1>3, <1>4, <1>5, <1>6, <1>7, <1>8, <1>9, <1>10, <1>11 DEF Next, Search

-----------------------------------------------------------------------------
(* Roads that are missing.                                                 *)

\* The roads of an undirected problem go both ways.
LEMMA BothWays ==
  ASSUME problem \in Problems, ~problem.directed, NEW a, NEW b, <<a, b>> \in Roads
  PROVE  <<b, a>> \in Roads
<1>1. DOMAIN problem.edges \subseteq City \X City
  BY TourAssumption DEF ProblemAssumption, City
<1>2. CASE <<a, b>> \in DOMAIN problem.edges
  <2>1. <<a, b>>[2] = b /\ <<a, b>>[1] = a
    OBVIOUS
  <2> QED
    BY <1>2, <2>1 DEF Roads
<1>3. CASE <<a, b>> \notin DOMAIN problem.edges
  <2>1. PICK e \in DOMAIN problem.edges : <<a, b>> = <<e[2], e[1]>>
    BY <1>3 DEF Roads
  <2>2. e = <<e[1], e[2]>>
    BY <1>1, <2>1
  <2>3. e = <<b, a>>
    BY <2>1, <2>2
  <2> QED
    BY <2>1, <2>3 DEF Roads
<1> QED
  BY <1>2, <1>3

\* The legs of a loop, a part of it reversed: two are new, those between them are the
\* old ones driven the other way, the rest is as it was.
LEMMA FlippedLegs ==
  ASSUME problem \in Problems, NEW t \in Seq(City), Len(t) = problem.n,
         NEW i \in City, NEW j \in City, i < j,
         NEW r, r = Flipped(t, i, j)
  PROVE  /\ Len(r) = problem.n /\ DOMAIN r = 1 .. problem.n
         /\ \A k \in 1 .. problem.n : k < i \/ k > j => r[k] = t[k] /\ After(r, k) = After(t, k)
         /\ r[i] = t[i] /\ After(r, i) = t[j]
         /\ r[j] = After(t, i) /\ After(r, j) = After(t, j)
         /\ \A k \in 1 .. problem.n : k > i /\ k < j =>
              /\ i + j - k \in 1 .. problem.n /\ i + j - k > i /\ i + j - k < j
              /\ r[k] = After(t, i + j - k) /\ After(r, k) = t[i + j - k]
<1> DEFINE n == problem.n
           turn(k) == i + j - k
<1>1. n \in Nat /\ City = 1 .. n /\ i \in Nat /\ j \in Nat /\ 1 <= i /\ i < j /\ j <= n
  BY ProblemFacts
<1>2. DOMAIN t = 1 .. n
  BY <1>1
<1>3. \A k \in 1 .. n : r[k] = IF k \in i + 1 .. j THEN t[i + 1 + j - k] ELSE t[k]
  BY <1>2 DEF Flipped
<1>4. Len(r) = n /\ DOMAIN r = 1 .. n
  BY <1>1, <1>2 DEF Flipped
<1> HIDE DEF n
<1>5. \A k \in 1 .. n : After(t, k) = IF k = n THEN t[1] ELSE t[k + 1]
  BY <1>1, AfterIs DEF n
<1>6. \A k \in 1 .. n : After(r, k) = IF k = n THEN r[1] ELSE r[k + 1]
  BY <1>1, <1>4, AfterIs
<1>7. \A k \in 1 .. n : k < i \/ k > j => r[k] = t[k] /\ After(r, k) = After(t, k)
  <2> SUFFICES ASSUME NEW k \in 1 .. n, k < i \/ k > j
               PROVE  r[k] = t[k] /\ After(r, k) = After(t, k)
    OBVIOUS
  <2>1. 1 \notin i + 1 .. j /\ k \notin i + 1 .. j /\ k + 1 \notin i + 1 .. j
    BY <1>1
  <2>2. r[k] = t[k] /\ r[1] = t[1]
    BY <1>1, <1>3, <2>1
  <2>3. k # n => r[k + 1] = t[k + 1]
    <3>1. k # n => k + 1 \in 1 .. n
      BY <1>1
    <3> QED
      BY <1>3, <2>1, <3>1
  <2> QED
    BY <1>5, <1>6, <2>2, <2>3
<1>8. r[i] = t[i] /\ After(r, i) = t[j]
  <2>1. i \in 1 .. n /\ i \notin i + 1 .. j /\ i # n
    BY <1>1
  <2>2. i + 1 \in 1 .. n /\ i + 1 \in i + 1 .. j /\ i + 1 + j - (i + 1) = j
    BY <1>1
  <2> QED
    BY <1>3, <1>6, <2>1, <2>2
<1>9. r[j] = After(t, i) /\ After(r, j) = After(t, j)
  <2>1. i \in 1 .. n /\ i # n /\ j \in 1 .. n /\ j \in i + 1 .. j /\ i + 1 + j - j = i + 1
    BY <1>1
  <2>2. 1 \in 1 .. n /\ 1 \notin i + 1 .. j /\ j + 1 \notin i + 1 .. j
    BY <1>1
  <2>3. r[j] = t[i + 1] /\ r[1] = t[1] /\ After(t, i) = t[i + 1]
    BY <1>3, <1>5, <2>1, <2>2
  <2>4. j # n => j + 1 \in 1 .. n
    BY <1>1
  <2>5. j # n => r[j + 1] = t[j + 1]
    BY <1>3, <2>2, <2>4
  <2> QED
    BY <1>5, <1>6, <2>1, <2>3, <2>5
<1>10. \A k \in 1 .. n : k > i /\ k < j =>
         turn(k) \in 1 .. n /\ turn(k) > i /\ turn(k) < j
         /\ r[k] = After(t, turn(k)) /\ After(r, k) = t[turn(k)]
  <2> SUFFICES ASSUME NEW k \in 1 .. n, k > i, k < j
               PROVE  /\ turn(k) \in 1 .. n /\ turn(k) > i /\ turn(k) < j
                      /\ r[k] = After(t, turn(k)) /\ After(r, k) = t[turn(k)]
    OBVIOUS
  <2>1. /\ turn(k) \in 1 .. n /\ turn(k) > i /\ turn(k) < j
        /\ turn(k) # n /\ i + 1 + j - k = turn(k) + 1
    BY <1>1
  <2>2. k \in i + 1 .. j /\ k + 1 \in i + 1 .. j /\ k # n /\ k + 1 \in 1 .. n
        /\ i + 1 + j - (k + 1) = turn(k)
    BY <1>1
  <2>3. r[k] = t[turn(k) + 1] /\ r[k + 1] = t[turn(k)]
    BY <1>3, <2>1, <2>2
  <2>4. After(t, turn(k)) = t[turn(k) + 1] /\ After(r, k) = r[k + 1]
    BY <1>5, <1>6, <2>1, <2>2
  <2> QED
    BY <2>1, <2>3, <2>4
<1> QED
  BY <1>4, <1>7, <1>8, <1>9, <1>10 DEF n

\* Of an undirected loop that has its old and its new legs: it can be driven as before.
LEMMA FlippedRoads ==
  ASSUME problem \in Problems, ~problem.directed, NEW t \in Seq(City), Len(t) = problem.n,
         NEW i \in City, NEW j \in City, i < j,
         {<<t[i], After(t, i)>>, <<t[j], After(t, j)>>} \subseteq Roads,
         {<<t[i], t[j]>>, <<After(t, i), After(t, j)>>} \subseteq Roads
  PROVE  Drivable(Flipped(t, i, j)) <=> Drivable(t)
<1> DEFINE n == problem.n
           r == Flipped(t, i, j)
           turn(k) == i + j - k
<1>1. n \in Nat /\ City = 1 .. n /\ i \in Nat /\ j \in Nat /\ 1 <= i /\ i < j /\ j <= n
  BY ProblemFacts
<1>2. DOMAIN t = 1 .. n
  BY <1>1
<1>3. /\ DOMAIN r = 1 .. n
      /\ \A k \in 1 .. n : k < i \/ k > j => r[k] = t[k] /\ After(r, k) = After(t, k)
      /\ r[i] = t[i] /\ After(r, i) = t[j]
      /\ r[j] = After(t, i) /\ After(r, j) = After(t, j)
      /\ \A k \in 1 .. n : k > i /\ k < j =>
           /\ turn(k) \in 1 .. n /\ turn(k) > i /\ turn(k) < j
           /\ r[k] = After(t, turn(k)) /\ After(r, k) = t[turn(k)]
  BY FlippedLegs
<1> HIDE DEF n, r
<1>4. \A k \in 1 .. n : k > i /\ k < j => turn(turn(k)) = k
  BY <1>1
<1>5. \A k \in 1 .. n : k > i /\ k < j =>
        (<<r[k], After(r, k)>> \in Roads <=> <<t[turn(k)], After(t, turn(k))>> \in Roads)
  BY <1>3, BothWays
<1>6. Drivable(r) <=> \A k \in 1 .. n : <<r[k], After(r, k)>> \in Roads
  BY <1>3 DEF Drivable
<1>7. Drivable(t) <=> \A k \in 1 .. n : <<t[k], After(t, k)>> \in Roads
  BY <1>2 DEF Drivable
<1>8. ASSUME Drivable(t), NEW k \in 1 .. n PROVE <<r[k], After(r, k)>> \in Roads
  <2>1. CASE k < i \/ k > j
    BY <1>3, <1>7, <1>8, <2>1
  <2>2. CASE k = i \/ k = j
    BY <1>3, <2>2
  <2>3. CASE k > i /\ k < j
    BY <1>3, <1>5, <1>7, <1>8, <2>3
  <2> QED
    BY <1>1, <2>1, <2>2, <2>3
<1>9. ASSUME Drivable(r), NEW k \in 1 .. n PROVE <<t[k], After(t, k)>> \in Roads
  <2>1. CASE k < i \/ k > j
    BY <1>3, <1>6, <1>9, <2>1
  <2>2. CASE k = i \/ k = j
    BY <2>2
  <2>3. CASE k > i /\ k < j
    <3>1. turn(k) \in 1 .. n /\ turn(k) > i /\ turn(k) < j /\ turn(turn(k)) = k
      BY <1>3, <1>4, <2>3
    <3> HIDE DEF turn
    <3> QED
      BY <1>5, <1>6, <1>9, <3>1
  <2> QED
    BY <1>1, <2>1, <2>2, <2>3
<1> QED
  BY <1>6, <1>7, <1>8, <1>9 DEF r

\* The legs of a loop that can be driven are roads.
LEMMA LegsAreRoads ==
  ASSUME NEW t, NEW k \in DOMAIN t, Drivable(t)
  PROVE  <<t[k], After(t, k)>> \in Roads
BY DEF Drivable

\* The loop can be driven as long as it could when 2-opt began.
LEMMA BrokenNext ==
  ASSUME StateInv, BrokenInv, [Next]_vars
  PROVE  BrokenInv'
<1>1. problem' = problem /\ (Large' <=> Large)
  <2>1. problem' = problem
    BY DEF Next, Search, Enumerate, NoLoop, Greedy, Visit, Smooth, Keep, Exchange, Raise, Again,
      Settle, Split, JudgeFlagged, JudgeNoSplit, JudgeSplit, JudgeRoute, Judge, vars
  <2> QED
    BY <2>1 DEF Large
<1>2. ASSUME UNCHANGED <<tour, greedy>>,
             phase' \in {"improving", "found"} => phase = "improving" \/ phase' = phase
      PROVE  BrokenInv'
  <2>1. (Drivable(tour)' <=> Drivable(tour)) /\ (Drivable(greedy)' <=> Drivable(greedy))
    BY <1>1, <1>2 DEF Drivable, Roads, After
  <2> QED
    BY <1>1, <1>2, <2>1 DEF BrokenInv
<1>3. CASE Enumerate
  BY <1>1, <1>3 DEF Enumerate, BrokenInv
<1>4. CASE NoLoop \/ Greedy
  BY <1>2, <1>4 DEF NoLoop, Greedy, search
<1>5. ASSUME NEW c \in City, Visit(c) PROVE BrokenInv'
  BY <1>5 DEF Visit, BrokenInv
<1>6. CASE Smooth
  <2>1. greedy' = tour' /\ problem' = problem
    BY <1>1, <1>6 DEF Smooth
  <2>2. Drivable(tour)' <=> Drivable(greedy)'
    BY <2>1 DEF Drivable, Roads, After
  <2> QED
    BY <2>2 DEF BrokenInv
<1>7. ASSUME NEW i \in City, NEW j \in City, Keep(i, j) \/ Raise(i, j) PROVE BrokenInv'
  BY <1>2, <1>7 DEF Keep, Raise, Due, search
<1>8. ASSUME NEW i \in City, NEW j \in City, Exchange(i, j), ~problem.directed PROVE BrokenInv'
  <2>1. /\ phase = "improving" /\ phase' = phase /\ <<i, j>> \in Pairs
        /\ OldLegs(i, j) \subseteq Roads /\ NewLegs(i, j) \subseteq Roads
        /\ tour' = Reversed(i, j) /\ greedy' = greedy
    BY <1>8 DEF Exchange, Due, StateInv
  <2>2. i < j /\ Len(tour) = problem.n /\ Reversed(i, j) = Flipped(tour, i, j)
    <3>1. problem.n \in Nat /\ City = 1 .. problem.n
      BY ProblemFacts DEF StateInv
    <3> QED
      BY <2>1, <3>1 DEF StateInv, Pairs, Reversed, Flipped
  <2>3. Drivable(Reversed(i, j)) <=> Drivable(tour)
    BY <1>8, <2>1, <2>2, FlippedRoads DEF StateInv, OldLegs, NewLegs
  <2>4. (Drivable(tour)' <=> Drivable(Reversed(i, j))) /\ (Drivable(greedy)' <=> Drivable(greedy))
    BY <1>1, <2>1 DEF Drivable, Roads, After
  <2> QED
    BY <1>1, <2>1, <2>3, <2>4 DEF BrokenInv
<1>9. CASE problem.directed
  BY <1>1, <1>9 DEF BrokenInv
<1>10. CASE Again \/ Settle
  BY <1>2, <1>10 DEF Again, Settle, search
<1>11. CASE Split
  BY <1>2, <1>11 DEF Split
<1>12. CASE JudgeFlagged \/ JudgeNoSplit
  BY <1>2, <1>12 DEF JudgeFlagged, JudgeNoSplit, Judge, search
<1>13. ASSUME NEW heuristic \in BOOLEAN, JudgeSplit(heuristic) PROVE BrokenInv'
  BY <1>2, <1>13 DEF JudgeSplit, Judge, search
<1>14. ASSUME NEW heuristic \in BOOLEAN, NEW route \in Handed, JudgeRoute(route, heuristic)
       PROVE  BrokenInv'
  BY <1>2, <1>14 DEF JudgeRoute, Judge, search
<1>15. CASE UNCHANGED vars
  BY <1>2, <1>15 DEF vars, search
<1> QED
  BY <1>3, <1>4, <1>5, <1>6, <1>7, <1>8, <1>9, <1>10, <1>11, <1>12, <1>13, <1>14, <1>15
     DEF Next, Search

-----------------------------------------------------------------------------
(* Routes that start elsewhere.                                            *)

\* The place k places further on.
Turn(n, k, i) == IF i + k <= n THEN i + k ELSE i + k - n

\* The remainder that VerdictTruth turns a loop with.
LEMMA TurnIs ==
  ASSUME NEW n \in Nat, n > 1, NEW k \in 0 .. n - 1, NEW i \in 1 .. n
  PROVE  ((i + k - 1) % n) + 1 = Turn(n, k, i) /\ Turn(n, k, i) \in 1 .. n
<1>1. CASE i + k <= n
  <2>1. i + k - 1 \in 0 .. n - 1
    BY <1>1
  <2>2. (i + k - 1) % n = i + k - 1
    BY <2>1
  <2> QED
    BY <1>1, <2>2 DEF Turn
<1>2. CASE i + k > n
  <2>1. i + k - 1 - n \in 0 .. n - 1
    BY <1>2
  <2>2. (i + k - 1) % n = i + k - 1 - n
    BY <2>1
  <2> QED
    BY <1>2, <2>2 DEF Turn
<1> QED
  BY <1>1, <1>2

\* No two places are turned to the same one.
LEMMA TurnOnce ==
  ASSUME NEW n \in Nat, n > 1, NEW k \in 0 .. n - 1
  PROVE  \A i, j \in 1 .. n : Turn(n, k, i) = Turn(n, k, j) => i = j
BY DEF Turn

\* A loop that starts elsewhere has the same legs.
LEMMA TurnedLegs ==
  ASSUME NEW n \in Nat, n > 1, NEW k \in 0 .. n - 1,
         NEW s, Len(s) = n, DOMAIN s = 1 .. n, NEW t, Len(t) = n, DOMAIN t = 1 .. n,
         \A i \in 1 .. n : t[i] = s[Turn(n, k, i)]
  PROVE  Drivable(t) <=> Drivable(s)
<1>1. \A i \in 1 .. n : Turn(n, k, i) \in 1 .. n
  BY DEF Turn
<1>2. \A x \in 1 .. n : \E i \in 1 .. n : Turn(n, k, i) = x
  <2> SUFFICES ASSUME NEW x \in 1 .. n PROVE \E i \in 1 .. n : Turn(n, k, i) = x
    OBVIOUS
  <2>1. CASE x > k
    <3>1. x - k \in 1 .. n /\ Turn(n, k, x - k) = x
      BY <2>1 DEF Turn
    <3> QED
      BY <3>1
  <2>2. CASE x <= k
    <3>1. x + n - k \in 1 .. n /\ Turn(n, k, x + n - k) = x
      BY <2>2 DEF Turn
    <3> QED
      BY <3>1
  <2> QED
    BY <2>1, <2>2
<1>3. \A i \in 1 .. n : After(t, i) = After(s, Turn(n, k, i))
  <2> SUFFICES ASSUME NEW i \in 1 .. n PROVE After(t, i) = After(s, Turn(n, k, i))
    OBVIOUS
  <2> DEFINE x == Turn(n, k, i)
             next == IF i = n THEN 1 ELSE i + 1
  <2>1. next \in 1 .. n /\ x \in 1 .. n
    BY <1>1
  <2>2. After(t, i) = t[next] /\ After(s, x) = s[IF x = n THEN 1 ELSE x + 1]
    BY <2>1, AfterIs
  <2>3. Turn(n, k, next) = IF x = n THEN 1 ELSE x + 1
    BY DEF Turn
  <2> QED
    BY <2>1, <2>2, <2>3
<1>4. \A i \in 1 .. n :
        <<t[i], After(t, i)>> = <<s[Turn(n, k, i)], After(s, Turn(n, k, i))>>
  BY <1>3
<1> QED
  BY <1>1, <1>2, <1>4 DEF Drivable

\* A loop without repetition from the start is one of those that are enumerated.
LEMMA LoopsAreTours ==
  ASSUME problem \in Problems, NEW t \in Seq(City), Len(t) = problem.n, t[1] = 1,
         \A i, j \in 1 .. problem.n : t[i] = t[j] => i = j
  PROVE  t \in Tours
<1> DEFINE n == problem.n
           u == [i \in 1 .. n - 1 |-> t[i + 1]]
<1>1. n \in Nat /\ n > 1 /\ City = 1 .. n
  BY ProblemFacts
<1>2. DOMAIN t = 1 .. n /\ \A i \in 1 .. n : t[i] \in 1 .. n
  BY <1>1
<1> HIDE DEF n
<1>3. \A i \in 1 .. n - 1 : i + 1 \in 1 .. n /\ i + 1 # 1
  BY <1>1
<1>4. \A i \in 1 .. n - 1 : t[i + 1] \in 2 .. n
  <2> SUFFICES ASSUME NEW i \in 1 .. n - 1 PROVE t[i + 1] \in 2 .. n
    OBVIOUS
  <2>1. t[i + 1] # t[1]
    BY <1>1, <1>3 DEF n
  <2> QED
    BY <1>1, <1>2, <1>3, <2>1
<1>5. u \in [1 .. n - 1 -> 2 .. n]
  BY <1>4
<1>6. \A i, j \in 1 .. n - 1 : u[i] = u[j] => i = j
  <2> TAKE i, j \in 1 .. n - 1
  <2>1. u[i] = t[i + 1] /\ u[j] = t[j + 1]
    OBVIOUS
  <2>2. t[i + 1] = t[j + 1] => i + 1 = j + 1
    BY <1>3 DEF n
  <2> QED
    BY <1>1, <2>1, <2>2
<1>7. u \in Injection(1 .. n - 1, 2 .. n)
  BY <1>5, <1>6 DEF Injection, IsInjective
<1> HIDE DEF u
<1>8. u \in Seq(2 .. n) /\ Len(u) = n - 1
  BY <1>1, <1>5
<1>9. \A i \in 1 .. n - 1 : u[i] = t[i + 1]
  BY DEF u
<1>10. Len(<<1>> \o u) = n /\ \A i \in 1 .. n : (<<1>> \o u)[i] = IF i = 1 THEN 1 ELSE u[i - 1]
  BY <1>1, <1>8
<1>11. \A i \in 1 .. n : t[i] = (<<1>> \o u)[i]
  BY <1>1, <1>9, <1>10 DEF n
<1>12. <<1>> \o u \in Seq(City)
  BY <1>1, <1>8
<1>13. t = <<1>> \o u
  BY <1>10, <1>11, <1>12 DEF n
<1> QED
  BY <1>7, <1>13 DEF Tours, n

\* The guardrail accepts what is a loop, turned, and nothing else.
LEMMA AcceptedAreLoops ==
  ASSUME problem \in Problems, NEW route \in Seq(City),
         problem.first = 0 \/ (route # <<>> /\ route[1] = 1)
  PROVE  Acceptable(route) <=>
           \E t \in Tours, k \in 0 .. problem.n - 1 :
             /\ Drivable(t) /\ (problem.first # 0 => t[2] = problem.first)
             /\ route = [i \in City |-> t[((i + k - 1) % problem.n) + 1]]
<1> DEFINE n == problem.n
<1>1. n \in Nat /\ n > 1 /\ City = 1 .. n /\ n = problem.n
  BY ProblemFacts
<1> HIDE DEF n
<1>2. ASSUME Acceptable(route)
      PROVE  \E t \in Tours, k \in 0 .. n - 1 :
               /\ Drivable(t) /\ (problem.first # 0 => t[2] = problem.first)
               /\ route = [i \in City |-> t[((i + k - 1) % n) + 1]]
  <2>1. Len(route) = n /\ DOMAIN route = 1 .. n /\ Drivable(route)
    BY <1>1, <1>2 DEF Acceptable, Complete
  <2>2. {route[i] : i \in 1 .. n} = City
    BY <1>2, <2>1 DEF Acceptable, Complete
  <2>3. \A i, j \in 1 .. n : route[i] = route[j] => i = j
    BY <1>1, <2>1, <2>2, FullIffOnce
  <2>4. PICK m \in 1 .. n : route[m] = 1
    BY <1>1, <2>2
  <2> DEFINE back == m - 1
             k == IF m = 1 THEN 0 ELSE n + 1 - m
             t == [i \in 1 .. n |-> route[Turn(n, back, i)]]
  <2>5. back \in 0 .. n - 1 /\ k \in 0 .. n - 1
    BY <1>1
  <2> HIDE DEF back, k
  <2>6. \A i \in 1 .. n : Turn(n, back, i) \in 1 .. n /\ Turn(n, k, i) \in 1 .. n
    BY <1>1, <2>5, TurnIs
  <2>7. \A i \in 1 .. n : Turn(n, back, Turn(n, k, i)) = i
    <3> SUFFICES ASSUME NEW i \in 1 .. n PROVE Turn(n, back, Turn(n, k, i)) = i
      OBVIOUS
    <3>1. CASE m = 1
      BY <1>1, <3>1 DEF Turn, back, k
    <3>2. CASE m # 1
      <4>1. back = m - 1 /\ k = n + 1 - m
        BY <3>2 DEF back, k
      <4>2. CASE i < m
        <5>1. Turn(n, k, i) = i + n + 1 - m
          BY <1>1, <4>1, <4>2 DEF Turn
        <5> QED
          BY <1>1, <4>1, <4>2, <5>1 DEF Turn
      <4>3. CASE i >= m
        <5>1. Turn(n, k, i) = i + 1 - m
          BY <1>1, <4>1, <4>3 DEF Turn
        <5> QED
          BY <1>1, <4>1, <4>3, <5>1 DEF Turn
      <4> QED
        BY <4>2, <4>3
    <3> QED
      BY <3>1, <3>2
  <2>8. t \in [1 .. n -> City]
    BY <1>1, <2>1, <2>2, <2>6
  <2>9. \A i \in 1 .. n : t[i] = route[Turn(n, back, i)]
    OBVIOUS
  <2> HIDE DEF t
  <2>10. t \in Seq(City) /\ Len(t) = n /\ DOMAIN t = 1 .. n
    <3>1. t \in Seq(City)
      BY <1>1, <2>8
    <3>2. DOMAIN t = 1 .. n
      BY <2>8
    <3> QED
      BY <1>1, <3>1, <3>2
  <2>11. /\ Drivable(t)
         /\ \A i, j \in 1 .. n : t[i] = t[j] => i = j
    <3>1. Drivable(t) <=> Drivable(route)
      <4>1. Len(route) = n /\ DOMAIN route = 1 .. n /\ Len(t) = n /\ DOMAIN t = 1 .. n
        BY <2>1, <2>10
      <4> QED
        BY <1>1, <2>5, <2>9, <4>1, TurnedLegs
    <3>2. \A i, j \in 1 .. n : t[i] = t[j] => i = j
      <4> TAKE i, j \in 1 .. n
      <4> DEFINE x == Turn(n, back, i)
                 y == Turn(n, back, j)
      <4>1. x = y => i = j
        BY <1>1, <2>5, TurnOnce
      <4>2. x \in 1 .. n /\ y \in 1 .. n /\ t[i] = route[x] /\ t[j] = route[y]
        BY <2>6, <2>9
      <4> HIDE DEF x, y
      <4>3. route[x] = route[y] => x = y
        BY <2>3, <4>2
      <4> QED
        BY <4>1, <4>2, <4>3
    <3> QED
      BY <2>1, <3>1, <3>2
  <2>12. Turn(n, back, 1) = m
    BY <1>1 DEF Turn, back
  <2>13. t[1] = 1
    BY <1>1, <2>4, <2>9, <2>12
  <2>14. t \in Tours
    BY <1>1, <2>10, <2>11, <2>13, LoopsAreTours
  <2>15. ASSUME problem.first # 0 PROVE t[2] = problem.first
    <3>1. route[1] = 1 /\ route[2] = problem.first
      BY <1>2, <2>15 DEF Acceptable
    <3>2. m = 1
      BY <1>1, <2>3, <2>4, <3>1
    <3>3. Turn(n, back, 2) = 2
      BY <1>1, <3>2 DEF Turn, back
    <3> QED
      BY <1>1, <2>9, <3>1, <3>3
  <2>16. \A i \in 1 .. n : ((i + k - 1) % n) + 1 = Turn(n, k, i)
    BY <1>1, <2>5, TurnIs
  <2>17. \A i \in 1 .. n : route[i] = t[((i + k - 1) % n) + 1]
    BY <2>6, <2>7, <2>9, <2>16
  <2>18. route = [i \in City |-> t[((i + k - 1) % n) + 1]]
    BY <1>1, <2>1, <2>17
  <2> QED
    BY <2>5, <2>11, <2>14, <2>15, <2>18
<1>3. ASSUME NEW t \in Tours, NEW k \in 0 .. n - 1,
             Drivable(t), problem.first # 0 => t[2] = problem.first,
             route = [i \in City |-> t[((i + k - 1) % n) + 1]]
      PROVE  Acceptable(route)
  <2>1. t \in Seq(City) /\ Len(t) = n /\ DOMAIN t = 1 .. n /\ t[1] = 1
        /\ \A i, j \in 1 .. n : t[i] = t[j] => i = j
    BY <1>1, ToursAreLoops
  <2>2. \A i \in 1 .. n : ((i + k - 1) % n) + 1 = Turn(n, k, i) /\ Turn(n, k, i) \in 1 .. n
    BY <1>1, TurnIs
  <2>3. DOMAIN route = 1 .. n /\ Len(route) = n
    BY <1>1, <1>3
  <2>4. \A i \in 1 .. n : route[i] = t[Turn(n, k, i)]
    BY <1>1, <1>3, <2>2
  <2>5. Drivable(route) /\ \A i, j \in 1 .. n : route[i] = route[j] => i = j
    <3>1. Drivable(route) <=> Drivable(t)
      BY <1>1, <2>1, <2>3, <2>4, TurnedLegs
    <3>2. \A i, j \in 1 .. n : route[i] = route[j] => i = j
      <4>1. \A i, j \in 1 .. n : t[i] = t[j] => i = j
        BY <2>1
      <4>2. \A i, j \in 1 .. n : Turn(n, k, i) = Turn(n, k, j) => i = j
        BY <1>1, TurnOnce
      <4>3. \A i \in 1 .. n : Turn(n, k, i) \in 1 .. n
        BY <2>2
      <4> QED
        BY <2>4, <4>1, <4>2, <4>3
    <3> QED
      BY <1>3, <3>1, <3>2
  <2>6. City \subseteq {route[i] : i \in DOMAIN route}
    BY <1>1, <2>3, <2>5, FullIffOnce
  <2>7. {route[i] : i \in DOMAIN route} = City
    BY <2>6
  <2>8. ASSUME problem.first # 0 PROVE route[2] = problem.first
    <3> DEFINE x == Turn(n, k, 1)
    <3>1. 1 \in 1 .. n /\ route[1] = 1
      BY <1>1, <2>8
    <3>2. route[1] = t[x] /\ x \in 1 .. n
      BY <2>2, <2>4, <3>1
    <3>3. \A i, j \in 1 .. n : t[i] = t[j] => i = j
      BY <2>1
    <3>4. t[1] = 1
      BY <2>1
    <3> HIDE DEF x
    <3>5. x = 1
      BY <3>1, <3>2, <3>3, <3>4
    <3>6. k = 0
      BY <1>1, <3>5 DEF x, Turn
    <3>7. Turn(n, k, 2) = 2 /\ 2 \in 1 .. n
      BY <1>1, <3>6 DEF Turn
    <3>8. route[2] = t[2]
      BY <2>4, <3>7
    <3> QED
      BY <1>3, <2>8, <3>8
  <2> QED
    BY <1>1, <2>3, <2>5, <2>7, <2>8 DEF Acceptable, Complete
<1> QED
  BY <1>1, <1>2, <1>3

-----------------------------------------------------------------------------
(* What loops cost: sums of legs, and what reversing a part does to them.   *)

\* Induction over a set of naturals.
LEMMA Counting ==
  ASSUME NEW S \in SUBSET Nat, NEW m \in Nat, 0 \in S,
         \A k \in 0 .. m : k > 0 /\ k - 1 \in S => k \in S
  PROVE  0 .. m \subseteq S
<1> SUFFICES ASSUME NEW x \in 0 .. m, x \notin S PROVE FALSE
  OBVIOUS
<1> DEFINE T == {k \in 0 .. m : k \notin S}
<1>1. T \subseteq Nat /\ T # {}
  OBVIOUS
<1>2. PICK k \in T : \A l \in T : k <= l
  <2> DEFINE R == OpToRel(<, Nat)
  <2>1. IsWellFoundedOn(R, Nat)
    BY NatLessThanWellFounded
  <2>2. \A k, l \in Nat : l < k => <<l, k>> \in R
    BY DEF OpToRel
  <2> HIDE DEF R, T
  <2>3. PICK k \in T : \A l \in T : ~(<<l, k>> \in R)
    BY <1>1, <2>1, WFMin
  <2>4. \A l \in T : k \in Nat /\ l \in Nat /\ ~(l < k)
    BY <1>1, <2>2, <2>3, Zenon
  <2>5. \A l \in T : k <= l
    BY <2>4, SMT
  <2> QED
    BY <2>5
<1>3. k > 0 /\ k - 1 \in 0 .. m
  BY <1>2
<1>4. k - 1 \in S
  BY <1>2, <1>3
<1> QED
  BY <1>2, <1>3, <1>4

\* The sums of the first of a list of costs.
SumsOf(c, m, U) ==
  /\ U \in [0 .. m -> Nat] /\ U[0] = 0
  /\ \A k \in 1 .. m : U[k] = U[k - 1] + c[k]

\* There are such sums.
LEMMA SumsExist ==
  ASSUME NEW m \in Nat, NEW c \in [1 .. m -> Nat]
  PROVE  \E U : SumsOf(c, m, U)
<1> DEFINE S == {k \in 0 .. m : \E U : SumsOf(c, k, U)}
<1>1. 0 \in S
  <2>1. SumsOf(c, 0, [x \in 0 .. 0 |-> 0])
    BY DEF SumsOf
  <2> QED
    BY <2>1
<1>2. ASSUME NEW k \in 0 .. m, k > 0, k - 1 \in S PROVE k \in S
  <2>1. PICK U : SumsOf(c, k - 1, U)
    BY <1>2
  <2> DEFINE V == [x \in 0 .. k |-> IF x = k THEN U[k - 1] + c[k] ELSE U[x]]
  <2>2. SumsOf(c, k, V)
    <3>1. V \in [0 .. k -> Nat]
      BY <1>2, <2>1 DEF SumsOf
    <3>2. V[0] = 0
      BY <1>2, <2>1 DEF SumsOf
    <3>3. ASSUME NEW x \in 1 .. k PROVE V[x] = V[x - 1] + c[x]
      <4>1. V[x - 1] = U[x - 1]
        BY <1>2, <3>3
      <4>2. x # k => V[x] = U[x] /\ U[x] = U[x - 1] + c[x]
        BY <1>2, <2>1, <3>3 DEF SumsOf
      <4>3. x = k => V[x] = U[x - 1] + c[x]
        BY <1>2, <3>3
      <4> QED
        BY <4>1, <4>2, <4>3
    <3> QED
      BY <3>1, <3>2, <3>3 DEF SumsOf
  <2> QED
    BY <2>2
<1> HIDE DEF S
<1>3. m \in S
  <2>1. S \in SUBSET Nat
    BY DEF S
  <2>2. 0 .. m \subseteq S
    BY <1>1, <1>2, <2>1, Counting
  <2> QED
    BY <2>2
<1> QED
  BY <1>3 DEF S

\* What costs have in common over a range, their sums gain alike.
LEMMA SumsAlike ==
  ASSUME NEW a \in Nat, NEW b \in Nat, a <= b, NEW U, NEW V,
         \A k \in a .. b : U[k] \in Int /\ V[k] \in Int,
         \A k \in a + 1 .. b : V[k] - V[k - 1] = U[k] - U[k - 1]
  PROVE  V[b] - V[a] = U[b] - U[a]
<1> DEFINE S == {k \in 0 .. b - a : V[a + k] - V[a] = U[a + k] - U[a]}
<1>1. 0 \in S /\ S \in SUBSET Nat
  OBVIOUS
<1>2. ASSUME NEW k \in 0 .. b - a, k > 0, k - 1 \in S PROVE k \in S
  <2> DEFINE x == a + k
  <2>1. x \in a + 1 .. b /\ x \in a .. b /\ x - 1 \in a .. b /\ a \in a .. b /\ a + (k - 1) = x - 1
    BY <1>2
  <2>2. V[x - 1] - V[a] = U[x - 1] - U[a]
    BY <1>2, <2>1
  <2> HIDE DEF x
  <2>3. V[x] - V[a] = U[x] - U[a]
    BY <2>1, <2>2
  <2> QED
    BY <2>3 DEF x
<1> HIDE DEF S
<1>3. b - a \in S
  BY <1>1, <1>2, Counting
<1> QED
  BY <1>3 DEF S

\* So they do if one takes the other's costs in the opposite order.
LEMMA SumsMirrored ==
  ASSUME NEW a \in Nat, NEW b \in Nat, a <= b, NEW U, NEW V,
         \A k \in a .. b : U[k] \in Int /\ V[k] \in Int,
         \A k \in a + 1 .. b : V[k] - V[k - 1] = U[a + b + 1 - k] - U[a + b - k]
  PROVE  V[b] - V[a] = U[b] - U[a]
<1> DEFINE W == [k \in a .. b |-> U[b] - U[a + b - k]]
<1>1. \A k \in a .. b : a + b - k \in a .. b
  OBVIOUS
<1>2. \A k \in a .. b : W[k] = U[b] - U[a + b - k] /\ W[k] \in Int
  BY <1>1
<1> HIDE DEF W
<1>3. ASSUME NEW k \in a + 1 .. b PROVE V[k] - V[k - 1] = W[k] - W[k - 1]
  <2>1. k \in a .. b /\ k - 1 \in a .. b /\ b \in a .. b /\ a + b - (k - 1) = a + b + 1 - k
    OBVIOUS
  <2>2. a + b - k \in a .. b /\ a + b + 1 - k \in a .. b
    OBVIOUS
  <2>3. W[k] = U[b] - U[a + b - k] /\ W[k - 1] = U[b] - U[a + b + 1 - k]
    BY <1>2, <2>1
  <2>4. V[k] - V[k - 1] = U[a + b + 1 - k] - U[a + b - k]
    OBVIOUS
  <2>5. U[b] \in Int /\ U[a + b - k] \in Int /\ U[a + b + 1 - k] \in Int
    BY <2>1, <2>2
  <2> QED
    BY <2>3, <2>4, <2>5
<1>4. V[b] - V[a] = W[b] - W[a]
  BY <1>2, <1>3, SumsAlike
<1>5. a \in a .. b /\ b \in a .. b /\ a + b - a = b /\ a + b - b = a
  OBVIOUS
<1>6. W[b] = U[b] - U[a] /\ W[a] = U[b] - U[b]
  BY <1>2, <1>5
<1>7. U[a] \in Int /\ U[b] \in Int /\ V[a] \in Int /\ V[b] \in Int
  BY <1>5
<1> QED
  BY <1>4, <1>6, <1>7

\* Roads are the edges and, both ways, their reverses.
LEMMA RoadsAreListed ==
  ASSUME problem \in Problems, NEW a, NEW b, <<a, b>> \in Roads
  PROVE  <<a, b>> \in DOMAIN problem.edges \/ <<b, a>> \in DOMAIN problem.edges
<1>1. \A e \in DOMAIN problem.edges : e = <<e[1], e[2]>>
  BY TourAssumption DEF ProblemAssumption
<1>2. CASE \E e \in DOMAIN problem.edges : <<a, b>> = <<e[2], e[1]>>
  BY <1>1, <1>2
<1> QED
  BY <1>2 DEF Roads

\* Every leg has a cost.
LEMMA CostIsNat ==
  ASSUME problem \in Problems, NEW a, NEW b
  PROVE  Cost(a, b) \in Nat
<1>1. Far \in Nat /\ \A e \in DOMAIN problem.edges : problem.edges[e] \in Nat
  BY TourAssumption DEF ProblemAssumption
<1>2. <<a, b>> \in Roads => <<a, b>> \in DOMAIN problem.edges \/ <<b, a>> \in DOMAIN problem.edges
  BY RoadsAreListed
<1> QED
  BY <1>1, <1>2 DEF Cost

\* A leg of an undirected problem costs the same both ways.
LEMMA CostBothWays ==
  ASSUME problem \in Problems, ~problem.directed, NEW a, NEW b
  PROVE  Cost(a, b) = Cost(b, a)
<1>1. \A e \in DOMAIN problem.edges : <<e[2], e[1]>> \notin DOMAIN problem.edges
  BY TourAssumption DEF ProblemAssumption
<1>2. ~(<<a, b>> \in DOMAIN problem.edges /\ <<b, a>> \in DOMAIN problem.edges)
  BY <1>1
<1>3. <<a, b>> \in Roads <=> <<b, a>> \in Roads
  BY BothWays
<1>4. <<a, b>> \in Roads => <<a, b>> \in DOMAIN problem.edges \/ <<b, a>> \in DOMAIN problem.edges
  BY RoadsAreListed
<1> QED
  BY <1>2, <1>3, <1>4 DEF Cost

\* The cost of a loop is the last of the sums of its legs.
LEMMA LoopCostIs ==
  ASSUME problem \in Problems, NEW t, Len(t) \in Nat
  PROVE  \E U : /\ SumsOf([k \in 1 .. Len(t) |-> Cost(t[k], After(t, k))], Len(t), U)
                /\ LoopCost(t) = U[Len(t)]
<1> DEFINE n == Len(t)
           c == [k \in 1 .. n |-> Cost(t[k], After(t, k))]
           Adds(f) == f = [i \in 0 .. n |-> IF i = 0 THEN 0 ELSE f[i - 1] + Cost(t[i], After(t, i))]
           U == CHOOSE f : Adds(f)
<1>1. c \in [1 .. n -> Nat]
  BY CostIsNat
<1>2. PICK V : SumsOf(c, n, V)
  BY <1>1, SumsExist
<1>3. Adds(V)
  <2>1. \A i \in 0 .. n : i # 0 => i \in 1 .. n /\ c[i] = Cost(t[i], After(t, i))
    OBVIOUS
  <2> HIDE DEF c
  <2>2. \A i \in 0 .. n : V[i] = IF i = 0 THEN 0 ELSE V[i - 1] + Cost(t[i], After(t, i))
    BY <1>2, <2>1 DEF SumsOf
  <2>3. V = [i \in 0 .. n |-> V[i]]
    BY <1>2 DEF SumsOf
  <2> QED
    BY <2>2, <2>3
<1>4. Adds(U)
  <2> HIDE DEF Adds
  <2> QED
    BY <1>3
<1>5. LoopCost(t) = U[n]
  BY Zenon DEF LoopCost
<1>6. SumsOf(c, n, U)
  <2> HIDE DEF U
  <2>1. DOMAIN U = 0 .. n /\ U = [k \in 0 .. n |-> U[k]]
    BY <1>4
  <2>2. U[0] = 0
    BY <1>4
  <2>3. \A k \in 1 .. n : U[k] = U[k - 1] + Cost(t[k], After(t, k))
    <3> SUFFICES ASSUME NEW k \in 1 .. n PROVE U[k] = U[k - 1] + Cost(t[k], After(t, k))
      OBVIOUS
    <3>1. k \in 0 .. n /\ k # 0
      OBVIOUS
    <3> QED
      BY <1>4, <3>1
  <2>4. \A k \in 1 .. n : U[k] = U[k - 1] + c[k]
    BY <2>3
  <2>5. \A k \in 0 .. n : U[k] \in Nat
    <3> DEFINE S == {k \in 0 .. n : U[k] \in Nat}
    <3>1. 0 \in S /\ S \in SUBSET Nat
      BY <2>2
    <3>2. ASSUME NEW k \in 0 .. n, k > 0, k - 1 \in S PROVE k \in S
      BY <1>1, <2>4, <3>2
    <3> HIDE DEF S
    <3>3. 0 .. n \subseteq S
      BY <3>1, <3>2, Counting
    <3> QED
      BY <3>3 DEF S
  <2> HIDE DEF c
  <2>6. U \in [0 .. n -> Nat]
    BY <2>1, <2>5
  <2> QED
    BY <2>2, <2>4, <2>6 DEF SumsOf
<1> QED
  BY <1>5, <1>6

\* A loop costs a natural number.
LEMMA LoopCostIsNat ==
  ASSUME problem \in Problems, NEW t, Len(t) \in Nat
  PROVE  LoopCost(t) \in Nat
<1> DEFINE c == [k \in 1 .. Len(t) |-> Cost(t[k], After(t, k))]
<1>1. PICK U : SumsOf(c, Len(t), U) /\ LoopCost(t) = U[Len(t)]
  BY LoopCostIs
<1> QED
  BY <1>1 DEF SumsOf

\* Sums that gain alike, but between i and j in the opposite order, and at i and j.
RunBack(n, i, j, U, V) ==
  /\ n \in Nat /\ i \in Nat /\ j \in Nat /\ 1 <= i /\ i < j /\ j <= n
  /\ \A k \in 0 .. n : U[k] \in Int /\ V[k] \in Int
  /\ U[0] = 0 /\ V[0] = 0
  /\ \A k \in 1 .. n : k < i \/ k > j => V[k] - V[k - 1] = U[k] - U[k - 1]
  /\ \A k \in i + 1 .. j - 1 : V[k] - V[k - 1] = U[i + j - k] - U[(i + j - k) - 1]

\* Their last ones differ by what they gain at i and j.
LEMMA SumsReversed ==
  ASSUME NEW n, NEW i, NEW j, NEW U, NEW V, RunBack(n, i, j, U, V)
  PROVE  V[n] - U[n] = (V[i] - V[i - 1]) + (V[j] - V[j - 1]) - (U[i] - U[i - 1]) - (U[j] - U[j - 1])
<1> USE DEF RunBack
<1>1. V[i - 1] - V[0] = U[i - 1] - U[0]
  <2>1. \A k \in 0 .. i - 1 : U[k] \in Int /\ V[k] \in Int
    OBVIOUS
  <2>2. \A k \in 0 + 1 .. i - 1 : V[k] - V[k - 1] = U[k] - U[k - 1]
    OBVIOUS
  <2>3. i - 1 \in Nat /\ 0 <= i - 1
    OBVIOUS
  <2> QED
    BY <2>1, <2>2, <2>3, SumsAlike
<1>2. V[j - 1] - V[i] = U[j - 1] - U[i]
  <2> DEFINE b == j - 1
  <2>1. b \in Nat /\ i <= b /\ \A k \in i .. b : U[k] \in Int /\ V[k] \in Int
    OBVIOUS
  <2>2. ASSUME NEW k \in i + 1 .. b
        PROVE  V[k] - V[k - 1] = U[i + b + 1 - k] - U[i + b - k]
    <3>1. i + b + 1 - k = i + j - k /\ i + b - k = (i + j - k) - 1
      OBVIOUS
    <3> QED
      BY <3>1
  <2> HIDE DEF b
  <2>3. V[b] - V[i] = U[b] - U[i]
    BY <2>1, <2>2, SumsMirrored
  <2> QED
    BY <2>3 DEF b
<1>3. V[n] - V[j] = U[n] - U[j]
  <2>1. \A k \in j .. n : U[k] \in Int /\ V[k] \in Int
    OBVIOUS
  <2>2. \A k \in j + 1 .. n : V[k] - V[k - 1] = U[k] - U[k - 1]
    OBVIOUS
  <2> QED
    BY <2>1, <2>2, SumsAlike
<1>4. \A k \in {i - 1, i, j - 1, j, n} : U[k] \in Int /\ V[k] \in Int
  OBVIOUS
<1>5. V[i - 1] = U[i - 1]
  BY <1>1, <1>4
<1>6. /\ U[i - 1] \in Int /\ U[i] \in Int /\ U[j - 1] \in Int /\ U[j] \in Int /\ U[n] \in Int
      /\ V[i - 1] \in Int /\ V[i] \in Int /\ V[j - 1] \in Int /\ V[j] \in Int /\ V[n] \in Int
  BY <1>4
<1> DEFINE u0 == U[i - 1]  u1 == U[i]  u2 == U[j - 1]  u3 == U[j]  u4 == U[n]
           v0 == V[i - 1]  v1 == V[i]  v2 == V[j - 1]  v3 == V[j]  v4 == V[n]
<1>7. v0 = u0 /\ v2 - v1 = u2 - u1 /\ v4 - v3 = u4 - u3
  BY <1>2, <1>3, <1>5
<1>8. /\ u0 \in Int /\ u1 \in Int /\ u2 \in Int /\ u3 \in Int /\ u4 \in Int
      /\ v0 \in Int /\ v1 \in Int /\ v2 \in Int /\ v3 \in Int /\ v4 \in Int
  BY <1>6
<1> HIDE DEF u0, u1, u2, u3, u4, v0, v1, v2, v3, v4
<1>9. v4 - u4 = (v1 - v0) + (v3 - v2) - (u1 - u0) - (u3 - u2)
  BY <1>7, <1>8
<1> QED
  BY <1>9 DEF u0, u1, u2, u3, u4, v0, v1, v2, v3, v4

\* Of an undirected loop: it costs more by what the new legs cost more than the old.
LEMMA FlippedCost ==
  ASSUME problem \in Problems, ~problem.directed, NEW t \in Seq(City), Len(t) = problem.n,
         NEW i \in City, NEW j \in City, i < j
  PROVE  /\ LoopCost(t) \in Nat /\ LoopCost(Flipped(t, i, j)) \in Nat
         /\ LoopCost(Flipped(t, i, j)) - LoopCost(t) =
              Cost(t[i], t[j]) + Cost(After(t, i), After(t, j))
                - Cost(t[i], After(t, i)) - Cost(t[j], After(t, j))
<1> DEFINE n == problem.n
           r == Flipped(t, i, j)
           turn(k) == i + j - k
           c == [k \in 1 .. n |-> Cost(t[k], After(t, k))]
           d == [k \in 1 .. n |-> Cost(r[k], After(r, k))]
<1>1. n \in Nat /\ City = 1 .. n /\ i \in Nat /\ j \in Nat /\ 1 <= i /\ i < j /\ j <= n
  BY ProblemFacts
<1>2. /\ Len(r) = n /\ DOMAIN r = 1 .. n
      /\ \A k \in 1 .. n : k < i \/ k > j => r[k] = t[k] /\ After(r, k) = After(t, k)
      /\ r[i] = t[i] /\ After(r, i) = t[j]
      /\ r[j] = After(t, i) /\ After(r, j) = After(t, j)
      /\ \A k \in 1 .. n : k > i /\ k < j =>
           /\ turn(k) \in 1 .. n /\ turn(k) > i /\ turn(k) < j
           /\ r[k] = After(t, turn(k)) /\ After(r, k) = t[turn(k)]
  BY FlippedLegs
<1> HIDE DEF n, r
<1>3. PICK U : SumsOf(c, n, U) /\ LoopCost(t) = U[n]
  BY <1>1, LoopCostIs DEF n
<1>4. PICK V : SumsOf(d, n, V) /\ LoopCost(r) = V[n]
  BY <1>1, <1>2, LoopCostIs
<1>5. \A k \in 1 .. n : c[k] \in Nat /\ d[k] \in Nat
  BY CostIsNat
<1>6. \A k \in 1 .. n : k < i \/ k > j => d[k] = c[k]
  BY <1>2
<1>7. d[i] = Cost(t[i], t[j]) /\ d[j] = Cost(After(t, i), After(t, j))
  BY <1>1, <1>2
<1>8. c[i] = Cost(t[i], After(t, i)) /\ c[j] = Cost(t[j], After(t, j))
  BY <1>1
<1>9. ASSUME NEW k \in 1 .. n, k > i, k < j PROVE turn(k) \in 1 .. n /\ d[k] = c[turn(k)]
  <2>1. turn(k) \in 1 .. n /\ r[k] = After(t, turn(k)) /\ After(r, k) = t[turn(k)]
    BY <1>2, <1>9
  <2>2. Cost(After(t, turn(k)), t[turn(k)]) = Cost(t[turn(k)], After(t, turn(k)))
    BY CostBothWays
  <2>3. d[k] = Cost(r[k], After(r, k))
    OBVIOUS
  <2> HIDE DEF turn
  <2>4. c[turn(k)] = Cost(t[turn(k)], After(t, turn(k)))
    BY <2>1
  <2> HIDE DEF c, d
  <2> QED
    BY <2>1, <2>2, <2>3, <2>4
<1> HIDE DEF c, d
<1>10. /\ \A k \in 0 .. n : U[k] \in Int /\ V[k] \in Int
       /\ U[0] = 0 /\ V[0] = 0 /\ U[n] \in Nat /\ V[n] \in Nat
       /\ \A k \in 1 .. n : U[k] = U[k - 1] + c[k] /\ V[k] = V[k - 1] + d[k]
  BY <1>1, <1>3, <1>4 DEF SumsOf
<1>11. ASSUME NEW k \in 1 .. n
       PROVE  U[k] - U[k - 1] = c[k] /\ V[k] - V[k - 1] = d[k]
  <2>1. k - 1 \in 0 .. n
    BY <1>1
  <2>2. U[k - 1] \in Int /\ V[k - 1] \in Int /\ c[k] \in Int /\ d[k] \in Int
    BY <1>5, <1>10, <2>1
  <2> QED
    BY <1>10, <2>2
<1>12. ASSUME NEW k \in 1 .. n, k < i \/ k > j PROVE V[k] - V[k - 1] = U[k] - U[k - 1]
  BY <1>6, <1>11, <1>12
<1>13. \A k \in i + 1 .. j - 1 : V[k] - V[k - 1] = U[i + j - k] - U[(i + j - k) - 1]
  <2> SUFFICES ASSUME NEW k \in i + 1 .. j - 1
               PROVE  V[k] - V[k - 1] = U[turn(k)] - U[turn(k) - 1]
    OBVIOUS
  <2>1. k \in 1 .. n /\ k > i /\ k < j
    BY <1>1
  <2>2. turn(k) \in 1 .. n /\ d[k] = c[turn(k)]
    BY <1>9, <2>1
  <2> HIDE DEF turn
  <2> QED
    BY <1>11, <2>1, <2>2
<1>14. V[n] - U[n] = (V[i] - V[i - 1]) + (V[j] - V[j - 1]) - (U[i] - U[i - 1]) - (U[j] - U[j - 1])
  <2>1. n \in Nat /\ i \in Nat /\ j \in Nat /\ 1 <= i /\ i < j /\ j <= n
    BY <1>1
  <2>2. (\A k \in 0 .. n : U[k] \in Int /\ V[k] \in Int) /\ U[0] = 0 /\ V[0] = 0
    BY <1>10
  <2>3. \A k \in 1 .. n : k < i \/ k > j => V[k] - V[k - 1] = U[k] - U[k - 1]
    BY <1>12
  <2>4. RunBack(n, i, j, U, V)
    BY <1>13, <2>1, <2>2, <2>3 DEF RunBack
  <2> QED
    BY <2>4, SumsReversed
<1>15. i \in 1 .. n /\ j \in 1 .. n
  BY <1>1
<1>16. V[n] - U[n] = d[i] + d[j] - c[i] - c[j]
  <2>1. /\ V[i] - V[i - 1] = d[i] /\ V[j] - V[j - 1] = d[j]
        /\ U[i] - U[i - 1] = c[i] /\ U[j] - U[j - 1] = c[j]
    BY <1>11, <1>15
  <2>2. c[i] \in Int /\ c[j] \in Int /\ d[i] \in Int /\ d[j] \in Int
    BY <1>5, <1>15
  <2> QED
    BY <1>14, <2>1, <2>2
<1> QED
  BY <1>3, <1>4, <1>7, <1>8, <1>10, <1>16 DEF r

-----------------------------------------------------------------------------
(* 2-opt and the enumeration.                                              *)

\* No step changes the problem.
LEMMA SameProblem ==
  ASSUME [Next]_vars
  PROVE  problem' = problem /\ (Large' <=> Large) /\ City' = City /\ Pairs' = Pairs
<1>1. problem' = problem
  BY DEF Next, Search, Enumerate, NoLoop, Greedy, Visit, Smooth, Keep, Exchange, Raise, Again,
    Settle, Split, JudgeFlagged, JudgeNoSplit, JudgeSplit, JudgeRoute, Judge, vars
<1> QED
  BY <1>1 DEF Large, City, Pairs

\* What the next state says of a loop of this problem.
LEMMA SameCosts ==
  ASSUME problem' = problem
  PROVE  /\ Roads' = Roads
         /\ LoopCost(tour)' = LoopCost(tour') /\ LoopCost(greedy)' = LoopCost(greedy')
         /\ Loops' = Loops /\ Cheapest' = Cheapest
<1>1. Roads' = Roads
  BY DEF Roads
<1>2. LoopCost(tour)' = LoopCost(tour') /\ LoopCost(greedy)' = LoopCost(greedy')
  BY <1>1 DEF LoopCost, Cost, After
<1>3. Loops' = Loops
  BY <1>1 DEF Loops, Tours, Canonical, Drivable, After
<1>4. Cheapest' = Cheapest
  BY <1>1, <1>3 DEF Cheapest, LoopCost, Cost, After
<1> QED
  BY <1>1, <1>2, <1>3, <1>4

\* The order of two places that make a pair.
LEMMA PairIs ==
  ASSUME problem \in Problems, NEW i, NEW j, <<i, j>> \in Pairs
  PROVE  i \in City /\ j \in City /\ i < j /\ i + 1 < j /\ i \in Nat /\ j \in Nat
BY ProblemFacts DEF Pairs

\* 2-opt keeps its account of what it has looked at.
LEMMA KeptNext ==
  ASSUME StateInv, KeptInv, ExactInv, [Next]_vars
  PROVE  KeptInv'
<1>1. problem' = problem /\ (Large' <=> Large) /\ City' = City /\ Pairs' = Pairs
  BY SameProblem
<1>2. ASSUME tour' = tour PROVE \A i, j : Kept(i, j)' <=> Kept(i, j)
  BY <1>1, <1>2 DEF Kept, NewLegs, OldLegs, Cheaper, Cost, Roads, After
<1>3. ASSUME phase' \notin {"improving", "found"} PROVE KeptInv'
  BY <1>3 DEF KeptInv
<1>4. CASE Enumerate
  BY <1>1, <1>4 DEF Enumerate, KeptInv
<1>5. CASE NoLoop \/ Greedy \/ Split \/ JudgeFlagged \/ JudgeNoSplit
  BY <1>3, <1>5 DEF NoLoop, Greedy, Split, JudgeFlagged, JudgeNoSplit, Judge
<1>6. ASSUME NEW c \in City, Visit(c) PROVE KeptInv'
  BY <1>3, <1>6 DEF Visit
<1>7. CASE Smooth \/ Again
  BY <1>1, <1>7 DEF Smooth, Again, KeptInv
<1>8. ASSUME NEW i \in City, NEW j \in City, Keep(i, j) PROVE KeptInv'
  <2>1. /\ phase = "improving" /\ phase' = phase /\ improved' = improved /\ tour' = tour
        /\ todo' = todo \ {<<i, j>>} /\ Kept(i, j)
    BY <1>8 DEF Keep, Due, Kept
  <2>2. ASSUME ~improved', NEW x \in Pairs \ todo' PROVE Kept(x[1], x[2])'
    <3>1. CASE x = <<i, j>>
      BY <1>2, <2>1, <3>1
    <3>2. CASE x # <<i, j>>
      BY <1>2, <2>1, <2>2, <3>2 DEF KeptInv
    <3> QED
      BY <3>1, <3>2
  <2> QED
    BY <1>1, <2>1, <2>2 DEF KeptInv
<1>9. ASSUME NEW i \in City, NEW j \in City, Exchange(i, j) PROVE KeptInv'
  BY <1>9 DEF Exchange, Due, KeptInv
<1>10. ASSUME NEW i \in City, NEW j \in City, Raise(i, j) PROVE KeptInv'
  BY <1>3, <1>10 DEF Raise
<1>11. CASE Settle
  <2>1. phase = "improving" /\ ~improved /\ todo = {} /\ phase' = "found" /\ tour' = tour
    BY <1>11 DEF Settle, Unfinished, search
  <2>2. \A x \in Pairs : Kept(x[1], x[2])
    BY <2>1 DEF KeptInv
  <2> QED
    BY <1>1, <1>2, <2>1, <2>2 DEF KeptInv
<1>12. ASSUME NEW heuristic \in BOOLEAN, JudgeSplit(heuristic) PROVE KeptInv'
  BY <1>3, <1>12 DEF JudgeSplit, Judge
<1>13. ASSUME NEW heuristic \in BOOLEAN, NEW route \in Handed, JudgeRoute(route, heuristic)
       PROVE  KeptInv'
  BY <1>3, <1>13 DEF JudgeRoute, Judge
<1>14. CASE UNCHANGED vars
  BY <1>1, <1>2, <1>14 DEF vars, search, KeptInv
<1> QED
  BY <1>4, <1>5, <1>6, <1>7, <1>8, <1>9, <1>10, <1>11, <1>12, <1>13, <1>14 DEF Next, Search

\* The enumeration names the cheapest loop.
LEMMA ExactNext ==
  ASSUME StateInv, ExactInv, [Next]_vars
  PROVE  ExactInv'
<1>1. problem' = problem /\ (Large' <=> Large)
  BY SameProblem
<1>2. Loops' = Loops /\ Cheapest' = Cheapest
  BY <1>1, SameCosts
<1> USE DEF ExactInv
<1>3. CASE Enumerate \/ NoLoop \/ Greedy \/ Smooth \/ Again \/ Settle \/ Split
  BY <1>1, <1>2, <1>3 DEF Enumerate, NoLoop, Greedy, Smooth, Again, Settle, Split, search
<1>4. ASSUME NEW c \in City, Visit(c) PROVE ExactInv'
  BY <1>1, <1>4 DEF Visit
<1>5. ASSUME NEW i \in City, NEW j \in City, Keep(i, j) \/ Exchange(i, j) \/ Raise(i, j)
      PROVE  ExactInv'
  BY <1>1, <1>5 DEF Keep, Exchange, Raise, Due, search
<1>6. CASE JudgeFlagged \/ JudgeNoSplit
  BY <1>6 DEF JudgeFlagged, JudgeNoSplit, Judge
<1>7. ASSUME NEW heuristic \in BOOLEAN, JudgeSplit(heuristic) PROVE ExactInv'
  BY <1>7 DEF JudgeSplit, Judge
<1>8. ASSUME NEW heuristic \in BOOLEAN, NEW route \in Handed, JudgeRoute(route, heuristic)
      PROVE  ExactInv'
  BY <1>8 DEF JudgeRoute, Judge
<1>9. CASE UNCHANGED vars
  BY <1>1, <1>2, <1>9 DEF vars, search
<1> QED
  BY <1>3, <1>4, <1>5, <1>6, <1>7, <1>8, <1>9 DEF Next, Search

\* An exchange makes an undirected loop cheaper.
LEMMA ExchangeIsCheaper ==
  ASSUME StateInv, ~problem.directed, NEW i \in City, NEW j \in City, Exchange(i, j)
  PROVE  /\ tour' = Flipped(tour, i, j)
         /\ LoopCost(Flipped(tour, i, j)) \in Nat /\ LoopCost(tour) \in Nat
         /\ LoopCost(Flipped(tour, i, j)) < LoopCost(tour)
<1>1. problem \in Problems /\ tour \in Seq(City) /\ Len(tour) = problem.n /\ i < j
  BY PairIs DEF Exchange, Due, StateInv
<1>2. Cost(tour[i], tour[j]) + Cost(After(tour, i), After(tour, j))
        < Cost(tour[i], After(tour, i)) + Cost(tour[j], After(tour, j))
  BY DEF Exchange, Cheaper
<1>3. /\ Cost(tour[i], tour[j]) \in Nat /\ Cost(After(tour, i), After(tour, j)) \in Nat
      /\ Cost(tour[i], After(tour, i)) \in Nat /\ Cost(tour[j], After(tour, j)) \in Nat
  BY <1>1, CostIsNat
<1>4. /\ LoopCost(tour) \in Nat /\ LoopCost(Flipped(tour, i, j)) \in Nat
      /\ LoopCost(Flipped(tour, i, j)) - LoopCost(tour) =
           Cost(tour[i], tour[j]) + Cost(After(tour, i), After(tour, j))
             - Cost(tour[i], After(tour, i)) - Cost(tour[j], After(tour, j))
  BY <1>1, FlippedCost
<1>5. tour' = Flipped(tour, i, j)
  BY DEF Exchange, Reversed, Flipped
<1> QED
  BY <1>2, <1>3, <1>4, <1>5

\* The loop costs no more than when 2-opt began.
LEMMA SavedNext ==
  ASSUME StateInv, SavedInv, [Next]_vars
  PROVE  SavedInv'
<1>1. problem' = problem /\ (Large' <=> Large)
  BY SameProblem
<1>2. LoopCost(tour)' = LoopCost(tour') /\ LoopCost(greedy)' = LoopCost(greedy')
  BY <1>1, SameCosts
<1>3. ASSUME UNCHANGED <<tour, greedy>>,
             phase' \in {"improving", "found"} => phase = "improving" \/ phase' = phase
      PROVE  SavedInv'
  BY <1>1, <1>2, <1>3 DEF SavedInv
<1>4. ASSUME phase' \notin {"improving", "found"} PROVE SavedInv'
  BY <1>4 DEF SavedInv
<1>5. CASE Enumerate
  BY <1>1, <1>5 DEF Enumerate, SavedInv
<1>6. CASE NoLoop \/ Greedy \/ Split \/ JudgeFlagged \/ JudgeNoSplit
  BY <1>4, <1>6 DEF NoLoop, Greedy, Split, JudgeFlagged, JudgeNoSplit, Judge
<1>7. ASSUME NEW c \in City, Visit(c) PROVE SavedInv'
  BY <1>4, <1>7 DEF Visit
<1>8. CASE Smooth
  <2>1. greedy' = tour /\ tour' = tour /\ problem \in Problems /\ Len(tour) \in Nat
    BY <1>8 DEF Smooth, StateInv
  <2>2. LoopCost(tour) \in Nat
    BY <2>1, LoopCostIsNat
  <2> QED
    BY <1>2, <2>1, <2>2 DEF SavedInv
<1>9. ASSUME NEW i \in City, NEW j \in City, Exchange(i, j) PROVE SavedInv'
  <2> SUFFICES ASSUME Large, ~problem.directed PROVE LoopCost(tour') <= LoopCost(greedy')
    BY <1>1, <1>2 DEF SavedInv
  <2>1. /\ tour' = Flipped(tour, i, j)
        /\ LoopCost(Flipped(tour, i, j)) \in Nat /\ LoopCost(tour) \in Nat
        /\ LoopCost(Flipped(tour, i, j)) < LoopCost(tour)
    BY <1>9, ExchangeIsCheaper
  <2>2. greedy' = greedy /\ LoopCost(tour) <= LoopCost(greedy)
    BY <1>9 DEF Exchange, Due, SavedInv
  <2>3. LoopCost(greedy) \in Nat
    <3>1. Len(greedy) \in Nat /\ problem \in Problems
      BY DEF StateInv
    <3> QED
      BY <3>1, LoopCostIsNat
  <2> QED
    BY <2>1, <2>2, <2>3
<1>10. ASSUME NEW i \in City, NEW j \in City, Keep(i, j) \/ Raise(i, j) PROVE SavedInv'
  BY <1>3, <1>10 DEF Keep, Raise, Due, search
<1>11. CASE Again \/ Settle
  BY <1>3, <1>11 DEF Again, Settle, search
<1>12. ASSUME NEW heuristic \in BOOLEAN, JudgeSplit(heuristic) PROVE SavedInv'
  BY <1>4, <1>12 DEF JudgeSplit, Judge
<1>13. ASSUME NEW heuristic \in BOOLEAN, NEW route \in Handed, JudgeRoute(route, heuristic)
       PROVE  SavedInv'
  BY <1>4, <1>13 DEF JudgeRoute, Judge
<1>14. CASE UNCHANGED vars
  BY <1>3, <1>14 DEF vars, search
<1> QED
  BY <1>5, <1>6, <1>7, <1>8, <1>9, <1>10, <1>11, <1>12, <1>13, <1>14 DEF Next, Search

\* No part of a loop can be reversed for less when all its pairs of legs are kept.
LEMMA KeptIsOptimum ==
  ASSUME problem \in Problems, ~problem.directed, tour \in Seq(City), Len(tour) = problem.n,
         \A x \in Pairs : Kept(x[1], x[2]),
         NEW i \in City, NEW j \in City, i < j, Drivable(Reversed(i, j))
  PROVE  LoopCost(Reversed(i, j)) >= LoopCost(tour)
<1> DEFINE n == problem.n
           r == Reversed(i, j)
           old == Cost(tour[i], After(tour, i)) + Cost(tour[j], After(tour, j))
           new == Cost(tour[i], tour[j]) + Cost(After(tour, i), After(tour, j))
<1>1. r = Flipped(tour, i, j)
  BY DEF Reversed, Flipped
<1>2. n \in Nat /\ City = 1 .. n /\ i \in Nat /\ j \in Nat /\ 1 <= i /\ i < j /\ j <= n
  BY ProblemFacts
<1>3. LoopCost(tour) \in Nat /\ LoopCost(r) \in Nat /\ LoopCost(r) - LoopCost(tour) =
        Cost(tour[i], tour[j]) + Cost(After(tour, i), After(tour, j))
          - Cost(tour[i], After(tour, i)) - Cost(tour[j], After(tour, j))
  BY <1>1, FlippedCost
<1>4. /\ Cost(tour[i], tour[j]) \in Nat /\ Cost(After(tour, i), After(tour, j)) \in Nat
      /\ Cost(tour[i], After(tour, i)) \in Nat /\ Cost(tour[j], After(tour, j)) \in Nat
  BY CostIsNat
<1>5. new >= old
  <2>1. \A k \in 1 .. n : After(tour, k) = IF k = n THEN tour[1] ELSE tour[k + 1]
    BY <1>2, AfterIs
  <2>2. CASE i + 1 = j
    <3>1. After(tour, i) = tour[j]
      BY <1>2, <2>1, <2>2
    <3> QED
      BY <1>4, <3>1
  <2>3. CASE i = 1 /\ j = n
    <3>1. After(tour, j) = tour[i]
      BY <1>2, <2>1, <2>3
    <3>2. Cost(tour[i], tour[j]) = Cost(tour[j], tour[i])
      BY CostBothWays
    <3>3. Cost(After(tour, i), tour[i]) = Cost(tour[i], After(tour, i))
      BY CostBothWays
    <3> QED
      BY <1>4, <3>1, <3>2, <3>3
  <2>4. CASE i + 1 # j /\ ~(i = 1 /\ j = n)
    <3>1. <<i, j>> \in Pairs
      BY <1>2, <2>4 DEF Pairs, City
    <3>2. Kept(i, j)
      BY <3>1
    <3>3. /\ DOMAIN r = 1 .. n /\ r[i] = tour[i] /\ After(r, i) = tour[j]
          /\ r[j] = After(tour, i) /\ After(r, j) = After(tour, j)
      BY <1>1, FlippedLegs
    <3>4. NewLegs(i, j) \subseteq Roads
      <4>1. i \in DOMAIN r /\ j \in DOMAIN r
        BY <1>2, <3>3
      <4>2. <<r[i], After(r, i)>> \in Roads /\ <<r[j], After(r, j)>> \in Roads
        BY <4>1, LegsAreRoads
      <4> QED
        BY <3>3, <4>2 DEF NewLegs
    <3>5. ~Cheaper(i, j)
      BY <3>2, <3>4 DEF Kept
    <3> QED
      BY <1>4, <3>5 DEF Cheaper
  <2> QED
    BY <2>2, <2>3, <2>4
<1> HIDE DEF r
<1> QED
  BY <1>3, <1>4, <1>5 DEF r

\* A loop or its reverse is enumerated, and both cost the same.
LEMMA OneWayOrTheOther ==
  ASSUME problem \in Problems, problem.first = 0, NEW t \in Tours, Drivable(t)
  PROVE  \E u \in Loops : LoopCost(u) = LoopCost(t)
<1> DEFINE n == problem.n
           u == Flipped(t, 1, n)
<1>1. n \in Nat /\ n > 1 /\ City = 1 .. n
  BY ProblemFacts
<1>2. /\ t \in Seq(City) /\ Len(t) = n /\ t[1] = 1 /\ DOMAIN t = 1 .. n
      /\ \A i, j \in DOMAIN t : t[i] = t[j] => i = j
  BY <1>1, ToursAreLoops
<1>3. CASE Canonical(t)
  BY <1>3 DEF Loops
<1>4. CASE ~Canonical(t)
  <2>1. ~problem.directed /\ n >= 3 /\ ~(t[2] < t[n])
    BY <1>1, <1>4 DEF Canonical
  <2>2. 1 \in City /\ n \in City /\ 1 < n
    BY <1>1
  <2>3. /\ u \in Seq(City) /\ Len(u) = n /\ u[1] = 1
        /\ \A k, l \in 1 .. n : u[k] = u[l] => k = l
    BY <1>2, <2>2, FlippedIsLoop
  <2>4. u \in Tours
    BY <2>3, LoopsAreTours
  <2>5. Canonical(u)
    <3>1. u[2] = t[n] /\ u[n] = t[2]
      <4>1. 2 \in 1 .. n /\ n \in 1 .. n /\ 2 \in 1 + 1 .. n /\ n \in 1 + 1 .. n
            /\ 1 + 1 + n - 2 = n /\ 1 + 1 + n - n = 2
        BY <1>1, <2>1
      <4> QED
        BY <1>2, <4>1 DEF Flipped
    <3>2. t[2] # t[n] /\ t[2] \in Nat /\ t[n] \in Nat
      <4>1. 2 \in 1 .. n /\ n \in 1 .. n /\ 2 # n
        BY <1>1, <2>1
      <4>2. t[2] \in City /\ t[n] \in City
        BY <1>2, <4>1
      <4> QED
        BY <1>1, <1>2, <4>1, <4>2
    <3> HIDE DEF u
    <3> QED
      BY <2>1, <3>1, <3>2 DEF Canonical
  <2>6. \A k \in 1 .. n : After(t, k) = IF k = n THEN t[1] ELSE t[k + 1]
    BY <1>1, <1>2, AfterIs
  <2>7. After(t, n) = t[1] /\ After(t, 1) = t[2]
    BY <1>1, <2>2, <2>6
  <2>8. <<t[1], After(t, 1)>> \in Roads /\ <<t[n], After(t, n)>> \in Roads
    BY <1>1, <1>2, <2>2, LegsAreRoads
  <2>9. <<After(t, 1), t[1]>> \in Roads /\ <<After(t, n), t[n]>> \in Roads
    BY <2>1, <2>8, BothWays
  <2>10. Drivable(u)
    <3>1. {<<t[1], After(t, 1)>>, <<t[n], After(t, n)>>} \subseteq Roads
      BY <2>8
    <3>2. {<<t[1], t[n]>>, <<After(t, 1), After(t, n)>>} \subseteq Roads
      <4>1. After(t, n) = t[1] /\ After(t, 1) = t[2] /\ <<t[2], t[1]>> \in Roads /\ <<t[1], t[n]>> \in Roads
        BY <2>7, <2>9
      <4> QED
        BY <4>1
    <3> QED
      BY <1>2, <2>1, <2>2, <3>1, <3>2, FlippedRoads
  <2>11. LoopCost(u) = LoopCost(t)
    <3>1. /\ LoopCost(t) \in Nat /\ LoopCost(u) \in Nat
          /\ LoopCost(u) - LoopCost(t) =
               Cost(t[1], t[n]) + Cost(After(t, 1), After(t, n))
                 - Cost(t[1], After(t, 1)) - Cost(t[n], After(t, n))
      BY <1>2, <2>1, <2>2, FlippedCost
    <3>2. Cost(t[1], t[n]) = Cost(t[n], t[1]) /\ Cost(After(t, 1), t[1]) = Cost(t[1], After(t, 1))
      BY <2>1, CostBothWays
    <3>3. /\ Cost(t[1], t[n]) \in Nat /\ Cost(After(t, 1), After(t, n)) \in Nat
          /\ Cost(t[1], After(t, 1)) \in Nat /\ Cost(t[n], After(t, n)) \in Nat
      BY CostIsNat
    <3>4. Cost(After(t, 1), After(t, n)) = Cost(t[1], After(t, 1)) /\ Cost(t[n], After(t, n)) = Cost(t[1], t[n])
      BY <2>7, <3>2
    <3> DEFINE a == Cost(t[1], t[n])
               b == Cost(t[1], After(t, 1))
    <3>5. LoopCost(u) - LoopCost(t) = a + b - b - a /\ a \in Nat /\ b \in Nat
      BY <3>1, <3>3, <3>4
    <3> HIDE DEF u, a, b
    <3> QED
      BY <3>1, <3>5
  <2> QED
    BY <2>4, <2>5, <2>10, <2>11 DEF Loops
<1> QED
  BY <1>3, <1>4

-----------------------------------------------------------------------------
(* Theorems.                                                               *)

\* The invariant holds of every reachable state of every problem.
THEOREM TourInvariant == Spec => []IInv
<1>1. Init => IInv
  <2> SUFFICES ASSUME Init PROVE IInv
    OBVIOUS
  <2>1. StateInv
    BY StateInit
  <2>2. JudgeInv
    BY DEF Init, JudgeInv
  <2>3. BrokenInv
    BY DEF Init, BrokenInv
  <2>4. KeptInv /\ ExactInv /\ SavedInv
    BY DEF Init, KeptInv, ExactInv, SavedInv
  <2> QED
    BY <2>1, <2>2, <2>3, <2>4 DEF IInv
<1>2. IInv /\ [Next]_vars => IInv'
  BY StateNext, JudgeNext, BrokenNext, KeptNext, ExactNext, SavedNext DEF IInv
<1> QED
  BY <1>1, <1>2, PTL DEF Spec

\* Every variable has its type: the loop goes through at most as many places as there are
\* cities, and the split and the pairs of legs through cities of the problem.
THEOREM TourTypeCorrect == Spec => []TypeOK
<1>1. IInv => TypeOK
  <2> SUFFICES ASSUME IInv PROVE TypeOK
    OBVIOUS
  <2> USE DEF IInv
  <2>1. problem.n \in Nat /\ Len(tour) <= problem.n
    BY ProblemFacts, NoLongerThanCities DEF StateInv
  <2>2. Len(tour) \in 1 .. problem.n
    BY <2>1 DEF StateInv
  <2>3. todo \subseteq City \X City
    BY DEF StateInv, Pairs
  <2>4. Share(1) \in SUBSET City /\ Share(2) \in SUBSET City /\ {} \in SUBSET City
    BY Shares DEF StateInv
  <2>5. routes \in (SUBSET City) \X (SUBSET City)
    BY <2>4 DEF JudgeInv
  <2> QED
    BY <2>2, <2>3, <2>5 DEF TypeOK, StateInv, JudgeInv
<1> QED
  BY <1>1, TourInvariant, PTL

\* The loop starts at the start and visits each city once while it is improved and when
\* it is named, for any number of cities.
THEOREM AlwaysATour == Spec => []StaysATour
<1>1. IInv => StaysATour
  BY DEF IInv, StateInv, StaysATour
<1> QED
  BY <1>1, TourInvariant, PTL

\* 2-opt neither mends nor breaks an undirected loop, for any roads.
THEOREM NothingMended == Spec => []BrokenStaysBroken
<1>1. IInv => BrokenStaysBroken
  BY DEF IInv, BrokenInv, BrokenStaysBroken
<1> QED
  BY <1>1, TourInvariant, PTL

\* The exact search names a loop than which none is cheaper, and none only when there is
\* none, for any number of cities up to the limit and any costs, though it enumerates
\* only one of a loop and its reverse (ExactTSPSolver).
THEOREM ExactSearchIsBest == Spec => []ExactIsBest
<1>1. IInv => ExactIsBest
  <2> SUFFICES ASSUME IInv, problem.first = 0, ~Large
               PROVE  /\ phase = "found" =>
                           /\ Drivable(tour)
                           /\ \A t \in Tours : Drivable(t) => LoopCost(tour) <= LoopCost(t)
                      /\ phase = "infeasible" => \A t \in Tours : ~Drivable(t)
    BY DEF ExactIsBest
  <2>1. problem \in Problems
    BY DEF IInv, StateInv
  <2>2. ASSUME phase = "found"
        PROVE  Drivable(tour) /\ \A t \in Tours : Drivable(t) => LoopCost(tour) <= LoopCost(t)
    <3>1. tour \in Loops /\ \A u \in Loops : LoopCost(tour) <= LoopCost(u)
      BY <2>2 DEF IInv, ExactInv, Cheapest
    <3>2. ASSUME NEW t \in Tours, Drivable(t) PROVE LoopCost(tour) <= LoopCost(t)
      <4>1. PICK u \in Loops : LoopCost(u) = LoopCost(t)
        BY <2>1, <3>2, OneWayOrTheOther
      <4> QED
        BY <3>1, <4>1
    <3> QED
      BY <3>1, <3>2 DEF Loops
  <2>3. ASSUME phase = "infeasible", NEW t \in Tours, Drivable(t) PROVE FALSE
    <3>1. Loops = {}
      BY <2>3 DEF IInv, ExactInv
    <3> QED
      BY <2>1, <2>3, <3>1, OneWayOrTheOther
  <2> QED
    BY <2>2, <2>3
<1> QED
  BY <1>1, TourInvariant, PTL

\* When 2-opt stops, no part of an undirected loop can be reversed for less, for any
\* number of cities and any costs, although the loop changed while the pairs of legs were
\* looked at (_two_opt).
THEOREM StopsAtOptimum == Spec => []LocalOptimum
<1>1. IInv => LocalOptimum
  <2> SUFFICES ASSUME IInv, phase = "found", Large, ~problem.directed,
                      NEW i \in City, NEW j \in City, i < j, Drivable(Reversed(i, j))
               PROVE  LoopCost(Reversed(i, j)) >= LoopCost(tour)
    BY DEF LocalOptimum
  <2>1. problem \in Problems /\ tour \in Seq(City) /\ Len(tour) = problem.n
    BY DEF IInv, StateInv
  <2>2. \A x \in Pairs : Kept(x[1], x[2])
    BY DEF IInv, KeptInv
  <2> QED
    BY <2>1, <2>2, KeptIsOptimum
<1> QED
  BY <1>1, TourInvariant, PTL

\* Every exchange makes an undirected loop cheaper: why 2-opt ends, and why it cannot on
\* one-way roads (_two_opt).
THEOREM ExchangeSaves ==
  Spec => [][\A i, j \in City : Exchange(i, j) /\ ~problem.directed
               => LoopCost(tour)' \in Nat /\ LoopCost(tour)' < LoopCost(tour)]_vars
<1> DEFINE Saves == \A i, j \in City : Exchange(i, j) /\ ~problem.directed
                      => LoopCost(tour)' \in Nat /\ LoopCost(tour)' < LoopCost(tour)
<1>1. IInv /\ [Next]_vars => [Saves]_vars
  <2> SUFFICES ASSUME IInv, Next, NEW i \in City, NEW j \in City, Exchange(i, j), ~problem.directed
               PROVE  LoopCost(tour)' \in Nat /\ LoopCost(tour)' < LoopCost(tour)
    OBVIOUS
  <2>1. LoopCost(tour)' = LoopCost(tour')
    BY SameProblem, SameCosts
  <2>2. /\ tour' = Flipped(tour, i, j)
        /\ LoopCost(Flipped(tour, i, j)) \in Nat
        /\ LoopCost(Flipped(tour, i, j)) < LoopCost(tour)
    BY ExchangeIsCheaper DEF IInv
  <2> QED
    BY <2>1, <2>2
<1> QED
  BY <1>1, TourInvariant, PTL DEF Spec

\* What 2-opt makes of an undirected loop is never dearer than the greedy loop it was
\* given (_two_opt).
THEOREM NeverDearer == Spec => []SavedInv
<1>1. IInv => SavedInv
  BY DEF IInv
<1> QED
  BY <1>1, TourInvariant, PTL

\* The split serves every stop once and evenly, and is refused exactly when there are
\* more stops than twice the capacity, for any number of stops and any capacity.
THEOREM SplitIsFair == Spec => []SplitFair
<1>1. IInv => SplitFair
  <2> SUFFICES ASSUME IInv PROVE SplitFair
    OBVIOUS
  <2> USE DEF IInv
  <2>1. problem.n \in Nat /\ problem.n > 1 /\ Capacity \in Nat
    BY ProblemFacts, TourAssumption DEF StateInv
  <2>2. problem \in Problems
    BY DEF StateInv
  <2>3. problem.n \div 2 - (problem.n - 1) \div 2 \in {0, 1}
    BY <2>1
  <2>4. problem.n \div 2 <= Capacity /\ (problem.n - 1) \div 2 <= Capacity
          <=> ~(problem.n - 1 > 2 * Capacity)
    BY <2>1
  <2>5. ASSUME routes = <<Share(1), Share(2)>>
        PROVE  /\ routes[1] \cap routes[2] = {} /\ routes[1] \cup routes[2] = City \ {1}
               /\ Cardinality(routes[1]) = problem.n \div 2
               /\ Cardinality(routes[2]) = (problem.n - 1) \div 2
    BY <2>2, <2>5, Shares
  <2>6. phase = "split" => routes = <<Share(1), Share(2)>>
    BY DEF JudgeInv
  <2>7. phase = "judged" /\ problem.kind = "vrp" /\ routes # <<{}, {}>> =>
          routes = <<Share(1), Share(2)>> /\ (verdict = "impossible" <=> ~SplitOK)
    BY DEF JudgeInv
  <2>8. routes = <<Share(1), Share(2)>> => (SplitOK <=> ~(problem.n - 1 > 2 * Capacity))
    BY <2>4, <2>5 DEF SplitOK
  <2> QED
    BY <2>3, <2>5, <2>6, <2>7, <2>8 DEF SplitFair
<1> QED
  BY <1>1, TourInvariant, PTL

\* The guardrail accepts a route if and only if it is a loop over the roads there are,
\* wherever it starts, for any problem without ordering constraints.
THEOREM VerdictIsTrue == Spec => []VerdictTruth
<1>1. IInv => VerdictTruth
  <2> SUFFICES ASSUME IInv, phase = "judged", problem.kind = "tsp",
                      problem.first = 0 \/ (proposal # <<>> /\ proposal[1] = 1)
               PROVE  verdict # "impossible" <=>
                        \E t \in Tours, k \in 0 .. problem.n - 1 :
                          /\ Drivable(t) /\ (problem.first # 0 => t[2] = problem.first)
                          /\ proposal = [i \in City |-> t[((i + k - 1) % problem.n) + 1]]
    BY DEF VerdictTruth
  <2>1. problem \in Problems /\ proposal \in Seq(City)
    BY DEF IInv, StateInv, JudgeInv
  <2>2. verdict # "impossible" <=> Acceptable(proposal)
    BY DEF IInv, JudgeInv
  <2> QED
    BY <2>1, <2>2, AcceptedAreLoops
<1> QED
  BY <1>1, TourInvariant, PTL

\* 2-opt keeps a loop a loop, for any number of cities and any roads (_two_opt).
THEOREM LoopsStaySound == Spec => []LoopSound
<1>1. StaysATour /\ BrokenStaysBroken => LoopSound  BY DEF LoopSound
<1> QED  BY <1>1, AlwaysATour, NothingMended, PTL

\* The guardrail tells the truth about routes and splits of any size
\* (validate_proposal).
THEOREM VerdictsAreTrue == Spec => []VerdictsTrue
<1>1. VerdictTruth /\ SplitFair => VerdictsTrue  BY DEF VerdictsTrue
<1> QED  BY <1>1, VerdictIsTrue, SplitIsFair, PTL
===============================================================================
