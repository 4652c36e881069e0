--------------------------- MODULE GovernedRunProofs ---------------------------
(***************************************************************************)
(* For any agents, any routing and any limits: what a governed run decides *)
(* rests on what its specialists and its critic said.                      *)
(*                                                                         *)
(* The inductive invariant says of each stage of the run what is behind    *)
(* it: nobody works before the registry has had every routed agent         *)
(* enabled at some time (Resolved), the number of the revision is the      *)
(* number of refusals plus one while the critic reads it (Rounds), and a   *)
(* run that goes on has no outcome yet (Fresh).                            *)
(***************************************************************************)
EXTENDS GovernedRun, TLAPS

\* What a stage has not come to yet.
Fresh ==
  /\ pc \in {"route", "validate"} => work = <<>>
  /\ pc = "route" => k = 0
  /\ pc \in {"route", "validate", "select", "execute"} =>
       proposal = 0 /\ critiques = 0 /\ accepted = 0
  /\ ~Ended => outcome = "none"

\* What the resolver has found, and who has answered.
Resolved ==
  /\ pc = "select" =>
       /\ enabled \subseteq since /\ \A i \in 1 .. k : routed[i] \in since
       /\ \A i \in Places : work[i] = "waiting"
  /\ pc = "execute" => \A i \in Places : routed[i] \in since
  /\ pc \in {"select", "execute", "critique", "refine", "guard"} => DOMAIN work = Places
  /\ pc \in {"critique", "refine", "guard"} => Answered

\* Where the loop of critic and refiner is.
Rounds ==
  /\ pc = "critique" =>
       Reviewed /\ accepted = 0 /\ proposal = critiques + 1 /\ critiques < call.limit
  /\ pc = "refine" =>
       Reviewed /\ accepted = 0 /\ proposal = critiques /\ critiques \in 1 .. call.limit
  /\ pc = "guard" =>
       IF Reviewed THEN accepted = proposal /\ critiques \in 1 .. call.limit
                   ELSE critiques = 0 /\ proposal = 1

IInv ==
  TypeOK /\ Fresh /\ Resolved /\ Rounds
    /\ DecisionGrounded /\ AbstainsWhenExhausted /\ WorkIsWhole

-----------------------------------------------------------------------------
\* A routing is a sequence of agents.
LEMMA RoutingIsSeq ==
  ASSUME NEW r \in Routings
  PROVE  /\ r \in Seq(Agents) /\ DOMAIN r = 1 .. Len(r) /\ Len(r) \in Nat
         /\ r \in [1 .. Len(r) -> Agents]
BY RunAssumption DEF Routings

\* What the type invariant says of the places of a routing.
LEMMA PlacesOfRouting ==
  ASSUME TypeOK
  PROVE  /\ Places = 1 .. Len(routed) /\ Len(routed) \in Nat
         /\ call.limit \in Nat
         /\ \A i \in Places : routed[i] \in Agents
BY RoutingIsSeq, RunAssumption DEF TypeOK, Places, Calls

\* A run that has not begun has nothing behind it.
LEMMA RunInit == Init => IInv
<1> SUFFICES ASSUME Init PROVE IInv  OBVIOUS
<1>1. <<>> \in Routings  BY RunAssumption DEF Routings
<1>2. TypeOK  BY <1>1, RunAssumption DEF TypeOK, Init
<1>3. Fresh /\ Resolved /\ Rounds  BY DEF Init, Fresh, Resolved, Rounds, Ended
<1>4. DecisionGrounded /\ AbstainsWhenExhausted
  BY <1>2, PlacesOfRouting DEF Init, DecisionGrounded, AbstainsWhenExhausted
<1>5. WorkIsWhole  BY DEF Init, WorkIsWhole, Ended
<1> QED  BY <1>2, <1>3, <1>4, <1>5 DEF IInv

-----------------------------------------------------------------------------
\* An edit of the registry adds to what has been enabled, and to nothing else.
LEMMA SetEnabledKeeps ==
  ASSUME IInv, NEW a \in Agents, NEW on \in BOOLEAN, SetEnabled(a, on)
  PROVE  IInv'
<1> USE PlacesOfRouting, RoutingIsSeq DEF IInv, TypeOK, Places
<1>1. TypeOK'  BY RunAssumption DEF SetEnabled, run
<1>2. Fresh'  BY DEF Fresh, SetEnabled, run, Ended
<1>3. Resolved'  BY DEF Resolved, SetEnabled, run, Fresh, WorkIsWhole, Ended, Answered
<1>4. Rounds'  BY DEF Rounds, SetEnabled, run, Fresh, Reviewed
<1>5. DecisionGrounded'
  BY DEF DecisionGrounded, SetEnabled, run, Fresh, Ended, Resolved, Answered, Rounds,
    Reviewed
<1>6. AbstainsWhenExhausted'
  BY DEF AbstainsWhenExhausted, SetEnabled, run, Fresh, Ended, Rounds, Reviewed
<1>7. WorkIsWhole'  BY DEF WorkIsWhole, SetEnabled, run, Fresh, Resolved, Ended, Answered
<1> QED  BY <1>1, <1>2, <1>3, <1>4, <1>5, <1>6, <1>7

\* A routing made from a request starts with agents that are enabled.
LEMMA RouteRequestKeeps ==
  ASSUME IInv, RouteRequest
  PROVE  IInv'
<1> USE PlacesOfRouting, RoutingIsSeq DEF IInv, TypeOK, Places
<1>1. TypeOK'  BY DEF RouteRequest, Routed, End
<1>2. Fresh'  BY DEF Fresh, RouteRequest, Routed, End, Ended
<1>3. Resolved'
  BY DEF Resolved, RouteRequest, Routed, End, Fresh, WorkIsWhole, Ended, Answered
<1>4. Rounds'  BY DEF Rounds, RouteRequest, Routed, End, Fresh, Reviewed
<1>5. DecisionGrounded'
  BY DEF DecisionGrounded, RouteRequest, Routed, End, Fresh, Ended, Resolved, Answered,
    Rounds, Reviewed
<1>6. AbstainsWhenExhausted'
  BY DEF AbstainsWhenExhausted, RouteRequest, Routed, End, Fresh, Ended, Rounds,
    Reviewed
<1>7. WorkIsWhole'
  BY DEF WorkIsWhole, RouteRequest, Routed, End, Fresh, Resolved, Ended, Answered
<1> QED  BY <1>1, <1>2, <1>3, <1>4, <1>5, <1>6, <1>7

\* A routing that is given is not checked here, but by the resolver.
LEMMA TakeRoutingKeeps ==
  ASSUME IInv, TakeRouting
  PROVE  IInv'
<1> USE PlacesOfRouting, RoutingIsSeq DEF IInv, TypeOK, Places
<1>1. TypeOK'  BY DEF TakeRouting, Routed
<1>2. Fresh'  BY DEF Fresh, TakeRouting, Routed, Ended
<1>3. Resolved'  BY DEF Resolved, TakeRouting, Routed, Fresh, WorkIsWhole, Ended, Answered
<1>4. Rounds'  BY DEF Rounds, TakeRouting, Routed, Fresh, Reviewed
<1>5. DecisionGrounded'
  BY DEF DecisionGrounded, TakeRouting, Routed, Fresh, Ended, Resolved, Answered,
    Rounds, Reviewed
<1>6. AbstainsWhenExhausted'
  BY DEF AbstainsWhenExhausted, TakeRouting, Routed, Fresh, Ended, Rounds, Reviewed
<1>7. WorkIsWhole'
  BY DEF WorkIsWhole, TakeRouting, Routed, Fresh, Resolved, Ended, Answered
<1> QED  BY <1>1, <1>2, <1>3, <1>4, <1>5, <1>6, <1>7

\* Nor are the ids somebody names, until the next step.
LEMMA NameIdsKeeps ==
  ASSUME IInv, NameIds
  PROVE  IInv'
<1> USE PlacesOfRouting, RoutingIsSeq DEF IInv, TypeOK, Places
<1>1. TypeOK'  BY DEF NameIds, Fresh, WorkIsWhole
<1>2. Fresh'  BY DEF Fresh, NameIds, Ended
<1>3. Resolved'  BY DEF Resolved, NameIds, Fresh, WorkIsWhole, Ended, Answered
<1>4. Rounds'  BY DEF Rounds, NameIds, Fresh, Reviewed
<1>5. DecisionGrounded'
  BY DEF DecisionGrounded, NameIds, Fresh, Ended, Resolved, Answered, Rounds, Reviewed
<1>6. AbstainsWhenExhausted'
  BY DEF AbstainsWhenExhausted, NameIds, Fresh, Ended, Rounds, Reviewed
<1>7. WorkIsWhole'  BY DEF WorkIsWhole, NameIds, Fresh, Resolved, Ended, Answered
<1> QED  BY <1>1, <1>2, <1>3, <1>4, <1>5, <1>6, <1>7

\* The router finds an id enabled, or raises, or is through with them.
LEMMA ValidateIdKeeps ==
  ASSUME IInv, ValidateId
  PROVE  IInv'
<1> USE PlacesOfRouting, RoutingIsSeq DEF IInv, TypeOK, Places
<1>1. TypeOK'  BY DEF ValidateId, Routed, End
<1>2. Fresh'  BY DEF Fresh, ValidateId, Routed, End, Ended
<1>3. Resolved'
  BY DEF Resolved, ValidateId, Routed, End, Fresh, WorkIsWhole, Ended, Answered
<1>4. Rounds'  BY DEF Rounds, ValidateId, Routed, End, Fresh, Reviewed
<1>5. DecisionGrounded'
  BY DEF DecisionGrounded, ValidateId, Routed, End, Fresh, Ended, Resolved, Answered,
    Rounds, Reviewed
<1>6. AbstainsWhenExhausted'
  BY DEF AbstainsWhenExhausted, ValidateId, Routed, End, Fresh, Ended, Rounds, Reviewed
<1>7. WorkIsWhole'
  BY DEF WorkIsWhole, ValidateId, Routed, End, Fresh, Resolved, Ended, Answered
<1> QED  BY <1>1, <1>2, <1>3, <1>4, <1>5, <1>6, <1>7

\* One more agent is resolved: it is enabled now, and so has been since the routing.
LEMMA SelectKeeps ==
  ASSUME IInv, Select
  PROVE  IInv'
<1> USE PlacesOfRouting, RoutingIsSeq DEF IInv, TypeOK, Places
<1>1. TypeOK'  BY DEF Select, Resolvable, End
<1>2. Fresh'  BY DEF Fresh, Select, Resolvable, End, Ended
<1>3. Resolved'
  BY DEF Resolved, Select, Resolvable, End, Fresh, WorkIsWhole, Ended, Answered
<1>4. Rounds'  BY DEF Rounds, Select, Resolvable, End, Fresh, Reviewed
<1>5. DecisionGrounded'
  BY DEF DecisionGrounded, Select, Resolvable, End, Fresh, Ended, Resolved, Answered,
    Rounds, Reviewed
<1>6. AbstainsWhenExhausted'
  BY DEF AbstainsWhenExhausted, Select, Resolvable, End, Fresh, Ended, Rounds, Reviewed
<1>7. WorkIsWhole'
  BY DEF WorkIsWhole, Select, Resolvable, End, Fresh, Resolved, Ended, Answered
<1> QED  BY <1>1, <1>2, <1>3, <1>4, <1>5, <1>6, <1>7

\* Everybody works at once: all of them are resolved by now.
LEMMA StartAllKeeps ==
  ASSUME IInv, StartAll
  PROVE  IInv'
<1> USE PlacesOfRouting, RoutingIsSeq DEF IInv, TypeOK, Places
<1>1. TypeOK'  BY DEF StartAll, End
<1>2. Fresh'  BY DEF Fresh, StartAll, End, Ended
<1>3. Resolved'  BY DEF Resolved, StartAll, End, Fresh, WorkIsWhole, Ended, Answered
<1>4. Rounds'  BY DEF Rounds, StartAll, End, Fresh, Reviewed
<1>5. DecisionGrounded'
  BY DEF DecisionGrounded, StartAll, End, Fresh, Ended, Resolved, Answered, Rounds,
    Reviewed
<1>6. AbstainsWhenExhausted'
  BY DEF AbstainsWhenExhausted, StartAll, End, Fresh, Ended, Rounds, Reviewed
<1>7. WorkIsWhole'  BY DEF WorkIsWhole, StartAll, End, Fresh, Resolved, Ended, Answered
<1> QED  BY <1>1, <1>2, <1>3, <1>4, <1>5, <1>6, <1>7

\* Nobody works yet: all of them are resolved by now.
LEMMA StartSequenceKeeps ==
  ASSUME IInv, StartSequence
  PROVE  IInv'
<1> USE PlacesOfRouting, RoutingIsSeq DEF IInv, TypeOK, Places
<1>1. TypeOK'  BY DEF StartSequence
<1>2. Fresh'  BY DEF Fresh, StartSequence, Ended
<1>3. Resolved'  BY DEF Resolved, StartSequence, Fresh, WorkIsWhole, Ended, Answered
<1>4. Rounds'  BY DEF Rounds, StartSequence, Fresh, Reviewed
<1>5. DecisionGrounded'
  BY DEF DecisionGrounded, StartSequence, Fresh, Ended, Resolved, Answered, Rounds,
    Reviewed
<1>6. AbstainsWhenExhausted'
  BY DEF AbstainsWhenExhausted, StartSequence, Fresh, Ended, Rounds, Reviewed
<1>7. WorkIsWhole'  BY DEF WorkIsWhole, StartSequence, Fresh, Resolved, Ended, Answered
<1> QED  BY <1>1, <1>2, <1>3, <1>4, <1>5, <1>6, <1>7

\* The next one works: those before it have answered.
LEMMA StartNextKeeps ==
  ASSUME IInv, NEW i \in Places, StartNext(i)
  PROVE  IInv'
<1> USE PlacesOfRouting, RoutingIsSeq DEF IInv, TypeOK, Places
<1>1. TypeOK'  BY DEF StartNext
<1>2. Fresh'  BY DEF Fresh, StartNext, Ended
<1>3. Resolved'  BY DEF Resolved, StartNext, Fresh, WorkIsWhole, Ended, Answered
<1>4. Rounds'  BY DEF Rounds, StartNext, Fresh, Reviewed
<1>5. DecisionGrounded'
  BY DEF DecisionGrounded, StartNext, Fresh, Ended, Resolved, Answered, Rounds, Reviewed
<1>6. AbstainsWhenExhausted'
  BY DEF AbstainsWhenExhausted, StartNext, Fresh, Ended, Rounds, Reviewed
<1>7. WorkIsWhole'  BY DEF WorkIsWhole, StartNext, Fresh, Resolved, Ended, Answered
<1> QED  BY <1>1, <1>2, <1>3, <1>4, <1>5, <1>6, <1>7

\* One answers or raises; those behind it in a sequence have not begun.
LEMMA FinishKeeps ==
  ASSUME IInv, NEW i \in Places, Finish(i)
  PROVE  IInv'
<1> USE PlacesOfRouting, RoutingIsSeq DEF IInv, TypeOK, Places
<1>1. TypeOK'  BY DEF Finish
<1>2. Fresh'  BY DEF Fresh, Finish, Ended
<1>3. Resolved'  BY DEF Resolved, Finish, Fresh, WorkIsWhole, Ended, Answered
<1>4. Rounds'  BY DEF Rounds, Finish, Fresh, Reviewed
<1>5. DecisionGrounded'
  BY DEF DecisionGrounded, Finish, Fresh, Ended, Resolved, Answered, Rounds, Reviewed
<1>6. AbstainsWhenExhausted'
  BY DEF AbstainsWhenExhausted, Finish, Fresh, Ended, Rounds, Reviewed
<1>7. WorkIsWhole'  BY DEF WorkIsWhole, Finish, Fresh, Resolved, Ended, Answered
<1> QED  BY <1>1, <1>2, <1>3, <1>4, <1>5, <1>6, <1>7

\* The first revision is there when everybody has answered.
LEMMA IntegrateKeeps ==
  ASSUME IInv, Integrate
  PROVE  IInv'
<1> USE PlacesOfRouting, RoutingIsSeq DEF IInv, TypeOK, Places
<1>1. TypeOK'  BY DEF Integrate, Finished, End
<1>2. Fresh'  BY DEF Fresh, Integrate, Finished, End, Ended
<1>3. Resolved'
  BY DEF Resolved, Integrate, Finished, End, Fresh, WorkIsWhole, Ended, Answered
<1>4. Rounds'  BY DEF Rounds, Integrate, Finished, End, Fresh, Reviewed
<1>5. DecisionGrounded'
  BY DEF DecisionGrounded, Integrate, Finished, End, Fresh, Ended, Resolved, Answered,
    Rounds, Reviewed
<1>6. AbstainsWhenExhausted'
  BY DEF AbstainsWhenExhausted, Integrate, Finished, End, Fresh, Ended, Rounds, Reviewed
<1>7. WorkIsWhole'
  BY DEF WorkIsWhole, Integrate, Finished, End, Fresh, Resolved, Ended, Answered
<1> QED  BY <1>1, <1>2, <1>3, <1>4, <1>5, <1>6, <1>7

\* The critic reads the revision that is one ahead of its refusals.
LEMMA CritiqueKeeps ==
  ASSUME IInv, Critique
  PROVE  IInv'
<1> USE PlacesOfRouting, RoutingIsSeq DEF IInv, TypeOK, Places
<1>1. TypeOK'  BY DEF Critique, End
<1>2. Fresh'  BY DEF Fresh, Critique, End, Ended
<1>3. Resolved'  BY DEF Resolved, Critique, End, Fresh, WorkIsWhole, Ended, Answered
<1>4. Rounds'  BY DEF Rounds, Critique, End, Fresh, Reviewed
<1>5. DecisionGrounded'
  BY DEF DecisionGrounded, Critique, End, Fresh, Ended, Resolved, Answered, Rounds,
    Reviewed
<1>6. AbstainsWhenExhausted'
  BY DEF AbstainsWhenExhausted, Critique, End, Fresh, Ended, Rounds, Reviewed
<1>7. WorkIsWhole'  BY DEF WorkIsWhole, Critique, End, Fresh, Resolved, Ended, Answered
<1> QED  BY <1>1, <1>2, <1>3, <1>4, <1>5, <1>6, <1>7

\* The refiner makes the next one, and is the last to act when the rounds are spent.
LEMMA RefineKeeps ==
  ASSUME IInv, Refine
  PROVE  IInv'
<1> USE PlacesOfRouting, RoutingIsSeq DEF IInv, TypeOK, Places
<1>1. TypeOK'  BY DEF Refine, Exhausted, End
<1>2. Fresh'  BY DEF Fresh, Refine, Exhausted, End, Ended
<1>3. Resolved'
  BY DEF Resolved, Refine, Exhausted, End, Fresh, WorkIsWhole, Ended, Answered
<1>4. Rounds'  BY DEF Rounds, Refine, Exhausted, End, Fresh, Reviewed
<1>5. DecisionGrounded'
  BY DEF DecisionGrounded, Refine, Exhausted, End, Fresh, Ended, Resolved, Answered,
    Rounds, Reviewed
<1>6. AbstainsWhenExhausted'
  BY DEF AbstainsWhenExhausted, Refine, Exhausted, End, Fresh, Ended, Rounds, Reviewed
<1>7. WorkIsWhole'
  BY DEF WorkIsWhole, Refine, Exhausted, End, Fresh, Resolved, Ended, Answered
<1> QED  BY <1>1, <1>2, <1>3, <1>4, <1>5, <1>6, <1>7

\* The guardrail has the last word.
LEMMA DecideKeeps ==
  ASSUME IInv, Decide
  PROVE  IInv'
<1> USE PlacesOfRouting, RoutingIsSeq DEF IInv, TypeOK, Places
<1>1. TypeOK'  BY DEF Decide, End
<1>2. Fresh'  BY DEF Fresh, Decide, End, Ended
<1>3. Resolved'  BY DEF Resolved, Decide, End, Fresh, WorkIsWhole, Ended, Answered
<1>4. Rounds'  BY DEF Rounds, Decide, End, Fresh, Reviewed
<1>5. DecisionGrounded'
  BY DEF DecisionGrounded, Decide, End, Fresh, Ended, Resolved, Answered, Rounds,
    Reviewed
<1>6. AbstainsWhenExhausted'
  BY DEF AbstainsWhenExhausted, Decide, End, Fresh, Ended, Rounds, Reviewed
<1>7. WorkIsWhole'  BY DEF WorkIsWhole, Decide, End, Fresh, Resolved, Ended, Answered
<1> QED  BY <1>1, <1>2, <1>3, <1>4, <1>5, <1>6, <1>7

-----------------------------------------------------------------------------
\* Every step of a run, or of those who edit the registry.
LEMMA RunNext == IInv /\ [Next]_vars => IInv'
<1> SUFFICES ASSUME IInv, [Next]_vars PROVE IInv'  OBVIOUS
<1>1. CASE Step
  <2>1. CASE \E i \in Places : StartNext(i)  BY <2>1, StartNextKeeps
  <2>2. CASE \E i \in Places : Finish(i)  BY <2>2, FinishKeeps
  <2>3. CASE RouteRequest \/ TakeRouting \/ NameIds \/ ValidateId
    BY <2>3, RouteRequestKeeps, TakeRoutingKeeps, NameIdsKeeps, ValidateIdKeeps
  <2>4. CASE Select \/ StartAll \/ StartSequence
    BY <2>4, SelectKeeps, StartAllKeeps, StartSequenceKeeps
  <2>5. CASE Integrate \/ Critique \/ Refine \/ Decide
    BY <2>5, IntegrateKeeps, CritiqueKeeps, RefineKeeps, DecideKeeps
  <2> QED  BY <1>1, <2>1, <2>2, <2>3, <2>4, <2>5 DEF Step
<1>2. CASE \E a \in Agents, on \in BOOLEAN : SetEnabled(a, on)  BY <1>2, SetEnabledKeeps
<1>3. CASE UNCHANGED vars
  BY <1>3 DEF vars, run, IInv, TypeOK, Fresh, Resolved, Rounds, DecisionGrounded,
    AbstainsWhenExhausted, WorkIsWhole, Places, Ended, Answered, Reviewed
<1> QED  BY <1>1, <1>2, <1>3 DEF Next

\* The inductive invariant holds of every run.
THEOREM RunInvariant == Spec => []IInv
  BY RunInit, RunNext, PTL DEF Spec

\* Every variable keeps its type, for any agents and limits.
THEOREM RunTypeCorrect == Spec => []TypeOK
<1>1. IInv => TypeOK  BY DEF IInv
<1> QED  BY <1>1, RunInvariant, PTL

\* However many specialists, rounds and edits of the registry: what is decided
\* rests on all the answers and on the revision the critic called valid (run_governed).
THEOREM DecisionIsGrounded == Spec => []DecisionGrounded
<1>1. IInv => DecisionGrounded  BY DEF IInv
<1> QED  BY <1>1, RunInvariant, PTL

\* For any limit, a run abstains after exactly that many refusals (BoundedRefiner.run).
THEOREM AbstentionIsExhaustion == Spec => []AbstainsWhenExhausted
<1>1. IInv => AbstainsWhenExhausted  BY DEF IInv
<1> QED  BY <1>1, RunInvariant, PTL

\* Nobody works for a run that cannot be staffed, and nobody's failure is passed over,
\* for any routing (selected_tools, execute_parallel, execute_sequential).
THEOREM WorkStaysWhole == Spec => []WorkIsWhole
<1>1. IInv => WorkIsWhole  BY DEF IInv
<1> QED  BY <1>1, RunInvariant, PTL
===============================================================================
