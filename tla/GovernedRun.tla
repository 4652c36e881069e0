------------------------------ MODULE GovernedRun ------------------------------
(***************************************************************************)
(* The plain orchestrator (app/agents/orchestrator.py): one run() or       *)
(* run_governed() from the router to the decision.  Specialists recommend, *)
(* a critic challenges what was integrated of them, a refiner revises it,  *)
(* a guardrail verifies the proposed route, the orchestrator decides.      *)
(* run() is run_governed() without critic, refiner and guardrail.          *)
(*                                                                         *)
(* The registry is edited while the run goes on.  A proposal is the number *)
(* of its revision; what critic, refiner and specialists answer, and       *)
(* whether they raise, is chosen at each call.                             *)
(***************************************************************************)
EXTENDS Integers, Sequences, FiniteSets

CONSTANTS
  Agents,        \* the registered agents
  MaxParallel,   \* max_parallel_agents
  Limits,        \* values of max_iterations a caller passes
  MaxRouted,     \* bound: the length of a routing
  MaxEdits       \* bound: enablings and disablings meanwhile

ASSUME RunAssumption ==
  /\ IsFiniteSet(Agents) /\ MaxParallel \in Nat /\ Limits \subseteq Nat
  /\ MaxRouted \in Nat /\ MaxEdits \in Nat

VARIABLES
  enabled, edits, \* the registry
  since,          \* history: the agents enabled at some time since the routing
  call,           \* the arguments of the run
  pc,
  routed,         \* routing.selected_agents
  k,              \* how many of them the router or the resolver has looked up
  work,           \* what became of each: waiting, running, done or raised
  proposal,       \* the current revision, 0 before there is one
  critiques,      \* calls of the critic
  accepted,       \* history: the revision the critic called valid
  outcome         \* the status of the result, or "raised"

run  == <<pc, routed, k, work, proposal, critiques, accepted, outcome>>
vars == <<enabled, edits, since, call, run>>

Routings == UNION {[1 .. n -> Agents] : n \in 0 .. MaxRouted}
Calls ==
  [routing : {"request", "ids", "given"}, parallel : BOOLEAN, limit : Limits,
   given : SUBSET {"critic", "refiner"}, guardrail : {"none", "valid", "invalid"}]

\* "if critic and refiner": one without the other is not asked.
Reviewed == call.given = {"critic", "refiner"}
Places == DOMAIN routed
Ended == pc = "ended"

-----------------------------------------------------------------------------
Init ==
  /\ enabled \in SUBSET Agents /\ edits = 0 /\ since = {}
  /\ call \in Calls /\ pc = "route"
  /\ routed = <<>> /\ k = 0 /\ work = <<>>
  /\ proposal = 0 /\ critiques = 0 /\ accepted = 0 /\ outcome = "none"

\* AgentRegistry.enable and disable, by another thread.
SetEnabled(a, on) ==
  /\ edits < MaxEdits /\ (a \in enabled) # on /\ edits' = edits + 1
  /\ enabled' = IF on THEN enabled \cup {a} ELSE enabled \ {a}
  /\ since' = since \cup enabled'
  /\ UNCHANGED <<call, run>>

End(status) == pc' = "ended" /\ outcome' = status

Routed(r) ==
  /\ pc' = "select" /\ routed' = r /\ k' = 0
  /\ work' = [i \in DOMAIN r |-> "waiting"] /\ since' = enabled
  /\ UNCHANGED outcome

\* Router.route: the enabled agents with a capability the request names.
RouteRequest ==
  /\ pc = "route" /\ call.routing = "request"
  /\ \/ \E r \in Routings :
          /\ r # <<>> /\ \A i, j \in DOMAIN r : r[i] \in enabled /\ (i # j => r[i] # r[j])
          /\ Routed(r)
     \/ End("raised") /\ UNCHANGED <<since, routed, k, work>>
  /\ UNCHANGED <<enabled, edits, call, proposal, critiques, accepted>>

\* A RoutingResult somebody else has made.
TakeRouting ==
  /\ pc = "route" /\ call.routing = "given"
  /\ \E r \in Routings : Routed(r)
  /\ UNCHANGED <<enabled, edits, call, proposal, critiques, accepted>>

\* Router._validate_selected_ids, id by id.
NameIds ==
  /\ pc = "route" /\ call.routing = "ids"
  /\ \E r \in Routings : routed' = r
  /\ pc' = "validate"
  /\ UNCHANGED <<enabled, edits, since, call, k, work, proposal, critiques, accepted, outcome>>

ValidateId ==
  /\ pc = "validate"
  /\ \/ /\ k < Len(routed) /\ routed[k + 1] \in enabled
        /\ k' = k + 1 /\ UNCHANGED <<pc, routed, work, since, outcome>>
     \/ /\ k < Len(routed) /\ routed[k + 1] \notin enabled
        /\ End("raised") /\ UNCHANGED <<since, routed, k, work>>
     \/ k = Len(routed) /\ routed # <<>> /\ Routed(routed)
     \/ routed = <<>> /\ End("raised") /\ UNCHANGED <<since, routed, k, work>>
  /\ UNCHANGED <<enabled, edits, call, proposal, critiques, accepted>>

-----------------------------------------------------------------------------
\* AgentResolver.resolve: the registry may refuse it, its factory may raise; the
\* mutant asks for the agent whether it is enabled or not.
ResolvableMutant(a) == a \in Agents
Resolvable(a) == a \in enabled

\* selected_tools: all of them before the first is called.
Select ==
  /\ pc = "select" /\ k < Len(routed)
  /\ \/ Resolvable(routed[k + 1]) /\ k' = k + 1 /\ UNCHANGED <<pc, outcome>>
     \/ End("raised") /\ UNCHANGED k
  /\ UNCHANGED <<enabled, edits, since, call, routed, work, proposal, critiques, accepted>>

\* execute_parallel submits one future per tool and leaves the "with" when all
\* have finished.
StartAll ==
  /\ pc = "select" /\ k = Len(routed) /\ call.parallel
  /\ IF Len(routed) > MaxParallel THEN End("raised") /\ UNCHANGED work
     ELSE pc' = "execute" /\ work' = [i \in Places |-> "running"] /\ UNCHANGED outcome
  /\ UNCHANGED <<enabled, edits, since, call, routed, k, proposal, critiques, accepted>>

StartSequence ==
  /\ pc = "select" /\ k = Len(routed) /\ ~call.parallel /\ pc' = "execute"
  /\ UNCHANGED <<enabled, edits, since, call, routed, k, work, proposal, critiques, accepted, outcome>>

\* execute_sequential calls the next one when the one before has answered.
StartNext(i) ==
  /\ pc = "execute" /\ ~call.parallel /\ work[i] = "waiting"
  /\ \A j \in 1 .. i - 1 : work[j] = "done"
  /\ work' = [work EXCEPT ![i] = "running"]
  /\ UNCHANGED <<enabled, edits, since, call, pc, routed, k, proposal, critiques, accepted, outcome>>

\* A specialist answers or raises.
Finish(i) ==
  /\ pc = "execute" /\ work[i] = "running"
  /\ \E how \in {"done", "raised"} : work' = [work EXCEPT ![i] = how]
  /\ UNCHANGED <<enabled, edits, since, call, pc, routed, k, proposal, critiques, accepted, outcome>>

\* Nobody is running, and nobody else will; the mutant waits for an answer of all.
FinishedMutant == \A i \in Places : work[i] = "done"
Finished ==
  /\ \A i \in Places : work[i] # "running"
  /\ (\A i \in Places : work[i] = "done") \/ (\E i \in Places : work[i] = "raised")

\* future.result() of each in turn, then integrate(); the mutant makes do with
\* some answers.
AnsweredMutant == \E i \in Places : work[i] = "done"
Answered == Places # {} /\ \A i \in Places : work[i] = "done"

\* BoundedRefiner(...) refuses a limit below 1, after the specialists have worked.
Integrate ==
  /\ pc = "execute" /\ Finished
  /\ IF ~Answered THEN End("raised") /\ UNCHANGED proposal
     ELSE /\ proposal' = 1
          /\ IF Reviewed /\ call.limit < 1 THEN End("raised")
             ELSE pc' = (IF Reviewed THEN "critique" ELSE "guard") /\ UNCHANGED outcome
  /\ UNCHANGED <<enabled, edits, since, call, routed, k, work, critiques, accepted>>

-----------------------------------------------------------------------------
\* BoundedRefiner.run; critic and refiner may raise.
Critique ==
  /\ pc = "critique"
  /\ \/ pc' = "guard" /\ accepted' = proposal /\ critiques' = critiques + 1 /\ UNCHANGED outcome
     \/ pc' = "refine" /\ critiques' = critiques + 1 /\ UNCHANGED <<accepted, outcome>>
     \/ End("raised") /\ UNCHANGED <<accepted, critiques>>
  /\ UNCHANGED <<enabled, edits, since, call, routed, k, work, proposal>>

\* "for iteration in range(1, max_iterations + 1)"; the mutant does one round more.
ExhaustedMutant == critiques > call.limit
Exhausted == critiques >= call.limit

Refine ==
  /\ pc = "refine"
  /\ \/ /\ proposal' = proposal + 1
        /\ IF Exhausted THEN End("abstain_human_review") ELSE pc' = "critique" /\ UNCHANGED outcome
     \/ End("raised") /\ UNCHANGED proposal
  /\ UNCHANGED <<enabled, edits, since, call, routed, k, work, critiques, accepted>>

\* guardrail.validate_proposal(proposed_route), whatever the proposal says.
Decide ==
  /\ pc = "guard"
  /\ End(IF call.guardrail = "invalid" THEN "rejected_by_guardrail" ELSE "completed")
  /\ UNCHANGED <<enabled, edits, since, call, routed, k, work, proposal, critiques, accepted>>

-----------------------------------------------------------------------------
Step ==
  \/ RouteRequest \/ TakeRouting \/ NameIds \/ ValidateId
  \/ Select \/ StartAll \/ StartSequence
  \/ (\E i \in Places : StartNext(i)) \/ (\E i \in Places : Finish(i)) \/ Integrate
  \/ Critique \/ Refine \/ Decide

Next == Step \/ \E a \in Agents, on \in BOOLEAN : SetEnabled(a, on)
Spec == Init /\ [][Next]_vars
\* Every call of a specialist, a critic or a refiner returns or raises.
FairSpec == Spec /\ WF_vars(Step)

-----------------------------------------------------------------------------
\* The types; k counts routed agents, and as many rounds are held as the caller allows.
TypeOK ==
  /\ enabled \in SUBSET Agents /\ edits \in 0 .. MaxEdits /\ since \in SUBSET Agents
  /\ call \in Calls /\ routed \in Routings /\ k \in 0 .. Len(routed)
  /\ pc \in {"route", "validate", "select", "execute", "critique", "refine", "guard", "ended"}
  /\ work = <<>> \/ work \in [Places -> {"waiting", "running", "done", "raised"}]
  /\ proposal \in Nat /\ critiques \in Nat /\ accepted \in Nat
  /\ outcome \in {"none", "completed", "abstain_human_review", "rejected_by_guardrail", "raised"}

\* A decision rests on every routed specialist's answer, is word for word the
\* revision the critic called valid (not one refined after that), and the guardrail
\* has not refused it; a refusal of the guardrail comes after the critic's consent.
DecisionGrounded ==
  outcome \in {"completed", "rejected_by_guardrail"} =>
    /\ Places # {} /\ \A i \in Places : work[i] = "done"
    /\ IF Reviewed THEN accepted = proposal /\ critiques \in 1 .. call.limit
                   ELSE critiques = 0 /\ proposal = 1
    /\ (call.guardrail = "invalid") <=> (outcome = "rejected_by_guardrail")

\* The run stops for a human exactly when the critic has refused as many revisions
\* as the caller allows; the last refinement is thrown away unread.
AbstainsWhenExhausted ==
  /\ critiques <= call.limit
  /\ outcome = "abstain_human_review" =>
       /\ Reviewed /\ accepted = 0
       /\ critiques = call.limit /\ proposal = critiques + 1

\* Before any specialist is called all of them have been resolved: when one of them
\* has been off ever since the routing nobody works, and no answer of the others is
\* had.  In a sequence nobody works after a failure; at the end nobody works at all.
WorkIsWhole ==
  /\ (\E i \in DOMAIN work : work[i] # "waiting") =>
       \A i \in Places : routed[i] \in since
  /\ ~call.parallel => \A i, j \in DOMAIN work : i < j /\ work[j] # "waiting" => work[i] = "done"
  /\ pc # "execute" => \A i \in DOMAIN work : work[i] # "running"
  /\ (\E i \in DOMAIN work : work[i] = "raised") /\ Ended => outcome = "raised"

\* Every run returns a result or raises.
RunEnds == <>Ended
===============================================================================
