---------------------------- MODULE ApprovalEngine ----------------------------
(***************************************************************************)
(* The human-in-the-loop engine, LangGraphOrchestrator                     *)
(* (app/agents/langgraph_engine.py): one engine object, the runs started   *)
(* on it, the approval event bus they share and the agent registry they    *)
(* all read while somebody else changes it.                                *)
(*                                                                         *)
(* A run is one LangGraph thread.  Its graph is                            *)
(*    approval_gate -> run_specialists -> propose -> critic <-> refine     *)
(*                                           \-> finalize <-/              *)
(* and the gate suspends the run with interrupt() at an agent that needs a *)
(* human.  LangGraph itself is not part of the repository.  What the       *)
(* engine relies on is modelled as follows: a resumed node is executed     *)
(* again from its first line on the checkpointed state, the n-th           *)
(* interrupt() of that execution returns the n-th value recorded for the   *)
(* node, the next one takes the value this resume() brings, any other      *)
(* suspends; the values are recorded when the node suspends, not when it   *)
(* raises.  The checkpointer is MemorySaver: it dies with the process.     *)
(***************************************************************************)
EXTENDS Integers, Sequences

CONSTANTS
  Agents,          \* agent ids
  Runs,            \* run ids, each given to start() once per process life
  Routings,        \* the agent sequences a router may hand to start()
  MaxIterations,   \* max_iterations of the engine
  RecursionLimit,  \* supersteps the "recursion_limit" of _config leaves to the
                   \* nodes of one invoke()
  Parallel,        \* the engine's parallel switch
  MaxParallel,     \* max_parallel_agents
  MaxChanges,      \* bound: registry changes by others
  MaxSinkFailures, \* bound: event sinks (webhooks) that raise
  MaxRestarts      \* bound: restarts of the process

ASSUME EngineAssumption ==
  /\ Routings \subseteq Seq(Agents) /\ <<>> \notin Routings
  /\ MaxIterations \in Nat \ {0} /\ RecursionLimit \in Nat \ {0}
  /\ Parallel \in BOOLEAN /\ MaxParallel \in Nat
  /\ MaxChanges \in Nat /\ MaxSinkFailures \in Nat /\ MaxRestarts \in Nat

VARIABLES
  enabled, flagged, changes,          \* the registry: enabled agents, and those
                                      \* with requires_human_approval
  emitted, events, sinkFailures,      \* _emitted_approvals and the event bus
  pc, steps, routing, restarts,       \* node of each run, supersteps so far
  pos, cnt, saved, input, asked,      \* one execution of the gate
  approvals, rejections,
  work, results, violations, noAgents, \* run_specialists and propose
  verdict, iterations, status,         \* critic, refine, finalize
  answer, undisturbed                  \* history: what the human answered, and
                                       \* whether nobody touched the run's agents

registry == <<enabled, flagged, changes>>
bus      == <<emitted, events, sinkFailures>>
gate     == <<pos, cnt, saved, input, asked, approvals, rejections>>
team     == <<work, results, violations, noAgents>>
review   == <<verdict, iterations, status>>
history  == <<answer, undisturbed>>
vars     == <<registry, bus, pc, steps, routing, restarts, gate, team, review,
              history>>

-----------------------------------------------------------------------------
Decision == {"approved", "rejected"}
Kinds    == {"pending", "approved", "rejected"}
Outcomes == {"ok", "policy_violation", "error"}
Ended    == {"done", "failed", "overrun"}
Working  == {"gate", "resolve", "execute", "propose", "critic", "refine",
             "finalize"}
Statuses == {"running", "policy_violation", "no_agents_authorized",
             "completed", "abstain_human_review"}

Tasks     == [agent : Agents, out : Outcomes \cup {"todo"}]
EventKeys == Kinds \X Runs \X Agents

AgentsOf(seq) == {seq[i] : i \in DOMAIN seq}
Selected(r)   == AgentsOf(routing[r])
Item(r)       == routing[r][pos[r]]
Decided(r)    == approvals[r] \cup rejections[r]
PastGate(r)   == pc[r] \in (Working \ {"gate"}) \cup {"done"}
PendingAgent(r) == routing[r][asked[r][Len(asked[r])]]

\* _needs_approval_from_resolver: resolve() raises for an agent that is not
\* enabled, and the exception counts as "no approval needed".
NeedsApproval(a) == a \in enabled /\ a \in flagged

\* What interrupt() returns at the gate's current position, "none" when it
\* suspends the run instead.
Reply(r) ==
  IF cnt[r] < Len(saved[r]) THEN saved[r][cnt[r] + 1]
  ELSE IF cnt[r] = Len(saved[r]) THEN input[r] ELSE "none"

\* "approvals if decision == 'approved' else rejections"; the mutant takes any
\* decision for an approval.
GrantsMutant(decision) == decision # "none"
Grants(decision) == decision = "approved"

\* "if item.agent_id in rejections: continue"; the mutant forgets it.
BarredMutant(r, a) == FALSE
Barred(r, a) == a \in rejections[r]

\* ApprovalEventBus.emit: how often a kind was emitted, 2 standing for "more
\* than once".
Announce(log, kind, r, a) ==
  [log EXCEPT ![<<kind, r, a>>] = IF @ = 0 THEN 1 ELSE 2]

\* "if item.agent_id not in self._emitted_approvals: self._events.pending(...)"
Notified(log, r, a) ==
  IF a \in emitted THEN log ELSE Announce(log, "pending", r, a)

\* The events of a gate that has its decision: pending if it is news, and the
\* decision in any case.  The mutant announces the decision once per agent, too.
ConcludedMutant(log, r, a, d) ==
  IF a \in emitted THEN log ELSE Announce(Notified(log, r, a), d, r, a)
Concluded(log, r, a, d) == Announce(Notified(log, r, a), d, r, a)

\* The next superstep of invoke(): it runs the node, or the recursion limit is
\* spent and invoke() raises.
Enter(r, node) ==
  IF steps[r] < RecursionLimit
  THEN /\ pc' = [pc EXCEPT ![r] = node]
       /\ steps' = [steps EXCEPT ![r] = @ + 1]
  ELSE /\ pc' = [pc EXCEPT ![r] = "overrun"]
       /\ UNCHANGED steps

\* An exception leaves invoke().  The mutant swallows it and tries again.
FailMutant(r) == UNCHANGED <<pc, steps>>
Fail(r) == pc' = [pc EXCEPT ![r] = "failed"] /\ UNCHANGED steps

-----------------------------------------------------------------------------
Init ==
  /\ enabled = Agents /\ flagged \in SUBSET Agents /\ changes = 0
  /\ emitted = {} /\ events = [e \in EventKeys |-> 0]
  /\ sinkFailures = 0 /\ restarts = 0
  /\ pc = [r \in Runs |-> "idle"] /\ steps = [r \in Runs |-> 0]
  /\ routing = [r \in Runs |-> <<>>]
  /\ pos = [r \in Runs |-> 1] /\ cnt = [r \in Runs |-> 0]
  /\ saved = [r \in Runs |-> <<>>] /\ input = [r \in Runs |-> "none"]
  /\ asked = [r \in Runs |-> <<>>]
  /\ approvals = [r \in Runs |-> {}] /\ rejections = [r \in Runs |-> {}]
  /\ work = [r \in Runs |-> <<>>] /\ results = [r \in Runs |-> {}]
  /\ violations = [r \in Runs |-> {}] /\ noAgents = [r \in Runs |-> FALSE]
  /\ verdict = [r \in Runs |-> FALSE] /\ iterations = [r \in Runs |-> 0]
  /\ status = [r \in Runs |-> "running"]
  /\ answer = [r \in Runs |-> [a \in Agents |-> "none"]]
  /\ undisturbed = [r \in Runs |-> TRUE]

\* start(): the router has just checked that every agent it names is enabled.
Start(r, rt) ==
  /\ pc[r] = "idle" /\ AgentsOf(rt) \subseteq enabled
  /\ routing' = [routing EXCEPT ![r] = rt]
  /\ pc' = [pc EXCEPT ![r] = "gate"] /\ steps' = [steps EXCEPT ![r] = 1]
  /\ pos' = [pos EXCEPT ![r] = 1] /\ cnt' = [cnt EXCEPT ![r] = 0]
  /\ saved' = [saved EXCEPT ![r] = <<>>] /\ input' = [input EXCEPT ![r] = "none"]
  /\ asked' = [asked EXCEPT ![r] = <<>>]
  /\ approvals' = [approvals EXCEPT ![r] = {}]
  /\ rejections' = [rejections EXCEPT ![r] = {}]
  /\ work' = [work EXCEPT ![r] = <<>>] /\ results' = [results EXCEPT ![r] = {}]
  /\ violations' = [violations EXCEPT ![r] = {}]
  /\ noAgents' = [noAgents EXCEPT ![r] = FALSE]
  /\ verdict' = [verdict EXCEPT ![r] = FALSE]
  /\ iterations' = [iterations EXCEPT ![r] = 0]
  /\ status' = [status EXCEPT ![r] = "running"]
  /\ answer' = [answer EXCEPT ![r] = [a \in Agents |-> "none"]]
  /\ undisturbed' = [undisturbed EXCEPT ![r] = TRUE]
  /\ UNCHANGED <<registry, bus, restarts>>

\* resume(): the human answers for the agent the last result named; the gate
\* runs again from its first line on the checkpointed, empty lists.
Resume(r, d) ==
  /\ pc[r] = "awaiting"
  /\ pc' = [pc EXCEPT ![r] = "gate"] /\ steps' = [steps EXCEPT ![r] = 1]
  /\ pos' = [pos EXCEPT ![r] = 1] /\ cnt' = [cnt EXCEPT ![r] = 0]
  /\ input' = [input EXCEPT ![r] = d]
  /\ approvals' = [approvals EXCEPT ![r] = {}]
  /\ rejections' = [rejections EXCEPT ![r] = {}]
  /\ answer' = [answer EXCEPT ![r][PendingAgent(r)] = d]
  /\ UNCHANGED <<registry, bus, routing, restarts, saved, asked, team, review,
                 undisturbed>>

-----------------------------------------------------------------------------
(* _approval_gate, one selected agent at a time.                           *)
AtItem(r) == pc[r] = "gate" /\ pos[r] \in DOMAIN routing[r]
UndecidedMutant(r) == AtItem(r)
Undecided(r) == AtItem(r) /\ Item(r) \notin Decided(r)

\* The agent was decided earlier in this execution (a routing may repeat it).
GateRepeat(r) ==
  /\ AtItem(r) /\ Item(r) \in Decided(r)
  /\ events' = IF Item(r) \in emitted THEN events
               ELSE Announce(events, IF Item(r) \in approvals[r] THEN "approved"
                                     ELSE "rejected", r, Item(r))
  /\ emitted' = emitted \cup {Item(r)}
  /\ pos' = [pos EXCEPT ![r] = @ + 1]
  /\ UNCHANGED <<registry, sinkFailures, pc, steps, routing, restarts, cnt, saved,
                 input, asked, approvals, rejections, team, review, history>>

\* No approval policy, or the resolver raised: the agent passes.
GatePass(r) ==
  /\ Undecided(r) /\ ~NeedsApproval(Item(r))
  /\ pos' = [pos EXCEPT ![r] = @ + 1]
  /\ UNCHANGED <<registry, bus, pc, steps, routing, restarts, cnt, saved, input,
                 asked, approvals, rejections, team, review, history>>

\* interrupt() has no value to return: the run is left to a human.
GateAsk(r) ==
  /\ Undecided(r) /\ NeedsApproval(Item(r)) /\ Reply(r) = "none"
  /\ events' = Notified(events, r, Item(r)) /\ emitted' = emitted \cup {Item(r)}
  /\ saved' = [saved EXCEPT ![r] = IF cnt[r] > Len(@) THEN Append(@, input[r])
                                   ELSE @]
  /\ asked' = [asked EXCEPT ![r] = Append(@, pos[r])]
  /\ pc' = [pc EXCEPT ![r] = "awaiting"]
  /\ UNCHANGED <<registry, sinkFailures, steps, routing, restarts, pos, cnt, input,
                 approvals, rejections, team, review, history>>

\* interrupt() returns a recorded or a new decision, which is announced every
\* time the gate passes here.
GateDecide(r) ==
  /\ Undecided(r) /\ NeedsApproval(Item(r)) /\ Reply(r) # "none"
  /\ events' = Concluded(events, r, Item(r), Reply(r))
  /\ emitted' = emitted \cup {Item(r)}
  /\ IF Grants(Reply(r))
     THEN /\ approvals' = [approvals EXCEPT ![r] = @ \cup {Item(r)}]
          /\ UNCHANGED rejections
     ELSE /\ rejections' = [rejections EXCEPT ![r] = @ \cup {Item(r)}]
          /\ UNCHANGED approvals
  /\ cnt' = [cnt EXCEPT ![r] = @ + 1] /\ pos' = [pos EXCEPT ![r] = @ + 1]
  /\ UNCHANGED <<registry, sinkFailures, pc, steps, routing, restarts, saved, input,
                 asked, team, review, history>>

\* A subscriber of the bus raises, out of emit() and out of the node: invoke()
\* raises, nothing of this execution is kept but what the bus and the engine
\* object hold.  A run that was waiting still waits for the same agent.
GateAbort(r) ==
  /\ Undecided(r) /\ NeedsApproval(Item(r)) /\ sinkFailures < MaxSinkFailures
  /\ \/ /\ Item(r) \notin emitted
        /\ events' = Notified(events, r, Item(r)) /\ UNCHANGED emitted
     \/ /\ Reply(r) # "none"
        /\ events' = Concluded(events, r, Item(r), Reply(r))
        /\ emitted' = emitted \cup {Item(r)}
  /\ sinkFailures' = sinkFailures + 1
  /\ pc' = [pc EXCEPT ![r] = IF asked[r] = <<>> THEN "failed" ELSE "awaiting"]
  /\ UNCHANGED <<registry, steps, routing, restarts, gate, team, review, history>>

GateDone(r) ==
  /\ pc[r] = "gate" /\ pos[r] = Len(routing[r]) + 1
  /\ Enter(r, "resolve") /\ pos' = [pos EXCEPT ![r] = 1]
  /\ UNCHANGED <<registry, bus, routing, restarts, cnt, saved, input, asked,
                 approvals, rejections, team, review, history>>

-----------------------------------------------------------------------------
(* _selected_pairs and _run_specialists.                                   *)
Resolve(r) ==
  /\ pc[r] = "resolve" /\ pos[r] \in DOMAIN routing[r]
  /\ \/ Barred(r, Item(r)) /\ UNCHANGED <<pc, steps, work>>
     \/ /\ ~Barred(r, Item(r)) /\ Item(r) \in enabled
        /\ work' = [work EXCEPT ![r] = Append(@, [agent |-> Item(r), out |-> "todo"])]
        /\ UNCHANGED <<pc, steps>>
     \/ /\ ~Barred(r, Item(r)) /\ Item(r) \notin enabled
        /\ Fail(r) /\ UNCHANGED work
  /\ pos' = [pos EXCEPT ![r] = @ + 1]
  /\ UNCHANGED <<registry, bus, routing, restarts, cnt, saved, input, asked,
                 approvals, rejections, results, violations, noAgents, review,
                 history>>

Resolved(r) ==
  /\ pc[r] = "resolve" /\ pos[r] = Len(routing[r]) + 1
  /\ pc' = [pc EXCEPT ![r] = "execute"]
  /\ UNCHANGED <<registry, bus, steps, routing, restarts, gate, team, review,
                 history>>

InParallel(r) == Parallel /\ Len(work[r]) > 1 /\ Len(work[r]) <= MaxParallel
Todo(r)    == {i \in DOMAIN work[r] : work[r][i].out = "todo"}
Staff(r, O) == {work[r][i].agent : i \in {j \in DOMAIN work[r] : work[r][j].out \in O}}

\* One specialist answers.  The thread pool runs them in any order and lets
\* all of them finish; the sequential loop takes them in order and an
\* exception leaves it at once.
Execute(r, i, o) ==
  /\ pc[r] = "execute" /\ i \in Todo(r)
  /\ InParallel(r) \/ \A j \in Todo(r) : i <= j
  /\ work' = [work EXCEPT ![r][i].out = o]
  /\ IF o = "error" /\ ~InParallel(r) THEN Fail(r) ELSE UNCHANGED <<pc, steps>>
  /\ UNCHANGED <<registry, bus, routing, restarts, gate, results, violations,
                 noAgents, review, history>>

\* All have answered: future.result() raises the first exception, or the
\* results are keyed by agent id.
Collect(r) ==
  /\ pc[r] = "execute" /\ Todo(r) = {}
  /\ IF Staff(r, {"error"}) # {}
     THEN Fail(r) /\ UNCHANGED <<results, violations>>
     ELSE /\ results' = [results EXCEPT ![r] = Staff(r, Outcomes)]
          /\ violations' = [violations EXCEPT ![r] = @ \cup Staff(r, {"policy_violation"})]
          /\ Enter(r, "propose")
  /\ UNCHANGED <<registry, bus, routing, restarts, gate, work, noAgents, review,
                 history>>

-----------------------------------------------------------------------------
(* _propose, _critic_node, _refine, _finalize and the edges between them.  *)
Propose(r) ==
  /\ pc[r] = "propose"
  /\ noAgents' = [noAgents EXCEPT ![r] = results[r] = {}]
  /\ Enter(r, IF results[r] = {} THEN "finalize" ELSE "critic")
  /\ UNCHANGED <<registry, bus, routing, restarts, gate, work, results, violations,
                 review, history>>

RouteCriticMutant(valid, done) ==
  IF valid \/ done > MaxIterations THEN "finalize" ELSE "refine"
RouteCritic(valid, done) ==
  IF valid \/ done >= MaxIterations THEN "finalize" ELSE "refine"

Critic(r, valid) ==
  /\ pc[r] = "critic"
  /\ verdict' = [verdict EXCEPT ![r] = valid]
  /\ iterations' = [iterations EXCEPT ![r] = @ + 1]
  /\ Enter(r, RouteCritic(valid, iterations[r] + 1))
  /\ UNCHANGED <<registry, bus, routing, restarts, gate, team, status, history>>

Refine(r) ==
  /\ pc[r] = "refine"
  /\ Enter(r, "critic")
  /\ UNCHANGED <<registry, bus, routing, restarts, gate, team, review, history>>

\* The critic or the refiner, callables the caller supplies, raises.
ReviewRaises(r) ==
  /\ pc[r] \in {"critic", "refine"}
  /\ Fail(r)
  /\ UNCHANGED <<registry, bus, routing, restarts, gate, team, review, history>>

\* The mutant gives a status of the plain orchestrator.
FinalStatusTypo(r) == IF verdict[r] THEN "completed" ELSE "rejected_by_guardrail"
FinalStatus(r) ==
  CASE violations[r] # {} -> "policy_violation"
    [] violations[r] = {} /\ noAgents[r] -> "no_agents_authorized"
    [] violations[r] = {} /\ ~noAgents[r] /\ verdict[r] -> "completed"
    [] OTHER -> "abstain_human_review"

Finalize(r) ==
  /\ pc[r] = "finalize"
  /\ status' = [status EXCEPT ![r] = FinalStatus(r)]
  /\ pc' = [pc EXCEPT ![r] = "done"]
  /\ UNCHANGED <<registry, bus, steps, routing, restarts, gate, team, verdict,
                 iterations, history>>

-----------------------------------------------------------------------------
(* The surroundings: registry edits by the pool or an operator, restarts.  *)
RegistryChange(a) ==
  /\ changes < MaxChanges /\ changes' = changes + 1
  /\ \/ /\ enabled' = IF a \in enabled THEN enabled \ {a} ELSE enabled \cup {a}
        /\ UNCHANGED flagged
     \/ /\ flagged' = IF a \in flagged THEN flagged \ {a} ELSE flagged \cup {a}
        /\ UNCHANGED enabled
  /\ undisturbed' = [r \in Runs |-> undisturbed[r] /\ a \notin Selected(r)]
  /\ UNCHANGED <<bus, pc, steps, routing, restarts, gate, team, review, answer>>

\* The checkpoints, _emitted_approvals and the event history are in memory.
Restart ==
  /\ restarts < MaxRestarts /\ restarts' = restarts + 1
  /\ pc' = [r \in Runs |-> "idle"]
  /\ emitted' = {} /\ events' = [e \in EventKeys |-> 0]
  /\ UNCHANGED <<registry, sinkFailures, steps, routing, gate, team, review, history>>

-----------------------------------------------------------------------------
\* What the thread inside invoke() does for run r.
Invoke(r) ==
  \/ GateRepeat(r) \/ GatePass(r) \/ GateAsk(r) \/ GateDecide(r) \/ GateAbort(r)
  \/ GateDone(r) \/ Resolve(r) \/ Resolved(r) \/ Collect(r)
  \/ \E i \in DOMAIN work[r], o \in Outcomes : Execute(r, i, o)
  \/ Propose(r) \/ Refine(r) \/ ReviewRaises(r) \/ Finalize(r)
  \/ \E valid \in BOOLEAN : Critic(r, valid)

Human(r) == \E d \in Decision : Resume(r, d)

Next ==
  \/ \E r \in Runs : Invoke(r) \/ Human(r)
  \/ \E r \in Runs, rt \in Routings : Start(r, rt)
  \/ \E a \in Agents : RegistryChange(a)
  \/ Restart

Spec == Init /\ [][Next]_vars

\* invoke() is synchronous code that keeps running, and the human is assumed
\* to answer; nobody is obliged to start a run or to leave the registry alone.
FairSpec == Spec /\ \A r \in Runs : WF_vars(Invoke(r)) /\ WF_vars(Human(r))

-----------------------------------------------------------------------------
\* Every variable has the type the code gives it.
RegistryOK ==
  enabled \in SUBSET Agents /\ flagged \in SUBSET Agents /\ changes \in Nat
BusOK ==
  /\ emitted \in SUBSET Agents /\ sinkFailures \in Nat
  /\ events \in [EventKeys -> 0..2]
ControlOK ==
  /\ pc \in [Runs -> Working \cup Ended \cup {"idle", "awaiting"}]
  /\ steps \in [Runs -> Nat] /\ routing \in [Runs -> Seq(Agents)] /\ restarts \in Nat
GateOK ==
  /\ pos \in [Runs -> Nat] /\ cnt \in [Runs -> Nat]
  /\ saved \in [Runs -> Seq(Decision)] /\ input \in [Runs -> Decision \cup {"none"}]
  /\ asked \in [Runs -> Seq(Nat)]
  /\ approvals \in [Runs -> SUBSET Agents] /\ rejections \in [Runs -> SUBSET Agents]
TeamOK ==
  /\ work \in [Runs -> Seq(Tasks)]
  /\ results \in [Runs -> SUBSET Agents] /\ violations \in [Runs -> SUBSET Agents]
  /\ noAgents \in [Runs -> BOOLEAN]
ReviewOK ==
  /\ verdict \in [Runs -> BOOLEAN] /\ iterations \in [Runs -> Nat]
  /\ status \in [Runs -> Statuses]
HistoryOK ==
  /\ answer \in [Runs -> [Agents -> Decision \cup {"none"}]]
  /\ undisturbed \in [Runs -> BOOLEAN]
TypeOK == RegistryOK /\ BusOK /\ ControlOK /\ GateOK /\ TeamOK /\ ReviewOK /\ HistoryOK

\* Replaying the gate hands every recorded answer to the agent it was given
\* for: when nobody touched the run's agents in the registry, an agent that
\* needs approval executes only after the human approved that very agent, and
\* one the human rejected is left out (_approval_gate, _selected_pairs).
HumanDecides ==
  \A r \in Runs : undisturbed[r] /\ PastGate(r) =>
    /\ rejections[r] = {a \in Selected(r) : answer[r][a] = "rejected"}
    /\ \A i \in DOMAIN work[r] :
         NeedsApproval(work[r][i].agent) => answer[r][work[r][i].agent] = "approved"

\* However often the gate is replayed, no agent is put before the human twice
\* (as long as no webhook broke a replay off and the registry stood still).
AskedOnce ==
  \A r \in Runs : pc[r] # "idle" /\ undisturbed[r] =>
    \A i, j \in DOMAIN asked[r] :
      routing[r][asked[r][i]] = routing[r][asked[r][j]] => i = j

\* What the event history says of a run that got through the gate is what the
\* human said, although replays announce decisions again (EventBus.emit).
AuditTrail ==
  \A r \in Runs : undisturbed[r] /\ sinkFailures = 0 /\ PastGate(r) =>
    \A a \in Selected(r), d \in Decision :
      (events[<<d, r, a>>] > 0) <=> (answer[r][a] = d)

\* The final status tells what happened on the way there: nothing remained to
\* execute exactly when every selected agent was rejected, a completed run had
\* at least one answer, no violation and an accepted proposal, and the engine
\* abstains only after max_iterations fruitless passes of the critic.
StatusTruth ==
  \A r \in Runs : pc[r] = "done" =>
    /\ (status[r] = "no_agents_authorized") <=> (Selected(r) \subseteq rejections[r])
    /\ (status[r] = "policy_violation") <=> (Staff(r, {"policy_violation"}) # {})
    /\ status[r] = "completed" =>
         /\ verdict[r] /\ iterations[r] > 0
         /\ Staff(r, {"ok"}) = Selected(r) \ rejections[r]
    /\ status[r] = "abstain_human_review" =>
         ~verdict[r] /\ iterations[r] = MaxIterations

\* What a run leaves behind can be believed: its events and its status both say
\* what happened, whatever was replayed, failed or rejected on the way.
RecordsTrue == AuditTrail /\ StatusTruth

\* The critic/refiner loop takes max_iterations passes at most, and a recursion
\* limit of 2 * max_iterations + 3 is enough to let every run end by itself.
LoopBounded ==
  \A r \in Runs :
    /\ iterations[r] <= MaxIterations
    /\ RecursionLimit >= 2 * MaxIterations + 3 => pc[r] # "overrun"

\* In each life of the process a started run ends, however many agents the human has
\* to be asked about, unless that life is over before (start, resume, the graph).
RunsEnd ==
  \A r \in Runs, life \in 0 .. MaxRestarts :
    pc[r] # "idle" /\ restarts = life ~> pc[r] \in Ended \/ restarts > life

\* Refuted by the code: an agent that still needs approval and that the human
\* rejected does not execute, whatever else happens to the registry meanwhile.
RejectionHonoured ==
  \A r \in Runs : PastGate(r) =>
    \A i \in DOMAIN work[r] :
      work[r][i].out # "todo" /\ NeedsApproval(work[r][i].agent) =>
        answer[r][work[r][i].agent] # "rejected"

-----------------------------------------------------------------------------
(* The engine as a human gate.                                             *)
Live(r) == pc[r] # "idle"

PhaseOf == [r \in Runs |->
  CASE pc[r] = "gate" -> "deciding"
    [] pc[r] = "awaiting" -> "waiting"
    [] pc[r] \in Working \ {"gate"} -> "working"
    [] pc[r] \in Ended -> "ended"
    [] OTHER -> "idle"]
Policy    == {a \in Agents : NeedsApproval(a)}
ChosenOf  == [r \in Runs |-> IF Live(r) THEN Selected(r) ELSE {}]
WaitingOf == [r \in Runs |-> IF pc[r] = "awaiting" THEN {PendingAgent(r)} ELSE {}]
AnswerOf  == [r \in Runs |-> IF Live(r) THEN answer[r] ELSE [a \in Agents |-> "none"]]
TrustedOf == [r \in Runs |-> Live(r) => undisturbed[r]]
BarredOf  == [r \in Runs |-> IF Live(r) /\ pc[r] \notin {"gate", "awaiting"}
                             THEN rejections[r] ELSE {}]
EmployedOf == [r \in Runs |-> IF Live(r) THEN Staff(r, Outcomes) ELSE {}]
OutcomeOf  == [r \in Runs |-> CASE ~Live(r) -> "running"
                               [] pc[r] \in {"failed", "overrun"} -> "failed"
                               [] OTHER -> status[r]]

Gate == INSTANCE HumanGate WITH
  phase <- PhaseOf, policy <- Policy, chosen <- ChosenOf, waitingFor <- WaitingOf,
  answer <- AnswerOf, trusted <- TrustedOf, barred <- BarredOf,
  employed <- EmployedOf, outcome <- OutcomeOf

\* The process is started anew; nothing is handed over from one life to the next.
NewLife == restarts' = restarts + 1 /\ (Gate!Init)'

\* Each life of the process is a human gate: it begins as one begins, and every step
\* within it is a step HumanGate allows, or none (start, resume, the graph's nodes).
ImplementsHumanGate == Gate!Init /\ [][Gate!Next \/ NewLife]_(Gate!vars)

\* Refuted by the code: "approval survives process restarts via the checkpointer"; a
\* run that waits for a human goes on waiting until it has the answer.
ApprovalSurvives ==
  [][\A r \in Runs : PhaseOf[r] = "waiting" => PhaseOf'[r] \in {"waiting", "deciding"}]_vars
===============================================================================
