# Verification of the dynamic agent platform

TLA+ models of the platform in this repository, TLC configurations that check
them on small instances, and proofs, checked by TLAPS, of what matters most for
instances of any size. Paths are relative to the repository root. Every
definition that stands for code is listed with its lines under `map` in
`PROJECT.json`.

## 1. The system

Two programs. The **application** (`app/`) routes a task to agents, asks a human
where the policy wants one, executes the agents, lets a critic and a refiner
work on the proposal, verifies routes with a guardrail, and keeps its pool of
agents in step with a remote registry. The **registry service**
(`registry-service/app/`) is a FastAPI server that keeps agents, tools and MCP
servers in an H2 database and executes tasks against them.

    human --resume--> LangGraphOrchestrator --emit--> ApprovalEventBus --> webhooks, streams
                        | resolve, needs_approval
                        v
    DynamicPool ----> AgentRegistry <---- AgentRouter, AgentResolver
        | HTTP (RegistryClient)
        v
    registry service: api -> service -> repository -> H2 (one lock per statement)
        ^ HTTP: other operators

| Component | State | Operations | What is hard | What makes it correct |
| --- | --- | --- | --- | --- |
| Human-in-the-loop engine (`agents/langgraph_engine.py`) | one checkpointed graph state per run; `_emitted_approvals` of the engine | `start`, `resume`; nodes gate, specialists, propose, critic, refine, finalize | a resumed gate executes again from its first line and gets recorded answers by position; the registry changes under waiting runs; subscribers raise; restarts; a fixed recursion limit | answers reach the agents they were given for; nobody is asked twice; status and event history tell the truth; the loop is bounded; runs end |
| Approval events (`agents/events.py`) | history, subscribers; a queue and an open flag per stream | `emit`, `record`, `events`, `close` | consumers blocked in `get()` while another thread closes; records that race `close()` | every event recorded before the end is delivered once and in order; consumers end |
| Agent registry, resolver, router (`registry/agent_registry.py`, `resolver.py`, `agents/router.py`) | a dict of definitions with an enabled flag | `register`, `remove`, `enable`, `disable`, `resolve`, `route` | checked when routing, used when executing | only enabled agents execute |
| Plain orchestrator, bounded refiner (`agents/orchestrator.py`) | none beyond one run | `run`, `run_governed` | one of several specialists fails while others work; agents switched off between routing and resolving; the iteration limit | a decision rests on all answers and on the revision the critic accepted; the bound |
| Guardrail (`validation/guardrail.py`) | none | `validate_proposal` | order of checks, cycles, optimal label | accepts exactly valid tours |
| Dynamic pool (`registry/pool.py`) | local registry, `_versions`, a snapshot during `refresh()` | `refresh`, `enable`, `disable`, `rollback_version` | two registries, one of them remote: calls fail before or after they took effect, others edit in between | a refresh that reports is exact; what an operator decided is not undone |
| Registry client (`registry/client.py`) | none | HTTP calls | failures | errors become `RegistryUnavailable` |
| Policy enforcement (`registry/policy.py`) | audit list, a worker thread per call | the guarded call | the timeout races the answer | every call ends with one verdict, in time, audited |
| Capability resolution, tool discovery, dynamic resolver (`registry/capability.py`, `discovery.py`, `dynamic_resolver.py`) | what one pass has gathered | `resolve_capabilities`, `resolve_many`, `discover_all_enabled` | several HTTP calls to a registry that changes between them; answers that are lost | exact for what nobody touched, nothing disabled or unauthorized handed out |
| Registry service (`registry-service/app/service`, `repository`, `api`) | three tables | POST, PUT, PATCH enable/disable, DELETE, GET | handlers in a thread pool, one statement at a time, no transaction | ids are consistent, answers true, no lost update |
| Task execution and overview (`api/execution.py`) | none kept | `execute_task`, `get_system_overview` | a second way to the verdicts of the solver; three reads that do not belong together | the verdicts agree; links of steady rows are right |
| Routing solver (`solver/agents.py`, `planner.py`, `runner.py`) | none | loops, 2-opt, split, specialists | the loop changes while it is scanned; roads that are missing or one-way; a loop without a bound; what a problem declares and what is so | each city once, exact for small n, a local optimum for large, an end; what the team says is so |
| Run metrics (`metrics.py`) | the runs of a session, a golden record | `collect_run`, `export`, `load`, `compare_metrics` | a later session that ran other problems | a silent comparison means everything was run and ended as before |
| LLM solver, task analyzer (`solver/llm.py`, `analyzer/task_analyzer.py`) | none | `chat`, `analyze` | a model may say anything, or fail | what it says is judged like anything else |
| Ultimate solver, adapters, tools, traces, configuration, web console, scripts | - | - | I/O, formatting, fixed data | - |

`PROJECT.json` lists all components with their status and, under `hazards`, each
hazard at its line with the properties that would catch it.

## 2. Modules

| Module | Models |
| --- | --- |
| `ApprovalEngine` | the engine, the event bus, the registry it reads, the human, restarts |
| `HumanGate` | abstract: a human gate that loses nothing (gate, answers and outcomes of section 5 of `docs/RUNTIME_POLICY.md`) |
| `ApprovalEngineProofs` | theorems about `ApprovalEngine`, its refinement of `HumanGate` among them |
| `GovernedRun` | the plain orchestrator: one run from the router to the decision |
| `GovernedRunProofs` | theorems about `GovernedRun` |
| `DynamicPool` | the pool, the local and the remote registry |
| `DynamicPoolProofs` | theorems about `DynamicPool` |
| `RegistryService` | the handlers of the service over its tables |
| `IdRegistry` | abstract: requests that take effect at one moment on a set of ids |
| `RegistryServiceProofs` | theorems about `RegistryService` |
| `GuardedCall` | the policy enforcer: concurrent guarded calls and their workers |
| `EventStream` | the event bus with a webhook and a stream, its emitters and consumers |
| `ThreadProofs` | theorems about `GuardedCall` and `EventStream` |
| `DependencyOrder` | the check of ordering constraints, of guardrail and solver |
| `TourSearch` | loops, 2-opt and split of the routing solver, the guardrail's verdict on routes |
| `TourSearchProofs` | theorems about `TourSearch` |
| `SolverTeam` | sessions of the solver: teams, verdicts, metrics; `POST /execute` |
| `SolverProofs` | theorems about `DependencyOrder` and `SolverTeam` |
| `Resolution` | the series of calls that read the registry service or register tools in it |
| `ResolutionProofs` | theorems about `Resolution` |
| `MC...` | values for TLC |

`ThreadProofs` and `SolverProofs` extend two modules each, so `GuardedCall` and
`SolverTeam` say `CallInit`, `CallNext`, `CallSpec`, `TeamInit`, ... where the others
say `Init`, `Next`, `Spec`.

### 2.1 ApprovalEngine

**State.** `pc[r]` is the graph node run `r` executes: `gate`, `resolve` and
`execute` (the two halves of `run_specialists`), `propose`, `critic`, `refine`,
`finalize`; or `awaiting` (suspended by `interrupt()`), `done`, `failed` (an
exception left `invoke()`), `overrun` (LangGraph's recursion error). `saved`,
`input`, `cnt` stand for LangGraph's scratchpad: the values recorded for the
gate, the one this `resume()` brings, and how many this execution has consumed.
`pos` is the loop variable of the gate and of `_selected_pairs`. The rest carries
the names of `GraphState`. `answer` and `undisturbed` are history variables.

**Actions.** `Start`, `Resume`; `GateRepeat`, `GatePass`, `GateAsk`,
`GateDecide`, `GateAbort`, `GateDone` are the branches of one iteration of
`_approval_gate`; `Resolve`, `Resolved`, `Execute`, `Collect` are
`_run_specialists`, with `Execute` one specialist in whatever order the pool
runs it; `Propose`, `Critic`, `Refine`, `Finalize` are nodes together with the
conditional edge behind them; `ReviewRaises` is an exception of a callable the
caller supplied; `RegistryChange` and `Restart` are the surroundings.

**Assumed of LangGraph**, which is not in the repository: a resumed node starts
over on the checkpointed state; the n-th `interrupt()` of an execution returns
the n-th recorded value, the next one the value of this `resume()`; values are
recorded when the node suspends, not when it raises; a superstep beyond the
recursion limit raises; `MemorySaver` dies with the process.

**Left out.** Proposal texts, tracing, durations, the `failed` results an
executor may return itself. Runs get a fresh run id in a process life, `resume()`
is called for a waiting run and by one caller at a time. Event counters
saturate at 2, which is all the properties ask. How many supersteps a recursion
limit of 50 leaves depends on LangGraph's own book-keeping by one or two; the
model counts node executions.

`HumanGate` knows phases, a policy, the answers and who is barred; it says who
may be asked, that a trusted run bars exactly the rejected agents, and how a run
may end; no step of it forgets anything. `ImplementsHumanGate` maps the engine onto
it, variable by variable (`PhaseOf`, `ChosenOf`, ..., `OutcomeOf`), *for each life of
the process*: the graph is compiled with `MemorySaver()` (`langgraph_engine.py:91`), so
`Restart` leaves no run, and a gate begins anew (`NewLife`). `RunsEnd` likewise speaks
of a run and the life it is in. That the document promises more is `ApprovalSurvives`,
which is refuted (section 5). Approver and timestamp of the audit are not modelled.

### 2.2 DynamicPool

**State.** `remote` and `local` map each agent to absent, off or on and a
version; `versions` is `_versions`; `pc`, `fetched`, `existing`, `todo` are the
local variables of `refresh()` between its steps. **Actions:** `Fetch` or
`FetchFails`, then `AddOrUpdate` or `Refuse` for each fetched definition,
`AddsDone`, `DisableGone` for each that is gone, `Report`; `Enable`, `Disable`,
`Rollback` with the three outcomes of a remote call (refused or not reached;
took effect and was answered; took effect and the answer was lost);
`RemoteEdit`, what others do, at any moment, also inside a `refresh()`.

The pool's own operations do not overlap: it has no threads and no lock. A
definition of the list may come in any order (`refresh` iterates the list it
got, its order is the server's). Left out: the report's lists, a `notify`
callback that raises, a pool without a client, every field of a definition but
its version. `RemoteVersions` are the versions the remote registry can store.
The client is written for the service of this repository (`/api/v1/agents`), whose
agents have no version, and fills in `"registry"`; so in every configuration of this
module that is the only one, while `Versions` has those a rollback can name, too. The
module and its theorems allow more. `rolled` remembers a rollback until a refresh reads
another version of the agent. A PUT of a definition with an output contract is refused
by the service (section 2.3); a refused call is among the outcomes of `Rollback`.

### 2.3 RegistryService

**State.** `table` is the table as a function on the ids it holds; `pc`, `req`,
`row`, `code` are the local variables of each worker thread's handler; `latest`
is history. `AgentIds` and `OtherIds` tell agents from tools and MCP servers,
whose repositories differ from the agents' in the two UPDATE statements.
**Actions:** one per SQL statement and branch: `Exists`/`Vacant` (the SELECT of
`create`), `Refused`/`Insert`, `NotFound`/`NoChange`/`Read` (the SELECT of
`update` and `set_enabled`), `Raise`, `Write`/`WriteNothing`, `Delete`,
`Receive`, `Answer`. The lock of `H2Database` makes a statement atomic and
nothing more. GET and the lists are one SELECT and change nothing; timestamps
are left out; the fields of `policy`, merged one by one, are fields like others.

`IdRegistry` promises that each request takes effect on the set of ids at one
moment between arrival and answer. The mapping puts that moment at the INSERT or
the refused INSERT of a `create` that found the id free, at the SELECT of an
update, at the DELETE.

A PUT of an agent whose `output_contract` has entries always ends in `Raise`:
`update` dumps the request to dicts, `model_copy` does not validate them, and the
repository calls `model_dump()` on a dict (`agent_repository.py:86`). The answer
is 500 and the row stays as it is.

### 2.4 GuardedCall

**State.** For each agent, `pc` is the thread that calls `guarded`, `worker` the
thread of its one-worker pool, `got` what `future.result()` gave the caller,
`audit` the kinds of entries recorded of it, `verdict` the status of the
`AgentResult`; `specs` is the `ToolRegistry` they share. **Actions.** Caller:
`Refuse` (allowlist), `Submit`, `Take` or `Expire` (the two ways out of
`future.result(timeout)`), then, when the `with` has joined the worker,
`ReturnResult`, `ReturnTimeout` or `Raise`. Worker: `Finish` with a number of
tool calls, `Break` with an exception, among them a `TimeoutError` of its own,
which since Python 3.11 is the class the caller catches. `Register` replaces a
tool at any moment. Time is not counted: a caller may give up whenever its
worker has not finished, which covers every timeout and every duration.
The allowlist test of `Refuse` reads one tool after the other in the code and is one
step here; no property depends on a tool that is replaced in between.

### 2.5 EventStream

**State.** `queue` and `open` are the stream's fields; `emitter` tells at which
subscriber an emitting thread is, and in `record()` whether it has passed the
test of `open` (`putting`); `consumer` whether an iterating thread is about to
test the flag or waits in `get()`; `closing` where `close()` is. `accepted` and
`taken` are history. **Actions** are the statements: `Admit`/`Drop` and `Put` of
`record`, `Shut` and `Mark` of `close`, `Leave`/`Continue` and `Get`/`GetEnd` of
`events`; `Posted` and `PostRaises` are the webhook, before or behind the stream
(`SinkFirst`). `queue.Queue` is a FIFO queue whose operations are atomic.

### 2.6 DependencyOrder

Guardrail and solver each have a copy of Kahn's algorithm; the solver goes on to
name a cycle. **State.** `indegree` and `queue` as in the code, `order` the
processed cities, `chain` the walk, `reported` the tuple returned, `phase` where
the function is. `precedence` is a sequence: the same constraint may come twice,
and a city may have to come before itself. **Actions:** `Process` is one round
of `while queue`, whose decrements of one city are taken together, since nothing
can come between them; `Accept`, `StartWalk`, `Walk`, `Close`, `GiveUp` are the
branches behind it. The queue is filled from a Python set, so its order is left
open. The guardrail returns all cities where the solver returns a cycle.

### 2.7 TourSearch

One problem without ordering constraints, from the plan to the guardrail's
verdict. **State.** `tour` is `visited`, later `current`; `todo` the pairs of legs
this pass of 2-opt has still to look at, `improved` the flag; `greedy` the loop
2-opt began with; `routes` the split; `proposal` and `verdict` what the guardrail
was asked and said. **Actions.** `Enumerate`, `NoLoop`: the exact search, with
the first of the sorted loops left open among the cheapest; `Greedy`, `Visit`:
nearest neighbour; `Smooth`, `Keep`, `Exchange`, `Raise`, `Again`, `Settle`: 2-opt,
one pair of legs per step, in the order of the two for loops, which read the loop
that earlier pairs have changed; `Split`; the `Judge...` actions are
`validate_proposal` from its second check on (the first is `DependencyOrder`),
handed any of six routes, since solvers, LLMs and tests all call it.

A missing road costs `Far` where the code says `inf`, so nearest neighbour may
take it. `Raise` is the `KeyError` of `table[(a, b)]`. Costs are naturals: the
`1e-9` of the comparison guards against rounding, which naturals do not have.
An undirected edge is listed once. The split takes the cities in their order
around the hub, which `around` gives; an angle is not computed.

### 2.8 GovernedRun

**State.** `call` holds the arguments of the run (how it is routed, parallel or
not, `max_iterations`, which callables are given, what the guardrail says),
`routed` is `routing.selected_agents`, `k` counts the agents the router or the
resolver has looked up, `work` tells what became of each tool, `proposal` numbers
the revisions, `critiques` counts rounds; `since` and `accepted` are history.
**Actions.** `RouteRequest`, `TakeRouting`, or `NameIds` and `ValidateId` per id;
`Select`, one agent at a time out of a registry that is edited meanwhile;
`StartAll` (with the check of `max_parallel_agents`) or `StartSequence` and
`StartNext`; `Finish`; `Integrate`, with the exception a failed specialist leaves
when the others are through, or the one of `BoundedRefiner` for a limit below 1;
`Critique`, `Refine`, `Decide`. `SetEnabled` is anybody. `run()` is the case
without critic, refiner and guardrail.

A proposal is the number of its revision, which tells what the properties ask: is
what was decided what the critic called valid. Left out: texts, trace entries, what
the specialists recommend, which words of a request select an agent.

### 2.9 SolverTeam

**State.** Of a session: `pc`, `problem`, `adapter`, `said` (what each specialist
said, as the set of things its text says), `runs` (the metrics), `golden` and
`regressions`; `response` is the last answer of `POST /execute`. A problem is a record of
what it declares (`problems.py`: cities, kind, ordering, the flag, a first stop, an
expected route and its cost) and of what is so: `roads`, a loop exists that meets the
first stop; `listed`, `enumerate_loops` returns one; `heuristic`, what greedy and 2-opt
end with; how the searches come to it is `TourSearch` and `DependencyOrder`.
`TeamAssumption` relates the two: a listed loop exists, and one is missed only where a
first stop is asked for on roads both ways (`first`), since of a loop and its reverse
one is dropped before the first stop is looked at (`solver/agents.py:37-43`).

`passed` looks for the expected cost as a substring of everything the team has said
(`runner.py:33-38`), and the graph builder prints `n=` and the cost of every road
(`agents.py:179-183`). `echo` says that the digits of the expected cost occur in such
another number; then `GraphBuilder` says "cost" whether there is a loop or not. In the
benchmark they do not: problems 1 to 6 expect 45, 40, 60, 25, 60 and 110, which no
road, count or other loop's cost contains.
**Actions.** `Plan` (`plan_agents`), `Work` (one specialist, in any order), `Judge`
(integration, `passed`, `collect_run`), `Export`, `Compare`, `Execute`
(`execute_task`: the scope, the disabled agents, the guardrail, the recommendations).

Left out: wording, costs, durations, log files, the query's validation errors. The
LLM adapter may say anything of four kinds or raise; the properties about what is
true speak of deterministic runs.

### 2.10 Resolution

**State.** `agents`, `tools`, `servers` are the service's tables as far as the
calls tell rows apart, `offers` the catalogues of the MCP servers. `op` is the
operation followed; `listed`, `left`, `tool`, `server`, `catalogue`, `result` are its
local variables; `touched`, `before`, `failed` history. **Actions** are the HTTP
calls: `ListAgents`, `MatchNext`, `Validate`; `FetchTools`, `FetchServer`;
`ListServers`, `Visit`, `Register`, `Update`, `Discovered`; `Overview` (three
statements). `Edit` is anybody's write between two of them. A call may fail before
it took effect or lose its answer after.

The overview is code of the service: its three lists are three statements without a
transaction. An agent with several capabilities is stored with one joined text
(`AgentCreate.normalize_capabilities`), which the client takes for one capability and
the overview splits again; `Named` and `Links` say so. Left out: factories of resolved
agents, names that differ in case only, the lists' order beyond "any".

## 3. Runs

| Run | Instance | Shows |
| --- | --- | --- |
| `approval_engine` | one run, agents a, b, routings `<<a,b>>`, `<<b>>`, `<<a,b,a>>`, any set flagged, 2 iterations, 2 registry changes, 1 raising subscriber, 1 restart | `HumanDecides`, `AskedOnce`, `RecordsTrue` (statuses and event history), `LoopBounded`; the refinement of `HumanGate` in each life of the process; every run ends unless a restart erases it |
| `rejection_honoured` | `<<a,b>>`, 1 registry change | refuted: a stops needing approval, its recorded approval goes to b, and b, rejected by the human, executes |
| `approval_survives` | `<<a,b>>`, 1 restart | refuted: a waiting run and its answers are gone after a restart |
| `governed_run` | 2 agents, routings of up to 3 places, limits 0, 1, 3, at most 2 parallel, 2 edits | `DecisionGrounded`, `AbstainsWhenExhausted`, `WorkIsWhole`; every run ends |
| `dynamic_pool` | agents a, b, a version of the registry service and one more to roll back to, any two registries, 3 operations, 2 remote edits | `RefreshMirrors`, `DisableSticks`, `RollbackHolds` |
| `registry_service` | 2 threads (symmetric), one agent, one MCP server, 2 fields, 2 values | `AnswersHold`, `BodyKept`, and ids that are linearizable |
| `guarded_call` | agents a (two tools, limit 1) and b (no tools, limit 0), any grants, 1 change of them, up to 2 reported calls | `FailClosed`, `ViolationsAudited`, `NoStrayWork`; every call ends |
| `event_stream` | 2 emitters with 2 events each, 2 consumers, the webhook first, 1 POST that raises | `FaithfulDelivery` (nothing lost or doubled, in order); open streams deliver, closed ones end |
| `resolution` | 2 agents, 2 tools, 2 servers, 2 capabilities; 2 edits during `resolve` and `provide`, 1 during `discover` and `overview` | `PoolExact`, `ProviderExact`, `DiscoveryMirrors`; every operation ends |
| `solver_team` | the 10 benchmark problems and 13 of shapes they lack, 2 runs in two sessions | `DecisionRight`, `PassIsEarned`, `VerdictsAgree`, `ComparisonTells` |
| `dependency_order` | any 1 to 4 constraints on 3 cities | `VerdictRight` (both ways), `CycleFound` (the cycle is one, the walk is short) |
| `tour_search` | undirected problems of 4 cities with any roads and of 5 with one missing at most, one-way ones of 3, splits of 2 to 6 cities; exact up to 4, 2 stops a vehicle | `LoopSound` (each city once; neither mended nor broken), `ExactIsBest`, `LocalOptimum`, `VerdictsTrue` (routes and splits); the search ends |

`approval_engine` and `registry_service` check `TypeOK` as well. Of the others it is
only a theorem; `Resolution` and `SolverTeam` choose every value from a set named in
the action itself, and their proofs say what they need of it (`ShapeInv`,
`MetricsInv`).

Six more configurations are not among the runs; each is refuted, by
`tlc -config <file> <module>`:

| File | Module | Refuted |
| --- | --- | --- |
| `RefreshApplies.cfg` | `MCDynamicPool` | an agent disabled here and enabled there does not stop a refresh |
| `RollbackReachesRemote.cfg` | `MCDynamicPool` | the remote registry has the version that was rolled back to |
| `DisableStands.cfg` | `MCRegistryService` | a disabled agent stays disabled while others PUT |
| `WallClockCap.cfg` | `MCGuardedCall` | a caller that gave up returns, however long its agent takes |
| `NeverLoops.cfg` | `MCTourSearch` | 2-opt of a one-way problem never comes back to a loop it has left |
| `ImpossibleIsProven.cfg` | `MCSolverTeam` | what `POST /execute` calls IMPOSSIBLE has no solution |

## 4. Bounds, fairness, deadlock

**Why the bounds are enough.** The gate matches answers by position: two flagged
agents are the fewest for an answer to go astray, `<<a,b,a>>` is the shortest
repetition with another question in between, two registry changes let a flag go
away and come back, and one raising subscriber aborts a replay between two
questions. Two iterations see the first, a middle and the last pass of the loop.
`_emitted_approvals` is the only thing runs share, and the refinement and all the
safety invariants are proved for any number of runs and agents.
In `governed_run` three places name one agent twice and exceed the parallel limit of
two; two edits switch an agent off and on again, or off after the routing and before
its turn; limit 0 is refused, 1 has a first round that is the last, 3 one in between.
In the pool an interference needs a fetch, an edit and an operation, with one call
before and one after; agents are treated one by one, the second shows that
`Refuse` leaves the others alone. In the service a race needs two threads, which
take one request after another, so a third party's requests are covered by a
thread that finished; two fields let a PUT of one meet a PUT of the other;
an agent and an MCP server have their own tables and never meet, one of each is
there for their different statements. Threads are interchangeable in every
action and property, hence the symmetry; no liveness is checked under it.
Guarded calls meet only in the tool registry; the two agents differ in their
default number of calls (two and one) and both can be at, below and above their
limit (`max_tool_calls` 0 is accepted by `config/loader.py:59`). An event needs a
successor of the same emitter to overtake, and one of the other to mix with; two
consumers share the queue and the single end mark.
In `resolution` two agents are one in the pool and one still to validate, and one
edit of each; a tool and its provider are two rows, each edited once; discovery and
overview treat rows one by one, so one edit is a row's torn read, and two servers
offer the same tool. An operation is over before the next begins, and none keeps a
cache, so one is followed at a time.
In `solver_team` two runs are a golden one and a later one, of the same problem or
not; `Others` has each declaration the benchmark lacks next to each truth, among them a
first stop that hides all loops (flagged or not) and an expected cost that only a road
repeats, without a loop and with one: without these exceptions `DecisionRight` and
`PassIsEarned` would be refuted.
Four constraints on three
cities have a repeated one in a cycle, a city that only depends on a cycle, and
cycles of one, two and three cities; the rest is proved.
With the limits of the code no problem small enough to check would be large, so
`ExactLimit` is 4 and `Capacity` 2: four cities are enumerated, five go to 2-opt.
Five is the fewest where pairs of legs overlap and one exchange changes the next
pair (of four cities there are two such pairs, both ways of one exchange), and
where a second pass finds something. `NeverLoops.cfg` has the code's own limits.

**Fairness.** Of the engine (`RunsEnd`): `WF(Invoke(r))`: `invoke()` is a
synchronous call that keeps executing, and agents are assumed to return or to raise.
`WF(Human(r))`: the human answers eventually; without it a run waits forever, as
the code means it to. Nobody has to start runs, and registry edits, raising
subscribers and restarts are bounded, not fair. A run that a restart erased has not
ended: `RunsEnd` asks only that it ends or its process does.
Of the plain orchestrator (`RunEnds`): `WF(Step)`, one synchronous call whose
specialists, critic and refiner return or raise. Of a resolution (`OperationEnds`):
`WF(Step)`, every HTTP call has a timeout; nobody has to edit.
Of guarded calls: `WF(Caller(a))`, threads run; `WF(Worker(a))`, agents return or
raise. `WallClockCap.cfg` has only the former, since a cap is a promise about
agents that do not. Of the stream (`StreamEnds`, `Delivered`): `WF(Mark)`, a
`close()` that was begun ends, and `WF(Reading(c))`, consumers iterate; nobody has to
emit, to return from a POST, or to close. Of the tour search (`TourEnds`,
`NeverLoops`): `WF(Search)`, one synchronous call that keeps running; nobody has to
ask the guardrail.

**Deadlock** checking is off: a bounded engine without runs left, a governed run or a
resolution with its result, a compared session, a pool with its
bounded calls spent, guarded calls that are over, a closed stream, a dependency check and a judged
route really do stop or would stop but for the bounds.

## 5. Where the code and its documents disagree

As runs, which TLC refutes; the quoted lines are under `findings`:

1. *Wrong agent executes after a registry edit* (`langgraph_engine.py:199`).
   Answers are matched by position while the policy is asked anew.
2. *A restart loses waiting runs* (`langgraph_engine.py:91`). The checkpointer is
   `MemorySaver()`; `docs/RUNTIME_POLICY.md:97-98` says that "approval survives process
   restarts via the checkpointer".

As configurations beside the runs (section 3):

3. *IMPOSSIBLE without a proof* (`api/execution.py:189`). `POST /execute` hands the
   expected route of a benchmark problem to the guardrail, and `None` where there is
   none. Problem 7 has fifteen cities, a loop and no expected route: it is called
   IMPOSSIBLE, which `docs/DECISION_OWNERSHIP.md:78-79` keeps for what is mathematically
   or topologically infeasible, while the solver's team reports its tour.
4. *A rollback never reaches the registry* (`pool.py:116`).
   `docs/RUNTIME_POLICY.md:146-147` says that `rollback_version()` mutates "local +
   remote state"; the service stores no version, the client reads `"registry"`, and the
   next refresh that finds the agent enabled goes back to that. `RollbackHolds` says
   what a rollback is worth until then.
5. *One disabled agent stops every refresh* (`pool.py:62`).
6. *A concurrent PUT undoes a disable* (`agent_repository.py:76`).
7. *The timeout is not a cap* (`policy.py:89`): leaving the `with` waits for the
   agent.
8. *2-opt may never end* (`solver/agents.py:80`): on a one-way problem reversing a
   part of the loop also changes what the legs inside it cost, which the test does
   not count, so an exchange can make the loop dearer and `while improved` go round
   for ever. Undirected problems end (`TourEnds`).

Seen while modelling, without a run of their own:

- `_emitted_approvals` belongs to the engine and no run resets it, so a second run
  that waits for the same agent announces nothing (`langgraph_engine.py:192`;
  `docs/RUNTIME_POLICY.md:162` says "per agent per run");
- PATCH enable/disable of tools and MCP servers answers with the copy in memory
  and stores nothing, since the UPDATE leaves the column out
  (`mcp_server_service.py:43`, `mcp_server_repository.py:65`);
- events recorded before `close()` may stay in the queue (`events.py:58`), on which
  `tests/unit/test_beads_3_to_5.py:346` would fail if its consumer were slow;
- the guardrail's "circular dependency detected" lists all constrained cities, in
  alphabetical order, whether on a cycle or not (`guardrail.py:198`);
- `recursion_limit` is fixed at 50 (`langgraph_engine.py:122`) and the loop needs
  `2 * max_iterations + 3`, so with more than 23 iterations an unresolved loop ends
  in an error instead of `abstain_human_review` (`LoopIsBounded` is the positive side);
- a PUT with an output contract always fails (2.3);
- the guardrail calls any valid route of at most nine cities that is not flagged as
  heuristic OPTIMAL, the cheapest or not (`guardrail.py:164`), which is why
  `VerdictsTrue` speaks of acceptance only; ordering constraints that are consistent
  are not compared with the route at all, and the city that must come first is
  looked for behind the route's own first city, wherever that is (`guardrail.py:130`);
- of a loop and its reverse `enumerate_loops` keeps one before it looks for the city
  that must come first, so of an undirected problem it may miss every loop that has
  it (`solver/agents.py:41-43`), and the team calls a solvable problem impossible: four
  cities with all roads and the last one as first stop are enough. `ExactIsBest` speaks
  of problems without such a city, `DecisionRight` excepts problems with one;
- `passed` finds an expected cost in any number of the text (`runner.py:33-38`): a
  problem without a loop passes when a road costs what was expected
  (`agents.py:179-183`), and a flagged one whose loops a first stop hides passes as
  impossible. `PassIsEarned` says that there is no third way;
- a greedy loop over a missing road ends in a `KeyError` or is reported with cost 0
  (`solver/agents.py:94`): `LoopSound` says it is not repaired;
- two PUTs of different fields of one row: the later one writes back what it read of
  the other's fields (`agent_service.py:39`);
- an edit that keeps the version never reaches the pool (`pool.py:66`);
- a critic without a refiner, or a refiner without a critic, is silently not asked
  (`orchestrator.py`), the guardrail checks the `proposed_route` it was given and never
  what the proposal says after refinement, and the refinement after the last refusal
  is thrown away unread (`AbstainsWhenExhausted`);
- `max_iterations` below 1 raises only after all specialists have worked, and only when
  both critic and refiner are given; a parallel run lets all specialists finish although
  one has failed;
- `passed` accepts a split of more than twelve stops when the problem is not flagged,
  and a heuristic loop over missing roads; a problem with a consistent ordering can
  never pass, since every ordering is expected to be circular (`DecisionRight` and
  `PassIsEarned` except or state these);
- the engine looks for `policy_violation` only: any other status of a specialist, such
  as the `error` of a split that is not feasible (`solver/agents.py:363`), counts as an
  answer, and the run completes;
- `execute_task` rejects a scope only for agents that are registered and disabled: one
  that is not registered at all works; a free query is never validated;
- an agent with two capabilities matches neither through the client, while the overview
  links it to the tools of both; an agent already in a scoped pool is not asked again
  for the next capability; `resolve_many` tries the provider of the first tool only;
- when the answer to a POST of a discovered tool is lost, the tool is PUT, which is
  right; when somebody deletes it in between, the pass ends.

## 6. Proofs

All for every value of the constants that the modules' ASSUMEs allow.

**Engine.** `TypeCorrect`. `LoopIsBounded`, from `LoopInv`, which counts
supersteps node by node (`steps = 2 * iterations + 4` at the critic): with a
limit of `2 * max_iterations + 3` the recursion error is out of reach.
`HumansDecide` and `NobodyAskedTwice`, from `IInv`: the properties speak of runs past
the gate, so they are not inductive. `ReplayInv` adds why a replay works:
interrupts were raised at first mentions of flagged agents, in order, leaving
none out (`AskedInOrder`); there is one more question than recorded answers
(`OneOpenQuestion`); the k-th recorded value is the answer for the k-th agent
asked (`AnswersRecorded`); and during a replay `cnt` separates the questions
behind `pos` from those ahead (`GateProgress`). Each is needed: without order a
replay could consume an answer too early, without completeness the gate could
pass a flagged agent.

`RecordsAreTrue` needs two more parts. A status is computed in `finalize` from what
earlier nodes gathered, so `StatusInv` says node by node what is gathered by then
(behind the specialists: everybody who may work has answered, and the violations are
those of the answers). The events of earlier agents are emitted again by every
replay, so `AuditInv` says at each moment what the history may hold: nothing of a run
that has not begun, later only answers that were given, and everything the lists hold.

`GateInEachLife`: the engine implements `HumanGate`, from the start and after every
restart anew, with no claim that a run outlives its process. The mapping's functions are
evaluated node by node (`GateViews`); a step of one run leaves HumanGate's picture of
the others as it is (`StepOfOne`); then each action is one step of the promise
or none (`StartAllowed`, `ResumeAllowed`, ...), and a restart ends in a gate's initial state
(`RestartBegins`). It rests on the
invariants above (that a settled run has barred exactly the rejected agents is
`ReplayInv`, that a reporting run has employed all others is `StatusInv`) and on
`ChoiceInv`: only selected agents are asked about and decided, a waiting run was put a
question. Since a registry edit ends the trust in a run, `ChoiceInv` must hold without
it, which is why it is not a part of `ReplayInv`.

**Plain orchestrator.** One invariant, `IInv`, from which `RunTypeCorrect`,
`DecisionIsGrounded`, `AbstentionIsExhaustion` and `WorkStaysWhole` follow. The
properties speak of the end and of who works; on the way to it `Fresh` says
that nothing has happened before it may, `Resolved` that whoever has been looked up
was enabled since the routing (`since` only grows), and `Rounds` that in the loop the
revision is one ahead of the refusals: without it the last conjunct of
`AbstainsWhenExhausted` is not inductive.

**Pool.** `PoolTypeCorrect`; `RefreshIsExact`, from `RefreshInv` (what of the fetched
list is applied so far, and which enabled agents are left over) and `TodoInv`;
`DisabledStays`, from `BarredInv` (a barred agent is in no fetched list still to
be applied); `RollbackHeld`, from `RolledInv` (a rolled back agent is in no fetched list
with another version), for any registry, those that store every version and those that
store one.

**Service.** `ServiceTypeCorrect`; `AnswersAreTrue`, from `StageInv` (a POST waits
at `insert`, anything else at `write`) and `LatestInv` (who wrote last has answered);
`FieldsKept`, an action property; `Linearizable`, the refinement of `IdRegistry`: initial states map
to initial states, each statement to `Arrive`, `Take`, `Leave` or a stutter, for
any number of threads and ids.

**Guarded calls.** `GuardedTypeCorrect`; `NothingSlipsThrough` and
`EveryViolationAudited`, which speak of calls that are over and so need to know
what holds on the way: what a finished worker has recorded, and that a caller
which took an answer took the worker's; `OverIsOver`, an action property.

**Stream.** `StreamTypeCorrect`; `FaithfullyDelivered`, which is `NoEventIsLost` and
`EventsInOrder`, from one invariant: an event to be put is newer than all accepted ones of its emitter
(`AcceptedInv`, the reason why it cannot be doubled), the queue is increasing per
emitter, and everything queued is newer than everything taken (`OrderInv`).
`NobodyWaitsInVain` is the safety behind `StreamEnds`, from `EndInv`: the end mark stays
in the queue until a consumer has ended.

**Dependency check.** `OrderTypeCorrect`, `VerdictIsRight` (its halves
`ConsistentOrdered` and `CircularUnordered`) and `CycleIsFound` (`CycleNamed`,
`WalkComesBack`), from one invariant: a counter
is the number of constraints still open (`CountInv`, by counting finite sets), a
city is processed once and after its predecessors (`OrderedInv`), and the walk
goes backwards through what is left, to a new city each time (`ChainInv`). When the
queue is empty each city that is left waits for another one that is left
(`LeftoverWaits`); in any ranking the lowest of them contradicts it.

**Tour search.** From one invariant of six parts. `StateInv`: no city twice, the
start first, and a full loop from the first pass of 2-opt on, which an exchange keeps
because it permutes places 2 to n (`FlippedIsLoop`) and nearest neighbour reaches
by counting (`NoShorterThanCities`, `NoLongerThanCities`): `TourTypeCorrect`,
`AlwaysATour`. `BrokenInv`: drivable now if and only if drivable at the start of
2-opt, since an exchange turns legs round, and roads of an undirected problem go
both ways (`FlippedRoads`): `NothingMended`. `JudgeInv`: the verdict is what
the checks found. `SplitIsFair` adds the sizes of the two shares, by bijections
(`Shares`); `VerdictIsTrue` that the checks accept exactly the turned loops
(`AcceptedAreLoops`). `LoopsStaySound` and `VerdictsAreTrue` put the parts together.

The other three parts are about cost, which the code never sums while it exchanges:
it compares two legs with two others. `FlippedCost` shows that the cost of the whole
loop changes by exactly that; the cost is a sum, and what is needed of sums (they
exist, add up piecewise, do not depend on the direction) follows from `Counting`, an
induction over a set of numbers. From it `ExchangeSaves`, an action property: every
exchange in an undirected problem makes the loop cheaper, so 2-opt cannot come back
to a loop it left; `NeverDearer` (`SavedInv`); `StopsAtOptimum` from `KeptInv`: the
pairs this pass has looked at and kept need no exchange, because the loop has not
changed since; `ExactSearchIsBest` from `ExactInv`, and from `OneWayOrTheOther`: of a loop and its
reverse only one is enumerated, at the same cost.

**Resolution.** From one invariant with a part per operation. The pool, the
providers, the links and the registered tools are right *as far as nobody has edited
the rows*, so each part rests on one idea: a row that nobody has edited is still what
it was when it was read (`ListedOf`). `PoolInv`: the agents that match the
capabilities begun are in the pool or still to be validated, and no others are:
`PoolIsExact`. `ProvideInv`: every tool chosen so far, and its server, are what was
asked for; `OverviewInv`: the links of an overview are those of the rows. Together
`ProviderIsExact`. `RowInv` and `DiscoverInv`: a tool nobody else edits is as it
was before the pass or as a listed server offers it, whatever calls were lost in
between, and its flag is what it was: `DiscoveryIsFaithful`. Assumed
(`ResolutionAssumption`): an agent has a capability, and a caller asks for one.

**Solver team.** From one invariant. `SessionInv`: only members of the team have
spoken, a deterministic member has said what its function returns, and between two
problems the last run's metric is that of what the whole team said; `MetricsInv`: metrics are
of completed runs; `ResponseInv`: what `POST /execute` last said of a benchmark problem
is what its guardrail and specialists say of that problem. `TeamsSay` evaluates a team on
each kind of problem, whatever the order of its members. `DecisionIsRight` and
`PassingIsEarned` hold for any problems beside the benchmark (`TeamAssumption` says
what fields a problem has, and that a loop is missed only with a first stop on roads
both ways; without a first stop `ExactSearchIsBest` proves that none is missed), with
the exceptions the properties name; `ComparisonIsFaithful` for any number of runs;
`VerdictsDoAgree` for any agents registered or disabled, by the five shapes that
the ten problems have (`BenchmarkTable`).

**Only model-checked.** Liveness (`RunsEnd`, `RunEnds`, `CallsEnd`, `StreamEnds`,
`Delivered`, `TourEnds`, `OperationEnds`): the provers do not reason about fairness.
Of `TourEnds` and `StreamEnds` the safety they rest on is proved all the same
(`ExchangeSaves`, `NobodyWaitsInVain`). All
other properties of passing runs are theorems.

## 7. Not modelled

I/O without shared state: the transport of the HTTP client and the mapping of
malformed rows, configuration, tracing, adapters of external frameworks, prompts, the
web console, scripts, the start-up of the registry service. The ultimate challenge
solver is a sequence of numeric stages for one data set, which its golden files cover.
Which words of a text name a capability is data: `SolverTeam` takes the groups of words
a text contains, `GovernedRun` any routing.

## 8. What is left

A composition of `DynamicPool` with `RegistryService` in place of the pool's abstract
remote registry, which would show a refresh between the statements of a PUT; the
pool's remote registry allows more, edits of any kind at any moment. For the other
liveness properties, what `ExchangeSaves` is for `TourEnds`: that each step of the
fair part comes nearer to the end, as an action property.
