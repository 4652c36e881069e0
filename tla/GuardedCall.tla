------------------------------ MODULE GuardedCall ------------------------------
(***************************************************************************)
(* Policy enforcement, PolicyEnforcer.wrap (app/registry/policy.py): the   *)
(* calls of several agents, made by the threads of an orchestrator, each   *)
(* checked against the tool registry they share and then executed by a     *)
(* worker thread of its own under a timeout.                               *)
(*                                                                         *)
(* Time is not counted: a caller gives up at any moment at which its       *)
(* worker has not finished.  A TimeoutError the agent itself raises and    *)
(* the one of future.result() are the same exception (Python 3.11).        *)
(*                                                                         *)
(* The names of the specification carry a prefix because ThreadProofs      *)
(* extends this module beside EventStream.                                 *)
(***************************************************************************)
EXTENDS Integers, FiniteSets

CONSTANTS
  Agents,        \* agents, each called once
  Tools,         \* tool names
  AllowedTools,  \* allowed_tools of each agent's definition
  MaxToolCalls,  \* max_tool_calls of each agent's limits
  MaxReported,   \* bound: the number of tool calls an agent reports
  MaxChanges     \* bound: registrations of tools meanwhile

ASSUME CallAssumption ==
  /\ AllowedTools \in [Agents -> SUBSET Tools] /\ IsFiniteSet(Tools)
  /\ MaxToolCalls \in [Agents -> Nat]
  /\ MaxReported \in Nat /\ MaxChanges \in Nat

VARIABLES
  specs, changes, \* the tool registry: the agents a known tool is allowed for
  pc,             \* the caller: idle, waiting in future.result(), leaving the
                  \* "with", returned or raised
  worker,         \* its worker: none, executing, or how it finished
  got,            \* what future.result() gave the caller
  calls,          \* the tool calls the worker counted
  audit,          \* the kinds of its audit entries
  verdict         \* the status of the AgentResult the caller returns

callVars == <<specs, changes, pc, worker, got, calls, audit, verdict>>

Breaches == {"allowlist", "max_tool_calls", "timeout"}
Outcomes == {"result", "violation", "error", "timeout"}

-----------------------------------------------------------------------------
\* ToolRegistry: a spec that names no agent allows the tool for all of them.
Known(t)         == t \in DOMAIN specs
AllowedFor(t, a) == specs[t] = {} \/ a \in specs[t]

Disallowed(a) == {t \in AllowedTools[a] : ~Known(t) \/ ~AllowedFor(t, a)}

\* "metadata.get('tool_calls', len(definition.allowed_tools) or 1)".
Assumed(a) == IF AllowedTools[a] = {} THEN 1 ELSE Cardinality(AllowedTools[a])

\* "tool_calls > max_tool_calls"; the mutant allows one more.
ExceedsMutant(a, n) == n > MaxToolCalls[a] + 1
Exceeds(a, n) == n > MaxToolCalls[a]

\* PolicyAudit.record; the mutant of _violation forgets it for the timeout.
Logged(log, a, entry) == [log EXCEPT ![a] = @ \cup {entry}]
BreachRecordedMutant(log, a, entry) ==
  IF entry = "timeout" THEN log ELSE Logged(log, a, entry)
BreachRecorded(log, a, entry) == Logged(log, a, entry)

-----------------------------------------------------------------------------
CallInit ==
  /\ \E S \in SUBSET Tools : specs \in [S -> SUBSET Agents]
  /\ changes = 0
  /\ pc = [a \in Agents |-> "idle"] /\ worker = [a \in Agents |-> "none"]
  /\ got = [a \in Agents |-> "none"] /\ calls = [a \in Agents |-> 0]
  /\ audit = [a \in Agents |-> {}] /\ verdict = [a \in Agents |-> "none"]

\* ToolRegistry.register, at any time.
Register(t, A) ==
  /\ changes < MaxChanges /\ changes' = changes + 1
  /\ specs' = [u \in DOMAIN specs \cup {t} |-> IF u = t THEN A ELSE specs[u]]
  /\ UNCHANGED <<pc, worker, got, calls, audit, verdict>>

Return(a, status) ==
  /\ pc' = [pc EXCEPT ![a] = "returned"] /\ verdict' = [verdict EXCEPT ![a] = status]

\* A tool of the agent is unknown or not granted: nothing is executed.
Refuse(a) ==
  /\ pc[a] = "idle" /\ Disallowed(a) # {}
  /\ audit' = BreachRecorded(audit, a, "allowlist") /\ Return(a, "policy_violation")
  /\ UNCHANGED <<specs, changes, worker, got, calls>>

Submit(a) ==
  /\ pc[a] = "idle" /\ Disallowed(a) = {}
  /\ pc' = [pc EXCEPT ![a] = "waiting"] /\ worker' = [worker EXCEPT ![a] = "executing"]
  /\ UNCHANGED <<specs, changes, got, calls, audit, verdict>>

-----------------------------------------------------------------------------
(* timed(), in the worker thread.                                          *)
Finish(a, n) ==
  /\ worker[a] = "executing" /\ calls' = [calls EXCEPT ![a] = n]
  /\ IF Exceeds(a, n)
     THEN /\ worker' = [worker EXCEPT ![a] = "violation"]
          /\ audit' = BreachRecorded(audit, a, "max_tool_calls")
     ELSE worker' = [worker EXCEPT ![a] = "result"] /\ UNCHANGED audit
  /\ UNCHANGED <<specs, changes, pc, got, verdict>>

\* The agent raises, a TimeoutError or anything else.
Break(a, e) ==
  /\ worker[a] = "executing" /\ worker' = [worker EXCEPT ![a] = e]
  /\ UNCHANGED <<specs, changes, pc, got, calls, audit, verdict>>

-----------------------------------------------------------------------------
(* The caller.                                                             *)
\* The future is done: with a result or an exception.  The mutant forgets the
\* latter.
ReadyMutant(a) == worker[a] \in {"result", "violation"}
Ready(a) == worker[a] # "executing"

Take(a) ==
  /\ pc[a] = "waiting" /\ Ready(a)
  /\ got' = [got EXCEPT ![a] = worker[a]] /\ pc' = [pc EXCEPT ![a] = "leaving"]
  /\ UNCHANGED <<specs, changes, worker, calls, audit, verdict>>

\* future.result(timeout) raises TimeoutError.
Expire(a) ==
  /\ pc[a] = "waiting" /\ worker[a] = "executing"
  /\ got' = [got EXCEPT ![a] = "timeout"] /\ pc' = [pc EXCEPT ![a] = "leaving"]
  /\ UNCHANGED <<specs, changes, worker, calls, audit, verdict>>

\* The end of "with ThreadPoolExecutor": shutdown(wait=True).  The mutant does
\* not wait.
JoinedMutant(a) == TRUE
Joined(a) == worker[a] # "executing"

Leaving(a, outcomes) == pc[a] = "leaving" /\ got[a] \in outcomes /\ Joined(a)

ReturnResult(a) ==
  /\ Leaving(a, {"result", "violation"})
  /\ audit' = Logged(audit, a, "ok")
  /\ Return(a, IF got[a] = "result" THEN "completed" ELSE "policy_violation")
  /\ UNCHANGED <<specs, changes, worker, got, calls>>

\* "except TimeoutError".
ReturnTimeout(a) ==
  /\ Leaving(a, {"timeout"})
  /\ audit' = BreachRecorded(audit, a, "timeout") /\ Return(a, "policy_violation")
  /\ UNCHANGED <<specs, changes, worker, got, calls>>

Raise(a) ==
  /\ Leaving(a, {"error"})
  /\ pc' = [pc EXCEPT ![a] = "raised"]
  /\ UNCHANGED <<specs, changes, worker, got, calls, audit, verdict>>

-----------------------------------------------------------------------------
Caller(a) ==
  Refuse(a) \/ Submit(a) \/ Take(a) \/ Expire(a) \/ ReturnResult(a) \/ ReturnTimeout(a) \/ Raise(a)

Worker(a) ==
  \/ \E n \in 0..MaxReported \cup {Assumed(a)} : Finish(a, n)
  \/ \E e \in {"error", "timeout"} : Break(a, e)

CallNext ==
  \/ \E a \in Agents : Caller(a) \/ Worker(a)
  \/ \E t \in Tools, A \in SUBSET Agents : Register(t, A)

CallSpec == CallInit /\ [][CallNext]_callVars

\* The threads of the orchestrator keep running; an agent may take for ever.
CallerFairSpec == CallSpec /\ \A a \in Agents : WF_callVars(Caller(a))

\* Agents return or raise, too.
CallFairSpec == CallerFairSpec /\ \A a \in Agents : WF_callVars(Worker(a))

-----------------------------------------------------------------------------
\* Every variable has the type the code gives it.
CallTypeOK ==
  /\ DOMAIN specs \subseteq Tools /\ specs \in [DOMAIN specs -> SUBSET Agents]
  /\ changes \in Nat
  /\ pc \in [Agents -> {"idle", "waiting", "leaving", "returned", "raised"}]
  /\ worker \in [Agents -> Outcomes \cup {"none", "executing"}]
  /\ got \in [Agents -> Outcomes \cup {"none"}] /\ calls \in [Agents -> Nat]
  /\ audit \in [Agents -> SUBSET (Breaches \cup {"ok"})]
  /\ verdict \in [Agents -> {"none", "completed", "policy_violation"}]

\* A call that ends "completed" is one whose agent returned within its limit and
\* before the caller gave up, and nothing but "ok" was recorded of it; a late
\* result never gets out (guarded, timed).
FailClosed ==
  \A a \in Agents : verdict[a] = "completed" =>
    /\ got[a] = "result" /\ worker[a] = "result" /\ calls[a] <= MaxToolCalls[a]
    /\ audit[a] = {"ok"}

\* Whatever the order in which worker and caller record, a call has ended in a
\* policy violation exactly when its entries say so, and a timeout is recorded as
\* one even if the late result breaches a limit as well (_violation).
ViolationsAudited ==
  \A a \in Agents : pc[a] = "returned" =>
    /\ (verdict[a] = "policy_violation") <=> (audit[a] \cap Breaches # {})
    /\ got[a] = "timeout" => "timeout" \in audit[a] /\ "ok" \notin audit[a]

\* When a call is over, so is the work it started: no agent goes on executing
\* behind the back of the orchestrator, and no entry is recorded afterwards
\* (the end of the "with" waits for the worker).
NoStrayWork ==
  [][\A a \in Agents : pc[a] \in {"returned", "raised"} =>
       worker[a] # "executing" /\ audit'[a] = audit[a]]_callVars

\* Every call that was submitted ends, provided that agents return or raise, and
\* however a timeout and the end of its worker race.
CallsEnd == \A a \in Agents : pc[a] = "waiting" ~> pc[a] \in {"returned", "raised"}

\* Refuted by the code: "timeout_seconds is a wall-clock cap", so a caller that
\* has given up returns, whatever its agent does.
WallClockCap == \A a \in Agents : got[a] = "timeout" ~> pc[a] = "returned"
===============================================================================
