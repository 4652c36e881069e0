------------------------------- MODULE Resolution -------------------------------
(***************************************************************************)
(* What the application reads from the registry service and writes to it,  *)
(* call by call, while others edit the same rows:                          *)
(*   resolve     DynamicAgentResolver.resolve_capabilities: a scoped pool  *)
(*               of agents (app/registry/dynamic_resolver.py);             *)
(*   provide     CapabilityResolver.resolve_many: a tool and its provider  *)
(*               for each capability (app/registry/capability.py);         *)
(*   discover    McpToolDiscovery.discover_all_enabled: the tools of all   *)
(*               servers registered (app/registry/discovery.py);           *)
(*   overview    GET /overview (registry-service/app/api/execution.py).    *)
(* One operation is followed from its first call to its result.            *)
(*                                                                         *)
(* A row is what the calls tell apart of it.  A call (app/registry/        *)
(* client.py) fails before it reaches the service, is refused, or takes    *)
(* effect, and then its answer may be lost.  A list comes in the order of  *)
(* names, that is in any.                                                  *)
(***************************************************************************)
EXTENDS Integers, Sequences, FiniteSets

CONSTANTS
  Agents, Tools, Servers, Capabilities,
  AgentRows,    \* [on, caps]: enabled, the capabilities it was registered with
  ToolRows,     \* [on, cap, provider]
  Catalogues,   \* what an MCP server answers: per tool [on, cap]
  Wanted,       \* the capabilities a caller asks for, in order
  Authorized,   \* values of authorized_capabilities; all of them for None
  Builtin,      \* the provider of a tool without one
  MaxEdits      \* bound: edits of others meanwhile, for each operation

\* What AgentCreate.normalize_capabilities makes of several capabilities.
Joined == "joined"

ASSUME ResolutionAssumption ==
  /\ AgentRows \subseteq [on : BOOLEAN, caps : (SUBSET Capabilities) \ {{}}]
  /\ ToolRows \subseteq [on : BOOLEAN, cap : Capabilities, provider : Servers \cup {Builtin}]
  /\ Builtin \notin Servers
  /\ \A a \in Authorized : a \subseteq Capabilities \cup {Joined}
  /\ Wanted \subseteq Seq(Capabilities) \ {<<>>}

VARIABLES
  agents, tools, servers, \* the service's rows
  offers,      \* the catalogue behind each server's endpoint
  edits,
  touched,     \* history: the rows others have edited since the beginning
  before,      \* history: the tools at the beginning
  failed,      \* history: a call of this operation failed or lost its answer
  op,          \* the operation and its arguments
  pc, outcome,
  step,        \* how many of the wanted capabilities have been begun
  listed,      \* the rows of the first list
  left,        \* the agents to validate, or the servers to visit
  tool, server, \* the tool and the server just being handled
  catalogue,   \* the tools of that server still to register, or a second list
  result       \* what the operation returns

service == <<agents, tools, servers>>
reading == <<pc, outcome, step, listed, left, tool, server, catalogue, result>>
vars == <<service, offers, edits, touched, before, failed, op, reading>>

None == [x \in {} |-> 0]
Without(f, x) == [y \in DOMAIN f \ {x} |-> f[y]]
With(f, x, v) == [y \in DOMAIN f \cup {x} |-> IF y = x THEN v ELSE f[y]]
Rows(S, R) == UNION {[D -> R] : D \in SUBSET S}
EnabledOf(table) == {x \in DOMAIN table : table[x].on}
Enabled(table) == [x \in EnabledOf(table) |-> table[x]]

\* The tables an operation reads; the others may as well be empty.
Reads == [resolve |-> {"agents"}, provide |-> {"tools", "servers"},
          discover |-> {"tools", "servers"}, overview |-> {"agents", "tools", "servers"}]

Init ==
  /\ op \in [kind : {"resolve"}, wanted : Wanted, authorized : Authorized, local : BOOLEAN]
            \cup [kind : {"provide"}, wanted : Wanted]
            \cup [kind : {"discover", "overview"}]
  /\ agents \in IF "agents" \in Reads[op.kind] THEN Rows(Agents, AgentRows) ELSE {None}
  /\ tools \in IF "tools" \in Reads[op.kind] THEN Rows(Tools, ToolRows) ELSE {None}
  /\ servers \in IF "servers" \in Reads[op.kind] THEN Rows(Servers, [on : BOOLEAN]) ELSE {None}
  /\ offers \in IF op.kind = "discover" THEN [Servers -> Catalogues] ELSE {None}
  /\ edits = 0 /\ touched = {} /\ before = tools /\ failed = FALSE
  /\ pc = "list" /\ outcome = "none" /\ step = 0
  /\ listed = None /\ left = {} /\ tool = Builtin /\ server = Builtin /\ catalogue = None /\ result = None

-----------------------------------------------------------------------------
\* Anybody else's POST, PUT, PATCH or DELETE of a row.  Before the first call it would
\* make another initial state, after the result nobody would read it.
Edited(x) ==
  /\ pc # "ended" /\ (pc = "list" => step > 0)
  /\ edits < MaxEdits[op.kind] /\ edits' = edits + 1 /\ touched' = touched \cup {x}

EditAgent(a) ==
  /\ "agents" \in Reads[op.kind] /\ Edited(a)
  /\ agents' \in {With(agents, a, row) : row \in AgentRows} \cup {Without(agents, a)}
  /\ UNCHANGED <<tools, servers>>

EditTool(t) ==
  /\ "tools" \in Reads[op.kind] /\ Edited(t)
  /\ tools' \in {With(tools, t, row) : row \in ToolRows} \cup {Without(tools, t)}
  /\ UNCHANGED <<agents, servers>>

EditServer(s) ==
  /\ "servers" \in Reads[op.kind] /\ Edited(s)
  /\ servers' \in {With(servers, s, row) : row \in [on : BOOLEAN]} \cup {Without(servers, s)}
  /\ UNCHANGED <<agents, tools>>

Edit ==
  /\ (\E a \in Agents : EditAgent(a)) \/ (\E t \in Tools : EditTool(t))
     \/ (\E s \in Servers : EditServer(s))
  /\ UNCHANGED <<offers, before, failed, op, reading>>

End(how) ==
  pc' = "ended" /\ outcome' = how /\ UNCHANGED <<step, listed, left, tool, server, catalogue, result>>

\* RegistryClient.request_json: RegistryUnavailable.
Fails(how) == End(how) /\ failed' = TRUE

-----------------------------------------------------------------------------
\* Several capabilities are stored as one text, which map_registry_agent takes for one
\* capability: no wanted one.  A local registry keeps them apart.
Named(row) == IF op.local \/ Cardinality(row.caps) = 1 THEN row.caps ELSE {Joined}

ListAgents ==
  /\ op.kind = "resolve" /\ pc = "list"
  /\ \/ /\ listed' = Enabled(agents) /\ pc' = "match"
        /\ UNCHANGED <<outcome, step, left, tool, server, catalogue, result, failed>>
     \/ ~op.local /\ Fails("raised")

\* The next capability's agents, by the list; who is in the pool is not asked again.
MatchNext ==
  /\ op.kind = "resolve" /\ pc = "match" /\ left = {} /\ UNCHANGED failed
  /\ IF step = Len(op.wanted) THEN End("resolved")
     ELSE LET matching == {a \in DOMAIN listed : op.wanted[step + 1] \in Named(listed[a])}
          IN  IF matching = {} THEN End("no agent")
              ELSE /\ step' = step + 1 /\ left' = matching \ DOMAIN result
                   /\ UNCHANGED <<pc, outcome, listed, tool, server, catalogue, result>>

\* resolve_agent's checks of the row fetched anew; the mutant trusts the list that it
\* is enabled.
RefusalMutant(row, c) ==
  IF ~(Named(row) \subseteq op.authorized) THEN "unauthorized"
  ELSE IF c \notin Named(row) THEN "incompatible" ELSE "none"
Refusal(row, c) ==
  IF ~row.on THEN "disabled"
  ELSE IF ~(Named(row) \subseteq op.authorized) THEN "unauthorized"
  ELSE IF c \notin Named(row) THEN "incompatible" ELSE "none"

Validate(a) ==
  /\ op.kind = "resolve" /\ pc = "match" /\ a \in left
  /\ \/ ~op.local /\ Fails("unknown")
     \/ /\ UNCHANGED failed
        /\ IF a \notin DOMAIN agents THEN End("unknown")
           ELSE IF Refusal(agents[a], op.wanted[step]) # "none"
                THEN End(Refusal(agents[a], op.wanted[step]))
           ELSE /\ result' = With(result, a, agents[a]) /\ left' = left \ {a}
                /\ UNCHANGED <<pc, outcome, step, listed, tool, server, catalogue>>

-----------------------------------------------------------------------------
Providing(c) == {t \in EnabledOf(tools) : tools[t].cap = c}

Provided(t, p) ==
  /\ result' = With(result, step + 1, [tool |-> t, provider |-> p])
  /\ step' = step + 1 /\ pc' = "list"

\* fetch_tools(enabled, capability); when it is empty fetch_tools(enabled), filtered.
FetchTools ==
  /\ op.kind = "provide" /\ pc \in {"list", "again"}
  /\ IF step = Len(op.wanted) THEN End("resolved") /\ UNCHANGED failed
     ELSE \/ Fails("raised")
          \/ /\ Providing(op.wanted[step + 1]) = {} /\ UNCHANGED failed
             /\ IF pc = "again" THEN End("no tool")
                ELSE pc' = "again" /\ UNCHANGED <<outcome, step, listed, left, tool, server, catalogue, result>>
          \/ \E t \in Providing(op.wanted[step + 1]) :
               /\ UNCHANGED <<outcome, listed, left, catalogue, failed>>
               /\ IF tools[t].provider = Builtin
                  THEN Provided(t, Builtin) /\ UNCHANGED <<tool, server>>
                  ELSE /\ tool' = t /\ server' = tools[t].provider /\ pc' = "server"
                       /\ UNCHANGED <<step, result>>

\* fetch_mcp_server; the mutant does not look whether it is enabled.
UsableMutant(s) == s \in DOMAIN servers
Usable(s) == s \in DOMAIN servers /\ servers[s].on

FetchServer ==
  /\ op.kind = "provide" /\ pc = "server"
  /\ \/ Fails("unavailable")
     \/ /\ UNCHANGED failed
        /\ IF Usable(server)
           THEN Provided(tool, server) /\ UNCHANGED <<outcome, listed, left, tool, server, catalogue>>
           ELSE End("unavailable")

-----------------------------------------------------------------------------
ListServers ==
  /\ op.kind = "discover" /\ pc = "list"
  /\ \/ /\ listed' = Enabled(servers) /\ left' = EnabledOf(servers) /\ pc' = "visit"
        /\ UNCHANGED <<outcome, step, tool, server, catalogue, result, failed>>
     \/ Fails("raised")

\* The MCP server's own catalogue; a failure ends the whole pass.
Visit(s) ==
  /\ op.kind = "discover" /\ pc = "visit" /\ catalogue = None /\ s \in left
  /\ \/ /\ server' = s /\ catalogue' = offers[s] /\ left' = left \ {s}
        /\ UNCHANGED <<pc, outcome, step, listed, tool, result, failed>>
     \/ Fails("raised")

\* The next tool of the catalogue is done; the mutant keeps it.
RestMutant(t) == catalogue
Rest(t) == Without(catalogue, t)

Payload(t) == [on |-> catalogue[t].on, cap |-> catalogue[t].cap, provider |-> server]
Registered(t) ==
  /\ result' = With(result, t, Payload(t)) /\ catalogue' = Rest(t) /\ pc' = "visit"
  /\ tool' = Builtin /\ UNCHANGED <<outcome, step, listed, left, server>>
Retry(t) ==
  pc' = "put" /\ tool' = t /\ UNCHANGED <<outcome, step, listed, left, server, catalogue, result>>

\* register_tool: whatever goes wrong, the tool is updated instead.
Register(t) ==
  /\ op.kind = "discover" /\ pc = "visit" /\ t \in DOMAIN catalogue
  /\ \/ UNCHANGED tools /\ failed' = (failed \/ t \notin DOMAIN tools) /\ Retry(t)
     \/ /\ t \notin DOMAIN tools /\ tools' = With(tools, t, Payload(t))
        /\ \/ Registered(t) /\ UNCHANGED failed
           \/ Retry(t) /\ failed' = TRUE

\* ToolUpdate has no "enabled", and the UPDATE leaves that column alone; in the mutant
\* the row becomes what the server says.
UpdatedMutant(row, payload) == payload
Updated(row, payload) == [payload EXCEPT !.on = row.on]

\* update_tool; what it raises ends the pass.
Update ==
  /\ op.kind = "discover" /\ pc = "put"
  /\ \/ UNCHANGED tools /\ Fails("raised")
     \/ UNCHANGED <<tools, failed>> /\ tool \notin DOMAIN tools /\ End("raised")
     \/ /\ tool \in DOMAIN tools
        /\ tools' = [tools EXCEPT ![tool] = Updated(@, Payload(tool))]
        /\ (Registered(tool) /\ UNCHANGED failed) \/ Fails("raised")

Discovered ==
  /\ op.kind = "discover" /\ pc = "visit" /\ catalogue = None /\ left = {}
  /\ End("resolved") /\ UNCHANGED failed

-----------------------------------------------------------------------------
\* get_system_overview: three lists one after another, then the links from agents over
\* tools to servers; a provider that is not listed is "local" and counts as enabled.
Links(a) ==
  {l \in [tool : DOMAIN tools, providerOn : BOOLEAN] :
     LET row == tools[l.tool] IN
     /\ row.cap \in listed[a].caps
     /\ l.providerOn = (row.provider \in DOMAIN catalogue => catalogue[row.provider].on)}

Overview ==
  /\ op.kind = "overview" /\ UNCHANGED failed
  /\ \/ pc = "list" /\ listed' = agents /\ pc' = "servers"
        /\ UNCHANGED <<outcome, step, left, tool, server, catalogue, result>>
     \/ pc = "servers" /\ catalogue' = servers /\ pc' = "tools"
        /\ UNCHANGED <<outcome, step, listed, left, tool, server, result>>
     \/ pc = "tools" /\ result' = [a \in DOMAIN listed |-> Links(a)] /\ pc' = "ended" /\ outcome' = "resolved"
        /\ UNCHANGED <<step, listed, left, tool, server, catalogue>>

-----------------------------------------------------------------------------
Reading ==
  \/ ListAgents \/ MatchNext \/ (\E a \in Agents : Validate(a))
  \/ FetchTools \/ FetchServer \/ ListServers \/ (\E s \in Servers : Visit(s))
  \/ Discovered \/ Overview
Writing == (\E t \in Tools : Register(t)) \/ Update

Step ==
  /\ (Reading /\ UNCHANGED tools) \/ Writing
  /\ UNCHANGED <<agents, servers, offers, edits, touched, before, op>>

Next == Step \/ Edit
Spec == Init /\ [][Next]_vars
\* Every call has a timeout.
FairSpec == Spec /\ WF_vars(Step)

-----------------------------------------------------------------------------
Steady(x) == x \notin touched
Quiet == touched = {} /\ ~failed
Asked == {op.wanted[i] : i \in DOMAIN op.wanted}
Suits(a) == a \in EnabledOf(agents) /\ Named(agents[a]) \cap Asked # {}

\* A finished pool holds every agent that was enabled and matched all along, nobody
\* who was disabled or did not match all along, nobody with a capability that is not
\* authorized, and somebody for every wanted capability; a registry nobody touches
\* is never told that an agent vanished or changed.
PoolExact ==
  op.kind = "resolve" =>
    /\ outcome = "resolved" =>
         /\ \A a \in Agents : Steady(a) => (a \in DOMAIN result <=> Suits(a))
         /\ \A a \in DOMAIN result : result[a].on /\ Named(result[a]) \subseteq op.authorized
         /\ \A c \in Asked : \E a \in DOMAIN result : c \in Named(listed[a])
    /\ outcome = "no agent" =>
         \E c \in Asked : \A a \in Agents : Steady(a) /\ Suits(a) => c \notin Named(agents[a])
    /\ Quiet /\ pc = "ended" => outcome \in {"resolved", "no agent", "unauthorized"}

\* A provider that is handed out was enabled, and the tool's own, unless somebody has
\* edited them meanwhile; a capability is denied only when no tool has offered it all
\* along.  An overview links agent, tool and server exactly as they were all along.
ProviderExact ==
  /\ op.kind = "provide" /\ outcome = "resolved" => \A i \in DOMAIN result :
       LET t == result[i].tool p == result[i].provider IN
       /\ Steady(t) => t \in Providing(op.wanted[i]) /\ p = tools[t].provider
       /\ p # Builtin /\ Steady(p) => p \in EnabledOf(servers)
  /\ op.kind = "provide" /\ outcome = "no tool" =>
       \E c \in Asked : \A t \in Providing(c) : ~Steady(t)
  /\ op.kind = "overview" /\ outcome = "resolved" =>
       \A a \in DOMAIN agents, t \in DOMAIN tools :
         Steady(a) /\ Steady(t) /\ Steady(tools[t].provider) =>
           (tools[t].cap \in agents[a].caps) <=>
             [tool |-> t,
              providerOn |-> (tools[t].provider \in DOMAIN servers => servers[tools[t].provider].on)]
               \in result[a]

\* Of a tool nobody else edits: discovery turns it neither on nor off; its row
\* is at any time, even after a pass that broke off, the one it had or the one a
\* listed server offers, and after a finished pass the one last registered; and a
\* finished pass has registered all tools of every server that was enabled all along.
DiscoveryMirrors ==
  op.kind = "discover" =>
    /\ \A t \in Tools : Steady(t) =>
         /\ t \in DOMAIN before => t \in DOMAIN tools /\ tools[t].on = before[t].on
         /\ t \in DOMAIN tools =>
              \/ t \in DOMAIN before /\ tools[t] = before[t]
              \/ \E s \in DOMAIN listed : /\ t \in DOMAIN offers[s] /\ tools[t].provider = s
                                          /\ tools[t].cap = offers[s][t].cap
         /\ outcome = "resolved" /\ t \in DOMAIN result =>
              t \in DOMAIN tools /\ tools[t] = [result[t] EXCEPT !.on = tools[t].on]
    /\ outcome = "resolved" => \A s \in EnabledOf(servers) :
         Steady(s) => DOMAIN offers[s] \subseteq DOMAIN result

\* Every operation comes to its result or raises.
OperationEnds == <>(pc = "ended")
===============================================================================
