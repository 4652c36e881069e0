---------------------------- MODULE ResolutionProofs ----------------------------
(***************************************************************************)
(* For any agents, tools, servers and rows, and however others edit them   *)
(* between the calls: what the application makes of the registry.          *)
(*                                                                         *)
(* A row that nobody has edited is as it was when it was read (ListedOf),  *)
(* so each part of the inductive invariant says of such rows what has been *)
(* found or written of them so far: the pool and what is left to validate  *)
(* (PoolInv), the providers chosen (ProvideInv), the lists of an overview  *)
(* (OverviewInv), the tools registered (RowInv, DiscoverInv).              *)
(***************************************************************************)
EXTENDS Resolution, TLAPS

\* What is so of every operation: the rows are rows of the tables, and an operation has
\* an outcome when it has ended.
ShapeInv ==
  /\ op.kind \in {"resolve", "provide", "discover", "overview"}
  /\ op.kind \in {"resolve", "provide"} => op.wanted \in Wanted
  /\ DOMAIN agents \subseteq Agents /\ DOMAIN tools \subseteq Tools /\ DOMAIN servers \subseteq Servers
  /\ outcome # "none" => pc = "ended"

\* A table read earlier, as far as nobody has edited it since.
ListedOf(table, read, S) ==
  \A x \in S : Steady(x) =>
    /\ x \in DOMAIN read <=> x \in DOMAIN table
    /\ x \in DOMAIN read => read[x] = table[x]

\* The agents the i-th wanted capability is looked for among.
Matching(i) == {a \in DOMAIN listed : op.wanted[i] \in Named(listed[a])}

\* resolve: the matching agents of the capabilities begun are in the pool or still to be
\* validated; the pool holds no others.
Pooled ==
  /\ step \in 0 .. Len(op.wanted)
  /\ \A i \in 1 .. step : Matching(i) # {} /\ Matching(i) \subseteq DOMAIN result \cup left
  /\ left # {} => step > 0 /\ left \subseteq Matching(step)
  /\ DOMAIN result \subseteq UNION {Matching(i) : i \in 1 .. step}
  /\ \A a \in DOMAIN result : result[a].on /\ Named(result[a]) \subseteq op.authorized

PoolInv == ListedOf(Enabled(agents), listed, Agents) /\ Pooled

ResolveInv ==
  op.kind = "resolve" =>
    /\ pc \in {"list", "match", "ended"}
    /\ pc = "list" => step = 0 /\ left = {} /\ result = None
    /\ pc = "match" \/ (pc = "ended" /\ outcome # "raised") => PoolInv
    /\ outcome = "resolved" => step = Len(op.wanted) /\ left = {}
    /\ outcome = "no agent" => \E i \in DOMAIN op.wanted : Matching(i) = {}
    /\ pc = "ended" => outcome \in {"resolved", "no agent", "unauthorized"} \/ ~Quiet

\* provide: a tool that was chosen and its provider, as far as nobody has edited them.
Chosen(t, p, c) == Steady(t) => t \in Providing(c) /\ p = tools[t].provider
Answering(p) == p # Builtin /\ Steady(p) => p \in EnabledOf(servers)

ProvideInv ==
  op.kind = "provide" =>
    /\ pc \in {"list", "again", "server", "ended"}
    /\ step \in 0 .. Len(op.wanted) /\ DOMAIN result = 1 .. step
    /\ pc \in {"again", "server"} => step < Len(op.wanted)
    /\ \A i \in 1 .. step :
         Chosen(result[i].tool, result[i].provider, op.wanted[i]) /\ Answering(result[i].provider)
    /\ pc = "server" => Chosen(tool, server, op.wanted[step + 1])
    /\ outcome = "no tool" => \E c \in Asked : Providing(c) = {}

\* overview: the lists read so far, and the links at the end.
Linked ==
  \A a \in DOMAIN agents, t \in DOMAIN tools :
    Steady(a) /\ Steady(t) /\ Steady(tools[t].provider) =>
      (tools[t].cap \in agents[a].caps) <=>
        [tool |-> t,
         providerOn |-> (tools[t].provider \in DOMAIN servers => servers[tools[t].provider].on)]
          \in result[a]

OverviewInv ==
  op.kind = "overview" =>
    /\ pc \in {"list", "servers", "tools", "ended"}
    /\ pc \in {"servers", "tools"} => ListedOf(agents, listed, Agents)
    /\ pc = "tools" => ListedOf(servers, catalogue, Servers) /\ DOMAIN catalogue \subseteq Servers
    /\ outcome = "resolved" => Linked

\* discover: what a tool of a listed server is written as.
Offered(t, row) ==
  \E s \in DOMAIN listed : t \in DOMAIN offers[s] /\ row.provider = s /\ row.cap = offers[s][t].cap

\* Of a tool nobody else edits.
RowInv(t) ==
  /\ t \in DOMAIN before => t \in DOMAIN tools /\ tools[t].on = before[t].on
  /\ t \in DOMAIN tools => (t \in DOMAIN before /\ tools[t] = before[t]) \/ Offered(t, tools[t])
  /\ (pc # "ended" \/ outcome = "resolved") /\ t \in DOMAIN result =>
       t \in DOMAIN tools /\ tools[t] = [result[t] EXCEPT !.on = tools[t].on]

DiscoverInv ==
  op.kind = "discover" =>
    /\ pc \in {"list", "visit", "put", "ended"}
    /\ pc = "list" => listed = None /\ result = None /\ catalogue = None
    /\ \A t \in Tools : Steady(t) => RowInv(t)
    /\ \A t \in DOMAIN catalogue :
         server \in DOMAIN listed /\ t \in DOMAIN offers[server] /\ catalogue[t] = offers[server][t]
    /\ pc = "put" => tool \in DOMAIN catalogue /\ tool \in Tools
    /\ pc \in {"visit", "put"} \/ outcome = "resolved" =>
         /\ ListedOf(Enabled(servers), listed, Servers) /\ left \subseteq DOMAIN listed
         /\ \A s \in DOMAIN listed \ left : \A t \in DOMAIN offers[s] :
              t \in DOMAIN result \/ (s = server /\ t \in DOMAIN catalogue)
    /\ outcome = "resolved" => catalogue = None /\ left = {}

IInv == ShapeInv /\ ResolveInv /\ ProvideInv /\ OverviewInv /\ DiscoverInv

-----------------------------------------------------------------------------
\* Tables as functions.
LEMMA WithIs ==
  ASSUME NEW f, NEW x, NEW v
  PROVE  /\ DOMAIN With(f, x, v) = DOMAIN f \cup {x} /\ With(f, x, v)[x] = v
         /\ \A y \in DOMAIN f : y # x => With(f, x, v)[y] = f[y]
BY DEF With

LEMMA WithoutIs ==
  ASSUME NEW f, NEW x
  PROVE  /\ DOMAIN Without(f, x) = DOMAIN f \ {x}
         /\ \A y \in DOMAIN f : y # x => Without(f, x)[y] = f[y]
BY DEF Without

LEMMA EnabledIs ==
  ASSUME NEW table
  PROVE  /\ DOMAIN Enabled(table) = EnabledOf(table) /\ EnabledOf(table) \subseteq DOMAIN table
         /\ \A x \in EnabledOf(table) : Enabled(table)[x] = table[x]
BY DEF Enabled, EnabledOf

LEMMA NoneIs == DOMAIN None = {}
BY DEF None

\* What a table holds of a row that somebody has not edited.
Alike(old, new, x) == (x \in DOMAIN new <=> x \in DOMAIN old) /\ (x \in DOMAIN old => new[x] = old[x])

LEMMA WithAlike ==
  ASSUME NEW f, NEW x, NEW v
  PROVE  DOMAIN With(f, x, v) \subseteq DOMAIN f \cup {x} /\ \A y : y # x => Alike(f, With(f, x, v), y)
<1>1. ASSUME NEW g, g = [y \in DOMAIN f \cup {x} |-> IF y = x THEN v ELSE f[y]]
      PROVE  DOMAIN g \subseteq DOMAIN f \cup {x} /\ \A y : y # x => Alike(f, g, y)
  BY <1>1 DEF Alike
<1> QED
  BY <1>1, Zenon DEF With

LEMMA WithoutAlike ==
  ASSUME NEW f, NEW x
  PROVE  DOMAIN Without(f, x) \subseteq DOMAIN f \cup {x} /\ \A y : y # x => Alike(f, Without(f, x), y)
BY WithoutIs DEF Alike

\* An edit changes no row but those that count as edited.
LEMMA EditFrame ==
  ASSUME ShapeInv, Edit
  PROVE  /\ UNCHANGED <<offers, before, failed, op, reading>> /\ touched \subseteq touched'
         /\ pc # "ended" /\ (pc = "list" => step > 0)
         /\ DOMAIN agents' \subseteq Agents /\ DOMAIN tools' \subseteq Tools
         /\ DOMAIN servers' \subseteq Servers
         /\ \A x : Steady(x)' =>
              Steady(x) /\ Alike(agents, agents', x) /\ Alike(tools, tools', x) /\ Alike(servers, servers', x)
<1>1. ASSUME NEW a \in Agents, EditAgent(a)
      PROVE  /\ touched' = touched \cup {a} /\ pc # "ended" /\ (pc = "list" => step > 0)
             /\ tools' = tools /\ servers' = servers
             /\ DOMAIN agents' \subseteq Agents /\ \A x : x # a => Alike(agents, agents', x)
  <2>1. DOMAIN agents' \subseteq DOMAIN agents \cup {a} /\ \A x : x # a => Alike(agents, agents', x)
    <3>1. ASSUME NEW row, agents' = With(agents, a, row)
          PROVE  DOMAIN agents' \subseteq DOMAIN agents \cup {a} /\ \A x : x # a => Alike(agents, agents', x)
      BY <3>1, WithAlike, Zenon
    <3>2. CASE agents' = Without(agents, a)
      BY <3>2, WithoutAlike, Zenon
    <3> QED
      BY <1>1, <3>1, <3>2 DEF EditAgent
  <2> QED
    BY <1>1, <2>1 DEF EditAgent, Edited, ShapeInv
<1>2. ASSUME NEW t \in Tools, EditTool(t)
      PROVE  /\ touched' = touched \cup {t} /\ pc # "ended" /\ (pc = "list" => step > 0)
             /\ agents' = agents /\ servers' = servers
             /\ DOMAIN tools' \subseteq Tools /\ \A x : x # t => Alike(tools, tools', x)
  <2>1. DOMAIN tools' \subseteq DOMAIN tools \cup {t} /\ \A x : x # t => Alike(tools, tools', x)
    <3>1. ASSUME NEW row, tools' = With(tools, t, row)
          PROVE  DOMAIN tools' \subseteq DOMAIN tools \cup {t} /\ \A x : x # t => Alike(tools, tools', x)
      BY <3>1, WithAlike, Zenon
    <3>2. CASE tools' = Without(tools, t)
      BY <3>2, WithoutAlike, Zenon
    <3> QED
      BY <1>2, <3>1, <3>2 DEF EditTool
  <2> QED
    BY <1>2, <2>1 DEF EditTool, Edited, ShapeInv
<1>3. ASSUME NEW s \in Servers, EditServer(s)
      PROVE  /\ touched' = touched \cup {s} /\ pc # "ended" /\ (pc = "list" => step > 0)
             /\ agents' = agents /\ tools' = tools
             /\ DOMAIN servers' \subseteq Servers /\ \A x : x # s => Alike(servers, servers', x)
  <2>1. DOMAIN servers' \subseteq DOMAIN servers \cup {s} /\ \A x : x # s => Alike(servers, servers', x)
    <3>1. ASSUME NEW row, servers' = With(servers, s, row)
          PROVE  /\ DOMAIN servers' \subseteq DOMAIN servers \cup {s}
                 /\ \A x : x # s => Alike(servers, servers', x)
      BY <3>1, WithAlike, Zenon
    <3>2. CASE servers' = Without(servers, s)
      BY <3>2, WithoutAlike, Zenon
    <3> QED
      BY <1>3, <3>1, <3>2 DEF EditServer
  <2> QED
    BY <1>3, <2>1 DEF EditServer, Edited, ShapeInv
<1>4. \A f, x : Alike(f, f, x)
  BY DEF Alike
<1>5. UNCHANGED <<offers, before, failed, op, reading>>
  BY DEF Edit
<1>6. CASE \E a \in Agents : EditAgent(a)
  BY <1>1, <1>4, <1>5, <1>6 DEF Steady, ShapeInv
<1>7. CASE \E t \in Tools : EditTool(t)
  BY <1>2, <1>4, <1>5, <1>7 DEF Steady, ShapeInv
<1>8. CASE \E s \in Servers : EditServer(s)
  BY <1>3, <1>4, <1>5, <1>8 DEF Steady, ShapeInv
<1> QED
  BY <1>6, <1>7, <1>8 DEF Edit

\* What is enabled of alike tables.
LEMMA EnabledAlike ==
  ASSUME NEW old, NEW new, NEW x, Alike(old, new, x)
  PROVE  Alike(Enabled(old), Enabled(new), x)
<1>1. DOMAIN Enabled(old) = EnabledOf(old) /\ \A y \in EnabledOf(old) : Enabled(old)[y] = old[y]
  BY EnabledIs
<1>2. DOMAIN Enabled(new) = EnabledOf(new) /\ \A y \in EnabledOf(new) : Enabled(new)[y] = new[y]
  BY EnabledIs
<1>3. (x \in EnabledOf(old) <=> x \in EnabledOf(new)) /\ (x \in EnabledOf(old) => new[x] = old[x])
  BY DEF Alike, EnabledOf
<1> QED
  BY <1>1, <1>2, <1>3 DEF Alike

\* No step of an operation changes which operation it is or what only others change.
LEMMA StepFrame ==
  ASSUME Step
  PROVE  UNCHANGED <<agents, servers, offers, edits, touched, before, op>> /\ \A x : Steady(x)' <=> Steady(x)
BY DEF Step, Steady

-----------------------------------------------------------------------------
(* The shape of every operation.                                           *)
LEMMA ShapeNext ==
  ASSUME ShapeInv, DiscoverInv, [Next]_vars
  PROVE  ShapeInv'
<1>1. CASE Edit
  BY <1>1, EditFrame DEF ShapeInv, reading
<1>2. CASE Step
  <2> USE DEF ShapeInv
  <2>1. UNCHANGED <<agents, servers, op>>
    BY <1>2, StepFrame
  <2>2. CASE Reading /\ UNCHANGED tools
    <3>1. CASE ListAgents
      BY <2>1, <2>2, <3>1 DEF ListAgents, Fails, End
    <3>2. CASE MatchNext
      BY <2>1, <2>2, <3>2 DEF MatchNext, End
    <3>3. ASSUME NEW a \in Agents, Validate(a) PROVE ShapeInv'
      BY <2>1, <2>2, <3>3 DEF Validate, Fails, End
    <3>4. CASE FetchTools
      BY <2>1, <2>2, <3>4 DEF FetchTools, Fails, End, Provided
    <3>5. CASE FetchServer
      BY <2>1, <2>2, <3>5 DEF FetchServer, Fails, End, Provided
    <3>6. CASE ListServers \/ Discovered
      BY <2>1, <2>2, <3>6 DEF ListServers, Discovered, Fails, End
    <3>7. ASSUME NEW s \in Servers, Visit(s) PROVE ShapeInv'
      BY <2>1, <2>2, <3>7 DEF Visit, Fails, End
    <3>8. CASE Overview
      BY <2>1, <2>2, <3>8 DEF Overview
    <3> QED
      BY <2>2, <3>1, <3>2, <3>3, <3>4, <3>5, <3>6, <3>7, <3>8 DEF Reading
  <2>3. ASSUME NEW t \in Tools, Register(t) PROVE ShapeInv'
    <3>1. DOMAIN tools' \subseteq DOMAIN tools \cup {t}
      <4>1. tools' = tools \/ tools' = With(tools, t, Payload(t))
        BY <2>3 DEF Register
      <4>2. DOMAIN With(tools, t, Payload(t)) = DOMAIN tools \cup {t}
        BY WithIs, Zenon
      <4> QED
        BY <4>1, <4>2
    <3>2. outcome' = outcome /\ pc # "ended"
      BY <2>3 DEF Register, Registered, Retry
    <3> QED
      BY <2>1, <2>3, <3>1, <3>2
  <2>4. CASE Update
    <3>1. DOMAIN tools' = DOMAIN tools
      BY <2>4 DEF Update
    <3>2. (outcome' = outcome /\ pc # "ended") \/ pc' = "ended"
      BY <2>4 DEF Update, Registered, Fails, End
    <3> QED
      BY <2>1, <3>1, <3>2
  <2> QED
    BY <1>2, <2>2, <2>3, <2>4 DEF Step, Writing
<1>3. CASE UNCHANGED vars
  BY <1>3 DEF vars, service, reading, ShapeInv
<1> QED
  BY <1>1, <1>2, <1>3 DEF Next

-----------------------------------------------------------------------------
(* resolve.                                                                *)
LEMMA WantedIsList ==
  ASSUME ShapeInv, op.kind \in {"resolve", "provide"}
  PROVE  Len(op.wanted) \in Nat /\ DOMAIN op.wanted = 1 .. Len(op.wanted)
<1>1. op.wanted \in Seq(Capabilities)
  BY ResolutionAssumption DEF ShapeInv
<1> QED
  BY <1>1

LEMMA MatchingFrame ==
  ASSUME UNCHANGED <<listed, op>>
  PROVE  (\A i : Matching(i)' = Matching(i)) /\ (\A row : Named(row)' = Named(row))
BY DEF Matching, Named

\* The pool does not depend on the service's rows, the list does.
LEMMA PooledFrame ==
  ASSUME Pooled, UNCHANGED <<op, step, listed, left, result>>
  PROVE  Pooled'
BY MatchingFrame DEF Pooled

LEMMA ListedFrame ==
  ASSUME ListedOf(Enabled(agents), listed, Agents), UNCHANGED <<agents, touched, listed>>
  PROVE  ListedOf(Enabled(agents), listed, Agents)'
BY DEF ListedOf, Steady

LEMMA ResolveEdit ==
  ASSUME ShapeInv, ResolveInv, Edit
  PROVE  ResolveInv'
<1> SUFFICES ASSUME op.kind = "resolve" PROVE ResolveInv'
  BY EditFrame DEF ResolveInv
<1>1. UNCHANGED <<op, pc, outcome, step, listed, left, result>> /\ pc # "ended" /\ (pc = "list" => step > 0)
  BY EditFrame DEF reading
<1>2. pc = "match" /\ PoolInv /\ outcome = "none"
  <2>1. pc \in {"list", "match", "ended"} /\ (pc = "list" => step = 0) /\ (pc = "match" => PoolInv)
    BY DEF ResolveInv
  <2>2. pc # "list"
    BY <1>1, <2>1
  <2> QED
    BY <1>1, <2>1, <2>2 DEF ShapeInv
<1>3. ASSUME NEW a \in Agents, Steady(a)'
      PROVE  Steady(a) /\ Alike(Enabled(agents), Enabled(agents'), a)
  <2>1. Steady(a) /\ Alike(agents, agents', a)
    BY <1>3, EditFrame
  <2> QED
    BY <2>1, EnabledAlike
<1>4. ListedOf(Enabled(agents), listed, Agents)'
  BY <1>1, <1>2, <1>3 DEF PoolInv, ListedOf, Alike
<1>5. Pooled'
  BY <1>1, <1>2, PooledFrame DEF PoolInv
<1>6. PoolInv'
  BY <1>4, <1>5 DEF PoolInv, Pooled
<1> QED
  BY <1>1, <1>2, <1>6 DEF ResolveInv

LEMMA ListAgentsStep ==
  ASSUME ShapeInv, ResolveInv, Step, ListAgents
  PROVE  ResolveInv'
<1>1. op.kind = "resolve" /\ pc = "list" /\ step = 0 /\ left = {} /\ DOMAIN result = {} /\ outcome = "none"
  BY NoneIs DEF ListAgents, ResolveInv, ShapeInv
<1>2. UNCHANGED <<op, agents, touched>>
  BY DEF Step
<1>3. CASE /\ listed' = Enabled(agents) /\ pc' = "match"
           /\ UNCHANGED <<outcome, step, left, tool, server, catalogue, result, failed>>
  <2>1. ListedOf(Enabled(agents), listed, Agents)'
    BY <1>2, <1>3 DEF ListedOf, Steady
  <2>2. Pooled'
    BY <1>1, <1>2, <1>3, WantedIsList DEF Pooled
  <2>3. PoolInv'
    BY <2>1, <2>2 DEF PoolInv, Pooled
  <2> QED
    BY <1>1, <1>2, <1>3, <2>3 DEF ResolveInv
<1>4. CASE Fails("raised")
  BY <1>1, <1>2, <1>4 DEF Fails, End, ResolveInv, Quiet
<1> QED
  BY <1>3, <1>4 DEF ListAgents

LEMMA MatchNextStep ==
  ASSUME ShapeInv, ResolveInv, Step, MatchNext
  PROVE  ResolveInv'
<1>1. op.kind = "resolve" /\ pc = "match" /\ left = {} /\ outcome = "none" /\ PoolInv
  BY DEF MatchNext, ResolveInv, ShapeInv
<1>2. UNCHANGED <<op, agents, touched>>
  BY DEF Step
<1>3. Len(op.wanted) \in Nat /\ DOMAIN op.wanted = 1 .. Len(op.wanted) /\ step \in 0 .. Len(op.wanted)
  BY <1>1, WantedIsList DEF PoolInv, Pooled
<1>4. ASSUME NEW how, End(how) PROVE PoolInv' /\ UNCHANGED <<step, left>> /\ \A i : Matching(i)' = Matching(i)
  <2>1. UNCHANGED <<step, listed, left, result>>
    BY <1>4 DEF End
  <2> QED
    BY <1>1, <1>2, <2>1, PooledFrame, ListedFrame, MatchingFrame DEF PoolInv
<1>5. CASE step = Len(op.wanted) /\ End("resolved")
  BY <1>1, <1>2, <1>4, <1>5 DEF ResolveInv, End
<1>6. CASE step # Len(op.wanted) /\ Matching(step + 1) = {} /\ End("no agent")
  <2>1. step + 1 \in DOMAIN op.wanted
    <3>1. \A n \in Nat : \A k \in 0 .. n : k # n => k + 1 \in 1 .. n
      OBVIOUS
    <3> QED
      BY <1>3, <1>6, <3>1
  <2> QED
    BY <1>1, <1>2, <1>4, <1>6, <2>1 DEF ResolveInv, End
<1>7. CASE /\ step # Len(op.wanted) /\ Matching(step + 1) # {}
           /\ step' = step + 1 /\ left' = Matching(step + 1) \ DOMAIN result
           /\ UNCHANGED <<pc, outcome, listed, tool, server, catalogue, result>>
  <2>1. step' \in 0 .. Len(op.wanted) /\ step' > 0
    BY <1>3, <1>7
  <2>2. (\A i : Matching(i)' = Matching(i)) /\ (\A row : Named(row)' = Named(row))
    BY <1>2, <1>7, MatchingFrame
  <2>3. \A i \in 1 .. step' : Matching(i) # {} /\ Matching(i) \subseteq DOMAIN result \cup left'
    BY <1>1, <1>3, <1>7 DEF PoolInv, Pooled
  <2>4. DOMAIN result \subseteq UNION {Matching(i) : i \in 1 .. step'}
    BY <1>1, <1>3, <1>7 DEF PoolInv, Pooled
  <2>5. \A a \in DOMAIN result : result[a].on /\ Named(result[a]) \subseteq op.authorized
    BY <1>1 DEF PoolInv, Pooled
  <2>6. Pooled'
    BY <1>2, <1>7, <2>1, <2>2, <2>3, <2>4, <2>5 DEF Pooled
  <2>7. PoolInv'
    BY <1>1, <1>2, <1>7, <2>6, ListedFrame DEF PoolInv
  <2> QED
    BY <1>1, <1>2, <1>7, <2>7 DEF ResolveInv
<1> QED
  BY <1>5, <1>6, <1>7 DEF MatchNext, Matching

LEMMA ValidateStep ==
  ASSUME ShapeInv, ResolveInv, Step, NEW a \in Agents, Validate(a)
  PROVE  ResolveInv'
<1>1. op.kind = "resolve" /\ pc = "match" /\ a \in left /\ outcome = "none" /\ PoolInv
  BY DEF Validate, ResolveInv, ShapeInv
<1>2. UNCHANGED <<op, agents, touched>>
  BY DEF Step
<1>3. a \in DOMAIN listed /\ op.wanted[step] \in Named(listed[a]) /\ step > 0
  BY <1>1 DEF PoolInv, Pooled, Matching
<1>4. Steady(a) => a \in DOMAIN agents /\ agents[a].on /\ op.wanted[step] \in Named(agents[a])
  BY <1>1, <1>3, EnabledIs DEF PoolInv, Pooled, ListedOf, EnabledOf
<1>5. ASSUME NEW how, End(how), how \in {"unknown", "disabled", "incompatible", "unauthorized"},
             how = "unauthorized" \/ ~Quiet'
      PROVE  ResolveInv'
  <2>1. UNCHANGED <<step, listed, left, result>> /\ pc' = "ended" /\ outcome' = how
    BY <1>5 DEF End
  <2>2. PoolInv'
    BY <1>1, <1>2, <2>1, PooledFrame, ListedFrame DEF PoolInv
  <2> QED
    BY <1>1, <1>2, <1>5, <2>1, <2>2 DEF ResolveInv
<1>6. CASE Fails("unknown")
  BY <1>5, <1>6 DEF Fails, Quiet
<1>7. CASE a \notin DOMAIN agents /\ End("unknown")
  BY <1>2, <1>4, <1>5, <1>7 DEF Quiet, Steady
<1>8. CASE a \in DOMAIN agents /\ Refusal(agents[a], op.wanted[step]) # "none"
           /\ End(Refusal(agents[a], op.wanted[step]))
  <2> DEFINE how == Refusal(agents[a], op.wanted[step])
  <2>1. how \in {"disabled", "incompatible", "unauthorized"}
    BY <1>8 DEF Refusal
  <2>2. Steady(a) => how = "unauthorized"
    BY <1>4, <1>8 DEF Refusal
  <2>3. Steady(a) \/ ~Quiet'
    BY <1>2 DEF Quiet, Steady
  <2> HIDE DEF how
  <2>4. End(how)
    BY <1>8 DEF how
  <2> QED
    BY <1>5, <2>1, <2>2, <2>3, <2>4
<1>9. CASE /\ a \in DOMAIN agents /\ Refusal(agents[a], op.wanted[step]) = "none"
           /\ result' = With(result, a, agents[a]) /\ left' = left \ {a}
           /\ UNCHANGED <<pc, outcome, step, listed, tool, server, catalogue>>
  <2>1. agents[a].on /\ Named(agents[a]) \subseteq op.authorized
    BY <1>9 DEF Refusal
  <2>2. DOMAIN result' = DOMAIN result \cup {a} /\ result'[a] = agents[a]
        /\ \A b \in DOMAIN result : b # a => result'[b] = result[b]
    <3>1. result' = [b \in DOMAIN result \cup {a} |-> IF b = a THEN agents[a] ELSE result[b]]
      BY <1>9 DEF With
    <3> QED
      BY <3>1
  <2>3. (\A i : Matching(i)' = Matching(i)) /\ (\A row : Named(row)' = Named(row))
    BY <1>2, <1>9, MatchingFrame
  <2>4. \A b \in DOMAIN result' : result'[b].on /\ Named(result'[b]) \subseteq op.authorized
    BY <1>1, <2>1, <2>2 DEF PoolInv, Pooled
  <2>5. \A i \in 1 .. step : Matching(i) # {} /\ Matching(i) \subseteq DOMAIN result' \cup left'
    BY <1>1, <1>9, <2>2 DEF PoolInv, Pooled
  <2>6. left' # {} => step > 0 /\ left' \subseteq Matching(step)
    BY <1>1, <1>9 DEF PoolInv, Pooled
  <2>7. DOMAIN result' \subseteq UNION {Matching(i) : i \in 1 .. step}
    <3>1. a \in Matching(step) /\ step \in 1 .. step
      BY <1>1, <1>3 DEF PoolInv, Pooled
    <3> QED
      BY <1>1, <2>2, <3>1 DEF PoolInv, Pooled
  <2>8. Pooled'
    BY <1>1, <1>2, <1>9, <2>3, <2>4, <2>5, <2>6, <2>7 DEF PoolInv, Pooled
  <2>9. PoolInv'
    BY <1>1, <1>2, <1>9, <2>8, ListedFrame DEF PoolInv
  <2> QED
    BY <1>1, <1>2, <1>9, <2>9 DEF ResolveInv
<1> QED
  BY <1>6, <1>7, <1>8, <1>9 DEF Validate

LEMMA ResolveNext ==
  ASSUME ShapeInv, ResolveInv, [Next]_vars
  PROVE  ResolveInv'
<1>1. CASE Edit
  BY <1>1, ResolveEdit
<1>2. CASE Step
  <2>1. CASE op.kind # "resolve"
    BY <1>2, <2>1, StepFrame DEF ResolveInv
  <2>2. CASE op.kind = "resolve"
    <3>1. ListAgents \/ MatchNext \/ \E a \in Agents : Validate(a)
      BY <1>2, <2>2 DEF Step, Reading, Writing, FetchTools, FetchServer, ListServers, Visit,
                        Discovered, Overview, Register, Update
    <3> QED
      BY <1>2, <3>1, ListAgentsStep, MatchNextStep, ValidateStep
  <2> QED
    BY <2>1, <2>2
<1>3. CASE UNCHANGED vars
  <2>1. UNCHANGED <<agents, touched, failed, op, pc, outcome, step, listed, left, result>>
    BY <1>3 DEF vars, service, reading
  <2>2. PoolInv => PoolInv'
    BY <2>1, PooledFrame, ListedFrame DEF PoolInv
  <2>3. \A i : Matching(i)' = Matching(i)
    BY <2>1, MatchingFrame
  <2> QED
    BY <2>1, <2>2, <2>3 DEF ResolveInv, Quiet
<1> QED
  BY <1>1, <1>2, <1>3 DEF Next

LEMMA PoolFollows ==
  ASSUME ShapeInv, ResolveInv
  PROVE  PoolExact
<1> SUFFICES ASSUME op.kind = "resolve" PROVE PoolExact
  BY DEF PoolExact
<1>1. DOMAIN op.wanted = 1 .. Len(op.wanted) /\ Len(op.wanted) \in Nat
  BY WantedIsList
<1>2. outcome # "none" => pc = "ended"
  BY DEF ShapeInv
<1>3. ASSUME PoolInv, NEW a \in Agents, Steady(a)
      PROVE  /\ a \in DOMAIN listed <=> a \in EnabledOf(agents)
             /\ a \in DOMAIN listed => listed[a] = agents[a]
  BY <1>3, EnabledIs DEF PoolInv, Pooled, ListedOf
<1>4. ASSUME outcome = "resolved"
      PROVE  /\ \A a \in Agents : Steady(a) => (a \in DOMAIN result <=> Suits(a))
             /\ \A a \in DOMAIN result : result[a].on /\ Named(result[a]) \subseteq op.authorized
             /\ \A c \in Asked : \E a \in DOMAIN result : c \in Named(listed[a])
  <2>1. PoolInv /\ step = Len(op.wanted) /\ left = {}
    BY <1>2, <1>4 DEF ResolveInv
  <2>2. DOMAIN result = UNION {Matching(i) : i \in DOMAIN op.wanted}
        /\ \A i \in DOMAIN op.wanted : Matching(i) # {}
    BY <1>1, <2>1 DEF PoolInv, Pooled
  <2>3. ASSUME NEW a PROVE a \in DOMAIN result <=> a \in DOMAIN listed /\ Named(listed[a]) \cap Asked # {}
    BY <2>2 DEF Matching, Asked
  <2>4. ASSUME NEW a \in Agents, Steady(a) PROVE a \in DOMAIN result <=> Suits(a)
    BY <1>3, <2>1, <2>3, <2>4 DEF Suits
  <2>5. \A c \in Asked : \E a \in DOMAIN result : c \in Named(listed[a])
    BY <2>2 DEF Matching, Asked
  <2> QED
    BY <2>1, <2>4, <2>5 DEF PoolInv, Pooled
<1>5. ASSUME outcome = "no agent"
      PROVE  \E c \in Asked : \A a \in Agents : Steady(a) /\ Suits(a) => c \notin Named(agents[a])
  <2>1. PoolInv
    BY <1>2, <1>5 DEF ResolveInv
  <2>2. PICK i \in DOMAIN op.wanted : Matching(i) = {}
    BY <1>5 DEF ResolveInv
  <2>3. ASSUME NEW a \in Agents, Steady(a), Suits(a) PROVE op.wanted[i] \notin Named(agents[a])
    BY <1>3, <2>1, <2>2, <2>3 DEF Suits, Matching
  <2>4. op.wanted[i] \in Asked
    BY DEF Asked
  <2> QED
    BY <2>3, <2>4
<1>6. Quiet /\ pc = "ended" => outcome \in {"resolved", "no agent", "unauthorized"}
  BY DEF ResolveInv
<1> QED
  BY <1>4, <1>5, <1>6 DEF PoolExact

-----------------------------------------------------------------------------
(* provide.                                                                *)
LEMMA ProvideEdit ==
  ASSUME ShapeInv, ProvideInv, Edit
  PROVE  ProvideInv'
<1> SUFFICES ASSUME op.kind = "provide" PROVE ProvideInv'
  BY EditFrame DEF ProvideInv
<1>1. UNCHANGED <<op, pc, outcome, step, tool, server, result>> /\ pc # "ended" /\ outcome = "none"
  BY EditFrame DEF reading, ShapeInv
<1>2. ASSUME NEW t, NEW p, NEW c, Chosen(t, p, c) PROVE Chosen(t, p, c)'
  <2>1. SUFFICES ASSUME Steady(t)' PROVE t \in Providing(c)' /\ p = tools'[t].provider
    BY DEF Chosen
  <2>2. Steady(t) /\ Alike(tools, tools', t)
    BY <2>1, EditFrame
  <2>3. t \in Providing(c) /\ p = tools[t].provider
    BY <1>2, <2>2 DEF Chosen
  <2> QED
    BY <2>2, <2>3 DEF Providing, EnabledOf, Alike
<1>3. ASSUME NEW p, Answering(p) PROVE Answering(p)'
  <2>1. SUFFICES ASSUME p # Builtin, Steady(p)' PROVE p \in EnabledOf(servers')
    BY DEF Answering
  <2>2. Steady(p) /\ Alike(servers, servers', p)
    BY <2>1, EditFrame
  <2>3. p \in EnabledOf(servers)
    BY <1>3, <2>1, <2>2 DEF Answering
  <2> QED
    BY <2>2, <2>3 DEF EnabledOf, Alike
<1>4. \A i \in 1 .. step :
        Chosen(result[i].tool, result[i].provider, op.wanted[i])' /\ Answering(result[i].provider)'
  BY <1>1, <1>2, <1>3 DEF ProvideInv
<1>5. pc = "server" => Chosen(tool, server, op.wanted[step + 1])'
  BY <1>1, <1>2 DEF ProvideInv
<1> QED
  BY <1>1, <1>4, <1>5 DEF ProvideInv

\* The tables stay, and so does what is said of the tools and providers found so far.
LEMMA ChosenFrame ==
  ASSUME UNCHANGED <<tools, servers, touched>>
  PROVE  /\ \A t, p, c : Chosen(t, p, c)' <=> Chosen(t, p, c)
         /\ \A p : Answering(p)' <=> Answering(p)
         /\ \A c : Providing(c)' = Providing(c)
BY DEF Chosen, Answering, Providing, Steady

\* A capability's tool and provider are added to the result.
LEMMA ProvidedStep ==
  ASSUME ShapeInv, ProvideInv, op.kind = "provide", step < Len(op.wanted), pc # "ended",
         UNCHANGED <<tools, servers, touched, op, outcome>>,
         NEW t, NEW p, Provided(t, p), Chosen(t, p, op.wanted[step + 1]), Answering(p)
  PROVE  ProvideInv'
<1>1. Len(op.wanted) \in Nat
  BY WantedIsList
<1>2. step \in Nat /\ step + 1 \in 0 .. Len(op.wanted) /\ outcome = "none"
  <2>1. step \in 0 .. Len(op.wanted) /\ outcome = "none"
    BY DEF ProvideInv, ShapeInv
  <2>2. \A n \in Nat : \A k \in 0 .. n : k < n => k \in Nat /\ k + 1 \in 0 .. n
    OBVIOUS
  <2> QED
    BY <1>1, <2>1, <2>2
<1>3. /\ DOMAIN result' = DOMAIN result \cup {step + 1}
      /\ result'[step + 1] = [tool |-> t, provider |-> p]
      /\ \A i \in DOMAIN result : i # step + 1 => result'[i] = result[i]
  <2>1. result' = [i \in DOMAIN result \cup {step + 1} |->
                     IF i = step + 1 THEN [tool |-> t, provider |-> p] ELSE result[i]]
    BY DEF Provided, With
  <2> QED
    BY <2>1
<1>4. step' = step + 1 /\ pc' = "list"
  BY DEF Provided
<1>5. DOMAIN result' = 1 .. step'
  BY <1>2, <1>3, <1>4 DEF ProvideInv
<1>6. \A i \in 1 .. step' :
        Chosen(result'[i].tool, result'[i].provider, op.wanted[i]) /\ Answering(result'[i].provider)
  <2>1. \A i \in 1 .. step : result'[i] = result[i]
    BY <1>2, <1>3 DEF ProvideInv
  <2>2. \A i \in 1 .. step' : i = step + 1 \/ i \in 1 .. step
    BY <1>2, <1>4
  <2>3. \A i \in 1 .. step :
          Chosen(result[i].tool, result[i].provider, op.wanted[i]) /\ Answering(result[i].provider)
    BY DEF ProvideInv
  <2>4. result'[step + 1].tool = t /\ result'[step + 1].provider = p
    BY <1>3
  <2> QED
    BY <2>1, <2>2, <2>3, <2>4
<1>7. \A i \in 1 .. step' :
        Chosen(result[i].tool, result[i].provider, op.wanted[i])' /\ Answering(result[i].provider)'
  BY <1>6, ChosenFrame
<1> QED
  BY <1>2, <1>4, <1>5, <1>7 DEF ProvideInv

\* The result stays.
LEMMA ProvideFrame ==
  ASSUME ProvideInv, op.kind = "provide", UNCHANGED <<tools, servers, touched, op, step, result>>,
         pc' \in {"again", "server", "ended"},
         pc' \in {"again", "server"} => step < Len(op.wanted),
         pc' = "server" => Chosen(tool', server', op.wanted[step + 1]),
         outcome' = "no tool" => \E c \in Asked : Providing(c) = {}
  PROVE  ProvideInv'
<1>1. \A i \in 1 .. step :
        Chosen(result[i].tool, result[i].provider, op.wanted[i])' /\ Answering(result[i].provider)'
  BY ChosenFrame DEF ProvideInv
<1>2. pc' = "server" => Chosen(tool, server, op.wanted[step + 1])'
  BY ChosenFrame
<1>3. outcome' = "no tool" => \E c \in Asked' : Providing(c)' = {}
  BY ChosenFrame DEF Asked
<1> QED
  BY <1>1, <1>2, <1>3 DEF ProvideInv

LEMMA FetchToolsStep ==
  ASSUME ShapeInv, ProvideInv, Step, FetchTools, UNCHANGED tools
  PROVE  ProvideInv'
<1> DEFINE c == op.wanted[step + 1]
<1>1. op.kind = "provide" /\ pc \in {"list", "again"} /\ outcome = "none"
  BY DEF FetchTools, ShapeInv
<1>2. UNCHANGED <<tools, servers, touched, op>>
  BY DEF Step
<1>3. Len(op.wanted) \in Nat /\ step \in 0 .. Len(op.wanted) /\ DOMAIN op.wanted = 1 .. Len(op.wanted)
  BY <1>1, WantedIsList DEF ProvideInv
<1>4. ASSUME NEW how, End(how), how # "no tool" PROVE ProvideInv'
  BY <1>1, <1>2, <1>4, ProvideFrame DEF End
<1>5. CASE step = Len(op.wanted)
  BY <1>4, <1>5 DEF FetchTools
<1>6. CASE step # Len(op.wanted)
  <2>1. step < Len(op.wanted) /\ step + 1 \in DOMAIN op.wanted
    BY <1>3, <1>6
  <2>2. c \in Asked
    BY <2>1 DEF Asked
  <2>3. CASE Fails("raised")
    BY <1>4, <2>3 DEF Fails
  <2>4. CASE Providing(c) = {} /\ End("no tool")
    BY <1>1, <1>2, <2>2, <2>4, ProvideFrame DEF End
  <2>5. CASE pc' = "again" /\ UNCHANGED <<outcome, step, listed, left, tool, server, catalogue, result>>
    BY <1>1, <1>2, <2>1, <2>5, ProvideFrame
  <2>6. ASSUME NEW t \in Providing(c),
               /\ UNCHANGED <<outcome, listed, left, catalogue, failed>>
               /\ IF tools[t].provider = Builtin
                  THEN Provided(t, Builtin) /\ UNCHANGED <<tool, server>>
                  ELSE /\ tool' = t /\ server' = tools[t].provider /\ pc' = "server"
                       /\ UNCHANGED <<step, result>>
        PROVE  ProvideInv'
    <3>1. Chosen(t, tools[t].provider, c)
      BY <2>6 DEF Chosen
    <3>2. CASE tools[t].provider = Builtin
      <4>1. Provided(t, Builtin) /\ Answering(Builtin) /\ Chosen(t, Builtin, c)
        BY <2>6, <3>1, <3>2 DEF Answering
      <4> QED
        BY <1>1, <1>2, <2>1, <2>6, <4>1, ProvidedStep
    <3>3. CASE tools[t].provider # Builtin
      <4>1. tool' = t /\ server' = tools[t].provider /\ pc' = "server" /\ UNCHANGED <<step, result, outcome>>
        BY <2>6, <3>3
      <4> QED
        BY <1>1, <1>2, <2>1, <3>1, <4>1, ProvideFrame
    <3> QED
      BY <3>2, <3>3
  <2> QED
    BY <1>6, <2>3, <2>4, <2>5, <2>6 DEF FetchTools
<1> QED
  BY <1>5, <1>6

LEMMA FetchServerStep ==
  ASSUME ShapeInv, ProvideInv, Step, FetchServer, UNCHANGED tools
  PROVE  ProvideInv'
<1>1. op.kind = "provide" /\ pc = "server" /\ outcome = "none"
  BY DEF FetchServer, ShapeInv
<1>2. UNCHANGED <<tools, servers, touched, op>>
  BY DEF Step
<1>3. step < Len(op.wanted) /\ Chosen(tool, server, op.wanted[step + 1])
  BY <1>1 DEF ProvideInv
<1>4. ASSUME End("unavailable") PROVE ProvideInv'
  BY <1>1, <1>2, <1>4, ProvideFrame DEF End
<1>5. ASSUME Usable(server), Provided(tool, server), UNCHANGED outcome PROVE ProvideInv'
  <2>1. Answering(server)
    BY <1>5 DEF Answering, Usable, EnabledOf
  <2> QED
    BY <1>1, <1>2, <1>3, <1>5, <2>1, ProvidedStep
<1> QED
  BY <1>4, <1>5 DEF FetchServer, Fails

LEMMA ProvideNext ==
  ASSUME ShapeInv, ProvideInv, [Next]_vars
  PROVE  ProvideInv'
<1>1. CASE Edit
  BY <1>1, ProvideEdit
<1>2. CASE Step
  <2>1. CASE op.kind # "provide"
    BY <1>2, <2>1, StepFrame DEF ProvideInv
  <2>2. CASE op.kind = "provide"
    <3>1. (FetchTools \/ FetchServer) /\ UNCHANGED tools
      BY <1>2, <2>2 DEF Step, Reading, Writing, ListAgents, MatchNext, Validate, ListServers, Visit,
                        Discovered, Overview, Register, Update
    <3> QED
      BY <1>2, <3>1, FetchToolsStep, FetchServerStep
  <2> QED
    BY <2>1, <2>2
<1>3. CASE UNCHANGED vars
  <2>1. UNCHANGED <<tools, servers, touched, op, pc, outcome, step, tool, server, result>>
    BY <1>3 DEF vars, service, reading
  <2>2. (\A t, p, c : Chosen(t, p, c)' <=> Chosen(t, p, c)) /\ (\A p : Answering(p)' <=> Answering(p))
        /\ \A c : Providing(c)' = Providing(c)
    BY <2>1, ChosenFrame
  <2> QED
    BY <2>1, <2>2 DEF ProvideInv, Asked
<1> QED
  BY <1>1, <1>2, <1>3 DEF Next

-----------------------------------------------------------------------------
(* overview.                                                               *)
LEMMA OverviewEdit ==
  ASSUME ShapeInv, OverviewInv, Edit
  PROVE  OverviewInv'
<1>1. UNCHANGED <<op, pc, outcome, listed, catalogue>> /\ pc # "ended" /\ outcome = "none"
  BY EditFrame DEF reading, ShapeInv
<1>2. ASSUME ListedOf(agents, listed, Agents) PROVE ListedOf(agents, listed, Agents)'
  BY <1>1, <1>2, EditFrame DEF ListedOf, Alike
<1>3. ASSUME ListedOf(servers, catalogue, Servers) PROVE ListedOf(servers, catalogue, Servers)'
  BY <1>1, <1>3, EditFrame DEF ListedOf, Alike
<1> QED
  BY <1>1, <1>2, <1>3 DEF OverviewInv

LEMMA OverviewStep ==
  ASSUME ShapeInv, OverviewInv, Step, Overview, UNCHANGED tools
  PROVE  OverviewInv'
<1>1. op.kind = "overview" /\ UNCHANGED <<agents, tools, servers, touched, op>>
  BY DEF Step, Overview
<1>2. CASE /\ pc = "list" /\ listed' = agents /\ pc' = "servers"
           /\ UNCHANGED <<outcome, step, left, tool, server, catalogue, result>>
  BY <1>1, <1>2 DEF OverviewInv, ListedOf, ShapeInv
<1>3. CASE /\ pc = "servers" /\ catalogue' = servers /\ pc' = "tools"
           /\ UNCHANGED <<outcome, step, listed, left, tool, server, result>>
  BY <1>1, <1>3 DEF OverviewInv, ListedOf, Steady, ShapeInv
<1>4. CASE /\ pc = "tools" /\ result' = [a \in DOMAIN listed |-> Links(a)]
           /\ pc' = "ended" /\ outcome' = "resolved"
  <2>1. ASSUME NEW a \in DOMAIN agents, NEW t \in DOMAIN tools, Steady(a), Steady(t), Steady(tools[t].provider)
        PROVE  (tools[t].cap \in agents[a].caps) <=>
                 [tool |-> t,
                  providerOn |-> (tools[t].provider \in DOMAIN servers => servers[tools[t].provider].on)]
                   \in result'[a]
    <3> DEFINE p == tools[t].provider
               on == (p \in DOMAIN servers => servers[p].on)
               link == [tool |-> t, providerOn |-> on]
    <3>1. a \in DOMAIN listed /\ listed[a] = agents[a]
      BY <1>1, <1>4, <2>1 DEF OverviewInv, ListedOf, ShapeInv
    <3>2. (p \in DOMAIN servers <=> p \in DOMAIN catalogue) /\ (p \in DOMAIN servers => catalogue[p] = servers[p])
      BY <1>1, <1>4, <2>1 DEF OverviewInv, ListedOf, ShapeInv
    <3>3. on = (p \in DOMAIN catalogue => catalogue[p].on) /\ on \in BOOLEAN
      BY <3>2
    <3> HIDE DEF on
    <3>4. link \in [tool : DOMAIN tools, providerOn : BOOLEAN] /\ link.tool = t /\ link.providerOn = on
      BY <3>3
    <3> HIDE DEF link
    <3>5. link \in Links(a) <=> tools[t].cap \in agents[a].caps
      BY <3>1, <3>3, <3>4 DEF Links
    <3>6. result'[a] = Links(a)
      BY <1>4, <3>1
    <3> QED
      BY <3>5, <3>6 DEF link, on
  <2>2. Linked'
    BY <1>1, <2>1 DEF Linked, Steady
  <2> QED
    BY <1>4, <2>2 DEF OverviewInv
<1> QED
  BY <1>2, <1>3, <1>4 DEF Overview

LEMMA OverviewNext ==
  ASSUME ShapeInv, OverviewInv, [Next]_vars
  PROVE  OverviewInv'
<1>1. CASE Edit
  BY <1>1, OverviewEdit
<1>2. CASE Step
  <2>1. CASE op.kind # "overview"
    BY <1>2, <2>1, StepFrame DEF OverviewInv
  <2>2. CASE op.kind = "overview"
    <3>1. Overview /\ UNCHANGED tools
      BY <1>2, <2>2 DEF Step, Reading, Writing, ListAgents, MatchNext, Validate, FetchTools, FetchServer,
                        ListServers, Visit, Discovered, Register, Update
    <3> QED
      BY <1>2, <3>1, OverviewStep
  <2> QED
    BY <2>1, <2>2
<1>3. CASE UNCHANGED vars
  BY <1>3 DEF vars, service, reading, OverviewInv, ListedOf, Linked, Steady
<1> QED
  BY <1>1, <1>2, <1>3 DEF Next

LEMMA ProviderFollows ==
  ASSUME ProvideInv, OverviewInv
  PROVE  ProviderExact
<1>1. ASSUME op.kind = "provide", outcome = "resolved"
      PROVE  \A i \in DOMAIN result :
               LET t == result[i].tool p == result[i].provider IN
               /\ Steady(t) => t \in Providing(op.wanted[i]) /\ p = tools[t].provider
               /\ p # Builtin /\ Steady(p) => p \in EnabledOf(servers)
  BY <1>1 DEF ProvideInv, Chosen, Answering
<1>2. ASSUME op.kind = "provide", outcome = "no tool"
      PROVE  \E c \in Asked : \A t \in Providing(c) : ~Steady(t)
  BY <1>2 DEF ProvideInv
<1>3. ASSUME op.kind = "overview", outcome = "resolved" PROVE Linked
  BY <1>3 DEF OverviewInv
<1> QED
  BY <1>1, <1>2, <1>3 DEF ProviderExact, Linked

-----------------------------------------------------------------------------
(* discover.                                                               *)
LEMMA DiscoverEdit ==
  ASSUME ShapeInv, DiscoverInv, Edit
  PROVE  DiscoverInv'
<1> SUFFICES ASSUME op.kind = "discover" PROVE DiscoverInv'
  BY EditFrame DEF DiscoverInv
<1>1. /\ UNCHANGED <<offers, before, op, pc, outcome, listed, left, tool, server, catalogue, result>>
      /\ pc # "ended" /\ outcome = "none"
  BY EditFrame DEF reading, ShapeInv
<1>2. ASSUME NEW t \in Tools, Steady(t)' PROVE RowInv(t)'
  <2>1. RowInv(t) /\ Alike(tools, tools', t)
    BY <1>2, EditFrame DEF DiscoverInv
  <2>2. \A row : Offered(t, row)' <=> Offered(t, row)
    BY <1>1 DEF Offered
  <2> QED
    BY <1>1, <2>1, <2>2 DEF RowInv, Alike
<1>3. ASSUME ListedOf(Enabled(servers), listed, Servers)
      PROVE  ListedOf(Enabled(servers), listed, Servers)'
  <2>1. ASSUME NEW s \in Servers, Steady(s)'
        PROVE  Steady(s) /\ Alike(Enabled(servers), Enabled(servers'), s)
    <3>1. Steady(s) /\ Alike(servers, servers', s)
      BY <2>1, EditFrame
    <3> QED
      BY <3>1, EnabledAlike
  <2> QED
    BY <1>1, <1>3, <2>1 DEF ListedOf, Alike
<1> QED
  BY <1>1, <1>2, <1>3 DEF DiscoverInv

\* What is registered of the servers visited.
Covered(done) ==
  \A s \in DOMAIN listed \ left : \A t \in DOMAIN offers[s] :
    t \in done \/ (s = server /\ t \in DOMAIN catalogue)

LEMMA ServersFrame ==
  ASSUME ListedOf(Enabled(servers), listed, Servers), UNCHANGED <<servers, touched, listed>>
  PROVE  ListedOf(Enabled(servers), listed, Servers)'
BY DEF ListedOf, Steady

\* A pass that breaks off leaves everything as it is.
LEMMA BreaksOff ==
  ASSUME DiscoverInv, op.kind = "discover", End("raised"),
         UNCHANGED <<tools, servers, offers, before, touched, op>>
  PROVE  DiscoverInv'
<1>1. UNCHANGED <<listed, left, tool, server, catalogue, result>> /\ pc' = "ended" /\ outcome' = "raised"
  BY DEF End
<1>2. ASSUME NEW t \in Tools, Steady(t)' PROVE RowInv(t)'
  <2>1. RowInv(t)
    BY <1>2 DEF DiscoverInv, Steady
  <2> QED
    BY <1>1, <2>1 DEF RowInv, Offered
<1> QED
  BY <1>1, <1>2 DEF DiscoverInv

LEMMA ListServersStep ==
  ASSUME ShapeInv, DiscoverInv, Step, ListServers, UNCHANGED tools
  PROVE  DiscoverInv'
<1>1. op.kind = "discover" /\ pc = "list" /\ outcome = "none"
  BY DEF ListServers, ShapeInv
<1>2. UNCHANGED <<tools, servers, offers, before, touched, op>>
  BY DEF Step
<1>3. DOMAIN listed = {} /\ DOMAIN result = {} /\ DOMAIN catalogue = {} /\ \A t \in Tools : Steady(t) => RowInv(t)
  BY <1>1, NoneIs DEF DiscoverInv
<1>4. CASE Fails("raised")
  BY <1>1, <1>2, <1>4, BreaksOff DEF Fails
<1>5. CASE /\ listed' = Enabled(servers) /\ left' = EnabledOf(servers) /\ pc' = "visit"
           /\ UNCHANGED <<outcome, step, tool, server, catalogue, result, failed>>
  <2>1. ASSUME NEW t \in Tools, Steady(t)' PROVE RowInv(t)'
    <3>1. RowInv(t)
      BY <1>2, <1>3, <2>1 DEF Steady
    <3>2. /\ t \in DOMAIN before => t \in DOMAIN tools /\ tools[t].on = before[t].on
          /\ t \in DOMAIN tools => t \in DOMAIN before /\ tools[t] = before[t]
      BY <1>3, <3>1 DEF RowInv, Offered
    <3> QED
      BY <1>2, <1>3, <1>5, <3>2 DEF RowInv
  <2>2. ListedOf(Enabled(servers), listed, Servers)'
    BY <1>2, <1>5 DEF ListedOf
  <2>3. DOMAIN listed' = left'
    BY <1>5, EnabledIs
  <2> QED
    BY <1>1, <1>2, <1>3, <1>5, <2>1, <2>2, <2>3 DEF DiscoverInv
<1> QED
  BY <1>4, <1>5 DEF ListServers

LEMMA VisitStep ==
  ASSUME ShapeInv, DiscoverInv, Step, NEW s \in Servers, Visit(s), UNCHANGED tools
  PROVE  DiscoverInv'
<1>1. op.kind = "discover" /\ pc = "visit" /\ outcome = "none" /\ catalogue = None /\ s \in left
  BY DEF Visit, ShapeInv
<1>2. UNCHANGED <<tools, servers, offers, before, touched, op>>
  BY DEF Step
<1>3. CASE Fails("raised")
  BY <1>1, <1>2, <1>3, BreaksOff DEF Fails
<1>4. CASE /\ server' = s /\ catalogue' = offers[s] /\ left' = left \ {s}
           /\ UNCHANGED <<pc, outcome, step, listed, tool, result, failed>>
  <2>1. ASSUME NEW t \in Tools, Steady(t)' PROVE RowInv(t)'
    <3>1. RowInv(t)
      BY <1>1, <1>2, <2>1 DEF Steady, DiscoverInv
    <3> QED
      BY <1>2, <1>4, <3>1 DEF RowInv, Offered
  <2>2. ListedOf(Enabled(servers), listed, Servers)' /\ left \subseteq DOMAIN listed
    BY <1>1, <1>2, <1>4, ServersFrame DEF DiscoverInv
  <2>3. Covered(DOMAIN result)'
    <3>1. ASSUME NEW z \in DOMAIN listed \ (left \ {s}), NEW t \in DOMAIN offers[z]
          PROVE  t \in DOMAIN result \/ (z = s /\ t \in DOMAIN offers[s])
      BY <1>1, <3>1, NoneIs DEF DiscoverInv
    <3> QED
      BY <1>2, <1>4, <3>1 DEF Covered
  <2> QED
    BY <1>1, <1>2, <1>4, <2>1, <2>2, <2>3 DEF DiscoverInv, Covered
<1> QED
  BY <1>3, <1>4 DEF Visit

LEMMA DiscoveredStep ==
  ASSUME ShapeInv, DiscoverInv, Step, Discovered, UNCHANGED tools
  PROVE  DiscoverInv'
<1>1. op.kind = "discover" /\ pc = "visit" /\ outcome = "none" /\ catalogue = None /\ left = {}
  BY DEF Discovered, ShapeInv
<1>2. UNCHANGED <<tools, servers, offers, before, touched, op>>
  BY DEF Step
<1>3. UNCHANGED <<listed, left, tool, server, catalogue, result>> /\ pc' = "ended" /\ outcome' = "resolved"
  BY DEF Discovered, End
<1>4. ASSUME NEW t \in Tools, Steady(t)' PROVE RowInv(t)'
  <2>1. RowInv(t)
    BY <1>1, <1>2, <1>4 DEF Steady, DiscoverInv
  <2> QED
    BY <1>1, <1>2, <1>3, <2>1 DEF RowInv, Offered
<1>5. ListedOf(Enabled(servers), listed, Servers)'
  BY <1>1, <1>2, <1>3, ServersFrame DEF DiscoverInv
<1> QED
  BY <1>1, <1>2, <1>3, <1>4, <1>5 DEF DiscoverInv

\* A tool of the catalogue has been written as the payload says, but for the switch.
LEMMA WrittenRow ==
  ASSUME DiscoverInv, op.kind = "discover", NEW t \in DOMAIN catalogue
  PROVE  \A row : row.provider = server /\ row.cap = catalogue[t].cap => Offered(t, row)
BY DEF DiscoverInv, Offered

\* The tools still to register, when one of them is in the result.
LEMMA RegisteredRest ==
  ASSUME DiscoverInv, op.kind = "discover", pc \in {"visit", "put"}, outcome = "none",
         NEW t \in DOMAIN catalogue, Registered(t),
         UNCHANGED <<servers, offers, before, touched, op>>,
         \A z \in Tools : Steady(z)' => RowInv(z)'
  PROVE  DiscoverInv'
<1>1. /\ pc' = "visit" /\ UNCHANGED <<outcome, listed, left, server>>
      /\ result' = With(result, t, Payload(t)) /\ catalogue' = Without(catalogue, t)
  BY DEF Registered, Rest
<1>2. DOMAIN result' = DOMAIN result \cup {t}
  BY <1>1 DEF With
<1>3. DOMAIN catalogue' = DOMAIN catalogue \ {t} /\ \A z \in DOMAIN catalogue' : catalogue'[z] = catalogue[z]
  BY <1>1 DEF Without
<1>4. \A z \in DOMAIN catalogue' :
        server' \in DOMAIN listed' /\ z \in DOMAIN offers'[server'] /\ catalogue'[z] = offers'[server'][z]
  BY <1>1, <1>3 DEF DiscoverInv
<1>5. ListedOf(Enabled(servers), listed, Servers)' /\ left' \subseteq DOMAIN listed'
  BY <1>1, ServersFrame DEF DiscoverInv
<1>6. Covered(DOMAIN result)'
  BY <1>1, <1>2, <1>3 DEF DiscoverInv, Covered
<1> QED
  BY <1>1, <1>4, <1>5, <1>6 DEF DiscoverInv, Covered

LEMMA RetryRest ==
  ASSUME DiscoverInv, op.kind = "discover", pc = "visit", outcome = "none",
         NEW t \in DOMAIN catalogue, t \in Tools, Retry(t),
         UNCHANGED <<servers, offers, before, touched, op>>,
         \A z \in Tools : Steady(z)' => RowInv(z)'
  PROVE  DiscoverInv'
<1>1. pc' = "put" /\ tool' = t /\ UNCHANGED <<outcome, listed, left, server, catalogue, result>>
  BY DEF Retry
<1>2. ListedOf(Enabled(servers), listed, Servers)'
  BY <1>1, ServersFrame DEF DiscoverInv
<1> QED
  BY <1>1, <1>2 DEF DiscoverInv

\* The rows and the result of all other tools stay.
LEMMA RowFrame ==
  ASSUME NEW z, RowInv(z), pc # "ended", Alike(tools, tools', z), Alike(result, result', z),
         UNCHANGED <<before, offers, listed>>
  PROVE  RowInv(z)'
<1>1. \A row : Offered(z, row)' <=> Offered(z, row)
  BY DEF Offered
<1> QED
  BY <1>1 DEF RowInv, Alike

LEMMA RegisterStep ==
  ASSUME ShapeInv, DiscoverInv, Step, NEW t \in Tools, Register(t)
  PROVE  DiscoverInv'
<1>1. op.kind = "discover" /\ pc = "visit" /\ outcome = "none" /\ t \in DOMAIN catalogue
  BY DEF Register, ShapeInv
<1>2. UNCHANGED <<servers, offers, before, touched, op>>
  BY DEF Step
<1>3. \A z \in Tools : Steady(z)' => RowInv(z)
  BY <1>1, <1>2 DEF DiscoverInv, Steady
<1>4. \A f, z : Alike(f, f, z)
  BY DEF Alike
<1>5. CASE UNCHANGED tools /\ Retry(t)
  <2>1. UNCHANGED <<listed, result>>
    BY <1>5 DEF Retry
  <2>2. \A z \in Tools : Steady(z)' => RowInv(z)'
    BY <1>1, <1>2, <1>3, <1>4, <1>5, <2>1, RowFrame
  <2> QED
    BY <1>1, <1>2, <1>5, <2>2, RetryRest
<1>6. CASE t \notin DOMAIN tools /\ tools' = With(tools, t, Payload(t)) /\ (Registered(t) \/ Retry(t))
  <2>1. \A z : z # t => Alike(tools, tools', z)
    BY <1>6, WithAlike
  <2>2. t \in DOMAIN tools' /\ tools'[t] = Payload(t)
    <3>1. tools' = [z \in DOMAIN tools \cup {t} |-> IF z = t THEN Payload(t) ELSE tools[z]]
      BY <1>6 DEF With
    <3> QED
      BY <3>1
  <2>3. UNCHANGED listed
    BY <1>6 DEF Registered, Retry
  <2>4. Offered(t, tools[t])'
    <3>1. Offered(t, tools'[t])
      BY <1>1, <2>2, WrittenRow DEF Payload
    <3> QED
      BY <1>2, <2>3, <3>1 DEF Offered
  <2>5. \A z \in Tools : z # t /\ Steady(z)' => RowInv(z)'
    <3>1. \A z : z # t => Alike(result, result', z)
      BY <1>4, <1>6, WithAlike DEF Registered, Retry
    <3> QED
      BY <1>1, <1>2, <1>3, <2>1, <2>3, <3>1, RowFrame
  <2>6. Steady(t)' => RowInv(t)'
    <3> SUFFICES ASSUME Steady(t)' PROVE RowInv(t)'
      OBVIOUS
    <3>1. RowInv(t) /\ t \notin DOMAIN before /\ t \notin DOMAIN result
      BY <1>1, <1>3, <1>6 DEF RowInv
    <3>2. t \in DOMAIN result' => result'[t] = Payload(t)
      <4>1. result' = result \/ result' = [z \in DOMAIN result \cup {t} |-> IF z = t THEN Payload(t) ELSE result[z]]
        BY <1>6 DEF Registered, Retry, With
      <4> QED
        BY <3>1, <4>1
    <3>3. tools'[t] = [Payload(t) EXCEPT !.on = tools'[t].on]
      BY <2>2 DEF Payload
    <3> QED
      BY <1>2, <2>2, <2>4, <3>1, <3>2, <3>3 DEF RowInv
  <2>7. \A z \in Tools : Steady(z)' => RowInv(z)'
    BY <2>5, <2>6
  <2> QED
    BY <1>1, <1>2, <1>6, <2>7, RegisteredRest, RetryRest
<1> QED
  BY <1>5, <1>6 DEF Register

LEMMA UpdateStep ==
  ASSUME ShapeInv, DiscoverInv, Step, Update
  PROVE  DiscoverInv'
<1>0. PICK t : t = tool
  OBVIOUS
<1> DEFINE row == Updated(tools[t], Payload(t))
<1>1. op.kind = "discover" /\ pc = "put" /\ outcome = "none" /\ t \in DOMAIN catalogue /\ t \in Tools
  BY <1>0 DEF Update, ShapeInv, DiscoverInv
<1>2. UNCHANGED <<servers, offers, before, touched, op>>
  BY DEF Step
<1>3. \A z \in Tools : Steady(z)' => RowInv(z)
  BY <1>1, <1>2 DEF DiscoverInv, Steady
<1>4. CASE UNCHANGED tools /\ End("raised")
  BY <1>1, <1>2, <1>4, BreaksOff
<1>5. CASE t \in DOMAIN tools /\ tools' = [tools EXCEPT ![t] = row] /\ (Registered(t) \/ End("raised"))
  <2>1. DOMAIN tools' = DOMAIN tools /\ tools'[t] = row /\ \A z : z # t => Alike(tools, tools', z)
    BY <1>5 DEF Alike
  <2>2. UNCHANGED listed
    BY <1>5 DEF Registered, End
  <2>3. row.on = tools[t].on /\ row.cap = catalogue[t].cap /\ row.provider = server
        /\ row = [Payload(t) EXCEPT !.on = row.on]
    BY DEF Updated, Payload
  <2> HIDE DEF row
  <2>4. Offered(t, tools[t])'
    <3>1. Offered(t, row)
      BY <1>1, <2>3, WrittenRow
    <3> QED
      BY <1>2, <2>1, <2>2, <3>1 DEF Offered
  <2>5. \A z \in Tools : z # t /\ Steady(z)' => RowInv(z)'
    <3>1. \A z : z # t => Alike(result, result', z)
      <4>1. result' = result \/ result' = With(result, t, Payload(t))
        BY <1>5 DEF Registered, End
      <4> QED
        BY <4>1, WithAlike DEF Alike
    <3> QED
      BY <1>1, <1>2, <1>3, <2>1, <2>2, <3>1, RowFrame
  <2>6. Steady(t)' => RowInv(t)'
    <3> SUFFICES ASSUME Steady(t)' PROVE RowInv(t)'
      OBVIOUS
    <3>1. RowInv(t)
      BY <1>1, <1>3
    <3>2. t \in DOMAIN before' => t \in DOMAIN tools' /\ tools'[t].on = before'[t].on
      BY <1>2, <2>1, <2>3, <3>1 DEF RowInv
    <3>3. CASE Registered(t)
      <4>1. result' = [z \in DOMAIN result \cup {t} |-> IF z = t THEN Payload(t) ELSE result[z]]
        BY <3>3 DEF Registered, With
      <4>2. result'[t] = Payload(t)
        BY <4>1
      <4> QED
        BY <1>5, <2>1, <2>3, <2>4, <3>2, <4>2 DEF RowInv
    <3>4. CASE End("raised")
      BY <2>4, <3>2, <3>4 DEF RowInv, End
    <3> QED
      BY <1>5, <3>3, <3>4
  <2>7. \A z \in Tools : Steady(z)' => RowInv(z)'
    BY <2>5, <2>6
  <2>8. CASE Registered(t)
    BY <1>1, <1>2, <2>7, <2>8, RegisteredRest
  <2>9. CASE End("raised")
    <3>1. UNCHANGED <<listed, left, tool, server, catalogue, result>> /\ pc' = "ended" /\ outcome' = "raised"
      BY <2>9 DEF End
    <3> QED
      BY <1>1, <1>2, <2>7, <3>1 DEF DiscoverInv
  <2> QED
    BY <1>5, <2>8, <2>9
<1> QED
  BY <1>0, <1>4, <1>5 DEF Update, Fails

LEMMA DiscoverNext ==
  ASSUME ShapeInv, DiscoverInv, [Next]_vars
  PROVE  DiscoverInv'
<1>1. CASE Edit
  BY <1>1, DiscoverEdit
<1>2. CASE Step
  <2>1. CASE op.kind # "discover"
    BY <1>2, <2>1, StepFrame DEF DiscoverInv
  <2>2. CASE op.kind = "discover"
    <3>1. \/ (ListServers \/ (\E s \in Servers : Visit(s)) \/ Discovered) /\ UNCHANGED tools
          \/ (\E t \in Tools : Register(t)) \/ Update
      BY <1>2, <2>2 DEF Step, Reading, Writing, ListAgents, MatchNext, Validate, FetchTools, FetchServer, Overview
    <3> QED
      BY <1>2, <3>1, ListServersStep, VisitStep, DiscoveredStep, RegisterStep, UpdateStep
  <2> QED
    BY <2>1, <2>2
<1>3. CASE UNCHANGED vars
  <2>1. UNCHANGED <<tools, servers, offers, before, touched, op, pc, outcome, listed, left, tool, server,
                    catalogue, result>>
    BY <1>3 DEF vars, service, reading
  <2>2. \A t : (RowInv(t)' <=> RowInv(t)) /\ (Steady(t)' <=> Steady(t))
    BY <2>1 DEF RowInv, Offered, Steady
  <2>3. ListedOf(Enabled(servers), listed, Servers)' <=> ListedOf(Enabled(servers), listed, Servers)
    BY <2>1 DEF ListedOf, Steady
  <2> QED
    BY <2>1, <2>2, <2>3 DEF DiscoverInv
<1> QED
  BY <1>1, <1>2, <1>3 DEF Next

LEMMA MirrorsFollow ==
  ASSUME ShapeInv, DiscoverInv
  PROVE  DiscoveryMirrors
<1> SUFFICES ASSUME op.kind = "discover" PROVE DiscoveryMirrors
  BY DEF DiscoveryMirrors
<1>1. ASSUME NEW t \in Tools, Steady(t)
      PROVE  /\ t \in DOMAIN before => t \in DOMAIN tools /\ tools[t].on = before[t].on
             /\ t \in DOMAIN tools =>
                  \/ t \in DOMAIN before /\ tools[t] = before[t]
                  \/ \E s \in DOMAIN listed : /\ t \in DOMAIN offers[s] /\ tools[t].provider = s
                                              /\ tools[t].cap = offers[s][t].cap
             /\ outcome = "resolved" /\ t \in DOMAIN result =>
                  t \in DOMAIN tools /\ tools[t] = [result[t] EXCEPT !.on = tools[t].on]
  <2>1. RowInv(t)
    BY <1>1 DEF DiscoverInv
  <2> QED
    BY <2>1 DEF RowInv, Offered
<1>2. ASSUME outcome = "resolved", NEW s \in EnabledOf(servers), Steady(s)
      PROVE  DOMAIN offers[s] \subseteq DOMAIN result
  <2>1. ListedOf(Enabled(servers), listed, Servers) /\ left = {} /\ DOMAIN catalogue = {} /\ Covered(DOMAIN result)
    BY <1>2, NoneIs DEF DiscoverInv, Covered
  <2>2. s \in Servers /\ s \in DOMAIN Enabled(servers)
    BY <1>2, EnabledIs DEF ShapeInv
  <2>3. s \in DOMAIN listed
    BY <1>2, <2>1, <2>2 DEF ListedOf
  <2> QED
    BY <2>1, <2>3 DEF Covered
<1> QED
  BY <1>1, <1>2 DEF DiscoveryMirrors

-----------------------------------------------------------------------------
(* Every operation.                                                        *)
LEMMA TablesAreRows ==
  ASSUME NEW S, NEW R, NEW table \in Rows(S, R)
  PROVE  DOMAIN table \subseteq S
BY DEF Rows

LEMMA InitialState ==
  ASSUME Init
  PROVE  IInv
<1>1. /\ edits = 0 /\ touched = {} /\ before = tools /\ pc = "list" /\ outcome = "none" /\ step = 0
      /\ listed = None /\ left = {} /\ catalogue = None /\ result = None
      /\ DOMAIN listed = {} /\ DOMAIN catalogue = {} /\ DOMAIN result = {}
  BY NoneIs DEF Init
<1>2. /\ op.kind \in {"resolve", "provide", "discover", "overview"}
      /\ op.kind \in {"resolve", "provide"} => op.wanted \in Wanted
  BY DEF Init
<1>3. DOMAIN agents \subseteq Agents /\ DOMAIN tools \subseteq Tools /\ DOMAIN servers \subseteq Servers
  <2>1. agents \in Rows(Agents, AgentRows) \/ DOMAIN agents = {}
    BY NoneIs DEF Init
  <2>2. tools \in Rows(Tools, ToolRows) \/ DOMAIN tools = {}
    BY NoneIs DEF Init
  <2>3. servers \in Rows(Servers, [on : BOOLEAN]) \/ DOMAIN servers = {}
    BY NoneIs DEF Init
  <2> QED
    BY <2>1, <2>2, <2>3, TablesAreRows
<1>4. ShapeInv
  BY <1>1, <1>2, <1>3 DEF ShapeInv
<1>5. ResolveInv
  BY <1>1 DEF ResolveInv
<1>6. ProvideInv
  <2> SUFFICES ASSUME op.kind = "provide" PROVE ProvideInv
    BY DEF ProvideInv
  <2>1. Len(op.wanted) \in Nat
    BY <1>4, WantedIsList
  <2> QED
    BY <1>1, <2>1 DEF ProvideInv
<1>7. OverviewInv
  BY <1>1 DEF OverviewInv
<1>8. DiscoverInv
  BY <1>1 DEF DiscoverInv, RowInv
<1> QED
  BY <1>4, <1>5, <1>6, <1>7, <1>8 DEF IInv

\* Each operation keeps what its part of the invariant says, whatever is edited.
THEOREM ResolutionInvariant == Spec => []IInv
<1>1. Init => IInv
  BY InitialState
<1>2. IInv /\ [Next]_vars => IInv'
  BY ShapeNext, ResolveNext, ProvideNext, OverviewNext, DiscoverNext DEF IInv
<1> QED
  BY <1>1, <1>2, PTL DEF Spec

\* resolve_capabilities: a finished pool holds exactly the agents that were enabled and
\* matched all along, all of them authorized, and no agent is denied without reason.
THEOREM PoolIsExact == Spec => []PoolExact
<1>1. IInv => PoolExact
  BY PoolFollows DEF IInv
<1> QED
  BY <1>1, ResolutionInvariant, PTL

\* resolve_many and GET /overview: what is handed out or linked was so all along, or
\* somebody has edited it meanwhile.
THEOREM ProviderIsExact == Spec => []ProviderExact
<1>1. IInv => ProviderExact
  BY ProviderFollows DEF IInv
<1> QED
  BY <1>1, ResolutionInvariant, PTL

\* discover_all_enabled: of tools nobody else edits the registry has what their servers
\* offer, also after a pass that broke off or wrote a tool twice.
THEOREM DiscoveryIsFaithful == Spec => []DiscoveryMirrors
<1>1. IInv => DiscoveryMirrors
  BY MirrorsFollow DEF IInv
<1> QED
  BY <1>1, ResolutionInvariant, PTL
===============================================================================
