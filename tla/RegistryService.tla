---------------------------- MODULE RegistryService ----------------------------
(***************************************************************************)
(* The registry service (registry-service/app): the handlers that register,*)
(* change, enable, disable and delete agents, tools and MCP servers.       *)
(*                                                                         *)
(* FastAPI runs the handlers in a pool of threads.  A handler executes its *)
(* SQL statements one by one, each atomic under the lock of H2Database,    *)
(* with no transaction around them: between the SELECT of a handler and    *)
(* its UPDATE or INSERT any other handler may execute.                     *)
(***************************************************************************)
EXTENDS Naturals

CONSTANTS
  AgentIds, \* ids of agents
  OtherIds, \* ids of tools and of MCP servers, whose services are alike
  Threads,  \* the worker threads, each with one request at a time
  Fields,   \* the fields of a row a PUT may change; those of "policy", which
            \* the service merges one by one, are fields of their own
  Values,   \* their values
  Contracts \* the <<field, value>> pairs that are a non-empty output_contract

Ids == AgentIds \cup OtherIds

ASSUME ServiceAssumption ==
  AgentIds \cap OtherIds = {} /\ Ids # {} /\ Values # {} /\ Contracts \subseteq Fields \X Values

VARIABLES
  table,  \* the rows of the database, a function on the registered ids
  pc,     \* idle, start, insert, write or answered, for each thread
  req,    \* its request
  row,    \* its local row: the row to insert, to write or to answer with
  code,   \* its status code
  latest  \* history: the threads whose write no other one has followed

vars == <<table, pc, req, row, code, latest>>

Rows    == [body : [Fields -> Values], enabled : BOOLEAN]
Partial == UNION {[F -> Values] : F \in SUBSET Fields}
Ops     == {"post", "put", "toggle", "delete"}
Codes   == {"none", "200", "201", "204", "404", "409", "500"}
Request == [op : Ops, id : Ids, body : Partial, enabled : BOOLEAN]
Blank   == [body |-> [f \in Fields |-> CHOOSE v \in Values : TRUE], enabled |-> FALSE]

NoRequest == [op |-> "delete", id |-> CHOOSE i \in Ids : TRUE,
              body |-> [f \in {} |-> f], enabled |-> TRUE]

\* A POST brings all fields, a PUT some of them and never "enabled", a PATCH
\* only whether to enable.
Offered ==
  {q \in Request : /\ q.op = "post" => DOMAIN q.body = Fields
                   /\ q.op \in {"toggle", "delete"} => DOMAIN q.body = {}
                   /\ q.op \in {"put", "delete"} => q.enabled}

Id(t)    == req[t].id
Known(t) == Id(t) \in DOMAIN table

Init ==
  /\ \E S \in SUBSET Ids : table \in [S -> Rows]
  /\ pc = [t \in Threads |-> "idle"] /\ req = [t \in Threads |-> NoRequest]
  /\ row = [t \in Threads |-> Blank] /\ code = [t \in Threads |-> "none"]
  /\ latest = {}

Receive(t) ==
  /\ pc[t] = "idle" /\ pc' = [pc EXCEPT ![t] = "start"]
  /\ \E q \in Offered : req' = [req EXCEPT ![t] = q]
  /\ UNCHANGED <<table, row, code, latest>>

Goes(t, step, r, c) ==
  /\ pc' = [pc EXCEPT ![t] = step] /\ row' = [row EXCEPT ![t] = r]
  /\ code' = [code EXCEPT ![t] = c]
  /\ req' = IF step = "idle" THEN [req EXCEPT ![t] = NoRequest] ELSE req

\* t wrote to its id: what others wrote there before is no longer the latest.
Overwrites(t) == latest' = {u \in latest : Id(u) # Id(t)} \cup {t}

-----------------------------------------------------------------------------
(* create(): SELECT whether the id exists, then INSERT.                    *)
Exists(t) ==
  /\ pc[t] = "start" /\ req[t].op = "post" /\ Known(t)
  /\ Goes(t, "answered", row[t], "409") /\ UNCHANGED <<table, latest>>

Vacant(t) ==
  /\ pc[t] = "start" /\ req[t].op = "post" /\ ~Known(t)
  /\ Goes(t, "insert", [body |-> req[t].body, enabled |-> req[t].enabled], "none")
  /\ UNCHANGED <<table, latest>>

\* "NOT NULL PRIMARY KEY"; the mutant is a table without it.
DuplicateMutant(t) == FALSE
Duplicate(t) == Known(t)

Refused(t) ==
  /\ pc[t] = "insert" /\ Duplicate(t)
  /\ Goes(t, "answered", row[t], "500") /\ UNCHANGED <<table, latest>>

Insert(t) ==
  /\ pc[t] = "insert" /\ ~Duplicate(t)
  /\ table' = [i \in DOMAIN table \cup {Id(t)} |-> IF i = Id(t) THEN row[t] ELSE table[i]]
  /\ Goes(t, "answered", row[t], "201") /\ Overwrites(t)

-----------------------------------------------------------------------------
(* update() and set_enabled(): SELECT the row, then UPDATE it.             *)
Changing(t) == pc[t] = "start" /\ req[t].op \in {"put", "toggle"}

NotFound(t) ==
  /\ Changing(t) /\ ~Known(t)
  /\ Goes(t, "answered", row[t], "404") /\ UNCHANGED <<table, latest>>

\* Nothing to change: the handler answers with the row it read.
Idle(q, r) == IF q.op = "put" THEN DOMAIN q.body = {} ELSE r.enabled = q.enabled

NoChange(t) ==
  /\ Changing(t) /\ Known(t) /\ Idle(req[t], table[Id(t)])
  /\ Goes(t, "answered", table[Id(t)], "200") /\ UNCHANGED <<table, latest>>

\* model_copy(update=...) of the row that was read; the mutant keeps nothing but
\* the fields the PUT brings.
UpdatedMutant(q, r) ==
  IF q.op = "put" THEN [r EXCEPT !.body = q.body] ELSE [r EXCEPT !.enabled = q.enabled]
Updated(q, r) ==
  IF q.op = "put"
  THEN [r EXCEPT !.body = [f \in Fields |-> IF f \in DOMAIN q.body THEN q.body[f] ELSE r.body[f]]]
  ELSE [r EXCEPT !.enabled = q.enabled]

Read(t) ==
  /\ Changing(t) /\ Known(t) /\ ~Idle(req[t], table[Id(t)])
  /\ Goes(t, "write", Updated(req[t], table[Id(t)]), "none")
  /\ UNCHANGED <<table, latest>>

\* What the UPDATE of update() makes of a row: the repository of agents writes
\* every column, those of tools and MCP servers all but "enabled".  The mutant
\* leaves it out for agents, too.
PutMutant(id, mine, stored) == [mine EXCEPT !.enabled = stored.enabled]
Put(id, mine, stored) ==
  IF id \in AgentIds THEN mine ELSE [mine EXCEPT !.enabled = stored.enabled]

\* And the one of set_enabled(): a statement of its own for agents, the same as
\* that of update() for tools and MCP servers.  The mutant uses the latter for agents,
\* too.
ToggledMutant(id, mine, stored) == Put(id, mine, stored)
Toggled(id, mine, stored) ==
  IF id \in AgentIds THEN [stored EXCEPT !.enabled = mine.enabled]
                     ELSE Put(id, mine, stored)

Written(t) ==
  IF req[t].op = "put" THEN Put(Id(t), row[t], table[Id(t)])
                       ELSE Toggled(Id(t), row[t], table[Id(t)])

\* model_copy(update=...) leaves the contract of a PUT a dict, which has no
\* model_dump(): the repository of agents raises before it executes anything.
Unwritable(t) ==
  /\ req[t].op = "put" /\ Id(t) \in AgentIds
  /\ \E f \in DOMAIN req[t].body : <<f, req[t].body[f]>> \in Contracts

Raise(t) ==
  /\ pc[t] = "write" /\ Unwritable(t)
  /\ Goes(t, "answered", row[t], "500") /\ UNCHANGED <<table, latest>>

Write(t) ==
  /\ pc[t] = "write" /\ ~Unwritable(t) /\ Known(t)
  /\ table' = [table EXCEPT ![Id(t)] = Written(t)]
  /\ Goes(t, "answered", row[t], "200") /\ Overwrites(t)

\* No row is left to update, and the service does not look at the row count.
WriteNothing(t) ==
  /\ pc[t] = "write" /\ ~Unwritable(t) /\ ~Known(t)
  /\ Goes(t, "answered", row[t], "200") /\ UNCHANGED <<table, latest>>

-----------------------------------------------------------------------------
(* delete() and the answer.                                                *)
Delete(t) ==
  /\ pc[t] = "start" /\ req[t].op = "delete"
  /\ table' = [i \in DOMAIN table \ {Id(t)} |-> table[i]]
  /\ Goes(t, "answered", row[t], IF Known(t) THEN "204" ELSE "404")
  /\ latest' = {u \in latest : Id(u) # Id(t)}

Answer(t) ==
  /\ pc[t] = "answered" /\ Goes(t, "idle", Blank, "none")
  /\ latest' = latest \ {t} /\ UNCHANGED table

-----------------------------------------------------------------------------
Handle(t) ==
  \/ Exists(t) \/ Vacant(t) \/ Refused(t) \/ Insert(t)
  \/ NotFound(t) \/ NoChange(t) \/ Read(t) \/ Raise(t) \/ Write(t) \/ WriteNothing(t)
  \/ Delete(t) \/ Answer(t)

Next == \E t \in Threads : Receive(t) \/ Handle(t)

Spec == Init /\ [][Next]_vars

-----------------------------------------------------------------------------
\* Every variable has the type the code gives it.
TypeOK ==
  /\ DOMAIN table \subseteq Ids /\ table \in [DOMAIN table -> Rows]
  /\ pc \in [Threads -> {"idle", "start", "insert", "write", "answered"}]
  /\ req \in [Threads -> Offered] /\ row \in [Threads -> Rows]
  /\ code \in [Threads -> Codes] /\ latest \subseteq Threads

\* A handler that wrote last tells its client the truth about the row, although
\* it answers from the copy it made before it wrote: all fields for a POST or a
\* PUT, and for an agent whether it is enabled, too (AgentService).
AnswersHold ==
  \A t \in latest :
    /\ Known(t)
    /\ req[t].op # "toggle" => row[t].body = table[Id(t)].body
    /\ Id(t) \in AgentIds => row[t].enabled = table[Id(t)].enabled

\* Enabling or disabling an agent never touches its fields, however its SELECT
\* and its UPDATE interleave with a PUT: only a PUT changes them.
BodyKept ==
  [][\A id \in AgentIds : id \in DOMAIN table \cap DOMAIN table' =>
       \/ table'[id].body = table[id].body
       \/ \E t \in Threads : /\ pc[t] = "write" /\ pc'[t] = "answered"
                             /\ req[t].op = "put" /\ Id(t) = id]_vars

\* Refuted by the code: an agent that is disabled is enabled by nothing but a
\* request to enable it.
DisableStands ==
  [][\A id \in AgentIds :
       /\ id \in DOMAIN table \cap DOMAIN table'
       /\ ~table[id].enabled /\ table'[id].enabled
       => \E t \in Threads : /\ pc[t] = "write" /\ pc'[t] = "answered"
                             /\ req[t].op = "toggle" /\ Id(t) = id]_vars

-----------------------------------------------------------------------------
(* The ids behave as those of IdRegistry: the requests, several statements *)
(* long, are linearizable as far as they concern which ids exist.          *)
PhaseOf == [t \in Threads |-> CASE pc[t] = "idle" -> "idle"
                                [] pc[t] \in {"start", "insert"} -> "called"
                                [] OTHER -> "over"]
CallOf  == [t \in Threads |-> IF pc[t] = "idle" THEN [op |-> "none", id |-> "none"]
                              ELSE [op |-> req[t].op, id |-> Id(t)]]
Accepted(t) ==
  \/ pc[t] = "write" \/ code[t] \in {"200", "201", "204"}
  \/ code[t] = "500" /\ req[t].op = "put"
ResultOf == [t \in Threads |->
  IF Accepted(t) THEN "accepted" ELSE IF code[t] = "none" THEN "none" ELSE "refused"]

Registry == INSTANCE IdRegistry WITH
  ids <- DOMAIN table, phase <- PhaseOf, call <- CallOf, result <- ResultOf

\* A client that reads 201, 200 or 204 had an id that was free or known, one that
\* reads 404 or 409, or 500 for a POST, had not, at one moment of its request; no UPDATE brings
\* a deleted row back and no two registrations of one id both succeed.
IdsLinearizable == Registry!Spec
===============================================================================
