------------------------- MODULE RegistryServiceProofs -------------------------
(* Theorems about RegistryService for any number of threads, ids and fields. *)
EXTENDS RegistryService, TLAPS

\* Only a POST inserts, only a PUT or a PATCH updates.
StageInv ==
  \A t \in Threads : /\ pc[t] = "insert" => req[t].op = "post"
                     /\ pc[t] = "write" => req[t].op \in {"put", "toggle"}

\* The threads of "latest" are about to answer for a row that is still there.
LatestInv ==
  \A t \in latest : pc[t] = "answered" /\ req[t].op \in {"post", "put", "toggle"}

IInv == TypeOK /\ StageInv /\ LatestInv /\ AnswersHold

-----------------------------------------------------------------------------
LEMMA RequestType ==
  ASSUME NEW q \in Offered
  PROVE  /\ q.id \in Ids /\ q.op \in Ops /\ q.enabled \in BOOLEAN /\ q.body \in Partial
         /\ q.op = "post" => q.body \in [Fields -> Values]
         /\ DOMAIN q.body \subseteq Fields
         /\ \A f \in DOMAIN q.body : q.body[f] \in Values
BY DEF Offered, Request, Partial

LEMMA BlankType == Blank \in Rows
<1>1. (CHOOSE v \in Values : TRUE) \in Values  BY ServiceAssumption
<1>2. QED  BY <1>1 DEF Blank, Rows

LEMMA NoRequestType == NoRequest \in Offered
<1>1. (CHOOSE i \in Ids : TRUE) \in Ids  BY ServiceAssumption
<1>2. [f \in {} |-> f] \in [{} -> Values] /\ DOMAIN [f \in {} |-> f] = {}  OBVIOUS
<1>3. [f \in {} |-> f] \in Partial  BY <1>2 DEF Partial
<1>4. QED  BY <1>1, <1>2, <1>3 DEF NoRequest, Offered, Request, Ops

\* The row a handler computes from the one it read.
LEMMA UpdatedType ==
  ASSUME NEW q \in Offered, NEW r \in Rows
  PROVE  Updated(q, r) \in Rows
<1>1. q.enabled \in BOOLEAN /\ DOMAIN q.body \subseteq Fields
      /\ \A f \in DOMAIN q.body : q.body[f] \in Values
  BY RequestType
<1>2. [f \in Fields |-> IF f \in DOMAIN q.body THEN q.body[f] ELSE r.body[f]] \in [Fields -> Values]
  BY <1>1 DEF Rows
<1>3. QED  BY <1>1, <1>2 DEF Updated, Rows

\* The rows an UPDATE leaves behind.
LEMMA PutType ==
  ASSUME NEW r \in Rows, NEW s \in Rows, NEW id \in Ids
  PROVE  /\ Put(id, r, s) \in Rows /\ Put(id, r, s).body = r.body
         /\ id \in AgentIds => Put(id, r, s).enabled = r.enabled
BY DEF Put, Rows

LEMMA ToggledType ==
  ASSUME NEW r \in Rows, NEW s \in Rows, NEW id \in Ids
  PROVE  /\ Toggled(id, r, s) \in Rows
         /\ id \in AgentIds => /\ Toggled(id, r, s).enabled = r.enabled
                               /\ Toggled(id, r, s).body = s.body
BY PutType DEF Toggled, Rows

\* What every step of a handler does to its thread.
LEMMA GoesType ==
  ASSUME TypeOK, NEW t \in Threads,
         NEW step \in {"idle", "start", "insert", "write", "answered"},
         NEW r \in Rows, NEW c \in Codes, Goes(t, step, r, c)
  PROVE  /\ pc' \in [Threads -> {"idle", "start", "insert", "write", "answered"}]
         /\ req' \in [Threads -> Offered] /\ row' \in [Threads -> Rows]
         /\ code' \in [Threads -> Codes]
         /\ pc'[t] = step /\ row'[t] = r /\ code'[t] = c
         /\ step # "idle" => req' = req
         /\ \A u \in Threads : u # t => /\ pc'[u] = pc[u] /\ req'[u] = req[u]
                                        /\ row'[u] = row[u] /\ code'[u] = code[u]
BY NoRequestType DEF Goes, TypeOK

\* Of the steps of a handler, three write to the table.
LEMMA Writers ==
  ASSUME TypeOK, NEW t \in Threads, Handle(t)
  PROVE  \/ table' = table
         \/ Insert(t) \/ Write(t) \/ Delete(t)
BY DEF Handle, Exists, Vacant, Refused, NotFound, NoChange, Read, Raise, WriteNothing, Answer

LEMMA ServiceTypeInit == Init => TypeOK
<1> SUFFICES ASSUME Init PROVE TypeOK
  OBVIOUS
<1>1. DOMAIN table \subseteq Ids /\ table \in [DOMAIN table -> Rows]  BY DEF Init
<1>2. QED  BY <1>1, BlankType, NoRequestType DEF Init, TypeOK, Codes

LEMMA ServiceTypeNext == TypeOK /\ [Next]_vars => TypeOK'
<1> SUFFICES ASSUME TypeOK, [Next]_vars PROVE TypeOK'
  OBVIOUS
<1>1. ASSUME NEW t \in Threads, Receive(t) PROVE TypeOK'
  BY <1>1 DEF Receive, TypeOK
<1>2. ASSUME NEW t \in Threads, Handle(t) PROVE TypeOK'
  <2>0. req[t] \in Offered /\ row[t] \in Rows /\ Id(t) \in Ids /\ (Known(t) => table[Id(t)] \in Rows)
    BY RequestType DEF TypeOK, Id, Known
  <2>1. \E step \in {"idle", "start", "insert", "write", "answered"}, r \in Rows, c \in Codes :
          Goes(t, step, r, c)
    <3>1. CASE Vacant(t)
      <4>1. [body |-> req[t].body, enabled |-> req[t].enabled] \in Rows
        BY <2>0, <3>1, RequestType DEF Vacant, Rows
      <4>2. QED  BY <3>1, <4>1 DEF Vacant, Codes
    <3>2. CASE Read(t)
      <4>1. Updated(req[t], table[Id(t)]) \in Rows  BY <2>0, <3>2, UpdatedType DEF Read
      <4>2. QED  BY <3>2, <4>1 DEF Read, Codes
    <3>3. CASE NoChange(t)  BY <2>0, <3>3 DEF NoChange, Codes
    <3>4. CASE Answer(t)  BY <3>4, BlankType DEF Answer, Codes
    <3>5. CASE Exists(t) \/ Refused(t) \/ NotFound(t) \/ Insert(t)
      BY <2>0, <3>5 DEF Exists, Refused, NotFound, Insert, Codes
    <3>6. CASE Raise(t) \/ Write(t) \/ WriteNothing(t) \/ Delete(t)
      BY <2>0, <3>6 DEF Raise, Write, WriteNothing, Delete, Codes
    <3>7. QED  BY <1>2, <3>1, <3>2, <3>3, <3>4, <3>5, <3>6 DEF Handle
  <2>2. /\ pc' \in [Threads -> {"idle", "start", "insert", "write", "answered"}]
        /\ req' \in [Threads -> Offered] /\ row' \in [Threads -> Rows]
        /\ code' \in [Threads -> Codes]
    BY <2>1, GoesType
  <2>3. DOMAIN table' \subseteq Ids /\ table' \in [DOMAIN table' -> Rows]
    <3>1. CASE Insert(t)  BY <2>0, <3>1 DEF Insert, TypeOK
    <3>2. CASE Write(t)
      <4>1. Written(t) \in Rows  BY <2>0, <3>2, PutType, ToggledType DEF Write, Written
      <4>2. QED  BY <3>2, <4>1 DEF Write, TypeOK
    <3>3. CASE Delete(t)  BY <3>3 DEF Delete, TypeOK
    <3>4. QED  BY <1>2, <3>1, <3>2, <3>3, Writers DEF TypeOK
  <2>4. latest' \subseteq Threads
    <3>1. CASE Insert(t) \/ Write(t)  BY <3>1 DEF Insert, Write, Overwrites, TypeOK
    <3>2. CASE Delete(t) \/ Answer(t)  BY <3>2 DEF Delete, Answer, TypeOK
    <3>3. QED
      BY <1>2, <3>1, <3>2
      DEF Handle, Exists, Vacant, Refused, NotFound, NoChange, Read, Raise, WriteNothing, TypeOK
  <2>5. QED  BY <2>2, <2>3, <2>4 DEF TypeOK
<1>3. CASE UNCHANGED vars  BY <1>3 DEF vars, TypeOK
<1>4. QED  BY <1>1, <1>2, <1>3 DEF Next

\* Whatever the handlers' statements do to each other, every variable keeps its
\* type, the rows of the table included.
THEOREM ServiceTypeCorrect == Spec => []TypeOK
<1>1. QED  BY ServiceTypeInit, ServiceTypeNext, PTL DEF Spec

-----------------------------------------------------------------------------
LEMMA StageNext == TypeOK /\ StageInv /\ [Next]_vars => StageInv'
<1> SUFFICES ASSUME TypeOK, StageInv, [Next]_vars, NEW u \in Threads
             PROVE  /\ pc'[u] = "insert" => req'[u].op = "post"
                    /\ pc'[u] = "write" => req'[u].op \in {"put", "toggle"}
  BY DEF StageInv
<1>1. ASSUME NEW t \in Threads, Receive(t)
      PROVE  (pc'[u] = pc[u] /\ req'[u] = req[u]) \/ pc'[u] = "start"
  BY <1>1 DEF Receive, TypeOK
<1>2. ASSUME NEW t \in Threads, Handle(t)
      PROVE  \/ pc'[u] = pc[u] /\ req'[u] = req[u]
             \/ pc'[u] \in {"idle", "answered"}
             \/ pc'[u] = "insert" /\ req'[u].op = "post"
             \/ pc'[u] = "write" /\ req'[u].op \in {"put", "toggle"}
  <2>1. CASE u # t
    BY <1>2, <2>1
    DEF Handle, Goes, Exists, Vacant, Refused, Insert, NotFound, NoChange, Read, Raise, Write,
        WriteNothing, Delete, Answer, TypeOK
  <2>2. CASE u = t
    <3>1. CASE Vacant(t)  BY <2>2, <3>1 DEF Vacant, Goes, TypeOK
    <3>2. CASE Read(t)  BY <2>2, <3>2 DEF Read, Changing, Goes, TypeOK
    <3>3. QED
      BY <1>2, <2>2, <3>1, <3>2
      DEF Handle, Goes, Exists, Refused, Insert, NotFound, NoChange, Raise, Write,
          WriteNothing, Delete, Answer, TypeOK
  <2>3. QED  BY <2>1, <2>2
<1>3. UNCHANGED vars => pc'[u] = pc[u] /\ req'[u] = req[u]  BY DEF vars
<1>4. QED  BY <1>1, <1>2, <1>3 DEF Next, StageInv

\* A write to one id leaves the rows of all others alone.
LEMMA OtherRows ==
  ASSUME TypeOK, NEW t \in Threads, Handle(t), NEW id \in DOMAIN table, id # Id(t)
  PROVE  id \in DOMAIN table' /\ table'[id] = table[id]
<1>1. CASE Insert(t)  BY <1>1 DEF Insert
<1>2. CASE Write(t)  BY <1>2 DEF Write, TypeOK
<1>3. CASE Delete(t)  BY <1>3 DEF Delete
<1>4. QED  BY <1>1, <1>2, <1>3, Writers

\* What t is about to answer is what the table holds.
Holds(t) ==
  /\ pc[t] = "answered" /\ req[t].op \in {"post", "put", "toggle"}
  /\ Known(t)
  /\ req[t].op # "toggle" => row[t].body = table[Id(t)].body
  /\ Id(t) \in AgentIds => row[t].enabled = table[Id(t)].enabled

LEMMA AnswersNext == IInv /\ [Next]_vars => \A u \in latest' : Holds(u)'
<1> SUFFICES ASSUME IInv, [Next]_vars, NEW u \in latest' PROVE Holds(u)'
  OBVIOUS
<1>0. TypeOK /\ StageInv  BY DEF IInv
<1>1. u \in latest => u \in Threads /\ Holds(u)
  BY DEF IInv, TypeOK, LatestInv, AnswersHold, Holds
<1>2. ASSUME u \in latest, UNCHANGED <<pc[u], req[u], row[u]>>,
             Id(u) \in DOMAIN table', table'[Id(u)] = table[Id(u)]
      PROVE  Holds(u)'
  BY <1>1, <1>2 DEF Id, Known, Holds
<1>3. ASSUME NEW t \in Threads, Receive(t) PROVE Holds(u)'
  <2>1. u \in latest /\ table' = table  BY <1>3 DEF Receive
  <2>2. u # t  BY <1>1, <1>3, <2>1 DEF Receive, Holds
  <2>3. UNCHANGED <<pc[u], req[u], row[u]>>
    BY <1>0, <1>1, <1>3, <2>1, <2>2 DEF Receive, TypeOK
  <2>4. QED  BY <1>1, <1>2, <2>1, <2>3 DEF Holds, Known
<1>4. ASSUME NEW t \in Threads, Handle(t) PROVE Holds(u)'
  <2>0. req[t] \in Offered /\ row[t] \in Rows /\ Id(t) \in Ids
        /\ (Known(t) => table[Id(t)] \in Rows)
    BY <1>0, RequestType DEF TypeOK, Id, Known
  <2>1. ASSUME u \in latest, Id(u) # Id(t) PROVE Holds(u)'
    <3>1. u # t  BY <2>1
    <3>2. UNCHANGED <<pc[u], req[u], row[u]>>
      BY <1>0, <1>1, <1>4, <2>1, <3>1
      DEF Handle, Goes, Exists, Vacant, Refused, Insert, NotFound, NoChange, Read, Raise, Write,
          WriteNothing, Delete, Answer, TypeOK
    <3>3. Id(u) \in DOMAIN table  BY <1>1, <2>1 DEF Holds, Known
    <3>4. QED  BY <1>0, <1>2, <1>4, <2>1, <3>2, <3>3, OtherRows
  <2>2. CASE Insert(t)
    <3>1. latest' = {v \in latest : Id(v) # Id(t)} \cup {t}
      BY <2>2 DEF Insert, Overwrites
    <3>2. CASE u = t
      <4>1. req' = req /\ row'[t] = row[t] /\ pc'[t] = "answered"
        BY <1>0, <2>2 DEF Insert, Goes, TypeOK
      <4>2. req[t].op = "post"  BY <1>0, <2>2 DEF Insert, StageInv
      <4>3. Id(t) \in DOMAIN table' /\ table'[Id(t)] = row[t]  BY <2>2 DEF Insert
      <4>4. QED  BY <3>2, <4>1, <4>2, <4>3 DEF Holds, Known, Id
    <3>3. QED  BY <2>1, <3>1, <3>2
  <2>3. CASE Write(t)
    <3>1. latest' = {v \in latest : Id(v) # Id(t)} \cup {t}
      BY <2>3 DEF Write, Overwrites
    <3>2. CASE u = t
      <4>1. req' = req /\ row'[t] = row[t] /\ pc'[t] = "answered"
        BY <1>0, <2>3 DEF Write, Goes, TypeOK
      <4>2. req[t].op \in {"put", "toggle"}  BY <1>0, <2>3 DEF Write, StageInv
      <4>3. Known(t) /\ DOMAIN table' = DOMAIN table /\ table'[Id(t)] = Written(t)
        BY <1>0, <2>3 DEF Write, Known, TypeOK
      <4>4. /\ req[t].op = "put" => Written(t).body = row[t].body
            /\ Id(t) \in AgentIds => Written(t).enabled = row[t].enabled
        <5>1. /\ Put(Id(t), row[t], table[Id(t)]).body = row[t].body
              /\ Id(t) \in AgentIds =>
                   /\ Put(Id(t), row[t], table[Id(t)]).enabled = row[t].enabled
                   /\ Toggled(Id(t), row[t], table[Id(t)]).enabled = row[t].enabled
          <6>1. table[Id(t)] \in Rows  BY <2>0, <4>3
          <6>2. QED  BY <2>0, <6>1, PutType, ToggledType
        <5>2. QED  BY <4>2, <5>1 DEF Written
      <4>5. QED  BY <3>2, <4>1, <4>2, <4>3, <4>4 DEF Holds, Known, Id
    <3>3. QED  BY <2>1, <3>1, <3>2
  <2>4. CASE Delete(t)  BY <2>1, <2>4 DEF Delete
  <2>5. CASE Answer(t)
    <3>1. u \in latest /\ u # t /\ table' = table  BY <2>5 DEF Answer
    <3>2. UNCHANGED <<pc[u], req[u], row[u]>>
      BY <1>0, <1>1, <2>5, <3>1 DEF Answer, Goes, TypeOK
    <3>3. QED  BY <1>1, <1>2, <3>1, <3>2 DEF Holds, Known
  <2>6. CASE latest' = latest /\ table' = table /\ pc[t] # "answered"
    <3>1. u # t  BY <1>1, <2>6 DEF Holds
    <3>2. UNCHANGED <<pc[u], req[u], row[u]>>
      BY <1>0, <1>1, <1>4, <2>6, <3>1
      DEF Handle, Goes, Exists, Vacant, Refused, Insert, NotFound, NoChange, Read, Raise, Write,
          WriteNothing, Delete, Answer, TypeOK
    <3>3. QED  BY <1>1, <1>2, <2>6, <3>2 DEF Holds, Known
  <2>7. QED
    BY <1>4, <2>2, <2>3, <2>4, <2>5, <2>6
    DEF Handle, Exists, Vacant, Refused, NotFound, NoChange, Read, Raise, WriteNothing, Changing
<1>5. CASE UNCHANGED vars
  BY <1>1, <1>5 DEF vars, Holds, Known, Id
<1>6. QED  BY <1>3, <1>4, <1>5 DEF Next

LEMMA Stepwise == Spec => []IInv
<1>1. Init => IInv
  BY ServiceTypeInit DEF Init, IInv, StageInv, LatestInv, AnswersHold
<1>2. IInv /\ [Next]_vars => IInv'
  <2>1. IInv /\ [Next]_vars => TypeOK' /\ StageInv'
    BY ServiceTypeNext, StageNext DEF IInv
  <2>2. (\A u \in latest' : Holds(u)') => LatestInv' /\ AnswersHold'
    BY DEF LatestInv, AnswersHold, Holds
  <2>3. QED  BY <2>1, <2>2, AnswersNext DEF IInv
<1>3. QED  BY <1>1, <1>2, PTL DEF Spec

\* For any number of concurrent requests, a handler that was the last to write a
\* row answers what the row holds, although it computed the answer before.
THEOREM AnswersAreTrue == Spec => []AnswersHold
<1>1. IInv => AnswersHold  BY DEF IInv
<1>2. QED  BY <1>1, Stepwise, PTL

-----------------------------------------------------------------------------
\* A PATCH of an agent, whatever was written between its two statements, leaves
\* the agent's fields alone.
THEOREM FieldsKept == Spec => BodyKept
<1>1. IInv /\ [Next]_vars =>
        \A id \in AgentIds : id \in DOMAIN table \cap DOMAIN table' =>
          \/ table'[id].body = table[id].body
          \/ \E t \in Threads : /\ pc[t] = "write" /\ pc'[t] = "answered"
                                /\ req[t].op = "put" /\ Id(t) = id
  <2> SUFFICES ASSUME IInv, [Next]_vars, NEW id \in AgentIds,
                      id \in DOMAIN table, id \in DOMAIN table',
                      table'[id].body # table[id].body
               PROVE  \E t \in Threads : /\ pc[t] = "write" /\ pc'[t] = "answered"
                                         /\ req[t].op = "put" /\ Id(t) = id
    OBVIOUS
  <2>0. TypeOK /\ StageInv  BY DEF IInv
  <2>1. PICK t \in Threads : Handle(t)  BY DEF Next, Receive, vars
  <2>2. Id(t) = id  BY <2>0, <2>1, OtherRows
  <2>3. ~Insert(t)  BY <2>2 DEF Insert, Duplicate, Known
  <2>4. ~Delete(t)  BY <2>2 DEF Delete
  <2>5. Write(t)  BY <2>0, <2>1, <2>3, <2>4, Writers
  <2>6. pc[t] = "write" /\ pc'[t] = "answered" /\ table'[id] = Written(t)
    BY <2>0, <2>2, <2>5 DEF Write, Goes, TypeOK
  <2>7. req[t].op = "put" \/ req[t].op = "toggle"  BY <2>0, <2>6 DEF StageInv
  <2>8. req[t].op # "toggle"
    <3>1. req[t].op = "toggle" => Written(t) = Toggled(id, row[t], table[id])
      BY <2>2 DEF Written
    <3>2. row[t] \in Rows /\ table[id] \in Rows /\ id \in Ids  BY <2>0 DEF TypeOK, Ids
    <3>3. Toggled(id, row[t], table[id]).body = table[id].body  BY <3>2, ToggledType
    <3>4. QED  BY <2>6, <3>1, <3>3
  <2>9. QED  BY <2>2, <2>6, <2>7, <2>8
<1>2. QED  BY <1>1, Stepwise, PTL DEF Spec, BodyKept

-----------------------------------------------------------------------------
(* The refinement of IdRegistry.                                           *)

\* What answered requests say of their effect, and those that are still to write.
CodeInv ==
  \A t \in Threads : pc[t] \in {"idle", "start", "insert", "write"} => code[t] = "none"

LEMMA CodeNext == TypeOK /\ CodeInv /\ [Next]_vars => CodeInv'
<1> SUFFICES ASSUME TypeOK, CodeInv, [Next]_vars, NEW u \in Threads
             PROVE  pc'[u] \in {"idle", "start", "insert", "write"} => code'[u] = "none"
  BY DEF CodeInv
<1>1. ASSUME NEW t \in Threads, Receive(t) PROVE pc'[u] = "start" \/ pc'[u] = pc[u]
  BY <1>1 DEF Receive, TypeOK
<1>2. ASSUME NEW t \in Threads, Receive(t), pc'[u] = "start", pc'[u] # pc[u] PROVE pc[u] = "idle"
  BY <1>2 DEF Receive, TypeOK
<1>3. ASSUME NEW t \in Threads, Receive(t) PROVE code' = code
  BY <1>3 DEF Receive
<1>4. ASSUME NEW t \in Threads, Handle(t)
      PROVE  \/ pc'[u] = pc[u] /\ code'[u] = code[u]
             \/ pc'[u] = "answered" \/ code'[u] = "none"
  BY <1>4
  DEF Handle, Goes, Exists, Vacant, Refused, Insert, NotFound, NoChange, Read, Raise, Write,
      WriteNothing, Delete, Answer, TypeOK
<1>5. CASE UNCHANGED vars  BY <1>5 DEF vars, CodeInv
<1>6. QED  BY <1>1, <1>2, <1>3, <1>4, <1>5 DEF Next, CodeInv

LEMMA RefinesInit == Init => Registry!Init
<1> SUFFICES ASSUME Init PROVE Registry!Init
  OBVIOUS
<1>1. DOMAIN table \subseteq Ids  BY DEF Init
<1>2. \A t \in Threads : pc[t] = "idle" /\ code[t] = "none"  BY DEF Init
<1>3. QED
  BY <1>1, <1>2 DEF Registry!Init, Registry!Nothing, PhaseOf, CallOf, ResultOf, Accepted

\* A step of one thread is a step of that thread in the abstract registry.
LEMMA MappedStep ==
  ASSUME NEW t \in Threads,
         \A u \in Threads : u # t => UNCHANGED <<pc[u], req[u], code[u]>>
  PROVE  /\ PhaseOf' = [PhaseOf EXCEPT ![t] = PhaseOf'[t]]
         /\ CallOf' = [CallOf EXCEPT ![t] = CallOf'[t]]
         /\ ResultOf' = [ResultOf EXCEPT ![t] = ResultOf'[t]]
<1>1. PhaseOf' = [PhaseOf EXCEPT ![t] = PhaseOf'[t]]
  BY DEF PhaseOf
<1>2. CallOf' = [CallOf EXCEPT ![t] = CallOf'[t]]
  <2>1. \A u \in Threads : u # t => CallOf'[u] = CallOf[u]  BY DEF CallOf, Id
  <2>2. CallOf = [u \in Threads |-> CallOf[u]] /\ CallOf' = [u \in Threads |-> CallOf'[u]]
    BY DEF CallOf
  <2>3. QED  BY <2>1, <2>2
<1>3. ResultOf' = [ResultOf EXCEPT ![t] = ResultOf'[t]]
  <2>1. \A u \in Threads : u # t => ResultOf'[u] = ResultOf[u]  BY DEF ResultOf, Accepted
  <2>2. /\ ResultOf = [u \in Threads |-> ResultOf[u]]
        /\ ResultOf' = [u \in Threads |-> ResultOf'[u]]
    BY DEF ResultOf
  <2>3. QED  BY <2>1, <2>2
<1>4. QED  BY <1>1, <1>2, <1>3

LEMMA MappedFunctions ==
  /\ PhaseOf = [u \in Threads |-> PhaseOf[u]]
  /\ CallOf = [u \in Threads |-> CallOf[u]]
  /\ ResultOf = [u \in Threads |-> ResultOf[u]]
BY DEF PhaseOf, CallOf, ResultOf, Accepted

LEMMA RefinesNext ==
  TypeOK /\ StageInv /\ CodeInv /\ [Next]_vars => [Registry!Next]_(Registry!vars)
<1> SUFFICES ASSUME TypeOK, StageInv, CodeInv, [Next]_vars
             PROVE  Registry!Next \/ UNCHANGED <<DOMAIN table, PhaseOf, CallOf, ResultOf>>
  BY DEF Registry!vars
<1>1. ASSUME NEW t \in Threads, Receive(t) PROVE Registry!Next
  <2>1. \A u \in Threads : u # t => UNCHANGED <<pc[u], req[u], code[u]>>
    BY <1>1 DEF Receive, TypeOK
  <2>2. pc[t] = "idle" /\ pc'[t] = "start" /\ req'[t] \in Offered /\ code' = code /\ table' = table
        /\ code[t] = "none"
    BY <1>1 DEF Receive, TypeOK, CodeInv
  <2>3. CallOf'[t] \in [op : Registry!Ops, id : Ids]
    BY <2>2, RequestType DEF CallOf, Registry!Ops, Ops, Id
  <2>4. PhaseOf[t] = "idle" /\ PhaseOf'[t] = "called" /\ ResultOf'[t] = ResultOf[t]
    BY <2>2 DEF PhaseOf, ResultOf, Accepted
  <2>5. ResultOf' = ResultOf  BY <2>1, <2>4, MappedStep DEF ResultOf, Accepted
  <2>6. Registry!Arrive(t)
    BY <2>1, <2>2, <2>3, <2>4, <2>5, MappedStep DEF Registry!Arrive
  <2>7. QED  BY <2>6 DEF Registry!Next
<1>2. ASSUME NEW t \in Threads, Handle(t)
      PROVE Registry!Next \/ UNCHANGED <<DOMAIN table, PhaseOf, CallOf, ResultOf>>
  <2>1. \A u \in Threads : u # t => UNCHANGED <<pc[u], req[u], code[u]>>
    BY <1>2
    DEF Handle, Goes, Exists, Vacant, Refused, Insert, NotFound, NoChange, Read, Raise, Write,
        WriteNothing, Delete, Answer, TypeOK
  <2>2. /\ PhaseOf' = [PhaseOf EXCEPT ![t] = PhaseOf'[t]]
        /\ CallOf' = [CallOf EXCEPT ![t] = CallOf'[t]]
        /\ ResultOf' = [ResultOf EXCEPT ![t] = ResultOf'[t]]
    BY <2>1, MappedStep
  <2> DEFINE c == [op |-> req[t].op, id |-> Id(t)]
  \* The moment at which the request takes effect.
  <2>3. ASSUME pc[t] \in {"start", "insert"}, pc'[t] \in {"write", "answered"}, req' = req,
               ResultOf'[t] = (IF Registry!Accepts(c) THEN "accepted" ELSE "refused"),
               DOMAIN table' = IF Registry!Accepts(c) THEN Registry!Effect(c) ELSE DOMAIN table
        PROVE  Registry!Next
    <3>1. PhaseOf[t] = "called" /\ PhaseOf'[t] = "over" /\ CallOf[t] = c /\ CallOf'[t] = c
      BY <2>3 DEF PhaseOf, CallOf, Id
    <3>2. CallOf' = CallOf  BY <2>2, <3>1 DEF CallOf
    <3>3. Registry!Take(t)  BY <2>2, <2>3, <3>1, <3>2 DEF Registry!Take
    <3>4. QED  BY <3>3 DEF Registry!Next
  \* The steps before it and after it.
  <2>4. ASSUME PhaseOf'[t] = PhaseOf[t], CallOf'[t] = CallOf[t], ResultOf'[t] = ResultOf[t],
               DOMAIN table' = DOMAIN table
        PROVE  UNCHANGED <<DOMAIN table, PhaseOf, CallOf, ResultOf>>
    BY <2>2, <2>4, MappedFunctions
  <2>5. Registry!Accepts(c) = IF req[t].op = "post" THEN Id(t) \notin DOMAIN table
                                                    ELSE Id(t) \in DOMAIN table
    BY DEF Registry!Accepts
  <2>6. CASE Exists(t) \/ Refused(t) \/ NotFound(t)
    <3>1. /\ pc[t] \in {"start", "insert"} /\ pc'[t] = "answered" /\ req' = req
          /\ code'[t] \in {"409", "500", "404"} /\ table' = table
          /\ (req[t].op = "post") <=> Known(t)
          /\ code'[t] = "500" => req[t].op = "post"
      BY <2>6
      DEF Exists, Refused, NotFound, Goes, Duplicate, Changing, StageInv, TypeOK
    <3>2. ~Registry!Accepts(c)  BY <2>5, <3>1 DEF Known
    <3>3. ResultOf'[t] = "refused"  BY <3>1 DEF ResultOf, Accepted
    <3>4. QED  BY <2>3, <3>1, <3>2, <3>3
  <2>7. CASE NoChange(t) \/ Read(t)
    <3>1. /\ pc[t] = "start" /\ req' = req /\ table' = table
          /\ pc'[t] = "write" \/ (pc'[t] = "answered" /\ code'[t] = "200")
          /\ req[t].op \in {"put", "toggle"} /\ Known(t)
      BY <2>7 DEF NoChange, Read, Goes, Changing, TypeOK
    <3>2. Registry!Accepts(c) /\ Registry!Effect(c) = DOMAIN table
      BY <2>5, <3>1 DEF Known, Registry!Effect
    <3>3. ResultOf'[t] = "accepted"  BY <3>1 DEF ResultOf, Accepted
    <3>4. QED  BY <2>3, <3>1, <3>2, <3>3
  <2>8. CASE Insert(t)
    <3>1. /\ pc[t] = "insert" /\ req' = req /\ pc'[t] = "answered" /\ code'[t] = "201"
          /\ DOMAIN table' = DOMAIN table \cup {Id(t)}
          /\ req[t].op = "post" /\ ~Known(t)
      BY <2>8 DEF Insert, Duplicate, Goes, StageInv, TypeOK
    <3>2. Registry!Accepts(c) /\ Registry!Effect(c) = DOMAIN table'
      BY <2>5, <3>1 DEF Known, Registry!Effect
    <3>3. ResultOf'[t] = "accepted"  BY <3>1 DEF ResultOf, Accepted
    <3>4. QED  BY <2>3, <3>1, <3>2, <3>3
  <2>9. CASE Delete(t)
    <3>1. /\ pc[t] = "start" /\ req' = req /\ pc'[t] = "answered"
          /\ code'[t] = IF Known(t) THEN "204" ELSE "404"
          /\ DOMAIN table' = DOMAIN table \ {Id(t)} /\ req[t].op = "delete"
      BY <2>9 DEF Delete, Goes, TypeOK
    <3>2. Registry!Accepts(c) <=> Known(t)  BY <2>5, <3>1 DEF Known
    <3>3. Registry!Effect(c) = DOMAIN table'  BY <3>1 DEF Registry!Effect
    <3>4. ~Known(t) => DOMAIN table' = DOMAIN table  BY <3>1 DEF Known
    <3>5. ResultOf'[t] = IF Known(t) THEN "accepted" ELSE "refused"  BY <3>1 DEF ResultOf, Accepted
    <3>6. CASE Known(t)  BY <2>3, <3>1, <3>2, <3>3, <3>5, <3>6
    <3>7. CASE ~Known(t)  BY <2>3, <3>1, <3>2, <3>4, <3>5, <3>7
    <3>8. QED  BY <3>6, <3>7
  <2>10. CASE Vacant(t)
    <3>1. /\ pc[t] = "start" /\ req' = req /\ pc'[t] = "insert" /\ code'[t] = "none"
          /\ table' = table /\ code[t] = "none"
      BY <2>10 DEF Vacant, Goes, CodeInv, TypeOK
    <3>2. QED  BY <2>4, <3>1 DEF PhaseOf, CallOf, ResultOf, Accepted, Id
  <2>11. CASE Raise(t) \/ Write(t) \/ WriteNothing(t)
    <3>1. /\ pc[t] = "write" /\ req' = req /\ pc'[t] = "answered"
          /\ code'[t] = "200" \/ (code'[t] = "500" /\ req[t].op = "put")
          /\ DOMAIN table' = DOMAIN table
      BY <2>11 DEF Raise, Unwritable, Write, WriteNothing, Goes, TypeOK
    <3>2. QED  BY <2>4, <3>1 DEF PhaseOf, CallOf, ResultOf, Accepted, Id
  <2>12. CASE Answer(t)
    <3>1. /\ pc[t] = "answered" /\ pc'[t] = "idle" /\ code'[t] = "none" /\ table' = table
      BY <2>12 DEF Answer, Goes, TypeOK
    <3>2. /\ PhaseOf[t] = "over" /\ PhaseOf'[t] = "idle"
          /\ CallOf'[t] = Registry!Nothing /\ ResultOf'[t] = "none"
      BY <3>1 DEF PhaseOf, CallOf, ResultOf, Accepted, Registry!Nothing
    <3>3. Registry!Leave(t)  BY <2>2, <3>1, <3>2 DEF Registry!Leave
    <3>4. QED  BY <3>3 DEF Registry!Next
  <2>13. QED
    BY <1>2, <2>6, <2>7, <2>8, <2>9, <2>10, <2>11, <2>12 DEF Handle
<1>3. CASE UNCHANGED vars
  BY <1>3 DEF vars, PhaseOf, CallOf, ResultOf, Accepted, Id
<1>4. QED  BY <1>1, <1>2, <1>3 DEF Next

\* The service implements IdRegistry: which ids exist, and who is told so, is as
\* if every request took effect at one moment, for any number of threads.
THEOREM Linearizable == Spec => IdsLinearizable
<1>1. Init => CodeInv  BY DEF Init, CodeInv
<1>2. Spec => []CodeInv
  BY <1>1, ServiceTypeInit, ServiceTypeNext, CodeNext, PTL DEF Spec
<1>3. IInv => TypeOK /\ StageInv  BY DEF IInv
<1>4. QED
  BY <1>2, <1>3, Stepwise, RefinesInit, RefinesNext, PTL DEF Spec, IdsLinearizable, Registry!Spec
===============================================================================
