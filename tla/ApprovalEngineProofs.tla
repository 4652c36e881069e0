------------------------- MODULE ApprovalEngineProofs -------------------------
(* Theorems about ApprovalEngine for every set of agents, runs and routings. *)
EXTENDS ApprovalEngine, TLAPS

\* The gate consumes the recorded values in order, then the one resume() brought.
Replaying(r) ==
  /\ cnt[r] <= Len(saved[r]) + 1
  /\ cnt[r] > Len(saved[r]) => input[r] # "none"

TypeInv == TypeOK /\ \A r \in Runs : Replaying(r)

-----------------------------------------------------------------------------
\* Why the positions of one run and the recorded answers match.  An agent is
\* asked about at its first position only.
FirstFlagged(r, i) ==
  /\ i \in DOMAIN routing[r] /\ NeedsApproval(routing[r][i])
  /\ \A j \in DOMAIN routing[r] : j < i => routing[r][j] # routing[r][i]

\* Interrupts were raised at first positions, in order, leaving none out.
AskedInOrder(r) ==
  /\ \A k \in DOMAIN asked[r] : FirstFlagged(r, asked[r][k])
  /\ \A k, l \in DOMAIN asked[r] : k < l => asked[r][k] < asked[r][l]
  /\ \A i \in DOMAIN routing[r] : \A l \in DOMAIN asked[r] :
       FirstFlagged(r, i) /\ i <= asked[r][l] => \E k \in DOMAIN asked[r] : asked[r][k] = i

\* A run waits with one more question than recorded answers.
OneOpenQuestion(r) ==
  /\ pc[r] = "awaiting" => Len(asked[r]) = Len(saved[r]) + 1
  /\ pc[r] = "gate" /\ input[r] # "none" => Len(asked[r]) = Len(saved[r]) + 1
  /\ pc[r] = "gate" /\ input[r] = "none" => asked[r] = <<>> /\ saved[r] = <<>>

AskedAgent(r, k) == routing[r][asked[r][k]]

\* The recorded values are the human's answers for the agents asked about.
AnswersRecorded(r) ==
  /\ \A k \in DOMAIN saved[r] :
       k \in DOMAIN asked[r] /\ saved[r][k] = answer[r][AskedAgent(r, k)]
  /\ pc[r] = "gate" /\ input[r] # "none" =>
       input[r] = answer[r][AskedAgent(r, Len(asked[r]))]
  /\ \A a \in Agents : answer[r][a] # "none" =>
       \E k \in DOMAIN asked[r] : AskedAgent(r, k) = a

\* While the gate executes, cnt separates the questions behind it from those
\* ahead, and the lists hold the answers to the former.
GateProgress(r) ==
  /\ pos[r] \in 1..(Len(routing[r]) + 1)
  /\ cnt[r] <= Len(asked[r])
  /\ \A k \in DOMAIN asked[r] : (k <= cnt[r]) <=> (asked[r][k] < pos[r])
  /\ \A a \in Agents : (a \in approvals[r]) <=>
       \E k \in DOMAIN asked[r] : k <= cnt[r] /\ AskedAgent(r, k) = a /\ answer[r][a] = "approved"
  /\ \A a \in Agents : (a \in rejections[r]) <=>
       \E k \in DOMAIN asked[r] : k <= cnt[r] /\ AskedAgent(r, k) = a /\ answer[r][a] = "rejected"
  /\ \A j \in DOMAIN routing[r] :
       j < pos[r] /\ NeedsApproval(routing[r][j]) => routing[r][j] \in Decided(r)

\* Behind the gate the lists are the human's answers and nobody was forgotten.
GateSettled(r) ==
  /\ \A a \in Agents : (a \in rejections[r]) <=> (answer[r][a] = "rejected")
  /\ \A a \in Agents : (a \in approvals[r]) <=> (answer[r][a] = "approved")
  /\ \A a \in Selected(r) : NeedsApproval(a) => a \in Decided(r)
  /\ \A i \in DOMAIN work[r] :
       work[r][i].agent \in Selected(r) /\ work[r][i].agent \notin rejections[r]

ReplayInv(r) ==
  pc[r] # "idle" /\ undisturbed[r] =>
    /\ AskedInOrder(r) /\ OneOpenQuestion(r) /\ AnswersRecorded(r)
    /\ pc[r] \in {"gate", "awaiting"} => work[r] = <<>>
    /\ pc[r] = "gate" => GateProgress(r)
    /\ PastGate(r) => GateSettled(r)

IInv == TypeInv /\ \A r \in Runs : ReplayInv(r)

-----------------------------------------------------------------------------
\* Passes of the critic and supersteps of an invocation, node by node.
LoopInv(r) ==
  /\ pc[r] \in {"gate", "awaiting", "resolve", "execute", "propose"} => iterations[r] = 0
  /\ pc[r] \in {"critic", "refine"} => iterations[r] < MaxIterations
  /\ iterations[r] <= MaxIterations
  /\ pc[r] = "gate" => steps[r] = 1
  /\ pc[r] \in {"resolve", "execute"} => steps[r] = 2
  /\ pc[r] = "propose" => steps[r] = 3
  /\ pc[r] = "critic" => steps[r] = 2 * iterations[r] + 4
  /\ pc[r] = "refine" => steps[r] = 2 * iterations[r] + 3
  /\ RecursionLimit >= 2 * MaxIterations + 3 => pc[r] # "overrun"
-----------------------------------------------------------------------------
(* Type correctness.                                                       *)
LEMMA TypeInit == Init => TypeInv
BY EngineAssumption
   DEF Init, TypeInv, TypeOK, RegistryOK, BusOK, ControlOK, GateOK, TeamOK, ReviewOK,
       HistoryOK, Replaying, Statuses

\* A group of variables that does not change keeps its type.
LEMMA Frame ==
  /\ RegistryOK /\ UNCHANGED registry => RegistryOK'
  /\ BusOK /\ UNCHANGED bus => BusOK'
  /\ ControlOK /\ UNCHANGED <<pc, steps, routing, restarts>> => ControlOK'
  /\ GateOK /\ UNCHANGED gate => GateOK'
  /\ TeamOK /\ UNCHANGED team => TeamOK'
  /\ ReviewOK /\ UNCHANGED review => ReviewOK'
  /\ HistoryOK /\ UNCHANGED history => HistoryOK'
BY DEF RegistryOK, BusOK, ControlOK, GateOK, TeamOK, ReviewOK, HistoryOK,
       registry, bus, gate, team, review, history

\* An announcement keeps the event counters in range.
LEMMA AnnounceType ==
  ASSUME NEW log \in [EventKeys -> 0..2], NEW kind \in Kinds, NEW r \in Runs,
         NEW a \in Agents
  PROVE  /\ Announce(log, kind, r, a) \in [EventKeys -> 0..2]
         /\ Notified(log, r, a) \in [EventKeys -> 0..2]
         /\ Concluded(log, r, a, kind) \in [EventKeys -> 0..2]
<1>1. <<kind, r, a>> \in EventKeys /\ <<"pending", r, a>> \in EventKeys
  BY DEF EventKeys, Kinds
<1>2. Notified(log, r, a) \in [EventKeys -> 0..2]
  BY <1>1 DEF Announce, Notified
<1>3. QED  BY <1>1, <1>2 DEF Announce, Concluded

\* The agent at the gate's position is an agent.
LEMMA ItemType ==
  ASSUME ControlOK, NEW r \in Runs, pos[r] \in DOMAIN routing[r]
  PROVE  Item(r) \in Agents
BY DEF ControlOK, Item

\* interrupt() returns a decision or nothing; the gate appends decisions only.
LEMMA ReplyType ==
  ASSUME GateOK, NEW r \in Runs, Replaying(r)
  PROVE  /\ Reply(r) \in Decision \cup {"none"}
         /\ cnt[r] > Len(saved[r]) => input[r] \in Decision
         /\ Reply(r) # "none" => cnt[r] <= Len(saved[r])
         /\ Reply(r) # "none" /\ cnt[r] = Len(saved[r]) => input[r] # "none"
BY DEF GateOK, Reply, Replaying, Decision

\* The next superstep, or an exception, leaves well-typed control.
LEMMA EnterType ==
  ASSUME ControlOK, NEW r \in Runs, NEW node \in Working, Enter(r, node),
         UNCHANGED <<routing, restarts>>
  PROVE  ControlOK'
<1>1. CASE steps[r] < RecursionLimit
  <2>1. /\ pc' = [pc EXCEPT ![r] = node]
        /\ steps' = [steps EXCEPT ![r] = steps[r] + 1]
    BY <1>1 DEF Enter
  <2>2. QED  BY <2>1 DEF ControlOK
<1>2. CASE ~(steps[r] < RecursionLimit)  BY <1>2 DEF Enter, ControlOK, Ended
<1>3. QED  BY <1>1, <1>2

LEMMA FailType ==
  ASSUME ControlOK, NEW r \in Runs, Fail(r), UNCHANGED <<routing, restarts>>
  PROVE  ControlOK'
BY DEF Fail, ControlOK, Ended

LEMMA WorkType ==
  ASSUME TeamOK, NEW r \in Runs, NEW i \in DOMAIN work[r]
  PROVE  /\ work[r][i] \in Tasks /\ work[r][i].agent \in Agents
         /\ \A o : [work[r][i] EXCEPT !.out = o] = [agent |-> work[r][i].agent, out |-> o]
<1>1. work[r] \in Seq(Tasks)  BY DEF TeamOK
<1>2. work[r][i] \in Tasks  BY <1>1
<1>3. QED  BY <1>2 DEF Tasks

LEMMA StaffType ==
  ASSUME TeamOK, NEW r \in Runs, NEW O
  PROVE  Staff(r, O) \in SUBSET Agents
<1>1. \A i \in DOMAIN work[r] : work[r][i].agent \in Agents  BY WorkType
<1>2. QED  BY <1>1 DEF Staff

LEMMA TypeNext == TypeInv /\ [Next]_vars => TypeInv'
<1> SUFFICES ASSUME TypeInv, [Next]_vars PROVE TypeInv'
  OBVIOUS
<1> USE DEF TypeInv, TypeOK
<1>1. ASSUME NEW r \in Runs, NEW rt \in Routings, Start(r, rt)
       PROVE  TypeInv'
  <2>1. RegistryOK' /\ BusOK'
    BY <1>1, Frame DEF Start, gate, team, review, history
  <2>2. ControlOK'
    BY <1>1, EngineAssumption DEF Start, ControlOK, Working
  <2>3. GateOK'
    BY <1>1 DEF Start, GateOK, gate
  <2>4. TeamOK'
    BY <1>1 DEF Start, TeamOK, team
  <2>5. ReviewOK'
    BY <1>1 DEF Start, ReviewOK, Statuses, review
  <2>6. HistoryOK'
    BY <1>1 DEF Start, HistoryOK, history
  <2>7. ASSUME NEW q \in Runs PROVE Replaying(q)'
    BY <1>1 DEF Start, Replaying, gate, GateOK
  <2>8. QED  BY <2>1, <2>2, <2>3, <2>4, <2>5, <2>6, <2>7
<1>2. ASSUME NEW r \in Runs, NEW d \in Decision, Resume(r, d)
       PROVE  TypeInv'
  <2>1. RegistryOK' /\ BusOK' /\ TeamOK' /\ ReviewOK'
    BY <1>2, Frame DEF Resume, gate, history
  <2>2. ControlOK'
    BY <1>2 DEF Resume, ControlOK, Working
  <2>3. GateOK'
    BY <1>2, ItemType DEF Resume, GateOK, gate
  <2>4. HistoryOK'
    BY <1>2 DEF Resume, HistoryOK, history
  <2>5. ASSUME NEW q \in Runs PROVE Replaying(q)'
    BY <1>2 DEF Resume, Replaying, gate, GateOK
  <2>6. QED  BY <2>1, <2>2, <2>3, <2>4, <2>5
<1>3. ASSUME NEW r \in Runs, GateRepeat(r)
       PROVE  TypeInv'
  <2>1. RegistryOK' /\ ControlOK' /\ TeamOK' /\ ReviewOK' /\ HistoryOK'
    BY <1>3, Frame DEF GateRepeat, bus, gate
  <2>2. BusOK'
    BY <1>3, AnnounceType, ItemType DEF GateRepeat, BusOK, AtItem, Item, Kinds, bus
  <2>3. GateOK'
    BY <1>3, ItemType DEF GateRepeat, GateOK, gate
  <2>4. ASSUME NEW q \in Runs PROVE Replaying(q)'
    BY <1>3 DEF GateRepeat, Replaying, gate, GateOK
  <2>5. QED  BY <2>1, <2>2, <2>3, <2>4
<1>4. ASSUME NEW r \in Runs, GatePass(r)
       PROVE  TypeInv'
  <2>1. RegistryOK' /\ BusOK' /\ ControlOK' /\ TeamOK' /\ ReviewOK' /\ HistoryOK'
    BY <1>4, Frame DEF GatePass, gate
  <2>2. GateOK'
    BY <1>4, ItemType DEF GatePass, GateOK, gate
  <2>3. ASSUME NEW q \in Runs PROVE Replaying(q)'
    BY <1>4 DEF GatePass, Replaying, gate, GateOK
  <2>4. QED  BY <2>1, <2>2, <2>3
<1>5. ASSUME NEW r \in Runs, GateAsk(r)
       PROVE  TypeInv'
  <2>1. RegistryOK' /\ TeamOK' /\ ReviewOK' /\ HistoryOK'
    BY <1>5, Frame DEF GateAsk, bus, gate
  <2>2. BusOK'
    BY <1>5, AnnounceType, ItemType DEF GateAsk, BusOK, Undecided, AtItem, Kinds
  <2>3. ControlOK'
    BY <1>5 DEF GateAsk, ControlOK
  <2>4. GateOK'
    BY <1>5, ReplyType DEF GateAsk, GateOK
  <2>5. ASSUME NEW q \in Runs PROVE Replaying(q)'
    BY <1>5 DEF GateAsk, Replaying, gate, GateOK
  <2>6. QED  BY <2>1, <2>2, <2>3, <2>4, <2>5
<1>6. ASSUME NEW r \in Runs, GateDecide(r)
       PROVE  TypeInv'
  <2>1. RegistryOK' /\ ControlOK' /\ TeamOK' /\ ReviewOK' /\ HistoryOK'
    BY <1>6, Frame DEF GateDecide, bus, gate
  <2>2. BusOK'
    BY <1>6, AnnounceType, ItemType, ReplyType DEF GateDecide, BusOK, Undecided, AtItem, Kinds, Decision
  <2>3. GateOK'
    <3>1. Item(r) \in Agents  BY <1>6, ItemType DEF GateDecide, Undecided, AtItem
    <3>2. /\ approvals[r] \cup {Item(r)} \in SUBSET Agents
          /\ rejections[r] \cup {Item(r)} \in SUBSET Agents
      BY <3>1 DEF GateOK
    <3>3. \/ /\ approvals' = [approvals EXCEPT ![r] = approvals[r] \cup {Item(r)}]
             /\ UNCHANGED rejections
          \/ /\ rejections' = [rejections EXCEPT ![r] = rejections[r] \cup {Item(r)}]
             /\ UNCHANGED approvals
      BY <1>6 DEF GateDecide
    <3>4. approvals' \in [Runs -> SUBSET Agents] /\ rejections' \in [Runs -> SUBSET Agents]
      BY <3>2, <3>3 DEF GateOK
    <3>5. QED  BY <1>6, <3>4 DEF GateDecide, GateOK
  <2>4. ASSUME NEW q \in Runs PROVE Replaying(q)'
    BY <1>6, ReplyType DEF GateDecide, Replaying, GateOK
  <2>5. QED  BY <2>1, <2>2, <2>3, <2>4
<1>7. ASSUME NEW r \in Runs, GateAbort(r)
       PROVE  TypeInv'
  <2>1. RegistryOK' /\ GateOK' /\ TeamOK' /\ ReviewOK' /\ HistoryOK'
    BY <1>7, Frame DEF GateAbort, bus
  <2>2. BusOK'
    BY <1>7, AnnounceType, ItemType, ReplyType DEF GateAbort, BusOK, Undecided, AtItem, Kinds, Decision
  <2>3. ControlOK'
    BY <1>7 DEF GateAbort, ControlOK, Ended
  <2>4. ASSUME NEW q \in Runs PROVE Replaying(q)'
    BY <1>7 DEF GateAbort, Replaying, gate, GateOK
  <2>5. QED  BY <2>1, <2>2, <2>3, <2>4
<1>8. ASSUME NEW r \in Runs, GateDone(r)
       PROVE  TypeInv'
  <2>1. RegistryOK' /\ BusOK' /\ TeamOK' /\ ReviewOK' /\ HistoryOK'
    BY <1>8, Frame DEF GateDone, gate
  <2>2. ControlOK'
    BY <1>8, EnterType DEF GateDone, Working
  <2>3. GateOK'
    BY <1>8, ItemType DEF GateDone, GateOK, gate
  <2>4. ASSUME NEW q \in Runs PROVE Replaying(q)'
    BY <1>8 DEF GateDone, Replaying, gate, GateOK
  <2>5. QED  BY <2>1, <2>2, <2>3, <2>4
<1>9. ASSUME NEW r \in Runs, Resolve(r)
       PROVE  TypeInv'
  <2>1. RegistryOK' /\ BusOK' /\ ReviewOK' /\ HistoryOK'
    BY <1>9, Frame DEF Resolve, gate, team
  <2>2. ControlOK'
    BY <1>9, FailType DEF Resolve, ControlOK
  <2>3. GateOK'
    BY <1>9, ItemType DEF Resolve, GateOK, gate
  <2>4. TeamOK'
    <3>1. [agent |-> Item(r), out |-> "todo"] \in Tasks
      BY <1>9, ItemType DEF Resolve, Tasks
    <3>2. Append(work[r], [agent |-> Item(r), out |-> "todo"]) \in Seq(Tasks)
      BY <3>1 DEF TeamOK
    <3>3. QED  BY <1>9, <3>2 DEF Resolve, TeamOK
  <2>5. ASSUME NEW q \in Runs PROVE Replaying(q)'
    BY <1>9 DEF Resolve, Replaying, gate, GateOK
  <2>6. QED  BY <2>1, <2>2, <2>3, <2>4, <2>5
<1>10. ASSUME NEW r \in Runs, Resolved(r)
       PROVE  TypeInv'
  <2>1. RegistryOK' /\ BusOK' /\ GateOK' /\ TeamOK' /\ ReviewOK' /\ HistoryOK'
    BY <1>10, Frame DEF Resolved
  <2>2. ControlOK'
    BY <1>10 DEF Resolved, ControlOK, Working
  <2>3. ASSUME NEW q \in Runs PROVE Replaying(q)'
    BY <1>10 DEF Resolved, Replaying, gate, GateOK
  <2>4. QED  BY <2>1, <2>2, <2>3
<1>11. ASSUME NEW r \in Runs, NEW i \in DOMAIN work[r], NEW o \in Outcomes,
              Execute(r, i, o)
       PROVE  TypeInv'
  <2>1. RegistryOK' /\ BusOK' /\ GateOK' /\ ReviewOK' /\ HistoryOK'
    BY <1>11, Frame DEF Execute, team
  <2>2. ControlOK'
    BY <1>11, FailType DEF Execute, ControlOK
  <2>3. TeamOK'
    <3>1. work' = [work EXCEPT ![r] = [work[r] EXCEPT ![i] = [work[r][i] EXCEPT !.out = o]]]
      BY <1>11 DEF Execute, TeamOK
    <3>2. [work[r][i] EXCEPT !.out = o] \in Tasks
      BY WorkType DEF Tasks
    <3>3. [work[r] EXCEPT ![i] = [work[r][i] EXCEPT !.out = o]] \in Seq(Tasks)
      BY <3>2 DEF TeamOK
    <3>4. QED  BY <1>11, <3>1, <3>3 DEF Execute, TeamOK
  <2>4. ASSUME NEW q \in Runs PROVE Replaying(q)'
    BY <1>11 DEF Execute, Replaying, gate, GateOK
  <2>5. QED  BY <2>1, <2>2, <2>3, <2>4
<1>12. ASSUME NEW r \in Runs, Collect(r)
       PROVE  TypeInv'
  <2>1. RegistryOK' /\ BusOK' /\ GateOK' /\ ReviewOK' /\ HistoryOK'
    BY <1>12, Frame DEF Collect, team
  <2>2. ControlOK'
    BY <1>12, EnterType, FailType DEF Collect, Working
  <2>3. TeamOK'
    <3>1. CASE Staff(r, {"error"}) # {}  BY <1>12, <3>1 DEF Collect, TeamOK
    <3>2. CASE Staff(r, {"error"}) = {}
      <4>1. /\ results' = [results EXCEPT ![r] = Staff(r, Outcomes)]
            /\ violations' = [violations EXCEPT ![r] =
                               violations[r] \cup Staff(r, {"policy_violation"})]
            /\ UNCHANGED <<work, noAgents>>
        BY <1>12, <3>2 DEF Collect, TeamOK
      <4>2. Staff(r, Outcomes) \in SUBSET Agents
        BY StaffType
      <4>3. violations[r] \cup Staff(r, {"policy_violation"}) \in SUBSET Agents
        BY StaffType DEF TeamOK
      <4>4. QED  BY <4>1, <4>2, <4>3 DEF TeamOK
    <3>3. QED  BY <3>1, <3>2
  <2>4. ASSUME NEW q \in Runs PROVE Replaying(q)'
    BY <1>12 DEF Collect, Replaying, gate, GateOK
  <2>5. QED  BY <2>1, <2>2, <2>3, <2>4
<1>13. ASSUME NEW r \in Runs, Propose(r)
       PROVE  TypeInv'
  <2>1. RegistryOK' /\ BusOK' /\ GateOK' /\ ReviewOK' /\ HistoryOK'
    BY <1>13, Frame DEF Propose, team
  <2>2. ControlOK'
    BY <1>13, EnterType DEF Propose, Working
  <2>3. TeamOK'
    BY <1>13, ItemType DEF Propose, TeamOK, team
  <2>4. ASSUME NEW q \in Runs PROVE Replaying(q)'
    BY <1>13 DEF Propose, Replaying, gate, GateOK
  <2>5. QED  BY <2>1, <2>2, <2>3, <2>4
<1>14. ASSUME NEW r \in Runs, NEW valid \in BOOLEAN, Critic(r, valid)
       PROVE  TypeInv'
  <2>1. RegistryOK' /\ BusOK' /\ GateOK' /\ TeamOK' /\ HistoryOK'
    BY <1>14, Frame DEF Critic, review
  <2>2. ControlOK'
    BY <1>14, EnterType DEF Critic, RouteCritic, Working
  <2>3. ReviewOK'
    BY <1>14 DEF Critic, ReviewOK, review
  <2>4. ASSUME NEW q \in Runs PROVE Replaying(q)'
    BY <1>14 DEF Critic, Replaying, gate, GateOK
  <2>5. QED  BY <2>1, <2>2, <2>3, <2>4
<1>15. ASSUME NEW r \in Runs, Refine(r)
       PROVE  TypeInv'
  <2>1. RegistryOK' /\ BusOK' /\ GateOK' /\ TeamOK' /\ ReviewOK' /\ HistoryOK'
    BY <1>15, Frame DEF Refine
  <2>2. ControlOK'
    BY <1>15, EnterType DEF Refine, Working
  <2>3. ASSUME NEW q \in Runs PROVE Replaying(q)'
    BY <1>15 DEF Refine, Replaying, gate, GateOK
  <2>4. QED  BY <2>1, <2>2, <2>3
<1>16. ASSUME NEW r \in Runs, ReviewRaises(r)
       PROVE  TypeInv'
  <2>1. RegistryOK' /\ BusOK' /\ GateOK' /\ TeamOK' /\ ReviewOK' /\ HistoryOK'
    BY <1>16, Frame DEF ReviewRaises
  <2>2. ControlOK'
    BY <1>16, FailType DEF ReviewRaises
  <2>3. ASSUME NEW q \in Runs PROVE Replaying(q)'
    BY <1>16 DEF ReviewRaises, Replaying, gate, GateOK
  <2>4. QED  BY <2>1, <2>2, <2>3
<1>17. ASSUME NEW r \in Runs, Finalize(r)
       PROVE  TypeInv'
  <2>1. RegistryOK' /\ BusOK' /\ GateOK' /\ TeamOK' /\ HistoryOK'
    BY <1>17, Frame DEF Finalize, review
  <2>2. ControlOK'
    BY <1>17 DEF Finalize, ControlOK, Ended
  <2>3. ReviewOK'
    BY <1>17 DEF Finalize, ReviewOK, FinalStatus, Statuses, review
  <2>4. ASSUME NEW q \in Runs PROVE Replaying(q)'
    BY <1>17 DEF Finalize, Replaying, gate, GateOK
  <2>5. QED  BY <2>1, <2>2, <2>3, <2>4
<1>18. ASSUME NEW a \in Agents, RegistryChange(a)
       PROVE  TypeInv'
  <2>1. BusOK' /\ ControlOK' /\ GateOK' /\ TeamOK' /\ ReviewOK'
    BY <1>18, Frame DEF RegistryChange, registry, history
  <2>2. RegistryOK'
    BY <1>18 DEF RegistryChange, RegistryOK, registry
  <2>3. HistoryOK'
    BY <1>18 DEF RegistryChange, HistoryOK, history
  <2>4. ASSUME NEW q \in Runs PROVE Replaying(q)'
    BY <1>18 DEF RegistryChange, Replaying, gate, GateOK
  <2>5. QED  BY <2>1, <2>2, <2>3, <2>4
<1>19. ASSUME Restart
       PROVE  TypeInv'
  <2>1. RegistryOK' /\ GateOK' /\ TeamOK' /\ ReviewOK' /\ HistoryOK'
    BY <1>19, Frame DEF Restart, bus
  <2>2. ControlOK'
    BY <1>19 DEF Restart, ControlOK
  <2>3. BusOK'
    BY <1>19, AnnounceType, ItemType DEF Restart, BusOK, bus
  <2>4. ASSUME NEW q \in Runs PROVE Replaying(q)'
    BY <1>19 DEF Restart, Replaying, gate, GateOK
  <2>5. QED  BY <2>1, <2>2, <2>3, <2>4
<1>20. CASE UNCHANGED vars
  BY <1>20, Frame DEF vars, gate, Replaying
<1>21. QED
  BY <1>1, <1>2, <1>3, <1>4, <1>5, <1>6, <1>7, <1>8, <1>9, <1>10, <1>11, <1>12, <1>13, <1>14, <1>15, <1>16, <1>17, <1>18, <1>19, <1>20 DEF Next, Invoke, Human

\* Every variable keeps its type in every behaviour of the engine.
THEOREM TypeCorrect == Spec => []TypeOK
<1>1. TypeInv => TypeOK  BY DEF TypeInv
<1>2. Spec => []TypeInv  BY TypeInit, TypeNext, PTL DEF Spec
<1>3. QED  BY <1>1, <1>2, PTL

-----------------------------------------------------------------------------
(* The bounded loop.                                                       *)
LEMMA LoopInit == Init => \A r \in Runs : LoopInv(r)
BY EngineAssumption DEF Init, LoopInv

\* A run whose node, superstep count and pass count stay keeps its invariant.
LEMMA LoopFrame ==
  ASSUME NEW q \in Runs, LoopInv(q),
         pc'[q] = pc[q], steps'[q] = steps[q], iterations'[q] = iterations[q]
  PROVE  LoopInv(q)'
BY DEF LoopInv

LEMMA LoopNext ==
  TypeInv /\ (\A r \in Runs : LoopInv(r)) /\ [Next]_vars => (\A r \in Runs : LoopInv(r))'
<1> SUFFICES ASSUME TypeInv, \A r \in Runs : LoopInv(r), [Next]_vars, NEW q \in Runs
             PROVE  LoopInv(q)'
  OBVIOUS
<1> USE EngineAssumption DEF TypeInv, TypeOK, ControlOK, ReviewOK
<1>1. ASSUME NEW r \in Runs, NEW rt \in Routings, Start(r, rt)
       PROVE  LoopInv(q)'
  <2>1. CASE q # r  BY <1>1, <2>1, LoopFrame DEF Start
  <2>2. CASE q = r  BY <1>1, <2>2 DEF Start, LoopInv
  <2>3. QED  BY <2>1, <2>2
<1>2. ASSUME NEW r \in Runs, NEW d \in Decision, Resume(r, d)
       PROVE  LoopInv(q)'
  <2>1. CASE q # r  BY <1>2, <2>1, LoopFrame DEF Resume, review
  <2>2. CASE q = r  BY <1>2, <2>2 DEF Resume, review, LoopInv
  <2>3. QED  BY <2>1, <2>2
<1>3. ASSUME NEW r \in Runs, GateRepeat(r)
       PROVE  LoopInv(q)'
  BY <1>3, LoopFrame DEF GateRepeat, review
<1>4. ASSUME NEW r \in Runs, GatePass(r)
       PROVE  LoopInv(q)'
  BY <1>4, LoopFrame DEF GatePass, review
<1>5. ASSUME NEW r \in Runs, GateAsk(r)
       PROVE  LoopInv(q)'
  <2>1. CASE q # r  BY <1>5, <2>1, LoopFrame DEF GateAsk, review, Undecided, AtItem
  <2>2. CASE q = r  BY <1>5, <2>2 DEF GateAsk, review, Undecided, AtItem, LoopInv
  <2>3. QED  BY <2>1, <2>2
<1>6. ASSUME NEW r \in Runs, GateDecide(r)
       PROVE  LoopInv(q)'
  BY <1>6, LoopFrame DEF GateDecide, review
<1>7. ASSUME NEW r \in Runs, GateAbort(r)
       PROVE  LoopInv(q)'
  <2>1. CASE q # r  BY <1>7, <2>1, LoopFrame DEF GateAbort, review, Undecided, AtItem
  <2>2. CASE q = r  BY <1>7, <2>2 DEF GateAbort, review, Undecided, AtItem, LoopInv
  <2>3. QED  BY <2>1, <2>2
<1>8. ASSUME NEW r \in Runs, GateDone(r)
       PROVE  LoopInv(q)'
  <2>1. CASE q # r  BY <1>8, <2>1, LoopFrame DEF GateDone, review, Enter
  <2>2. CASE q = r  BY <1>8, <2>2 DEF GateDone, review, Enter, LoopInv
  <2>3. QED  BY <2>1, <2>2
<1>9. ASSUME NEW r \in Runs, Resolve(r)
       PROVE  LoopInv(q)'
  <2>1. CASE q # r  BY <1>9, <2>1, LoopFrame DEF Resolve, review, Fail
  <2>2. CASE q = r  BY <1>9, <2>2 DEF Resolve, review, Fail, LoopInv
  <2>3. QED  BY <2>1, <2>2
<1>10. ASSUME NEW r \in Runs, Resolved(r)
       PROVE  LoopInv(q)'
  <2>1. CASE q # r  BY <1>10, <2>1, LoopFrame DEF Resolved, review
  <2>2. CASE q = r  BY <1>10, <2>2 DEF Resolved, review, LoopInv
  <2>3. QED  BY <2>1, <2>2
<1>11. ASSUME NEW r \in Runs, NEW i \in DOMAIN work[r], NEW o \in Outcomes,
              Execute(r, i, o)
       PROVE  LoopInv(q)'
  <2>1. CASE q # r  BY <1>11, <2>1, LoopFrame DEF Execute, review, Fail
  <2>2. CASE q = r  BY <1>11, <2>2 DEF Execute, review, Fail, LoopInv
  <2>3. QED  BY <2>1, <2>2
<1>12. ASSUME NEW r \in Runs, Collect(r)
       PROVE  LoopInv(q)'
  <2>1. CASE q # r  BY <1>12, <2>1, LoopFrame DEF Collect, review, Fail, Enter
  <2>2. CASE q = r  BY <1>12, <2>2 DEF Collect, review, Fail, Enter, LoopInv
  <2>3. QED  BY <2>1, <2>2
<1>13. ASSUME NEW r \in Runs, Propose(r)
       PROVE  LoopInv(q)'
  <2>1. CASE q # r  BY <1>13, <2>1, LoopFrame DEF Propose, review, Enter
  <2>2. CASE q = r  BY <1>13, <2>2 DEF Propose, review, Enter, LoopInv
  <2>3. QED  BY <2>1, <2>2
<1>14. ASSUME NEW r \in Runs, NEW valid \in BOOLEAN, Critic(r, valid)
       PROVE  LoopInv(q)'
  <2>1. CASE q # r  BY <1>14, <2>1, LoopFrame DEF Critic, Enter, RouteCritic
  <2>2. CASE q = r  BY <1>14, <2>2 DEF Critic, Enter, RouteCritic, LoopInv
  <2>3. QED  BY <2>1, <2>2
<1>15. ASSUME NEW r \in Runs, Refine(r)
       PROVE  LoopInv(q)'
  <2>1. CASE q # r  BY <1>15, <2>1, LoopFrame DEF Refine, review, Enter
  <2>2. CASE q = r  BY <1>15, <2>2 DEF Refine, review, Enter, LoopInv
  <2>3. QED  BY <2>1, <2>2
<1>16. ASSUME NEW r \in Runs, ReviewRaises(r)
       PROVE  LoopInv(q)'
  <2>1. CASE q # r  BY <1>16, <2>1, LoopFrame DEF ReviewRaises, review, Fail
  <2>2. CASE q = r  BY <1>16, <2>2 DEF ReviewRaises, review, Fail, LoopInv
  <2>3. QED  BY <2>1, <2>2
<1>17. ASSUME NEW r \in Runs, Finalize(r)
       PROVE  LoopInv(q)'
  <2>1. CASE q # r  BY <1>17, <2>1, LoopFrame DEF Finalize
  <2>2. CASE q = r  BY <1>17, <2>2 DEF Finalize, LoopInv
  <2>3. QED  BY <2>1, <2>2
<1>18. ASSUME NEW a \in Agents, RegistryChange(a)
       PROVE  LoopInv(q)'
  BY <1>18, LoopFrame DEF RegistryChange, review
<1>19. ASSUME Restart
       PROVE  LoopInv(q)'
  BY <1>19 DEF Restart, review, LoopInv
<1>20. CASE UNCHANGED vars  BY <1>20, LoopFrame DEF vars, review
<1>21. QED
  BY <1>1, <1>2, <1>3, <1>4, <1>5, <1>6, <1>7, <1>8, <1>9, <1>10, <1>11, <1>12, <1>13, <1>14, <1>15, <1>16, <1>17, <1>18, <1>19, <1>20 DEF Next, Invoke, Human

\* However the critic, the specialists, the humans and the registry behave, the
\* critic runs at most max_iterations times; no run overruns a recursion limit
\* of at least 2 * max_iterations + 3.
THEOREM LoopIsBounded == Spec => []LoopBounded
<1>1. (\A r \in Runs : LoopInv(r)) => LoopBounded  BY DEF LoopInv, LoopBounded
<1>2. Spec => [](TypeInv /\ \A r \in Runs : LoopInv(r))
  BY TypeInit, TypeNext, LoopInit, LoopNext, PTL DEF Spec
<1>3. QED  BY <1>1, <1>2, PTL

-----------------------------------------------------------------------------
(* The replayed gate.                                                      *)
LEMMA ReplayInit == Init => \A r \in Runs : ReplayInv(r)
BY DEF Init, ReplayInv

\* Nothing the invariant of run q looks at changes.
Still(q) ==
  /\ UNCHANGED <<enabled, flagged>>
  /\ pc'[q] = pc[q] /\ routing'[q] = routing[q] /\ pos'[q] = pos[q]
  /\ cnt'[q] = cnt[q] /\ saved'[q] = saved[q] /\ input'[q] = input[q]
  /\ asked'[q] = asked[q] /\ approvals'[q] = approvals[q]
  /\ rejections'[q] = rejections[q] /\ work'[q] = work[q]
  /\ answer'[q] = answer[q] /\ undisturbed'[q] = undisturbed[q]

LEMMA ReplayFrame ==
  ASSUME NEW q \in Runs, ReplayInv(q), Still(q)
  PROVE  ReplayInv(q)'
<1> USE DEF Still
<1>2. AskedInOrder(q)' = AskedInOrder(q)
  BY DEF AskedInOrder, FirstFlagged, NeedsApproval
<1>3. OneOpenQuestion(q)' = OneOpenQuestion(q)  BY DEF OneOpenQuestion
<1>4. AnswersRecorded(q)' = AnswersRecorded(q)
  BY DEF AnswersRecorded, AskedAgent
<1>5. GateProgress(q)' = GateProgress(q)
  BY DEF GateProgress, AskedAgent, Decided, NeedsApproval
<1>6. GateSettled(q)' = GateSettled(q)
  BY DEF GateSettled, Selected, AgentsOf, Decided, NeedsApproval
<1>7. PastGate(q)' = PastGate(q)  BY DEF PastGate
<1>8. QED  BY <1>2, <1>3, <1>4, <1>5, <1>6, <1>7 DEF ReplayInv

\* A step of one run leaves the others alone.
LEMMA Others ==
  ASSUME TypeInv, NEW r \in Runs, NEW q \in Runs, q # r,
         Invoke(r) \/ Human(r) \/ \E rt \in Routings : Start(r, rt)
  PROVE  Still(q)
<1> USE DEF TypeInv, TypeOK, ControlOK, GateOK, TeamOK, HistoryOK, Still, registry, gate,
        team, history, Enter, Fail
<1>1. ASSUME NEW rt \in Routings, Start(r, rt) PROVE Still(q)  BY <1>1 DEF Start
<1>2. ASSUME NEW d \in Decision, Resume(r, d) PROVE Still(q)  BY <1>2 DEF Resume
<1>3. ASSUME GateRepeat(r) PROVE Still(q)  BY <1>3 DEF GateRepeat
<1>4. ASSUME GatePass(r) PROVE Still(q)  BY <1>4 DEF GatePass
<1>5. ASSUME GateAsk(r) PROVE Still(q)  BY <1>5 DEF GateAsk
<1>6. ASSUME GateDecide(r) PROVE Still(q)  BY <1>6 DEF GateDecide
<1>7. ASSUME GateAbort(r) PROVE Still(q)  BY <1>7 DEF GateAbort
<1>8. ASSUME GateDone(r) PROVE Still(q)  BY <1>8 DEF GateDone
<1>9. ASSUME Resolve(r) PROVE Still(q)  BY <1>9 DEF Resolve
<1>10. ASSUME Resolved(r) PROVE Still(q)  BY <1>10 DEF Resolved
<1>11. ASSUME NEW i \in DOMAIN work[r], NEW o \in Outcomes, Execute(r, i, o) PROVE Still(q)  BY <1>11 DEF Execute
<1>12. ASSUME Collect(r) PROVE Still(q)  BY <1>12 DEF Collect
<1>13. ASSUME Propose(r) PROVE Still(q)  BY <1>13 DEF Propose
<1>14. ASSUME NEW v \in BOOLEAN, Critic(r, v) PROVE Still(q)  BY <1>14 DEF Critic
<1>15. ASSUME Refine(r) PROVE Still(q)  BY <1>15 DEF Refine
<1>16. ASSUME ReviewRaises(r) PROVE Still(q)  BY <1>16 DEF ReviewRaises
<1>17. ASSUME Finalize(r) PROVE Still(q)  BY <1>17 DEF Finalize
<1>18. QED  BY <1>1, <1>2, <1>3, <1>4, <1>5, <1>6, <1>7, <1>8, <1>9, <1>10, <1>11, <1>12, <1>13, <1>14, <1>15, <1>16, <1>17 DEF Invoke, Human

\* The lists, the questions and the registry stay what they were.
KeepsGate(r) ==
  /\ UNCHANGED <<enabled, flagged>>
  /\ routing'[r] = routing[r] /\ saved'[r] = saved[r] /\ input'[r] = input[r]
  /\ asked'[r] = asked[r] /\ approvals'[r] = approvals[r]
  /\ rejections'[r] = rejections[r] /\ answer'[r] = answer[r]
  /\ undisturbed'[r] = undisturbed[r]

LEMMA KeepsQuestions ==
  ASSUME NEW r \in Runs, KeepsGate(r), AskedInOrder(r), AnswersRecorded(r),
         pc'[r] = "gate" => pc[r] = "gate"
  PROVE  AskedInOrder(r)' /\ AnswersRecorded(r)'
<1> USE DEF KeepsGate
<1>1. AskedInOrder(r)'  BY DEF AskedInOrder, FirstFlagged, NeedsApproval
<1>2. AnswersRecorded(r)'  BY DEF AnswersRecorded, AskedAgent
<1>3. QED  BY <1>1, <1>2

\* Behind the gate only agents that were selected and not rejected get work.
LEMMA ReplayPastGate ==
  ASSUME NEW r \in Runs, ReplayInv(r), KeepsGate(r), PastGate(r),
         pc'[r] \notin {"idle", "gate", "awaiting"},
         \A i \in DOMAIN work'[r] :
           \/ i \in DOMAIN work[r] /\ work'[r][i].agent = work[r][i].agent
           \/ work'[r][i].agent \in Selected(r) \ rejections[r]
  PROVE  ReplayInv(r)'
<1> SUFFICES ASSUME undisturbed[r] PROVE ReplayInv(r)'
  BY DEF ReplayInv, KeepsGate
<1>1. /\ AskedInOrder(r) /\ AnswersRecorded(r) /\ GateSettled(r)
  BY DEF ReplayInv, PastGate, Working
<1>2. AskedInOrder(r)' /\ AnswersRecorded(r)'  BY <1>1, KeepsQuestions
<1>3. OneOpenQuestion(r)'  BY DEF OneOpenQuestion
<1>4. GateSettled(r)'
  <2> USE <1>1 DEF KeepsGate, GateSettled
  <2>1. \A a \in Agents : /\ (a \in rejections'[r]) <=> (answer'[r][a] = "rejected")
                          /\ (a \in approvals'[r]) <=> (answer'[r][a] = "approved")
    OBVIOUS
  <2>2. \A a \in Selected(r)' : NeedsApproval(a)' => a \in Decided(r)'
    BY DEF Selected, AgentsOf, NeedsApproval, Decided
  <2>3. \A i \in DOMAIN work'[r] : work'[r][i].agent \in Selected(r) \ rejections[r]
    OBVIOUS
  <2>4. Selected(r)' = Selected(r)  BY DEF Selected, AgentsOf
  <2>5. QED  BY <2>1, <2>2, <2>3, <2>4
<1>5. QED  BY <1>2, <1>3, <1>4 DEF ReplayInv

\* What the gate's position says of the questions, when its agent is undecided
\* and needs approval: it is the first mention of the agent.
LEMMA NextQuestion ==
  ASSUME TypeInv, NEW r \in Runs, AskedInOrder(r), GateProgress(r),
         Undecided(r), NeedsApproval(Item(r))
  PROVE  /\ FirstFlagged(r, pos[r])
         /\ \A i \in DOMAIN routing[r] :
              FirstFlagged(r, i) /\ i < pos[r] =>
                \E k \in DOMAIN asked[r] : k <= cnt[r] /\ asked[r][k] = i
<1> USE DEF TypeInv, TypeOK, ControlOK, GateOK
<1>1. FirstFlagged(r, pos[r])
  BY DEF FirstFlagged, Undecided, AtItem, Item, GateProgress
<1>2. ASSUME NEW i \in DOMAIN routing[r], FirstFlagged(r, i), i < pos[r]
      PROVE  \E k \in DOMAIN asked[r] : k <= cnt[r] /\ asked[r][k] = i
  <2>1. routing[r][i] \in Decided(r) /\ routing[r][i] \in Agents
    BY <1>2 DEF GateProgress, FirstFlagged
  <2>2. PICK k \in DOMAIN asked[r] : k <= cnt[r] /\ AskedAgent(r, k) = routing[r][i]
    BY <2>1 DEF GateProgress, Decided
  <2>3. FirstFlagged(r, asked[r][k])  BY DEF AskedInOrder
  <2>4. asked[r][k] = i  BY <1>2, <2>2, <2>3 DEF FirstFlagged, AskedAgent
  <2>5. QED  BY <2>2, <2>4
<1>3. QED  BY <1>1, <1>2

LEMMA ReplayStart ==
  ASSUME TypeInv, NEW r \in Runs, NEW rt \in Routings, Start(r, rt)
  PROVE  ReplayInv(r)'
<1> USE EngineAssumption DEF TypeInv, TypeOK, ControlOK, GateOK, TeamOK, HistoryOK
<1>1. /\ pc'[r] = "gate" /\ pos'[r] = 1 /\ cnt'[r] = 0 /\ saved'[r] = <<>>
      /\ input'[r] = "none" /\ asked'[r] = <<>> /\ approvals'[r] = {}
      /\ rejections'[r] = {} /\ work'[r] = <<>>
      /\ routing'[r] = rt /\ answer'[r] = [a \in Agents |-> "none"]
  BY DEF Start
<1>2. AskedInOrder(r)' /\ OneOpenQuestion(r)' /\ AnswersRecorded(r)'
  BY <1>1 DEF AskedInOrder, OneOpenQuestion, AnswersRecorded
<1>3. GateProgress(r)'  BY <1>1 DEF GateProgress
<1>4. ~PastGate(r)'  BY <1>1 DEF PastGate
<1>5. QED  BY <1>1, <1>2, <1>3, <1>4 DEF ReplayInv

LEMMA ReplayResume ==
  ASSUME TypeInv, NEW r \in Runs, ReplayInv(r), NEW d \in Decision, Resume(r, d)
  PROVE  ReplayInv(r)'
<1> USE DEF TypeInv, TypeOK, ControlOK, GateOK, TeamOK, HistoryOK
<1> DEFINE n == Len(asked[r])
<1>1. /\ pc[r] = "awaiting" /\ pc'[r] = "gate" /\ pos'[r] = 1 /\ cnt'[r] = 0
      /\ saved'[r] = saved[r] /\ input'[r] = d /\ asked'[r] = asked[r]
      /\ approvals'[r] = {} /\ rejections'[r] = {} /\ work'[r] = work[r]
      /\ routing'[r] = routing[r] /\ undisturbed'[r] = undisturbed[r]
      /\ UNCHANGED <<enabled, flagged>>
      /\ answer'[r] = [answer[r] EXCEPT ![PendingAgent(r)] = d]
  BY DEF Resume, registry, team, review
<1> SUFFICES ASSUME undisturbed[r] PROVE ReplayInv(r)'
  BY <1>1 DEF ReplayInv
<1>2. /\ AskedInOrder(r) /\ AnswersRecorded(r) /\ n = Len(saved[r]) + 1
      /\ work[r] = <<>>
  BY <1>1 DEF ReplayInv, OneOpenQuestion
<1>3. n \in DOMAIN asked[r] /\ AskedAgent(r, n) = PendingAgent(r)
  BY <1>2 DEF AskedAgent, PendingAgent
<1>4. \A k \in DOMAIN asked[r] : asked[r][k] \in DOMAIN routing[r]
  BY <1>2 DEF AskedInOrder, FirstFlagged
<1>5. PendingAgent(r) \in Agents  BY <1>3, <1>4 DEF AskedAgent
<1>6. \A k \in DOMAIN saved[r] : k \in DOMAIN asked[r] /\ AskedAgent(r, k) # PendingAgent(r)
  <2> SUFFICES ASSUME NEW k \in DOMAIN saved[r]
               PROVE  k \in DOMAIN asked[r] /\ AskedAgent(r, k) # PendingAgent(r)
    OBVIOUS
  <2>1. k \in DOMAIN asked[r] /\ k < n  BY <1>2
  <2>2. asked[r][k] < asked[r][n] /\ FirstFlagged(r, asked[r][n])
    BY <1>2, <1>3, <2>1 DEF AskedInOrder
  <2>3. QED  BY <1>3, <1>4, <2>1, <2>2 DEF FirstFlagged, AskedAgent
<1>7. AskedInOrder(r)'
  BY <1>1, <1>2 DEF AskedInOrder, FirstFlagged, NeedsApproval
<1>8. OneOpenQuestion(r)'  BY <1>1, <1>2 DEF OneOpenQuestion, Decision
<1>9. AnswersRecorded(r)'
  <2>1. \A k \in DOMAIN asked[r] : AskedAgent(r, k)' = AskedAgent(r, k)
    BY <1>1 DEF AskedAgent
  <2>2. \A k \in DOMAIN saved[r] : saved[r][k] = answer'[r][AskedAgent(r, k)]
    BY <1>1, <1>2, <1>4, <1>6 DEF AnswersRecorded, AskedAgent
  <2>3. d = answer'[r][AskedAgent(r, n)]
    BY <1>1, <1>3, <1>5
  <2>4. \A a \in Agents : answer'[r][a] # "none" =>
          \E k \in DOMAIN asked[r] : AskedAgent(r, k) = a
    BY <1>1, <1>2, <1>3 DEF AnswersRecorded
  <2>5. QED  BY <1>1, <1>3, <1>6, <2>1, <2>2, <2>3, <2>4 DEF AnswersRecorded
<1>10. GateProgress(r)'
  BY <1>1, <1>4 DEF GateProgress
<1>11. ~PastGate(r)'  BY <1>1 DEF PastGate
<1>12. QED  BY <1>1, <1>2, <1>7, <1>8, <1>9, <1>10, <1>11 DEF ReplayInv

\* The gate walks on without a question.
LEMMA ReplaySkip ==
  ASSUME TypeInv, NEW r \in Runs, ReplayInv(r), GateRepeat(r) \/ GatePass(r)
  PROVE  ReplayInv(r)'
<1> USE DEF TypeInv, TypeOK, ControlOK, GateOK
<1>1. /\ pc[r] = "gate" /\ pc'[r] = "gate" /\ pos[r] \in DOMAIN routing[r]
      /\ pos'[r] = pos[r] + 1 /\ cnt'[r] = cnt[r] /\ work'[r] = work[r]
      /\ KeepsGate(r)
  BY DEF GateRepeat, GatePass, Undecided, AtItem, KeepsGate, registry, team, history
<1>2. NeedsApproval(Item(r)) => Item(r) \in Decided(r)
  BY DEF GateRepeat, GatePass, Undecided
<1> SUFFICES ASSUME undisturbed[r] PROVE ReplayInv(r)'
  BY <1>1 DEF ReplayInv, KeepsGate
<1>3. /\ AskedInOrder(r) /\ AnswersRecorded(r) /\ OneOpenQuestion(r)
      /\ GateProgress(r) /\ work[r] = <<>>
  BY <1>1 DEF ReplayInv
<1>4. AskedInOrder(r)' /\ AnswersRecorded(r)'  BY <1>1, <1>3, KeepsQuestions
<1>5. OneOpenQuestion(r)'  BY <1>1, <1>3 DEF OneOpenQuestion, KeepsGate
<1>6. \A k \in DOMAIN asked[r] : asked[r][k] # pos[r]
  <2> SUFFICES ASSUME NEW k \in DOMAIN asked[r], asked[r][k] = pos[r] PROVE FALSE
    OBVIOUS
  <2>1. FirstFlagged(r, pos[r])  BY <1>3 DEF AskedInOrder
  <2>2. Item(r) \in Decided(r) /\ Item(r) \in Agents
    BY <1>1, <1>2, <2>1, ItemType DEF FirstFlagged, Item
  <2>3. PICK l \in DOMAIN asked[r] : l <= cnt[r] /\ AskedAgent(r, l) = Item(r)
    BY <1>3, <2>2 DEF GateProgress, Decided
  <2>4. asked[r][l] < pos[r] /\ asked[r][l] \in DOMAIN routing[r]
    BY <1>3, <2>3 DEF GateProgress, AskedInOrder, FirstFlagged
  <2>5. QED  BY <2>1, <2>3, <2>4 DEF FirstFlagged, AskedAgent, Item
<1>7. GateProgress(r)'
  <2>1. pos'[r] \in 1..(Len(routing[r]) + 1)  BY <1>1
  <2>2. \A k \in DOMAIN asked[r] : (k <= cnt[r]) <=> (asked[r][k] < pos[r] + 1)
    BY <1>3, <1>6 DEF GateProgress, AskedInOrder, FirstFlagged
  <2>3. \A j \in DOMAIN routing[r] :
          j < pos[r] + 1 /\ NeedsApproval(routing[r][j]) => routing[r][j] \in Decided(r)
    BY <1>1, <1>2, <1>3 DEF GateProgress, Item
  <2>4. (\A a : NeedsApproval(a)' <=> NeedsApproval(a)) /\ Decided(r)' = Decided(r)
    BY <1>1 DEF KeepsGate, NeedsApproval, Decided
  <2>5. QED  BY <1>1, <1>3, <2>1, <2>2, <2>3, <2>4 DEF GateProgress, KeepsGate, AskedAgent
<1>8. ~PastGate(r)'  BY <1>1 DEF PastGate
<1>9. QED  BY <1>1, <1>3, <1>4, <1>5, <1>7, <1>8 DEF ReplayInv

\* A question was put: it is the next one, and all earlier ones are answered.
LEMMA ReplayAsk ==
  ASSUME TypeInv, NEW r \in Runs, ReplayInv(r), GateAsk(r)
  PROVE  ReplayInv(r)'
<1> USE DEF TypeInv, TypeOK, ControlOK, GateOK
<1> DEFINE n == Len(asked[r])
<1>1. /\ pc[r] = "gate" /\ pc'[r] = "awaiting" /\ pos[r] \in DOMAIN routing[r]
      /\ asked'[r] = Append(asked[r], pos[r]) /\ input'[r] = input[r]
      /\ saved'[r] = IF cnt[r] > Len(saved[r]) THEN Append(saved[r], input[r])
                     ELSE saved[r]
      /\ work'[r] = work[r] /\ routing'[r] = routing[r] /\ answer'[r] = answer[r]
      /\ undisturbed'[r] = undisturbed[r] /\ UNCHANGED <<enabled, flagged>>
      /\ Undecided(r) /\ NeedsApproval(Item(r)) /\ Reply(r) = "none"
  BY DEF GateAsk, Undecided, AtItem, registry, team, history
<1> SUFFICES ASSUME undisturbed[r] PROVE ReplayInv(r)'
  BY <1>1 DEF ReplayInv
<1>2. /\ AskedInOrder(r) /\ AnswersRecorded(r) /\ OneOpenQuestion(r)
      /\ GateProgress(r) /\ work[r] = <<>>
  BY <1>1 DEF ReplayInv
<1>3. cnt[r] = n /\ Len(saved'[r]) = n
  <2>1. CASE input[r] = "none"
    BY <1>1, <1>2, <2>1 DEF OneOpenQuestion, GateProgress
  <2>2. CASE input[r] # "none"
    <3>1. n = Len(saved[r]) + 1  BY <1>1, <1>2, <2>2 DEF OneOpenQuestion
    <3>2. cnt[r] > Len(saved[r])
      <4>1. cnt[r] # Len(saved[r])  BY <1>1, <2>2 DEF Reply
      <4>2. CASE cnt[r] < Len(saved[r])
        <5>1. saved[r][cnt[r] + 1] \in Decision  BY <4>2
        <5>2. QED  BY <1>1, <4>2, <5>1 DEF Reply, Decision
      <4>3. QED  BY <4>1, <4>2
    <3>3. QED  BY <1>1, <1>2, <3>1, <3>2 DEF GateProgress
  <2>3. QED  BY <2>1, <2>2
<1>4. /\ FirstFlagged(r, pos[r])
      /\ \A k \in DOMAIN asked[r] : asked[r][k] < pos[r]
      /\ \A i \in DOMAIN routing[r] :
           FirstFlagged(r, i) /\ i < pos[r] => \E k \in DOMAIN asked[r] : asked[r][k] = i
  <2>1. \A k \in DOMAIN asked[r] : asked[r][k] < pos[r]
    BY <1>2, <1>3 DEF GateProgress
  <2>2. QED  BY <1>1, <1>2, <2>1, NextQuestion
<1>5. \A i : FirstFlagged(r, i)' <=> FirstFlagged(r, i)
  BY <1>1 DEF FirstFlagged, NeedsApproval
<1>6. /\ DOMAIN asked'[r] = 1..(n + 1) /\ DOMAIN asked[r] = 1..n /\ n \in Nat
      /\ \A k \in 1..(n + 1) : k = n + 1 \/ k \in 1..n
      /\ asked'[r][n + 1] = pos[r]
      /\ \A k \in 1..n : asked'[r][k] = asked[r][k]
  BY <1>1
<1>7. AskedInOrder(r)'
  <2> HIDE DEF TypeInv, TypeOK, ControlOK, GateOK, n
  <2> DEFINE new == asked'[r]
  <2>0. new \in Seq(Nat) /\ pos[r] \in Nat /\ DOMAIN routing[r] \subseteq Nat
    BY <1>1 DEF TypeInv, TypeOK, ControlOK, GateOK
  <2>1. \A k \in DOMAIN asked'[r] : FirstFlagged(r, asked'[r][k]) /\ asked'[r][k] <= pos[r]
    <3> SUFFICES ASSUME NEW k \in 1..(n + 1)
                 PROVE  FirstFlagged(r, asked'[r][k]) /\ asked'[r][k] <= pos[r]
      BY <1>6
    <3>1. CASE k = n + 1  BY <1>4, <1>6, <2>0, <3>1
    <3>2. CASE k \in 1..n
      <4>1. FirstFlagged(r, asked[r][k]) /\ asked[r][k] < pos[r]
        BY <1>2, <1>4, <1>6, <3>2 DEF AskedInOrder
      <4>2. asked[r][k] = new[k] /\ new[k] \in Nat  BY <1>6, <2>0, <3>2
      <4>3. QED  BY <2>0, <4>1, <4>2
    <3>3. QED  BY <1>6, <3>1, <3>2
  <2>2. \A k, l \in DOMAIN asked'[r] : k < l => asked'[r][k] < asked'[r][l]
    <3> SUFFICES ASSUME NEW k \in 1..(n + 1), NEW l \in 1..(n + 1), k < l
                 PROVE  asked'[r][k] < asked'[r][l]
      BY <1>6
    <3> k \in 1..n  BY <1>6
    <3>1. CASE l = n + 1  BY <1>4, <1>6, <3>1
    <3>2. CASE l \in 1..n
      <4>1. asked[r][k] < asked[r][l]  BY <1>2, <1>6, <3>2 DEF AskedInOrder
      <4>2. QED  BY <1>6, <3>2, <4>1
    <3>3. QED  BY <1>6, <3>1, <3>2
  <2>3. ASSUME NEW i \in DOMAIN routing[r], NEW l \in DOMAIN asked'[r],
               FirstFlagged(r, i), i <= asked'[r][l]
        PROVE  \E k \in DOMAIN asked'[r] : asked'[r][k] = i
    <3>1. i <= pos[r]
      <4>1. asked'[r][l] <= pos[r] /\ asked'[r][l] \in DOMAIN routing[r]
        BY <2>1 DEF FirstFlagged
      <4>2. new[l] \in Nat /\ i \in Nat  BY <2>0, <4>1
      <4>3. QED  BY <2>0, <2>3, <4>1, <4>2
    <3>2. CASE i = pos[r]  BY <1>6, <3>2
    <3>3. CASE i < pos[r]  BY <1>4, <1>6, <2>3, <3>3
    <3>4. QED  BY <2>0, <3>1, <3>2, <3>3
  <2>4. QED  BY <1>1, <1>5, <2>1, <2>2, <2>3 DEF AskedInOrder
<1>8. OneOpenQuestion(r)'  BY <1>1, <1>3 DEF OneOpenQuestion
<1>9. AnswersRecorded(r)'
  <2>1. \A k \in 1..n : AskedAgent(r, k)' = AskedAgent(r, k)
    BY <1>1, <1>6 DEF AskedAgent
  <2>2. \A k \in DOMAIN saved'[r] :
          k \in 1..n /\ saved'[r][k] = answer[r][AskedAgent(r, k)]
    <3>1. CASE cnt[r] > Len(saved[r])
      <4>1. saved'[r] = Append(saved[r], input[r]) /\ n = Len(saved[r]) + 1
        BY <1>1, <1>3, <3>1
      <4>2. input[r] = answer[r][AskedAgent(r, n)]
        BY <1>1, <1>2, <3>1 DEF AnswersRecorded, Replaying
      <4>3. \A k \in DOMAIN saved[r] : saved[r][k] = answer[r][AskedAgent(r, k)]
        BY <1>2 DEF AnswersRecorded
      <4>4. QED  BY <1>2, <4>1, <4>2, <4>3
    <3>2. CASE ~(cnt[r] > Len(saved[r]))
      BY <1>1, <1>2, <1>3, <3>2 DEF AnswersRecorded
    <3>3. QED  BY <3>1, <3>2
  <2>3. \A a \in Agents : answer[r][a] # "none" => \E k \in 1..n : AskedAgent(r, k) = a
    BY <1>2, <1>6 DEF AnswersRecorded
  <2>4. 1..n \subseteq 1..(n + 1)  OBVIOUS
  <2>5. \A k \in DOMAIN saved'[r] :
          k \in DOMAIN asked'[r] /\ saved'[r][k] = answer'[r][AskedAgent(r, k)']
    BY <1>1, <1>6, <2>1, <2>2, <2>4
  <2>6. \A a \in Agents : answer'[r][a] # "none" =>
          \E k \in DOMAIN asked'[r] : AskedAgent(r, k)' = a
    BY <1>1, <1>6, <2>1, <2>3, <2>4
  <2>7. pc'[r] # "gate"  BY <1>1
  <2>8. QED  BY <2>5, <2>6, <2>7 DEF AnswersRecorded
<1>10. ~PastGate(r)'  BY <1>1 DEF PastGate, Working
<1>11. QED  BY <1>1, <1>2, <1>7, <1>8, <1>9, <1>10 DEF ReplayInv

\* What interrupt() returns is what the human answered for the agent at hand, the
\* next one asked about.
LEMMA ReplyIsAnswer ==
  ASSUME TypeInv, NEW r \in Runs, ReplayInv(r), undisturbed[r], Undecided(r),
         NeedsApproval(Item(r)), Reply(r) # "none"
  PROVE  /\ Reply(r) \in Decision /\ Reply(r) = answer[r][Item(r)]
         /\ input[r] # "none" /\ cnt[r] + 1 \in DOMAIN asked[r]
         /\ asked[r][cnt[r] + 1] = pos[r] /\ AskedAgent(r, cnt[r] + 1) = Item(r)
<1> USE DEF TypeInv, TypeOK, ControlOK, GateOK
<1> DEFINE next == cnt[r] + 1
<1>1. pc[r] = "gate" /\ pos[r] \in DOMAIN routing[r]  BY DEF Undecided, AtItem
<1>2. AskedInOrder(r) /\ AnswersRecorded(r) /\ OneOpenQuestion(r) /\ GateProgress(r)
  BY <1>1 DEF ReplayInv
<1>3. cnt[r] <= Len(saved[r]) /\ Reply(r) \in Decision  BY ReplyType
<1>4. input[r] # "none"
  BY <1>1, <1>2, <1>3, ReplyType DEF OneOpenQuestion, GateProgress
<1>5. Len(asked[r]) = Len(saved[r]) + 1 /\ next \in DOMAIN asked[r]
  BY <1>1, <1>2, <1>3, <1>4 DEF OneOpenQuestion
<1>6. asked[r][next] = pos[r]
  <2>1. FirstFlagged(r, pos[r])  BY <1>2, NextQuestion
  <2>2. asked[r][next] >= pos[r]
    BY <1>1, <1>2, <1>5 DEF GateProgress, AskedInOrder, FirstFlagged
  <2>3. PICK k \in DOMAIN asked[r] : asked[r][k] = pos[r]
    BY <1>1, <1>2, <1>5, <2>1, <2>2 DEF AskedInOrder
  <2>4. k > cnt[r]  BY <1>2, <2>3 DEF GateProgress
  <2>5. ~(next < k)  BY <1>2, <1>5, <2>2, <2>3 DEF AskedInOrder
  <2>6. QED  BY <2>3, <2>4, <2>5
<1>7. AskedAgent(r, next) = Item(r)  BY <1>6 DEF AskedAgent, Item
<1>8. Reply(r) = answer[r][Item(r)]
  <2>1. CASE cnt[r] < Len(saved[r])
    BY <1>2, <1>3, <1>7, <2>1 DEF Reply, AnswersRecorded
  <2>2. CASE cnt[r] = Len(saved[r])
    BY <1>1, <1>2, <1>3, <1>4, <1>5, <1>7, <2>2 DEF Reply, AnswersRecorded
  <2>3. QED  BY <1>3, <2>1, <2>2
<1>9. QED  BY <1>3, <1>4, <1>5, <1>6, <1>7, <1>8

\* A decision was taken: it is the human's answer for the agent at hand.
LEMMA ReplayDecide ==
  ASSUME TypeInv, NEW r \in Runs, ReplayInv(r), GateDecide(r)
  PROVE  ReplayInv(r)'
<1> USE DEF TypeInv, TypeOK, ControlOK, GateOK
<1> DEFINE next == cnt[r] + 1
<1>1. /\ pc[r] = "gate" /\ pc'[r] = "gate" /\ pos[r] \in DOMAIN routing[r]
      /\ pos'[r] = pos[r] + 1 /\ cnt'[r] = next /\ asked'[r] = asked[r]
      /\ input'[r] = input[r] /\ saved'[r] = saved[r] /\ work'[r] = work[r]
      /\ routing'[r] = routing[r] /\ answer'[r] = answer[r]
      /\ undisturbed'[r] = undisturbed[r] /\ UNCHANGED <<enabled, flagged>>
      /\ Undecided(r) /\ NeedsApproval(Item(r)) /\ Reply(r) # "none"
  BY DEF GateDecide, Undecided, AtItem, registry, team, history
<1>2. /\ approvals'[r] = approvals[r] \cup (IF Reply(r) = "approved" THEN {Item(r)} ELSE {})
      /\ rejections'[r] = rejections[r] \cup (IF Reply(r) = "approved" THEN {} ELSE {Item(r)})
  BY DEF GateDecide, Grants
<1> SUFFICES ASSUME undisturbed[r] PROVE ReplayInv(r)'
  BY <1>1 DEF ReplayInv
<1>3. /\ AskedInOrder(r) /\ AnswersRecorded(r) /\ OneOpenQuestion(r)
      /\ GateProgress(r) /\ work[r] = <<>>
  BY <1>1 DEF ReplayInv
<1>4. /\ Reply(r) \in Decision /\ Reply(r) = answer[r][Item(r)]
      /\ next \in DOMAIN asked[r] /\ asked[r][next] = pos[r]
      /\ AskedAgent(r, next) = Item(r)
  BY <1>1, ReplyIsAnswer
<1>5. AskedInOrder(r)' /\ AnswersRecorded(r)' /\ OneOpenQuestion(r)'
  <2>1. AskedInOrder(r)'  BY <1>1, <1>3 DEF AskedInOrder, FirstFlagged, NeedsApproval
  <2>2. AnswersRecorded(r)'  BY <1>1, <1>3 DEF AnswersRecorded, AskedAgent
  <2>3. OneOpenQuestion(r)'  BY <1>1, <1>3 DEF OneOpenQuestion
  <2>4. QED  BY <2>1, <2>2, <2>3
<1>6. GateProgress(r)'
  <2>1. pos'[r] \in 1..(Len(routing[r]) + 1) /\ cnt'[r] <= Len(asked[r])
    BY <1>1, <1>4
  <2>2. \A k \in DOMAIN asked[r] : (k <= next) <=> (asked[r][k] < pos[r] + 1)
    <3> SUFFICES ASSUME NEW k \in DOMAIN asked[r]
                 PROVE  (k <= next) <=> (asked[r][k] < pos[r] + 1)
      OBVIOUS
    <3>1. CASE k <= cnt[r]  BY <1>1, <1>3, <3>1 DEF GateProgress
    <3>2. CASE k = next  BY <1>1, <1>4, <3>2
    <3>3. CASE next < k  BY <1>1, <1>3, <1>4, <3>3 DEF AskedInOrder
    <3>4. QED  BY <3>1, <3>2, <3>3
  <2>3. \A a \in Agents : (a \in approvals'[r]) <=>
          \E k \in DOMAIN asked[r] : k <= next /\ AskedAgent(r, k) = a /\ answer[r][a] = "approved"
    BY <1>2, <1>3, <1>4 DEF GateProgress
  <2>4. \A a \in Agents : (a \in rejections'[r]) <=>
          \E k \in DOMAIN asked[r] : k <= next /\ AskedAgent(r, k) = a /\ answer[r][a] = "rejected"
    BY <1>2, <1>3, <1>4 DEF GateProgress, Decision
  <2>5. \A j \in DOMAIN routing[r] :
          j < pos[r] + 1 /\ NeedsApproval(routing[r][j])
            => routing[r][j] \in approvals'[r] \cup rejections'[r]
    BY <1>1, <1>2, <1>3 DEF GateProgress, Decided, Item
  <2>6. \A a : NeedsApproval(a)' <=> NeedsApproval(a)  BY <1>1 DEF NeedsApproval
  <2>7. \A k : AskedAgent(r, k)' = AskedAgent(r, k)  BY <1>1 DEF AskedAgent
  <2>8. QED  BY <1>1, <2>1, <2>2, <2>3, <2>4, <2>5, <2>6, <2>7 DEF GateProgress, Decided
<1>7. ~PastGate(r)'  BY <1>1 DEF PastGate
<1>8. QED  BY <1>1, <1>3, <1>5, <1>6, <1>7 DEF ReplayInv

LEMMA ReplayAbort ==
  ASSUME TypeInv, NEW r \in Runs, ReplayInv(r), GateAbort(r)
  PROVE  ReplayInv(r)'
<1> USE DEF TypeInv, TypeOK, ControlOK, GateOK
<1>1. /\ pc[r] = "gate" /\ pc'[r] = IF asked[r] = <<>> THEN "failed" ELSE "awaiting"
      /\ work'[r] = work[r] /\ KeepsGate(r)
  BY DEF GateAbort, Undecided, AtItem, KeepsGate, registry, gate, team, history
<1> SUFFICES ASSUME undisturbed[r] PROVE ReplayInv(r)'
  BY <1>1 DEF ReplayInv, KeepsGate
<1>2. AskedInOrder(r) /\ AnswersRecorded(r) /\ OneOpenQuestion(r) /\ work[r] = <<>>
  BY <1>1 DEF ReplayInv
<1>3. AskedInOrder(r)' /\ AnswersRecorded(r)'  BY <1>1, <1>2, KeepsQuestions
<1>4. OneOpenQuestion(r)'  BY <1>1, <1>2 DEF OneOpenQuestion, KeepsGate
<1>5. ~PastGate(r)' /\ pc'[r] # "gate"  BY <1>1 DEF PastGate, Working
<1>6. QED  BY <1>1, <1>2, <1>3, <1>4, <1>5 DEF ReplayInv

\* The gate is through: every question has its answer in the lists.
LEMMA ReplayDone ==
  ASSUME TypeInv, NEW r \in Runs, ReplayInv(r), GateDone(r)
  PROVE  ReplayInv(r)'
<1> USE DEF TypeInv, TypeOK, ControlOK, GateOK
<1>1. /\ pc[r] = "gate" /\ pc'[r] \in {"resolve", "overrun"}
      /\ pos[r] = Len(routing[r]) + 1 /\ work'[r] = work[r] /\ KeepsGate(r)
  BY DEF GateDone, Enter, KeepsGate, registry, team, history
<1> SUFFICES ASSUME undisturbed[r] PROVE ReplayInv(r)'
  BY <1>1 DEF ReplayInv, KeepsGate
<1>2. /\ AskedInOrder(r) /\ AnswersRecorded(r) /\ GateProgress(r) /\ work[r] = <<>>
  BY <1>1 DEF ReplayInv
<1>3. AskedInOrder(r)' /\ AnswersRecorded(r)'  BY <1>1, <1>2, KeepsQuestions
<1>4. OneOpenQuestion(r)'  BY <1>1 DEF OneOpenQuestion
<1>5. \A k \in DOMAIN asked[r] : k <= cnt[r]
  BY <1>1, <1>2 DEF AskedInOrder, FirstFlagged, GateProgress
<1>6. GateSettled(r)'
  <2>1. \A a \in Agents : /\ (a \in rejections[r]) <=> (answer[r][a] = "rejected")
                          /\ (a \in approvals[r]) <=> (answer[r][a] = "approved")
    BY <1>2, <1>5 DEF GateProgress, AnswersRecorded
  <2>2. \A a \in Selected(r) : NeedsApproval(a) => a \in Decided(r)
    BY <1>1, <1>2 DEF GateProgress, Selected, AgentsOf
  <2>3. QED
    BY <1>1, <1>2, <2>1, <2>2
       DEF GateSettled, KeepsGate, Selected, AgentsOf, NeedsApproval, Decided
<1>7. QED  BY <1>1, <1>3, <1>4, <1>6 DEF ReplayInv

\* Somebody edits an agent: runs that selected it are no longer undisturbed, to
\* the others it does not matter.
LEMMA ReplayRegistry ==
  ASSUME TypeInv, NEW q \in Runs, ReplayInv(q), NEW a \in Agents, RegistryChange(a)
  PROVE  ReplayInv(q)'
<1> USE DEF TypeInv, TypeOK, RegistryOK, ControlOK, GateOK, HistoryOK
<1>1. /\ UNCHANGED <<pc, routing, gate, work, answer>>
      /\ undisturbed'[q] => undisturbed[q] /\ a \notin Selected(q)
      /\ \A c \in Agents \ {a} : NeedsApproval(c)' <=> NeedsApproval(c)
  BY DEF RegistryChange, team, NeedsApproval
<1> SUFFICES ASSUME undisturbed'[q], pc[q] # "idle" PROVE ReplayInv(q)'
  BY <1>1 DEF ReplayInv
<1>2. /\ \A i \in DOMAIN routing[q] :
           NeedsApproval(routing[q][i])' <=> NeedsApproval(routing[q][i])
      /\ \A c \in Selected(q) : NeedsApproval(c)' <=> NeedsApproval(c)
  BY <1>1 DEF Selected, AgentsOf
<1>3. /\ AskedInOrder(q) /\ AnswersRecorded(q) /\ OneOpenQuestion(q)
      /\ pc[q] \in {"gate", "awaiting"} => work[q] = <<>>
      /\ pc[q] = "gate" => GateProgress(q)
      /\ PastGate(q) => GateSettled(q)
  BY <1>1 DEF ReplayInv
<1>4. \A i : FirstFlagged(q, i)' <=> FirstFlagged(q, i)
  BY <1>1, <1>2 DEF FirstFlagged
<1>5. AskedInOrder(q)'  BY <1>1, <1>3, <1>4 DEF AskedInOrder, gate
<1>6. AnswersRecorded(q)' /\ OneOpenQuestion(q)'
  BY <1>1, <1>3 DEF AnswersRecorded, OneOpenQuestion, AskedAgent, gate
<1>7. pc[q] = "gate" => GateProgress(q)'
  BY <1>1, <1>2, <1>3 DEF GateProgress, AskedAgent, Decided, gate
<1>8. PastGate(q) => GateSettled(q)'
  <2>1. Selected(q)' = Selected(q) /\ Decided(q)' = Decided(q)
    BY <1>1 DEF Selected, AgentsOf, Decided, gate
  <2>2. QED  BY <1>1, <1>2, <1>3, <2>1 DEF GateSettled, gate
<1>9. QED  BY <1>1, <1>3, <1>5, <1>6, <1>7, <1>8 DEF ReplayInv, PastGate

\* Behind the gate, in the words of ReplayPastGate.
LEMMA ReplayWork ==
  ASSUME TypeInv, NEW r \in Runs, ReplayInv(r),
         \/ Resolve(r) \/ Resolved(r) \/ Collect(r) \/ Propose(r) \/ Refine(r)
         \/ ReviewRaises(r) \/ Finalize(r)
         \/ \E i \in DOMAIN work[r], o \in Outcomes : Execute(r, i, o)
         \/ \E v \in BOOLEAN : Critic(r, v)
  PROVE  ReplayInv(r)'
<1> USE DEF TypeInv, TypeOK, ControlOK, GateOK, TeamOK, KeepsGate, PastGate, Working,
        registry, gate, team, history, Enter, Fail
<1>1. CASE Resolve(r)
  <2>1. /\ KeepsGate(r) /\ PastGate(r) /\ pc'[r] \in {"resolve", "failed"}
        /\ \/ work'[r] = work[r]
           \/ /\ Item(r) \in Selected(r) \ rejections[r]
              /\ work'[r] = Append(work[r], [agent |-> Item(r), out |-> "todo"])
    BY <1>1 DEF Resolve, Barred, Selected, AgentsOf, Item
  <2>2. \A i \in DOMAIN work'[r] :
          \/ i \in DOMAIN work[r] /\ work'[r][i].agent = work[r][i].agent
          \/ work'[r][i].agent \in Selected(r) \ rejections[r]
    <3>1. CASE work'[r] = work[r]  BY <3>1
    <3>2. CASE work'[r] = Append(work[r], [agent |-> Item(r), out |-> "todo"])
               /\ Item(r) \in Selected(r) \ rejections[r]
      <4>1. work[r] \in Seq(Tasks)  OBVIOUS
      <4>2. /\ Len(work'[r]) = Len(work[r]) + 1
            /\ DOMAIN work'[r] = 1..(Len(work[r]) + 1)
            /\ work'[r][Len(work[r]) + 1] = [agent |-> Item(r), out |-> "todo"]
            /\ \A i \in 1..Len(work[r]) : work'[r][i] = work[r][i]
        <5> HIDE DEF TypeInv, TypeOK, ControlOK, GateOK, TeamOK, KeepsGate, PastGate
        <5>1. [agent |-> Item(r), out |-> "todo"] \in [agent : {Item(r)}, out : {"todo"}]
          OBVIOUS
        <5>2. QED  BY <3>2, <4>1
      <4>3. QED  BY <3>2, <4>1, <4>2
    <3>3. QED  BY <2>1, <3>1, <3>2
  <2>3. QED  BY <2>1, <2>2, ReplayPastGate
<1>2. CASE Resolved(r)  BY <1>2, ReplayPastGate DEF Resolved
<1>3. CASE Collect(r)  BY <1>3, ReplayPastGate DEF Collect
<1>4. CASE Propose(r)  BY <1>4, ReplayPastGate DEF Propose
<1>5. CASE Refine(r)  BY <1>5, ReplayPastGate DEF Refine
<1>6. CASE ReviewRaises(r)  BY <1>6, ReplayPastGate DEF ReviewRaises
<1>7. CASE Finalize(r)  BY <1>7, ReplayPastGate DEF Finalize
<1>8. ASSUME NEW i \in DOMAIN work[r], NEW o \in Outcomes, Execute(r, i, o)
      PROVE  ReplayInv(r)'
  <2>1. /\ KeepsGate(r) /\ PastGate(r) /\ pc'[r] \in {"execute", "failed"}
        /\ work'[r] = [work[r] EXCEPT ![i].out = o]
    BY <1>8 DEF Execute
  <2>2. \A j \in DOMAIN work'[r] : j \in DOMAIN work[r]
                                   /\ work'[r][j].agent = work[r][j].agent
    BY <2>1, WorkType DEF Tasks
  <2>3. QED  BY <2>1, <2>2, ReplayPastGate
<1>9. ASSUME NEW v \in BOOLEAN, Critic(r, v) PROVE ReplayInv(r)'
  BY <1>9, ReplayPastGate DEF Critic, RouteCritic
<1>10. QED  BY <1>1, <1>2, <1>3, <1>4, <1>5, <1>6, <1>7, <1>8, <1>9

LEMMA ReplayNext == IInv /\ [Next]_vars => (\A r \in Runs : ReplayInv(r))'
<1> SUFFICES ASSUME IInv, [Next]_vars, NEW q \in Runs PROVE ReplayInv(q)'
  OBVIOUS
<1>1. TypeInv /\ \A r \in Runs : ReplayInv(r)  BY DEF IInv
<1>2. ASSUME NEW r \in Runs, NEW rt \in Routings, Start(r, rt) PROVE ReplayInv(q)'
  BY <1>1, <1>2, ReplayStart, Others, ReplayFrame
<1>3. ASSUME NEW r \in Runs, Human(r) PROVE ReplayInv(q)'
  BY <1>1, <1>3, ReplayResume, Others, ReplayFrame DEF Human
<1>4. ASSUME NEW r \in Runs, Invoke(r) PROVE ReplayInv(q)'
  <2>1. CASE q # r  BY <1>1, <1>4, <2>1, Others, ReplayFrame
  <2>2. CASE q = r
    BY <1>1, <1>4, <2>2, ReplaySkip, ReplayAsk, ReplayDecide, ReplayAbort, ReplayDone,
       ReplayWork DEF Invoke
  <2>3. QED  BY <2>1, <2>2
<1>5. ASSUME NEW a \in Agents, RegistryChange(a) PROVE ReplayInv(q)'
  BY <1>1, <1>5, ReplayRegistry
<1>6. CASE Restart  BY <1>6 DEF Restart, ReplayInv
<1>7. CASE UNCHANGED vars
  BY <1>1, <1>7, ReplayFrame DEF vars, registry, gate, team, history, Still
<1>8. QED  BY <1>2, <1>3, <1>4, <1>5, <1>6, <1>7 DEF Next

LEMMA Replayed == Spec => []IInv
<1>1. Init => IInv  BY TypeInit, ReplayInit DEF IInv
<1>2. IInv /\ [Next]_vars => IInv'  BY TypeNext, ReplayNext DEF IInv
<1>3. QED  BY <1>1, <1>2, PTL DEF Spec

\* Whatever the routing, the order of answers, restarts and failing webhooks:
\* while nobody edits a run's agents in the registry, the engine bars exactly
\* the agents the human rejected and employs a flagged agent only after the
\* human approved it (_approval_gate, _selected_pairs).
THEOREM HumansDecide == Spec => []HumanDecides
<1>1. IInv => HumanDecides
  <2> SUFFICES ASSUME IInv, NEW r \in Runs, undisturbed[r], PastGate(r)
               PROVE  /\ rejections[r] = {a \in Selected(r) : answer[r][a] = "rejected"}
                      /\ \A i \in DOMAIN work[r] : NeedsApproval(work[r][i].agent) =>
                           answer[r][work[r][i].agent] = "approved"
    BY DEF HumanDecides
  <2> USE DEF IInv, TypeInv, TypeOK, ControlOK, GateOK
  <2>1. AskedInOrder(r) /\ AnswersRecorded(r) /\ GateSettled(r)
    BY DEF ReplayInv, PastGate, Working
  <2>2. \A a \in Agents : answer[r][a] # "none" => a \in Selected(r)
    BY <2>1 DEF AnswersRecorded, AskedInOrder, FirstFlagged, AskedAgent, Selected, AgentsOf
  <2>3. Selected(r) \subseteq Agents  BY DEF Selected, AgentsOf
  <2>4. rejections[r] = {a \in Selected(r) : answer[r][a] = "rejected"}
    BY <2>1, <2>2, <2>3 DEF GateSettled
  <2>5. QED  BY <2>1, <2>3, <2>4 DEF GateSettled, Decided
<1>2. QED  BY <1>1, Replayed, PTL

\* No agent is put before the human twice in an undisturbed run.
THEOREM NobodyAskedTwice == Spec => []AskedOnce
<1>1. IInv => AskedOnce
  <2> SUFFICES ASSUME IInv, NEW r \in Runs, pc[r] # "idle", undisturbed[r],
                      NEW i \in DOMAIN asked[r], NEW j \in DOMAIN asked[r],
                      routing[r][asked[r][i]] = routing[r][asked[r][j]]
               PROVE  i = j
    BY DEF AskedOnce
  <2>1. AskedInOrder(r) /\ asked[r] \in Seq(Nat)
    BY DEF IInv, ReplayInv, TypeInv, TypeOK, GateOK
  <2>2. ~(i < j) /\ ~(j < i)
    BY <2>1 DEF AskedInOrder, FirstFlagged
  <2>3. QED  BY <2>1, <2>2
<1>2. QED  BY <1>1, Replayed, PTL

-----------------------------------------------------------------------------
\* What the nodes behind the gate have gathered when a run is at each of them.
Employed(r) == {work[r][i].agent : i \in DOMAIN work[r]}
Authorized(r) == Selected(r) \ rejections[r]
Begun(r) == {routing[r][j] : j \in {i \in DOMAIN routing[r] : i < pos[r]}}

\* Everybody who may work has answered, and violations are who broke a policy.
AllAnswered(r) ==
  /\ Employed(r) = Authorized(r) /\ results[r] = Authorized(r)
  /\ \A i \in DOMAIN work[r] : work[r][i].out \in {"ok", "policy_violation"}
  /\ violations[r] = Staff(r, {"policy_violation"})

StatusInv(r) ==
  /\ pc[r] \in {"gate", "awaiting"} => work[r] = <<>> /\ violations[r] = {}
  /\ pc[r] = "resolve" =>
       /\ violations[r] = {} /\ Employed(r) = Begun(r) \ rejections[r]
       /\ pos[r] \in 1..(Len(routing[r]) + 1)
  /\ pc[r] = "execute" => violations[r] = {} /\ Employed(r) = Authorized(r)
  /\ pc[r] \in {"propose", "critic", "refine", "finalize", "done"} => AllAnswered(r)
  /\ pc[r] \in {"critic", "refine"} => results[r] # {} /\ ~noAgents[r]
  /\ pc[r] \in {"finalize", "done"} =>
       /\ noAgents[r] = (results[r] = {})
       /\ noAgents[r] \/ (iterations[r] > 0 /\ (verdict[r] \/ iterations[r] = MaxIterations))
  /\ pc[r] = "done" => status[r] = FinalStatus(r)

\* What the event history knows of a run: nothing before it is started; later, as
\* long as no subscriber raised, only answers that were given, and every one that
\* the lists hold; and the agent a run waits for has none yet.
AuditInv(r) ==
  /\ pc[r] = "idle" => \A a \in Agents, d \in Decision : events[<<d, r, a>>] = 0
  /\ undisturbed[r] /\ sinkFailures = 0 /\ (PastGate(r) \/ pc[r] \in {"gate", "awaiting"}) =>
       /\ \A a \in Agents, d \in Decision : events[<<d, r, a>>] > 0 => answer[r][a] = d
       /\ \A a \in approvals[r] : events[<<"approved", r, a>>] > 0
       /\ \A a \in rejections[r] : events[<<"rejected", r, a>>] > 0
       /\ pc[r] = "awaiting" => answer[r][PendingAgent(r)] = "none"

-----------------------------------------------------------------------------
(* The status at the end.                                                  *)
LEMMA StatusInit == Init => \A r \in Runs : StatusInv(r)
BY DEF Init, StatusInv

\* Nothing the status of run q depends on changes.
StatusStill(q) ==
  /\ pc'[q] = pc[q] /\ routing'[q] = routing[q] /\ pos'[q] = pos[q]
  /\ rejections'[q] = rejections[q] /\ work'[q] = work[q]
  /\ results'[q] = results[q] /\ violations'[q] = violations[q]
  /\ noAgents'[q] = noAgents[q] /\ verdict'[q] = verdict[q]
  /\ iterations'[q] = iterations[q] /\ status'[q] = status[q]

\* What a step leaves alone keeps its invariant.
LEMMA StatusFrame ==
  ASSUME NEW q \in Runs, StatusInv(q), StatusStill(q)
  PROVE  StatusInv(q)'
<1> USE DEF StatusStill
<1>1. /\ Employed(q)' = Employed(q) /\ Authorized(q)' = Authorized(q)
      /\ Begun(q)' = Begun(q)
  BY DEF Employed, Authorized, Begun, Selected, AgentsOf
<1>2. Staff(q, {"policy_violation"})' = Staff(q, {"policy_violation"})  BY DEF Staff
<1>3. AllAnswered(q)' = AllAnswered(q)  BY <1>1, <1>2 DEF AllAnswered
<1>4. FinalStatus(q)' = FinalStatus(q)  BY DEF FinalStatus
<1>5. QED  BY <1>1, <1>3, <1>4 DEF StatusInv

\* A step of one run leaves the results of the others alone.
LEMMA StatusOthers ==
  ASSUME TypeInv, NEW r \in Runs, NEW q \in Runs, q # r,
         Invoke(r) \/ Human(r) \/ \E rt \in Routings : Start(r, rt)
  PROVE  StatusStill(q)
<1> USE DEF TypeInv, TypeOK, ControlOK, GateOK, TeamOK, ReviewOK, StatusStill, gate, team,
        review, Enter, Fail
<1>1. ASSUME NEW rt \in Routings, Start(r, rt) PROVE StatusStill(q)  BY <1>1 DEF Start
<1>2. ASSUME NEW d \in Decision, Resume(r, d) PROVE StatusStill(q)  BY <1>2 DEF Resume
<1>3. ASSUME GateRepeat(r) PROVE StatusStill(q)  BY <1>3 DEF GateRepeat
<1>4. ASSUME GatePass(r) PROVE StatusStill(q)  BY <1>4 DEF GatePass
<1>5. ASSUME GateAsk(r) PROVE StatusStill(q)  BY <1>5 DEF GateAsk
<1>6. ASSUME GateDecide(r) PROVE StatusStill(q)  BY <1>6 DEF GateDecide
<1>7. ASSUME GateAbort(r) PROVE StatusStill(q)  BY <1>7 DEF GateAbort
<1>8. ASSUME GateDone(r) PROVE StatusStill(q)  BY <1>8 DEF GateDone
<1>9. ASSUME Resolve(r) PROVE StatusStill(q)  BY <1>9 DEF Resolve
<1>10. ASSUME Resolved(r) PROVE StatusStill(q)  BY <1>10 DEF Resolved
<1>11. ASSUME NEW i \in DOMAIN work[r], NEW o \in Outcomes, Execute(r, i, o) PROVE StatusStill(q)  BY <1>11 DEF Execute
<1>12. ASSUME Collect(r) PROVE StatusStill(q)  BY <1>12 DEF Collect
<1>13. ASSUME Propose(r) PROVE StatusStill(q)  BY <1>13 DEF Propose
<1>14. ASSUME NEW v \in BOOLEAN, Critic(r, v) PROVE StatusStill(q)  BY <1>14 DEF Critic
<1>15. ASSUME Refine(r) PROVE StatusStill(q)  BY <1>15 DEF Refine
<1>16. ASSUME ReviewRaises(r) PROVE StatusStill(q)  BY <1>16 DEF ReviewRaises
<1>17. ASSUME Finalize(r) PROVE StatusStill(q)  BY <1>17 DEF Finalize
<1>18. QED  BY <1>1, <1>2, <1>3, <1>4, <1>5, <1>6, <1>7, <1>8, <1>9, <1>10, <1>11, <1>12, <1>13, <1>14, <1>15, <1>16, <1>17 DEF Invoke, Human

\* The gate gathers nothing.
LEMMA StatusGate ==
  ASSUME TypeInv, NEW r \in Runs, StatusInv(r),
         \/ GateRepeat(r) \/ GatePass(r) \/ GateAsk(r) \/ GateDecide(r)
         \/ GateAbort(r) \/ GateDone(r) \/ \E d \in Decision : Resume(r, d)
  PROVE  StatusInv(r)'
<1> USE DEF TypeInv, TypeOK, ControlOK, GateOK, TeamOK, ReviewOK, gate, team
<1>1. /\ pc[r] \in {"gate", "awaiting"}
      /\ pc'[r] \in {"gate", "awaiting", "failed", "overrun", "resolve"}
      /\ pc'[r] = "resolve" => pos'[r] = 1
      /\ work'[r] = work[r] /\ violations'[r] = violations[r] /\ routing'[r] = routing[r]
  BY DEF Resume, GateRepeat, GatePass, GateAsk, GateDecide, GateAbort, GateDone, Enter,
         Undecided, AtItem
<1>2. work'[r] = <<>> /\ violations'[r] = {}  BY <1>1 DEF StatusInv
<1>3. Employed(r)' = {}  BY <1>2 DEF Employed
<1>4. pc'[r] = "resolve" => Begun(r)' = {}  BY <1>1 DEF Begun
<1>5. QED  BY <1>1, <1>2, <1>3, <1>4 DEF StatusInv

\* A new run has gathered nothing.
LEMMA StatusStart ==
  ASSUME TypeInv, NEW r \in Runs, NEW rt \in Routings, Start(r, rt)
  PROVE  StatusInv(r)'
BY DEF Start, StatusInv, TypeInv, TypeOK, ControlOK, TeamOK

\* One more selected agent has been looked at.
LEMMA StatusResolve ==
  ASSUME TypeInv, NEW r \in Runs, StatusInv(r), Resolve(r)
  PROVE  StatusInv(r)'
<1> USE DEF TypeInv, TypeOK, ControlOK, GateOK, TeamOK
<1>1. /\ pc[r] = "resolve" /\ pos[r] \in DOMAIN routing[r] /\ pos'[r] = pos[r] + 1
      /\ routing'[r] = routing[r] /\ rejections'[r] = rejections[r]
      /\ violations'[r] = violations[r] /\ pc'[r] \in {"resolve", "failed"}
      /\ \/ pc'[r] = "failed"
         \/ Item(r) \in rejections[r] /\ work'[r] = work[r]
         \/ /\ Item(r) \notin rejections[r]
            /\ work'[r] = Append(work[r], [agent |-> Item(r), out |-> "todo"])
  BY DEF Resolve, Fail, Barred
<1>2. /\ violations[r] = {} /\ Employed(r) = Begun(r) \ rejections[r]
  BY <1>1 DEF StatusInv
<1>3. Begun(r)' = Begun(r) \cup {Item(r)}  BY <1>1 DEF Begun, Item
<1>4. ASSUME work'[r] = Append(work[r], [agent |-> Item(r), out |-> "todo"])
      PROVE  Employed(r)' = Employed(r) \cup {Item(r)}
  <2> DEFINE task == [agent |-> Item(r), out |-> "todo"]
  <2>1. task \in Tasks /\ task.agent = Item(r) /\ work[r] \in Seq(Tasks)
    BY <1>1, ItemType DEF Tasks
  <2> HIDE DEF task
  <2>2. /\ DOMAIN work'[r] = DOMAIN work[r] \cup {Len(work[r]) + 1}
        /\ work'[r][Len(work[r]) + 1] = task
        /\ \A i \in DOMAIN work[r] : work'[r][i] = work[r][i]
    <3> HIDE DEF TypeInv, TypeOK, ControlOK, GateOK, TeamOK
    <3>1. work'[r] = Append(work[r], task)  BY <1>4 DEF task
    <3>2. QED  BY <2>1, <3>1
  <2>3. QED  BY <2>1, <2>2 DEF Employed
<1>5. pc'[r] = "resolve" => Employed(r)' = Begun(r)' \ rejections'[r]
  <2>1. work'[r] = work[r] => Employed(r)' = Employed(r)  BY DEF Employed
  <2>2. CASE pc'[r] = "resolve" /\ Item(r) \in rejections[r] /\ work'[r] = work[r]
    BY <1>1, <1>2, <1>3, <2>1, <2>2
  <2>3. CASE /\ Item(r) \notin rejections[r]
             /\ work'[r] = Append(work[r], [agent |-> Item(r), out |-> "todo"])
    BY <1>1, <1>2, <1>3, <1>4, <2>3
  <2>4. QED  BY <1>1, <2>2, <2>3
<1>6. QED  BY <1>1, <1>2, <1>5 DEF StatusInv

\* The whole routing has been looked at: everybody who may work has a task.
LEMMA StatusResolved ==
  ASSUME TypeInv, NEW r \in Runs, StatusInv(r), Resolved(r)
  PROVE  StatusInv(r)'
<1> USE DEF TypeInv, TypeOK, ControlOK, GateOK, TeamOK, gate, team
<1>1. /\ pc[r] = "resolve" /\ pos[r] = Len(routing[r]) + 1 /\ pc'[r] = "execute"
      /\ UNCHANGED <<routing, rejections, work, violations>>
  BY DEF Resolved
<1>2. Begun(r) = Selected(r)  BY <1>1 DEF Begun, Selected, AgentsOf
<1>3. Employed(r)' = Employed(r) /\ Authorized(r)' = Authorized(r)
  BY <1>1 DEF Employed, Authorized, Selected, AgentsOf
<1>4. QED  BY <1>1, <1>2, <1>3 DEF StatusInv, Authorized

\* An answer changes no assignment.
LEMMA StatusExecute ==
  ASSUME TypeInv, NEW r \in Runs, StatusInv(r), NEW i \in DOMAIN work[r],
         NEW o \in Outcomes, Execute(r, i, o)
  PROVE  StatusInv(r)'
<1> USE DEF TypeInv, TypeOK, ControlOK, GateOK, TeamOK, gate
<1>1. /\ pc[r] = "execute" /\ pc'[r] \in {"execute", "failed"}
      /\ UNCHANGED <<routing, rejections, violations>>
      /\ work'[r] = [work[r] EXCEPT ![i].out = o]
  BY DEF Execute, Fail
<1>2. /\ DOMAIN work'[r] = DOMAIN work[r]
      /\ \A j \in DOMAIN work[r] : work'[r][j].agent = work[r][j].agent
  BY <1>1, WorkType DEF Tasks
<1>3. Employed(r)' = Employed(r)  BY <1>2 DEF Employed
<1>4. Authorized(r)' = Authorized(r)  BY <1>1 DEF Authorized, Selected, AgentsOf
<1>5. QED  BY <1>1, <1>3, <1>4 DEF StatusInv

\* Everybody has answered, or an exception ends the run.
LEMMA StatusCollect ==
  ASSUME TypeInv, NEW r \in Runs, StatusInv(r), Collect(r)
  PROVE  StatusInv(r)'
<1> USE DEF TypeInv, TypeOK, ControlOK, GateOK, TeamOK, gate
<1>1. CASE Staff(r, {"error"}) # {}
  <2>1. pc'[r] = "failed"  BY <1>1 DEF Collect, Fail
  <2>2. QED  BY <2>1 DEF StatusInv
<1>2. CASE Staff(r, {"error"}) = {}
  <2>1. /\ pc[r] = "execute" /\ pc'[r] \in {"propose", "overrun"} /\ Todo(r) = {}
        /\ UNCHANGED <<routing, rejections, work>>
        /\ results'[r] = Staff(r, Outcomes)
        /\ violations'[r] = violations[r] \cup Staff(r, {"policy_violation"})
    BY <1>2 DEF Collect, Enter
  <2>2. violations[r] = {} /\ Employed(r) = Authorized(r)  BY <2>1 DEF StatusInv
  <2>3. \A i \in DOMAIN work[r] : work[r][i].out \in {"ok", "policy_violation"}
    <3> SUFFICES ASSUME NEW i \in DOMAIN work[r]
                 PROVE  work[r][i].out \in {"ok", "policy_violation"}
      OBVIOUS
    <3>1. work[r][i].out \in Outcomes \cup {"todo"}  BY WorkType DEF Tasks
    <3>2. work[r][i].out # "todo"  BY <2>1 DEF Todo
    <3>3. work[r][i].out # "error"  BY <1>2 DEF Staff
    <3>4. QED  BY <3>1, <3>2, <3>3 DEF Outcomes
  <2>4. Staff(r, Outcomes) = Employed(r)  BY <2>3 DEF Staff, Employed, Outcomes
  <2>5. /\ Employed(r)' = Employed(r) /\ Authorized(r)' = Authorized(r)
        /\ Staff(r, {"policy_violation"})' = Staff(r, {"policy_violation"})
    BY <2>1 DEF Employed, Authorized, Staff, Selected, AgentsOf
  <2>6. AllAnswered(r)'  BY <2>1, <2>2, <2>3, <2>4, <2>5 DEF AllAnswered
  <2>7. QED  BY <2>1, <2>6 DEF StatusInv
<1>3. QED  BY <1>1, <1>2

\* Critic and refiner leave what the specialists said alone.
LEMMA StatusReview ==
  ASSUME TypeInv, NEW r \in Runs, StatusInv(r), LoopInv(r),
         \/ Propose(r) \/ Refine(r) \/ ReviewRaises(r) \/ Finalize(r)
         \/ \E v \in BOOLEAN : Critic(r, v)
  PROVE  StatusInv(r)'
<1> USE EngineAssumption DEF TypeInv, TypeOK, ControlOK, GateOK, TeamOK, ReviewOK, gate, team, review
<1>1. /\ pc[r] \in {"propose", "critic", "refine", "finalize"}
      /\ pc'[r] \notin {"gate", "awaiting", "resolve", "execute", "propose"}
      /\ UNCHANGED <<routing, rejections, work, results, violations>>
  BY DEF Propose, Refine, ReviewRaises, Finalize, Critic, RouteCritic, Enter, Fail
<1>2. AllAnswered(r)  BY <1>1 DEF StatusInv
<1>3. AllAnswered(r)'
  <2>1. /\ Employed(r)' = Employed(r) /\ Authorized(r)' = Authorized(r)
        /\ Staff(r, {"policy_violation"})' = Staff(r, {"policy_violation"})
    BY <1>1 DEF Employed, Authorized, Staff, Selected, AgentsOf
  <2>2. QED  BY <1>1, <1>2, <2>1 DEF AllAnswered
<1>4. CASE Propose(r)
  <2>1. /\ noAgents'[r] = (results[r] = {})
        /\ pc'[r] \in {"overrun", IF results[r] = {} THEN "finalize" ELSE "critic"}
    BY <1>4 DEF Propose, Enter
  <2>2. QED  BY <1>1, <1>3, <2>1 DEF StatusInv
<1>5. CASE Refine(r)
  <2>1. pc[r] = "refine" /\ pc'[r] \in {"overrun", "critic"} /\ noAgents' = noAgents
    BY <1>5 DEF Refine, Enter
  <2>2. QED  BY <1>1, <1>3, <2>1 DEF StatusInv
<1>6. CASE ReviewRaises(r)
  <2>1. pc'[r] = "failed"  BY <1>6 DEF ReviewRaises, Fail
  <2>2. QED  BY <2>1 DEF StatusInv
<1>7. CASE Finalize(r)
  <2>1. /\ pc[r] = "finalize" /\ pc'[r] = "done" /\ status'[r] = FinalStatus(r)
        /\ UNCHANGED <<noAgents, verdict, iterations>>
    BY <1>7 DEF Finalize
  <2>2. FinalStatus(r)' = FinalStatus(r)  BY <1>1, <2>1 DEF FinalStatus
  <2>3. QED  BY <1>1, <1>3, <2>1, <2>2 DEF StatusInv
<1>8. ASSUME NEW v \in BOOLEAN, Critic(r, v) PROVE StatusInv(r)'
  <2>1. /\ pc[r] = "critic" /\ noAgents' = noAgents
        /\ verdict'[r] = v /\ iterations'[r] = iterations[r] + 1
        /\ pc'[r] \in {"overrun", RouteCritic(v, iterations[r] + 1)}
    BY <1>8 DEF Critic, Enter
  <2>2. iterations[r] < MaxIterations /\ iterations[r] \in Nat  BY <2>1 DEF LoopInv
  <2>3. results[r] # {} /\ ~noAgents[r]  BY <2>1 DEF StatusInv
  <2>4. \/ pc'[r] = "finalize" /\ (v \/ iterations[r] + 1 = MaxIterations)
        \/ pc'[r] \in {"overrun", "refine"}
    BY <2>1, <2>2 DEF RouteCritic
  <2>5. QED  BY <1>1, <1>3, <2>1, <2>2, <2>3, <2>4 DEF StatusInv
<1>9. QED  BY <1>4, <1>5, <1>6, <1>7, <1>8

\* Every step keeps what the status rests on.
LEMMA StatusNext ==
  TypeInv /\ (\A r \in Runs : LoopInv(r) /\ StatusInv(r)) /\ [Next]_vars
    => (\A r \in Runs : StatusInv(r))'
<1> SUFFICES ASSUME TypeInv, \A r \in Runs : LoopInv(r) /\ StatusInv(r), [Next]_vars,
                    NEW q \in Runs
             PROVE  StatusInv(q)'
  OBVIOUS
<1>1. ASSUME NEW r \in Runs, NEW rt \in Routings, Start(r, rt) PROVE StatusInv(q)'
  BY <1>1, StatusStart, StatusOthers, StatusFrame
<1>2. ASSUME NEW r \in Runs, Human(r) PROVE StatusInv(q)'
  BY <1>2, StatusGate, StatusOthers, StatusFrame DEF Human
<1>3. ASSUME NEW r \in Runs, Invoke(r) PROVE StatusInv(q)'
  <2>1. CASE q # r  BY <1>3, <2>1, StatusOthers, StatusFrame
  <2>2. CASE q = r
    BY <1>3, <2>2, StatusGate, StatusResolve, StatusResolved, StatusExecute, StatusCollect,
       StatusReview DEF Invoke
  <2>3. QED  BY <2>1, <2>2
<1>4. ASSUME NEW a \in Agents, RegistryChange(a) PROVE StatusInv(q)'
  BY <1>4, StatusFrame DEF RegistryChange, StatusStill, gate, team, review
<1>5. CASE Restart  BY <1>5 DEF Restart, StatusInv
<1>6. CASE UNCHANGED vars
  BY <1>6, StatusFrame DEF vars, gate, team, review, StatusStill
<1>7. QED  BY <1>1, <1>2, <1>3, <1>4, <1>5, <1>6 DEF Next

\* The invariant of the status is strong enough.
LEMMA StatusTells ==
  ASSUME TypeInv, \A r \in Runs : StatusInv(r)
  PROVE  StatusTruth
<1> SUFFICES ASSUME NEW r \in Runs, pc[r] = "done"
             PROVE
    /\ (status[r] = "no_agents_authorized") <=> (Selected(r) \subseteq rejections[r])
    /\ (status[r] = "policy_violation") <=> (Staff(r, {"policy_violation"}) # {})
    /\ status[r] = "completed" =>
         /\ verdict[r] /\ iterations[r] > 0
         /\ Staff(r, {"ok"}) = Selected(r) \ rejections[r]
    /\ status[r] = "abstain_human_review" =>
         ~verdict[r] /\ iterations[r] = MaxIterations
  BY DEF StatusTruth
<1>1. /\ AllAnswered(r) /\ status[r] = FinalStatus(r)
      /\ noAgents[r] = (results[r] = {})
      /\ noAgents[r] \/ (iterations[r] > 0 /\ (verdict[r] \/ iterations[r] = MaxIterations))
  BY DEF StatusInv
<1>2. noAgents[r] <=> Selected(r) \subseteq rejections[r]
  BY <1>1 DEF AllAnswered, Authorized
<1>3. violations[r] # {} => ~(Selected(r) \subseteq rejections[r])
  BY <1>1 DEF AllAnswered, Authorized, Employed, Staff
<1>4. violations[r] = {} => Staff(r, {"ok"}) = Selected(r) \ rejections[r]
  BY <1>1 DEF AllAnswered, Authorized, Employed, Staff
<1>5. CASE violations[r] # {}
  <2>1. status[r] = "policy_violation"  BY <1>1, <1>5 DEF FinalStatus
  <2>2. QED  BY <1>1, <1>3, <1>5, <2>1 DEF AllAnswered
<1>6. CASE violations[r] = {} /\ noAgents[r]
  <2>1. status[r] = "no_agents_authorized"  BY <1>1, <1>6 DEF FinalStatus
  <2>2. QED  BY <1>1, <1>2, <1>6, <2>1 DEF AllAnswered
<1>7. CASE violations[r] = {} /\ ~noAgents[r] /\ verdict[r]
  <2>1. status[r] = "completed"  BY <1>1, <1>7 DEF FinalStatus
  <2>2. QED  BY <1>1, <1>2, <1>4, <1>7, <2>1 DEF AllAnswered
<1>8. CASE violations[r] = {} /\ ~noAgents[r] /\ ~verdict[r]
  <2>1. status[r] = "abstain_human_review"  BY <1>1, <1>8 DEF FinalStatus
  <2>2. QED  BY <1>1, <1>2, <1>8, <2>1 DEF AllAnswered
<1>9. QED  BY <1>5, <1>6, <1>7, <1>8

-----------------------------------------------------------------------------
(* The event history.                                                      *)
\* An announcement is counted at its own key and nowhere else; "pending" is not a
\* decision.
LEMMA AnnounceEffect ==
  ASSUME NEW log \in [EventKeys -> 0..2], NEW kind \in Kinds, NEW r \in Runs,
         NEW a \in Agents
  PROVE  /\ Announce(log, kind, r, a)[<<kind, r, a>>] > 0
         /\ \A key \in EventKeys \ {<<kind, r, a>>} :
              Announce(log, kind, r, a)[key] = log[key]
         /\ \A d \in Decision, q \in Runs, b \in Agents :
              Notified(log, r, a)[<<d, q, b>>] = log[<<d, q, b>>]
<1>1. <<kind, r, a>> \in EventKeys  BY DEF EventKeys, Kinds
<1>2. \A d \in Decision, q \in Runs, b \in Agents :
        <<d, q, b>> \in EventKeys /\ <<d, q, b>> # <<"pending", r, a>>
  BY DEF EventKeys, Kinds, Decision
<1>3. QED  BY <1>1, <1>2 DEF Announce, Notified

\* What the gate's steps do to the announced decisions: nothing, or it announces d
\* for agent a of run r.
AnnouncedOnly(r, a, d) ==
  /\ events'[<<d, r, a>>] > 0
  /\ \A e \in Decision, q \in Runs, b \in Agents :
       <<e, q, b>> # <<d, r, a>> => events'[<<e, q, b>>] = events[<<e, q, b>>]

\* A repeated or a concluded gate announces one decision.
LEMMA ConcludedEffect ==
  ASSUME BusOK, NEW d \in Decision, NEW r \in Runs, NEW a \in Agents,
         \/ events' = Announce(events, d, r, a)
         \/ events' = Concluded(events, r, a, d)
  PROVE  AnnouncedOnly(r, a, d)
<1>1. events \in [EventKeys -> 0..2]  BY DEF BusOK
<1>2. d \in Kinds  BY DEF Decision, Kinds
<1>3. \A e \in Decision, q \in Runs, b \in Agents : <<e, q, b>> \in EventKeys
  BY DEF EventKeys, Kinds, Decision
<1>4. CASE events' = Announce(events, d, r, a)
  <2>1. /\ events'[<<d, r, a>>] > 0
        /\ \A key \in EventKeys \ {<<d, r, a>>} : events'[key] = events[key]
    BY <1>1, <1>2, <1>4, AnnounceEffect
  <2>2. QED  BY <1>3, <2>1 DEF AnnouncedOnly
<1>5. CASE events' = Concluded(events, r, a, d)
  <2> DEFINE log == Notified(events, r, a)
  <2>1. log \in [EventKeys -> 0..2]  BY <1>1, <1>2, AnnounceType
  <2>2. events' = Announce(log, d, r, a)  BY <1>5 DEF Concluded
  <2>3. \A e \in Decision, q \in Runs, b \in Agents :
          log[<<e, q, b>>] = events[<<e, q, b>>]
    BY <1>1, <1>2, AnnounceEffect
  <2> HIDE DEF log
  <2>4. /\ events'[<<d, r, a>>] > 0
        /\ \A key \in EventKeys \ {<<d, r, a>>} : events'[key] = log[key]
    BY <1>2, <2>1, <2>2, AnnounceEffect
  <2>5. QED  BY <1>3, <2>3, <2>4 DEF AnnouncedOnly
<1>6. QED  BY <1>4, <1>5

\* The runs the event history answers for.
OnRecord(q) == PastGate(q) \/ pc[q] \in {"gate", "awaiting"}

\* Nothing is announced for run q, and a subscriber that raised has raised.
NoNews(q) ==
  /\ sinkFailures' = 0 => sinkFailures = 0
  /\ \A d \in Decision, a \in Agents : events'[<<d, q, a>>] = events[<<d, q, a>>]

\* Nothing the event history of run q depends on changes.
AuditSame(q) ==
  /\ pc'[q] = "idle" => pc[q] = "idle"
  /\ OnRecord(q)' => OnRecord(q)
  /\ pc'[q] = "awaiting" => pc[q] = "awaiting"
  /\ routing'[q] = routing[q] /\ asked'[q] = asked[q]
  /\ approvals'[q] = approvals[q] /\ rejections'[q] = rejections[q]
  /\ answer'[q] = answer[q] /\ (undisturbed'[q] => undisturbed[q])
  /\ NoNews(q)

\* What a step leaves alone stays on record.
LEMMA AuditFrame ==
  ASSUME NEW q \in Runs, TypeInv, AuditInv(q), AuditSame(q)
  PROVE  AuditInv(q)'
<1>1. PendingAgent(q)' = PendingAgent(q)  BY DEF AuditSame, PendingAgent
<1>2. approvals[q] \subseteq Agents /\ rejections[q] \subseteq Agents
  BY DEF TypeInv, TypeOK, GateOK
<1>3. QED  BY <1>1, <1>2 DEF AuditSame, NoNews, AuditInv, OnRecord, Decision

\* The gate of run r says nothing about the decisions of another run.
LEMMA GateNoNews ==
  ASSUME TypeInv, NEW r \in Runs, NEW q \in Runs, q # r,
         GateRepeat(r) \/ GateAsk(r) \/ GateDecide(r) \/ GateAbort(r)
  PROVE  NoNews(q)
<1>1. BusOK /\ ControlOK /\ GateOK /\ Replaying(r)  BY DEF TypeInv, TypeOK
<1>2. Item(r) \in Agents /\ Reply(r) \in Decision \cup {"none"}
  BY <1>1, ItemType, ReplyType
     DEF GateRepeat, GateAsk, GateDecide, GateAbort, Undecided, AtItem
<1>3. sinkFailures' = 0 => sinkFailures = 0
  <2>1. sinkFailures' = sinkFailures \/ sinkFailures' = sinkFailures + 1
    BY DEF GateRepeat, GateAsk, GateDecide, GateAbort
  <2>2. sinkFailures \in Nat  BY <1>1 DEF BusOK
  <2>3. QED  BY <2>1, <2>2
<1>4. \/ events' = events
      \/ events' = Notified(events, r, Item(r))
      \/ \E d \in Decision : events' \in {Announce(events, d, r, Item(r)),
                                          Concluded(events, r, Item(r), d)}
  <2>1. CASE GateRepeat(r)  BY <2>1 DEF GateRepeat, Decision
  <2>2. CASE GateAsk(r)  BY <2>2 DEF GateAsk
  <2>3. CASE GateDecide(r)  BY <1>2, <2>3 DEF GateDecide
  <2>4. CASE GateAbort(r)  BY <1>2, <2>4 DEF GateAbort
  <2>5. QED  BY <2>1, <2>2, <2>3, <2>4
<1>5. CASE events' = events  BY <1>3, <1>5 DEF NoNews
<1>6. CASE events' = Notified(events, r, Item(r))
  <2>1. events \in [EventKeys -> 0..2] /\ "pending" \in Kinds  BY <1>1 DEF BusOK, Kinds
  <2>2. \A d \in Decision, p \in Runs, b \in Agents :
          Notified(events, r, Item(r))[<<d, p, b>>] = events[<<d, p, b>>]
    BY <1>2, <2>1, AnnounceEffect
  <2>3. QED  BY <1>3, <1>6, <2>2 DEF NoNews
<1>7. ASSUME NEW d \in Decision, events' \in {Announce(events, d, r, Item(r)),
                                              Concluded(events, r, Item(r), d)}
      PROVE  NoNews(q)
  <2>1. AnnouncedOnly(r, Item(r), d)  BY <1>1, <1>2, <1>7, ConcludedEffect
  <2>2. QED  BY <1>3, <2>1 DEF AnnouncedOnly, NoNews
<1>8. QED  BY <1>4, <1>5, <1>6, <1>7

\* A step of one run announces nothing for the others.
LEMMA AuditOthers ==
  ASSUME TypeInv, NEW r \in Runs, NEW q \in Runs, q # r,
         Invoke(r) \/ Human(r) \/ \E rt \in Routings : Start(r, rt)
  PROVE  AuditSame(q)
<1>1. Still(q)  BY Others
<1>2. OnRecord(q)' <=> OnRecord(q)  BY <1>1 DEF Still, OnRecord, PastGate
<1>3. events' = events /\ sinkFailures' = sinkFailures => NoNews(q)  BY DEF NoNews
<1> USE DEF bus
<1>4. ASSUME GateRepeat(r) \/ GateAsk(r) \/ GateDecide(r) \/ GateAbort(r)
      PROVE  NoNews(q)
  BY <1>4, GateNoNews
<1>5. ASSUME GatePass(r) \/ GateDone(r) \/ Resolve(r) \/ Resolved(r) \/ Collect(r)
      PROVE  NoNews(q)
  BY <1>3, <1>5 DEF GatePass, GateDone, Resolve, Resolved, Collect
<1>6. ASSUME Propose(r) \/ Refine(r) \/ ReviewRaises(r) \/ Finalize(r)
      PROVE  NoNews(q)
  BY <1>3, <1>6 DEF Propose, Refine, ReviewRaises, Finalize
<1>7. ASSUME NEW i \in DOMAIN work[r], NEW o \in Outcomes, Execute(r, i, o)
      PROVE  NoNews(q)
  BY <1>3, <1>7 DEF Execute
<1>8. ASSUME NEW v \in BOOLEAN, Critic(r, v) PROVE NoNews(q)  BY <1>3, <1>8 DEF Critic
<1>9. ASSUME NEW d \in Decision, Resume(r, d) PROVE NoNews(q)  BY <1>3, <1>9 DEF Resume
<1>10. ASSUME NEW rt \in Routings, Start(r, rt) PROVE NoNews(q)  BY <1>3, <1>10 DEF Start
<1>11. NoNews(q)
  BY <1>4, <1>5, <1>6, <1>7, <1>8, <1>9, <1>10 DEF Invoke, Human
<1>12. QED  BY <1>1, <1>2, <1>11 DEF AuditSame, Still

\* Nothing is on record before the first run.
LEMMA AuditInit == Init => \A r \in Runs : AuditInv(r)
BY DEF Init, AuditInv, EventKeys, Kinds, Decision, PastGate, Working

\* A run starts with a clean record.
LEMMA AuditStart ==
  ASSUME TypeInv, NEW r \in Runs, AuditInv(r), NEW rt \in Routings, Start(r, rt)
  PROVE  AuditInv(r)'
<1>1. /\ pc[r] = "idle" /\ pc'[r] = "gate" /\ approvals'[r] = {} /\ rejections'[r] = {}
      /\ events' = events
  BY DEF Start, bus, TypeInv, TypeOK, ControlOK, GateOK
<1>2. QED  BY <1>1 DEF AuditInv

\* The agent the human now answers for had no answer, and so no announced decision.
LEMMA AuditResume ==
  ASSUME TypeInv, NEW r \in Runs, AuditInv(r), NEW d \in Decision, Resume(r, d)
  PROVE  AuditInv(r)'
<1>1. /\ pc[r] = "awaiting" /\ pc'[r] = "gate"
      /\ approvals'[r] = {} /\ rejections'[r] = {}
      /\ events' = events /\ sinkFailures' = sinkFailures
      /\ undisturbed'[r] = undisturbed[r]
      /\ answer'[r] = [answer[r] EXCEPT ![PendingAgent(r)] = d]
      /\ answer[r] \in [Agents -> Decision \cup {"none"}]
  BY DEF Resume, bus, TypeInv, TypeOK, ControlOK, GateOK, HistoryOK
<1> SUFFICES ASSUME undisturbed[r], sinkFailures = 0, NEW a \in Agents, NEW e \in Decision,
                    events[<<e, r, a>>] > 0
             PROVE  answer'[r][a] = e
  BY <1>1 DEF AuditInv
<1>2. answer[r][a] = e /\ answer[r][PendingAgent(r)] = "none"  BY <1>1 DEF AuditInv
<1>3. a # PendingAgent(r)  BY <1>2 DEF Decision
<1>4. QED  BY <1>1, <1>2, <1>3

\* One more decision is on record: the human's own for that agent.
LEMMA AuditAnnounced ==
  ASSUME TypeInv, NEW r \in Runs, AuditInv(r), pc[r] = "gate", pc'[r] = "gate",
         NEW a \in Agents, NEW d \in Decision, AnnouncedOnly(r, a, d),
         undisturbed'[r] = undisturbed[r], sinkFailures' = sinkFailures,
         answer'[r] = answer[r], undisturbed[r] => answer[r][a] = d,
         approvals'[r] \subseteq approvals[r] \cup (IF d = "approved" THEN {a} ELSE {}),
         rejections'[r] \subseteq rejections[r] \cup (IF d = "rejected" THEN {a} ELSE {})
  PROVE  AuditInv(r)'
<1>1. approvals[r] \subseteq Agents /\ rejections[r] \subseteq Agents
  BY DEF TypeInv, TypeOK, GateOK
<1> SUFFICES ASSUME undisturbed[r], sinkFailures = 0
             PROVE  /\ \A b \in Agents, e \in Decision :
                         events'[<<e, r, b>>] > 0 => answer[r][b] = e
                    /\ \A b \in approvals'[r] : events'[<<"approved", r, b>>] > 0
                    /\ \A b \in rejections'[r] : events'[<<"rejected", r, b>>] > 0
  BY DEF AuditInv
<1>2. /\ \A b \in Agents, e \in Decision : events[<<e, r, b>>] > 0 => answer[r][b] = e
      /\ \A b \in approvals[r] : events[<<"approved", r, b>>] > 0
      /\ \A b \in rejections[r] : events[<<"rejected", r, b>>] > 0
  BY DEF AuditInv
<1>3. \A b \in Agents, e \in Decision : \/ b = a /\ e = d
                                        \/ events'[<<e, r, b>>] = events[<<e, r, b>>]
  BY DEF AnnouncedOnly
<1>4. events'[<<d, r, a>>] > 0  BY DEF AnnouncedOnly
<1>5. "approved" \in Decision /\ "rejected" \in Decision  BY DEF Decision
<1>6. ASSUME NEW b \in Agents, NEW e \in Decision, events'[<<e, r, b>>] > 0
      PROVE  answer[r][b] = e
  BY <1>2, <1>3, <1>6
<1>7. ASSUME NEW b \in approvals'[r] PROVE events'[<<"approved", r, b>>] > 0
  BY <1>1, <1>2, <1>3, <1>4, <1>5
<1>8. ASSUME NEW b \in rejections'[r] PROVE events'[<<"rejected", r, b>>] > 0
  BY <1>1, <1>2, <1>3, <1>4, <1>5
<1>9. QED  BY <1>6, <1>7, <1>8

\* A replay that comes to an agent again announces what the human said of it.
LEMMA AuditRepeat ==
  ASSUME TypeInv, NEW r \in Runs, ReplayInv(r), AuditInv(r), GateRepeat(r)
  PROVE  AuditInv(r)'
<1>1. /\ pc[r] = "gate" /\ pc'[r] = "gate" /\ sinkFailures' = sinkFailures
      /\ routing'[r] = routing[r] /\ asked'[r] = asked[r] /\ answer'[r] = answer[r]
      /\ approvals'[r] = approvals[r] /\ rejections'[r] = rejections[r]
      /\ undisturbed'[r] = undisturbed[r]
      /\ Item(r) \in Decided(r)
  BY DEF GateRepeat, AtItem, history
<1>2. Item(r) \in Agents /\ BusOK
  BY ItemType DEF GateRepeat, AtItem, TypeInv, TypeOK
<1>3. CASE events' = events
  <2>1. AuditSame(r)  BY <1>1, <1>3 DEF AuditSame, NoNews, OnRecord, PastGate
  <2>2. QED  BY <2>1, AuditFrame
<1>4. CASE events' # events
  <2> DEFINE d == IF Item(r) \in approvals[r] THEN "approved" ELSE "rejected"
  <2>1. events' = Announce(events, d, r, Item(r))  BY <1>4 DEF GateRepeat
  <2>2. d \in Decision  BY DEF Decision
  <2>3. Item(r) \in (IF d = "approved" THEN approvals[r] ELSE rejections[r])
    BY <1>1 DEF Decided
  <2>4. undisturbed[r] => answer[r][Item(r)] = d
    <3>1. undisturbed[r] => GateProgress(r)  BY <1>1 DEF ReplayInv
    <3>2. QED  BY <1>2, <2>3, <3>1 DEF GateProgress
  <2> HIDE DEF d
  <2>5. AnnouncedOnly(r, Item(r), d)  BY <1>2, <2>1, <2>2, ConcludedEffect
  <2>6. QED  BY <1>1, <1>2, <2>2, <2>4, <2>5, AuditAnnounced
<1>5. QED  BY <1>3, <1>4

\* A decision of the gate is announced as the human gave it.
LEMMA AuditDecide ==
  ASSUME TypeInv, NEW r \in Runs, ReplayInv(r), AuditInv(r), GateDecide(r)
  PROVE  AuditInv(r)'
<1>1. /\ pc[r] = "gate" /\ pc'[r] = "gate" /\ sinkFailures' = sinkFailures
      /\ answer'[r] = answer[r] /\ undisturbed'[r] = undisturbed[r]
      /\ Undecided(r) /\ NeedsApproval(Item(r)) /\ Reply(r) # "none"
      /\ events' = Concluded(events, r, Item(r), Reply(r))
  BY DEF GateDecide, Undecided, AtItem, history
<1>2. Item(r) \in Agents /\ BusOK /\ Reply(r) \in Decision
  BY <1>1, ItemType, ReplyType DEF Undecided, AtItem, TypeInv, TypeOK
<1>3. /\ approvals'[r] \subseteq approvals[r] \cup (IF Reply(r) = "approved" THEN {Item(r)} ELSE {})
      /\ rejections'[r] \subseteq rejections[r] \cup (IF Reply(r) = "rejected" THEN {Item(r)} ELSE {})
  BY <1>2 DEF GateDecide, Grants, Decision, TypeInv, TypeOK, GateOK
<1>4. undisturbed[r] => answer[r][Item(r)] = Reply(r)  BY <1>1, ReplyIsAnswer
<1>5. AnnouncedOnly(r, Item(r), Reply(r))  BY <1>1, <1>2, ConcludedEffect
<1>6. QED  BY <1>1, <1>2, <1>3, <1>4, <1>5, AuditAnnounced

\* An agent put before the human has no answer yet.
LEMMA AuditAsk ==
  ASSUME TypeInv, NEW r \in Runs, ReplayInv(r), ReplayInv(r)', AuditInv(r), GateAsk(r)
  PROVE  AuditInv(r)'
<1> USE DEF TypeInv, TypeOK, ControlOK, GateOK
<1> DEFINE n == Len(asked[r])
<1>1. /\ pc[r] = "gate" /\ pc'[r] = "awaiting" /\ sinkFailures' = sinkFailures
      /\ pos[r] \in DOMAIN routing[r]
      /\ routing'[r] = routing[r] /\ answer'[r] = answer[r]
      /\ asked'[r] = Append(asked[r], pos[r])
      /\ approvals'[r] = approvals[r] /\ rejections'[r] = rejections[r]
      /\ undisturbed'[r] = undisturbed[r]
      /\ events' = Notified(events, r, Item(r))
  BY DEF GateAsk, Undecided, AtItem, history
<1>2. \A d \in Decision, a \in Agents : events'[<<d, r, a>>] = events[<<d, r, a>>]
  <2>1. events \in [EventKeys -> 0..2] /\ "pending" \in Kinds  BY DEF BusOK, Kinds
  <2>2. Item(r) \in Agents  BY <1>1, ItemType
  <2>3. \A d \in Decision, q \in Runs, b \in Agents :
          Notified(events, r, Item(r))[<<d, q, b>>] = events[<<d, q, b>>]
    BY <2>1, <2>2, AnnounceEffect
  <2>4. QED  BY <1>1, <2>3
<1>3. undisturbed[r] => answer'[r][PendingAgent(r)'] = "none"
  <2> SUFFICES ASSUME undisturbed[r], answer[r][Item(r)] # "none" PROVE FALSE
    BY <1>1 DEF PendingAgent, Item
  <2>1. AnswersRecorded(r) /\ AskedInOrder(r)'  BY <1>1 DEF ReplayInv
  <2>2. Item(r) \in Agents  BY <1>1, ItemType
  <2>3. PICK k \in DOMAIN asked[r] : AskedAgent(r, k) = Item(r)
    BY <2>1, <2>2 DEF AnswersRecorded
  <2>4. /\ k \in DOMAIN asked'[r] /\ n + 1 \in DOMAIN asked'[r] /\ k < n + 1
        /\ asked'[r][k] = asked[r][k] /\ asked'[r][n + 1] = pos[r]
    BY <1>1
  <2>5. /\ \A i, j \in DOMAIN asked'[r] : i < j => asked'[r][i] < asked'[r][j]
        /\ \A i \in DOMAIN asked'[r] :
             /\ asked'[r][i] \in DOMAIN routing[r]
             /\ \A j \in DOMAIN routing[r] :
                  j < asked'[r][i] => routing[r][j] # routing[r][asked'[r][i]]
    <3> HIDE DEF TypeInv, TypeOK, ControlOK, GateOK
    <3>1. \A i \in DOMAIN asked'[r] : FirstFlagged(r, asked[r][i])'
      BY <2>1 DEF AskedInOrder
    <3>2. \A i, j \in DOMAIN asked'[r] : i < j => asked'[r][i] < asked'[r][j]
      BY <2>1 DEF AskedInOrder
    <3>3. ASSUME NEW i \in DOMAIN asked'[r]
          PROVE  /\ asked'[r][i] \in DOMAIN routing[r]
                 /\ \A j \in DOMAIN routing[r] :
                      j < asked'[r][i] => routing[r][j] # routing[r][asked'[r][i]]
      BY <1>1, <3>1 DEF FirstFlagged
    <3>4. QED  BY <3>2, <3>3
  <2>6. routing[r][asked[r][k]] # routing[r][pos[r]]
    BY <2>4, <2>5
  <2>7. QED  BY <2>3, <2>6 DEF AskedAgent, Item
<1>4. approvals[r] \subseteq Agents /\ rejections[r] \subseteq Agents  OBVIOUS
<1>5. ASSUME undisturbed[r], sinkFailures = 0
      PROVE  /\ \A a \in Agents, d \in Decision : events'[<<d, r, a>>] > 0 => answer'[r][a] = d
             /\ \A a \in approvals'[r] : events'[<<"approved", r, a>>] > 0
             /\ \A a \in rejections'[r] : events'[<<"rejected", r, a>>] > 0
  <2>1. /\ \A a \in Agents, d \in Decision : events[<<d, r, a>>] > 0 => answer[r][a] = d
        /\ \A a \in approvals[r] : events[<<"approved", r, a>>] > 0
        /\ \A a \in rejections[r] : events[<<"rejected", r, a>>] > 0
    BY <1>1, <1>5 DEF AuditInv
  <2>2. "approved" \in Decision /\ "rejected" \in Decision  BY DEF Decision
  <2> HIDE DEF TypeInv, TypeOK, ControlOK, GateOK
  <2>3. QED  BY <1>1, <1>2, <1>4, <2>1, <2>2
<1>6. pc'[r] # "idle"  BY <1>1
<1> HIDE DEF TypeInv, TypeOK, ControlOK, GateOK
<1>7. QED  BY <1>1, <1>3, <1>5, <1>6 DEF AuditInv

\* Every step keeps the record true.
LEMMA AuditNext ==
  IInv /\ (\A r \in Runs : AuditInv(r)) /\ [Next]_vars => (\A r \in Runs : AuditInv(r))'
<1> SUFFICES ASSUME IInv, \A r \in Runs : AuditInv(r), [Next]_vars, NEW q \in Runs
             PROVE  AuditInv(q)'
  OBVIOUS
<1>1. TypeInv /\ (\A r \in Runs : ReplayInv(r)) /\ (\A r \in Runs : ReplayInv(r))'
  BY ReplayNext DEF IInv
<1>2. ASSUME NEW r \in Runs, NEW rt \in Routings, Start(r, rt) PROVE AuditInv(q)'
  <2>1. CASE q # r
    <3>1. AuditSame(q)  BY <1>1, <1>2, <2>1, AuditOthers
    <3>2. QED  BY <1>1, <3>1, AuditFrame
  <2>2. CASE q = r  BY <1>1, <1>2, <2>2, AuditStart
  <2>3. QED  BY <2>1, <2>2
<1>3. ASSUME NEW r \in Runs, Human(r) PROVE AuditInv(q)'
  <2>1. CASE q # r
    <3>1. AuditSame(q)  BY <1>1, <1>3, <2>1, AuditOthers
    <3>2. QED  BY <1>1, <3>1, AuditFrame
  <2>2. CASE q = r  BY <1>1, <1>3, <2>2, AuditResume DEF Human
  <2>3. QED  BY <2>1, <2>2
<1>4. ASSUME Invoke(q) PROVE AuditInv(q)'
  <2>1. CASE GateRepeat(q) \/ GateDecide(q) \/ GateAsk(q)
    BY <1>1, <2>1, AuditRepeat, AuditDecide, AuditAsk
  <2>2. CASE GateAbort(q)
    <3>1. sinkFailures' # 0 /\ pc'[q] # "idle"
      <4>1. sinkFailures \in Nat /\ pc[q] = "gate" /\ pc \in [Runs -> Working \cup Ended \cup {"idle", "awaiting"}]
        BY <1>1, <2>2 DEF GateAbort, Undecided, AtItem, TypeInv, TypeOK, BusOK, ControlOK
      <4>2. sinkFailures' = sinkFailures + 1 /\ pc'[q] \in {"failed", "awaiting"}
        BY <2>2, <4>1 DEF GateAbort
      <4>3. QED  BY <4>1, <4>2
    <3>2. QED  BY <3>1 DEF AuditInv
  <2>3. CASE ~(GateRepeat(q) \/ GateDecide(q) \/ GateAsk(q) \/ GateAbort(q))
    <3> USE DEF AuditSame, NoNews, OnRecord, PastGate, Working, bus, gate, history, Enter,
            Fail, TypeInv, TypeOK, ControlOK
    <3>1. ASSUME GatePass(q) PROVE AuditSame(q)
      BY <1>1, <3>1 DEF GatePass
    <3>2. ASSUME GateDone(q) PROVE AuditSame(q)  BY <1>1, <3>2 DEF GateDone
    <3>3. ASSUME Resolve(q) PROVE AuditSame(q)  BY <1>1, <3>3 DEF Resolve
    <3>4. ASSUME Resolved(q) PROVE AuditSame(q)  BY <1>1, <3>4 DEF Resolved
    <3>5. ASSUME Collect(q) PROVE AuditSame(q)  BY <1>1, <3>5 DEF Collect
    <3>6. ASSUME NEW i \in DOMAIN work[q], NEW o \in Outcomes, Execute(q, i, o)
          PROVE  AuditSame(q)
      BY <1>1, <3>6 DEF Execute
    <3>7. ASSUME Propose(q) PROVE AuditSame(q)  BY <1>1, <3>7 DEF Propose
    <3>8. ASSUME Refine(q) \/ ReviewRaises(q) PROVE AuditSame(q)
      BY <1>1, <3>8 DEF Refine, ReviewRaises
    <3>9. ASSUME Finalize(q) PROVE AuditSame(q)  BY <1>1, <3>9 DEF Finalize
    <3>10. ASSUME NEW v \in BOOLEAN, Critic(q, v) PROVE AuditSame(q)
      BY <1>1, <3>10 DEF Critic, RouteCritic
    <3> HIDE DEF AuditSame, NoNews, OnRecord, PastGate, Working, bus, gate, history, Enter,
             Fail, TypeInv, TypeOK, ControlOK
    <3>11. AuditSame(q)
      BY <1>4, <2>3, <3>1, <3>2, <3>3, <3>4, <3>5, <3>6, <3>7, <3>8, <3>9, <3>10
         DEF Invoke
    <3>12. QED  BY <1>1, <3>11, AuditFrame
  <2>4. QED  BY <2>1, <2>2, <2>3
<1>5. ASSUME NEW r \in Runs, r # q, Invoke(r) PROVE AuditInv(q)'
  BY <1>1, <1>5, AuditOthers, AuditFrame
<1>6. ASSUME NEW a \in Agents, RegistryChange(a) PROVE AuditInv(q)'
  <2>1. AuditSame(q)
    BY <1>1, <1>6 DEF RegistryChange, AuditSame, NoNews, OnRecord, PastGate, bus, gate
  <2>2. QED  BY <1>1, <2>1, AuditFrame
<1>7. CASE Restart
  <2>1. /\ pc'[q] = "idle"
        /\ \A d \in Decision, a \in Agents : events'[<<d, q, a>>] = 0
    BY <1>7 DEF Restart, EventKeys, Kinds, Decision
  <2>2. QED  BY <2>1 DEF AuditInv, PastGate, Working
<1>8. CASE UNCHANGED vars
  <2>1. AuditSame(q)
    BY <1>8 DEF vars, AuditSame, NoNews, OnRecord, PastGate, bus, gate, history
  <2>2. QED  BY <1>1, <2>1, AuditFrame
<1>9. QED  BY <1>2, <1>3, <1>4, <1>5, <1>6, <1>7, <1>8 DEF Next

\* Behind the gate the announced decisions are exactly the human's.
LEMMA AuditTells ==
  ASSUME IInv, \A r \in Runs : AuditInv(r)
  PROVE  AuditTrail
<1> SUFFICES ASSUME NEW r \in Runs, undisturbed[r], sinkFailures = 0, PastGate(r),
                    NEW a \in Selected(r), NEW d \in Decision
             PROVE  (events[<<d, r, a>>] > 0) <=> (answer[r][a] = d)
  BY DEF AuditTrail
<1>1. a \in Agents
  BY DEF IInv, TypeInv, TypeOK, ControlOK, Selected, AgentsOf
<1>2. GateSettled(r)  BY DEF IInv, ReplayInv, PastGate, Working
<1>3. /\ events[<<d, r, a>>] > 0 => answer[r][a] = d
      /\ a \in approvals[r] => events[<<"approved", r, a>>] > 0
      /\ a \in rejections[r] => events[<<"rejected", r, a>>] > 0
  BY <1>1 DEF AuditInv
<1>4. QED  BY <1>1, <1>2, <1>3 DEF GateSettled, Decision

\* However often a gate is replayed, whoever raises and whatever is rejected: the
\* decisions the event history announces of a run are exactly the human's (as long
\* as no subscriber raised and the registry stood still), and the final status says
\* what happened (ApprovalEventBus.emit, _approval_gate, _propose, _finalize).
THEOREM RecordsAreTrue == Spec => []RecordsTrue
<1> DEFINE RInv == /\ IInv /\ \A r \in Runs : LoopInv(r)
                   /\ \A r \in Runs : StatusInv(r) /\ AuditInv(r)
<1>1. Init => RInv  BY TypeInit, ReplayInit, LoopInit, StatusInit, AuditInit DEF IInv
<1>2. RInv /\ [Next]_vars => RInv'
  <2> SUFFICES ASSUME RInv, [Next]_vars PROVE RInv'
    OBVIOUS
  <2>1. TypeInv  BY DEF IInv
  <2>2. IInv'  BY <2>1, TypeNext, ReplayNext DEF IInv
  <2>3. (\A r \in Runs : LoopInv(r))'  BY <2>1, LoopNext
  <2>4. (\A r \in Runs : StatusInv(r))'  BY <2>1, StatusNext
  <2>5. (\A r \in Runs : AuditInv(r))'  BY AuditNext
  <2>6. QED  BY <2>2, <2>3, <2>4, <2>5
<1>3. RInv => RecordsTrue
  BY AuditTells, StatusTells DEF IInv, RecordsTrue
<1>4. QED  BY <1>1, <1>2, <1>3, PTL DEF Spec

-----------------------------------------------------------------------------
(* The refinement of HumanGate.                                            *)

\* What holds of a started run whoever edits the registry: only selected agents
\* are asked about or decided, somebody was selected, and a run that waits was
\* put a question.
ChoiceInv(r) ==
  pc[r] # "idle" =>
    /\ routing[r] # <<>>
    /\ approvals[r] \subseteq Selected(r) /\ rejections[r] \subseteq Selected(r)
    /\ \A k \in DOMAIN asked[r] : asked[r][k] \in DOMAIN routing[r]
    /\ pc[r] = "awaiting" => asked[r] # <<>>

\* What ChoiceInv speaks of has not moved.
LEMMA ChoiceFrame ==
  ASSUME NEW q \in Runs, ChoiceInv(q), pc'[q] = "idle" => pc[q] = "idle",
         pc[q] = "idle" => pc'[q] = "idle", pc'[q] = "awaiting" => pc[q] = "awaiting",
         routing'[q] = routing[q], asked'[q] = asked[q],
         approvals'[q] = approvals[q], rejections'[q] = rejections[q]
  PROVE  ChoiceInv(q)'
BY DEF ChoiceInv, Selected, AgentsOf

\* ChoiceInv is inductive: the gate asks about and decides for selected agents only.
LEMMA ChoiceNext ==
  TypeInv /\ (\A r \in Runs : ChoiceInv(r)) /\ [Next]_vars => (\A r \in Runs : ChoiceInv(r))'
<1> SUFFICES ASSUME TypeInv, \A r \in Runs : ChoiceInv(r), [Next]_vars, NEW q \in Runs
             PROVE  ChoiceInv(q)'
  OBVIOUS
<1>1. ASSUME NEW r \in Runs, q # r,
             Invoke(r) \/ Human(r) \/ \E rt \in Routings : Start(r, rt)
      PROVE  ChoiceInv(q)'
  BY <1>1, Others, ChoiceFrame DEF Still
<1>2. ASSUME NEW rt \in Routings, Start(q, rt) PROVE ChoiceInv(q)'
  BY <1>2, EngineAssumption
     DEF Start, ChoiceInv, TypeInv, TypeOK, ControlOK, GateOK
<1>3. ASSUME NEW d \in Decision, Resume(q, d) PROVE ChoiceInv(q)'
  BY <1>3 DEF Resume, ChoiceInv, TypeInv, TypeOK, ControlOK, GateOK, Selected, AgentsOf
<1>4. CASE GateAsk(q)
  <2> USE DEF TypeInv, TypeOK, ControlOK, GateOK
  <2>1. /\ pc[q] = "gate" /\ pos[q] \in DOMAIN routing[q] /\ routing'[q] = routing[q]
        /\ approvals'[q] = approvals[q] /\ rejections'[q] = rejections[q]
        /\ asked'[q] = Append(asked[q], pos[q]) /\ asked[q] \in Seq(Nat) /\ pos[q] \in Nat
    BY <1>4 DEF GateAsk, Undecided, AtItem
  <2>2. /\ routing[q] # <<>> /\ approvals[q] \subseteq Selected(q)
        /\ rejections[q] \subseteq Selected(q)
        /\ \A k \in DOMAIN asked[q] : asked[q][k] \in DOMAIN routing[q]
    BY <2>1 DEF ChoiceInv
  <2> HIDE DEF TypeInv, TypeOK, ControlOK, GateOK
  <2>3. /\ asked'[q] # <<>>
        /\ \A k \in DOMAIN asked'[q] : asked'[q][k] \in DOMAIN routing[q]
    BY <2>1, <2>2
  <2>4. QED  BY <2>1, <2>2, <2>3 DEF ChoiceInv, Selected, AgentsOf
<1>5. CASE GateDecide(q)
  <2>1. /\ pc[q] = "gate" /\ pc'[q] = "gate" /\ routing'[q] = routing[q]
        /\ asked'[q] = asked[q] /\ pos[q] \in DOMAIN routing[q]
        /\ approvals'[q] \subseteq approvals[q] \cup {Item(q)}
        /\ rejections'[q] \subseteq rejections[q] \cup {Item(q)}
    BY <1>5 DEF GateDecide, Undecided, AtItem, TypeInv, TypeOK, GateOK
  <2>2. Item(q) \in Selected(q)  BY <2>1 DEF Item, Selected, AgentsOf
  <2>3. Selected(q)' = Selected(q)  BY <2>1 DEF Selected, AgentsOf
  <2>4. QED  BY <2>1, <2>2, <2>3 DEF ChoiceInv
<1>6. CASE GateAbort(q)
  <2>1. /\ pc[q] = "gate" /\ pc'[q] = IF asked[q] = <<>> THEN "failed" ELSE "awaiting"
        /\ UNCHANGED <<routing, asked, approvals, rejections>>
    BY <1>6 DEF GateAbort, Undecided, AtItem, TypeInv, TypeOK, ControlOK, gate
  <2>2. QED  BY <2>1 DEF ChoiceInv, Selected, AgentsOf
<1>7. CASE GateRepeat(q) \/ GatePass(q) \/ GateDone(q)
  BY <1>7, ChoiceFrame
     DEF GateRepeat, GatePass, GateDone, Undecided, AtItem, Enter, TypeInv, TypeOK, ControlOK
<1>8. CASE Resolve(q) \/ Resolved(q) \/ Collect(q)
  BY <1>8, ChoiceFrame
     DEF Resolve, Resolved, Collect, Enter, Fail, gate, TypeInv, TypeOK, ControlOK
<1>9. CASE Propose(q) \/ Refine(q) \/ ReviewRaises(q) \/ Finalize(q)
  BY <1>9, ChoiceFrame
     DEF Propose, Refine, ReviewRaises, Finalize, Enter, Fail, gate, TypeInv, TypeOK, ControlOK
<1>10. ASSUME NEW i \in DOMAIN work[q], NEW o \in Outcomes, Execute(q, i, o)
       PROVE  ChoiceInv(q)'
  BY <1>10, ChoiceFrame DEF Execute, Fail, gate, TypeInv, TypeOK, ControlOK
<1>11. ASSUME NEW v \in BOOLEAN, Critic(q, v) PROVE ChoiceInv(q)'
  BY <1>11, ChoiceFrame DEF Critic, RouteCritic, Enter, gate, TypeInv, TypeOK, ControlOK
<1>12. ASSUME NEW a \in Agents, RegistryChange(a) PROVE ChoiceInv(q)'
  BY <1>12, ChoiceFrame DEF RegistryChange, gate
<1>13. CASE Restart  BY <1>13 DEF Restart, ChoiceInv
<1>14. CASE UNCHANGED vars  BY <1>14, ChoiceFrame DEF vars, gate
<1>15. QED
  BY <1>1, <1>2, <1>3, <1>4, <1>5, <1>6, <1>7, <1>8, <1>9, <1>10, <1>11, <1>12, <1>13,
     <1>14
     DEF Next, Invoke, Human

\* The mapped variables of run r alone may differ after a step.
OnlyOf(r) ==
  /\ PhaseOf' = [PhaseOf EXCEPT ![r] = PhaseOf'[r]]
  /\ ChosenOf' = [ChosenOf EXCEPT ![r] = ChosenOf'[r]]
  /\ WaitingOf' = [WaitingOf EXCEPT ![r] = WaitingOf'[r]]
  /\ AnswerOf' = [AnswerOf EXCEPT ![r] = AnswerOf'[r]]
  /\ TrustedOf' = [TrustedOf EXCEPT ![r] = TrustedOf'[r]]
  /\ BarredOf' = [BarredOf EXCEPT ![r] = BarredOf'[r]]
  /\ EmployedOf' = [EmployedOf EXCEPT ![r] = EmployedOf'[r]]
  /\ OutcomeOf' = [OutcomeOf EXCEPT ![r] = OutcomeOf'[r]]
  /\ Policy' = Policy

\* The mapping gives functions on the runs.
LEMMA GateFunctions ==
  /\ PhaseOf = [q \in Runs |-> PhaseOf[q]] /\ ChosenOf = [q \in Runs |-> ChosenOf[q]]
  /\ WaitingOf = [q \in Runs |-> WaitingOf[q]] /\ AnswerOf = [q \in Runs |-> AnswerOf[q]]
  /\ TrustedOf = [q \in Runs |-> TrustedOf[q]] /\ BarredOf = [q \in Runs |-> BarredOf[q]]
  /\ EmployedOf = [q \in Runs |-> EmployedOf[q]]
  /\ OutcomeOf = [q \in Runs |-> OutcomeOf[q]]
BY DEF PhaseOf, ChosenOf, WaitingOf, AnswerOf, TrustedOf, BarredOf, EmployedOf, OutcomeOf

\* A run nothing of which changed looks the same to HumanGate.
LEMMA GateSame ==
  ASSUME NEW q \in Runs, Still(q), StatusStill(q)
  PROVE  /\ PhaseOf'[q] = PhaseOf[q] /\ ChosenOf'[q] = ChosenOf[q]
         /\ WaitingOf'[q] = WaitingOf[q] /\ AnswerOf'[q] = AnswerOf[q]
         /\ TrustedOf'[q] = TrustedOf[q] /\ BarredOf'[q] = BarredOf[q]
         /\ EmployedOf'[q] = EmployedOf[q] /\ OutcomeOf'[q] = OutcomeOf[q]
<1> USE DEF Still, StatusStill, Live
<1>1. PhaseOf'[q] = PhaseOf[q]  BY DEF PhaseOf
<1>2. ChosenOf'[q] = ChosenOf[q]
  <2>1. Selected(q)' = Selected(q)  BY DEF Selected, AgentsOf
  <2>2. QED  BY <2>1 DEF ChosenOf
<1>3. WaitingOf'[q] = WaitingOf[q]  BY DEF WaitingOf, PendingAgent
<1>4. AnswerOf'[q] = AnswerOf[q] /\ TrustedOf'[q] = TrustedOf[q]  BY DEF AnswerOf, TrustedOf
<1>5. BarredOf'[q] = BarredOf[q]  BY DEF BarredOf
<1>6. EmployedOf'[q] = EmployedOf[q]
  <2>1. Staff(q, Outcomes)' = Staff(q, Outcomes)  BY DEF Staff
  <2>2. QED  BY <2>1 DEF EmployedOf
<1>7. OutcomeOf'[q] = OutcomeOf[q]  BY DEF OutcomeOf
<1>8. QED  BY <1>1, <1>2, <1>3, <1>4, <1>5, <1>6, <1>7

\* A step of one run leaves HumanGate's picture of all others as it is.
LEMMA StepOfOne ==
  ASSUME TypeInv, NEW r \in Runs,
         Invoke(r) \/ Human(r) \/ \E rt \in Routings : Start(r, rt)
  PROVE  OnlyOf(r)
<1>1. \A q \in Runs : q # r => Still(q) /\ StatusStill(q)  BY Others, StatusOthers
<1>2. ASSUME NEW q \in Runs, q # r
      PROVE  /\ PhaseOf'[q] = PhaseOf[q] /\ ChosenOf'[q] = ChosenOf[q]
             /\ WaitingOf'[q] = WaitingOf[q] /\ AnswerOf'[q] = AnswerOf[q]
             /\ TrustedOf'[q] = TrustedOf[q] /\ BarredOf'[q] = BarredOf[q]
             /\ EmployedOf'[q] = EmployedOf[q] /\ OutcomeOf'[q] = OutcomeOf[q]
  BY <1>1, <1>2, GateSame
<1>3. /\ PhaseOf' = [q \in Runs |-> PhaseOf'[q]] /\ ChosenOf' = [q \in Runs |-> ChosenOf'[q]]
      /\ WaitingOf' = [q \in Runs |-> WaitingOf'[q]] /\ AnswerOf' = [q \in Runs |-> AnswerOf'[q]]
      /\ TrustedOf' = [q \in Runs |-> TrustedOf'[q]] /\ BarredOf' = [q \in Runs |-> BarredOf'[q]]
      /\ EmployedOf' = [q \in Runs |-> EmployedOf'[q]]
      /\ OutcomeOf' = [q \in Runs |-> OutcomeOf'[q]]
  BY DEF PhaseOf, ChosenOf, WaitingOf, AnswerOf, TrustedOf, BarredOf, EmployedOf, OutcomeOf
<1>4. Policy' = Policy
  <2>1. UNCHANGED <<enabled, flagged>>
    BY DEF Invoke, Human, Start, Resume, GateRepeat, GatePass, GateAsk, GateDecide,
           GateAbort, GateDone, Resolve, Resolved, Execute, Collect, Propose, Critic,
           Refine, ReviewRaises, Finalize, registry
  <2>2. QED  BY <2>1 DEF Policy, NeedsApproval
<1>5. QED  BY <1>2, <1>3, <1>4, GateFunctions DEF OnlyOf

\* What HumanGate sees of a run, node by node.
View(q) ==
  /\ pc[q] = "idle" => PhaseOf[q] = "idle"
  /\ pc[q] = "gate" => PhaseOf[q] = "deciding"
  /\ pc[q] = "awaiting" => PhaseOf[q] = "waiting"
  /\ pc[q] \in Working \ {"gate"} => PhaseOf[q] = "working"
  /\ pc[q] \in Ended => PhaseOf[q] = "ended"
  /\ pc[q] # "idle" =>
       /\ ChosenOf[q] = Selected(q) /\ AnswerOf[q] = answer[q]
       /\ TrustedOf[q] = undisturbed[q] /\ EmployedOf[q] = Staff(q, Outcomes)
       /\ BarredOf[q] = IF pc[q] \in {"gate", "awaiting"} THEN {} ELSE rejections[q]
       /\ OutcomeOf[q] = IF pc[q] \in {"failed", "overrun"} THEN "failed" ELSE status[q]
  /\ pc[q] = "idle" =>
       /\ ChosenOf[q] = {} /\ AnswerOf[q] = [a \in Agents |-> "none"]
       /\ TrustedOf[q] = TRUE /\ EmployedOf[q] = {} /\ BarredOf[q] = {}
       /\ OutcomeOf[q] = "running"
  /\ WaitingOf[q] = IF pc[q] = "awaiting" THEN {PendingAgent(q)} ELSE {}

\* The mapping, evaluated at every node.
LEMMA GateViews == TypeInv => \A q \in Runs : View(q)
<1> SUFFICES ASSUME TypeInv, NEW q \in Runs PROVE View(q)
  OBVIOUS
<1> USE DEF Live
<1>1. undisturbed[q] \in BOOLEAN  BY DEF TypeInv, TypeOK, HistoryOK
<1>2. TrustedOf[q] = (pc[q] # "idle" => undisturbed[q])  BY DEF TrustedOf
<1>3. /\ pc[q] # "idle" => TrustedOf[q] = undisturbed[q]
      /\ pc[q] = "idle" => TrustedOf[q] = TRUE
  BY <1>1, <1>2
<1>4. ChosenOf[q] = IF pc[q] # "idle" THEN Selected(q) ELSE {}  BY DEF ChosenOf
<1>5. AnswerOf[q] = IF pc[q] # "idle" THEN answer[q] ELSE [a \in Agents |-> "none"]
  BY DEF AnswerOf
<1>6. EmployedOf[q] = IF pc[q] # "idle" THEN Staff(q, Outcomes) ELSE {}  BY DEF EmployedOf
<1>7. WaitingOf[q] = IF pc[q] = "awaiting" THEN {PendingAgent(q)} ELSE {}  BY DEF WaitingOf
<1>8. /\ pc[q] # "idle" => BarredOf[q] = IF pc[q] \in {"gate", "awaiting"} THEN {} ELSE rejections[q]
      /\ pc[q] = "idle" => BarredOf[q] = {}
  BY DEF BarredOf
<1>9. /\ pc[q] # "idle" => OutcomeOf[q] = IF pc[q] \in {"failed", "overrun"} THEN "failed" ELSE status[q]
      /\ pc[q] = "idle" => OutcomeOf[q] = "running"
  BY DEF OutcomeOf
<1>10. /\ pc[q] = "idle" => PhaseOf[q] = "idle"
       /\ pc[q] = "gate" => PhaseOf[q] = "deciding"
       /\ pc[q] = "awaiting" => PhaseOf[q] = "waiting"
       /\ pc[q] \in Working \ {"gate"} => PhaseOf[q] = "working"
       /\ pc[q] \in Ended => PhaseOf[q] = "ended"
  BY DEF PhaseOf, Working, Ended
<1>11. QED  BY <1>3, <1>4, <1>5, <1>6, <1>7, <1>8, <1>9, <1>10 DEF View

\* The same after a step.
LEMMA GateViewsNext == TypeInv' => (\A q \in Runs : View(q))'
BY GateViews, PTL

-----------------------------------------------------------------------------
\* What stays for run r stays.
LEMMA GateKept ==
  ASSUME NEW r \in Runs, OnlyOf(r)
  PROVE  /\ PhaseOf'[r] = PhaseOf[r] => PhaseOf' = PhaseOf
         /\ ChosenOf'[r] = ChosenOf[r] => ChosenOf' = ChosenOf
         /\ WaitingOf'[r] = WaitingOf[r] => WaitingOf' = WaitingOf
         /\ AnswerOf'[r] = AnswerOf[r] => AnswerOf' = AnswerOf
         /\ TrustedOf'[r] = TrustedOf[r] => TrustedOf' = TrustedOf
         /\ BarredOf'[r] = BarredOf[r] => BarredOf' = BarredOf
         /\ EmployedOf'[r] = EmployedOf[r] => EmployedOf' = EmployedOf
         /\ OutcomeOf'[r] = OutcomeOf[r] => OutcomeOf' = OutcomeOf
<1>1. PhaseOf'[r] = PhaseOf[r] => PhaseOf' = PhaseOf  BY GateFunctions DEF OnlyOf
<1>2. ChosenOf'[r] = ChosenOf[r] => ChosenOf' = ChosenOf  BY GateFunctions DEF OnlyOf
<1>3. WaitingOf'[r] = WaitingOf[r] => WaitingOf' = WaitingOf  BY GateFunctions DEF OnlyOf
<1>4. AnswerOf'[r] = AnswerOf[r] => AnswerOf' = AnswerOf  BY GateFunctions DEF OnlyOf
<1>5. TrustedOf'[r] = TrustedOf[r] => TrustedOf' = TrustedOf  BY GateFunctions DEF OnlyOf
<1>6. BarredOf'[r] = BarredOf[r] => BarredOf' = BarredOf  BY GateFunctions DEF OnlyOf
<1>7. EmployedOf'[r] = EmployedOf[r] => EmployedOf' = EmployedOf  BY GateFunctions DEF OnlyOf
<1>8. OutcomeOf'[r] = OutcomeOf[r] => OutcomeOf' = OutcomeOf  BY GateFunctions DEF OnlyOf
<1>9. QED  BY <1>1, <1>2, <1>3, <1>4, <1>5, <1>6, <1>7, <1>8

\* A step of run r that shows these differences is that step of HumanGate.
LEMMA StaysPut ==
  ASSUME NEW r \in Runs, OnlyOf(r),
         PhaseOf'[r] = PhaseOf[r], ChosenOf'[r] = ChosenOf[r], WaitingOf'[r] = WaitingOf[r],
         AnswerOf'[r] = AnswerOf[r], TrustedOf'[r] = TrustedOf[r], BarredOf'[r] = BarredOf[r],
         EmployedOf'[r] = EmployedOf[r], OutcomeOf'[r] = OutcomeOf[r]
  PROVE  UNCHANGED Gate!vars
BY GateKept DEF OnlyOf, Gate!vars, Gate!decision

\* A run begins.
LEMMA Begins ==
  ASSUME NEW r \in Runs, OnlyOf(r), PhaseOf[r] = "idle", PhaseOf'[r] = "deciding",
         ChosenOf'[r] \in (SUBSET Agents) \ {{}}, WaitingOf'[r] = WaitingOf[r],
         AnswerOf'[r] = AnswerOf[r], TrustedOf'[r] = TrustedOf[r], BarredOf'[r] = BarredOf[r],
         EmployedOf'[r] = EmployedOf[r], OutcomeOf'[r] = OutcomeOf[r]
  PROVE  Gate!Next
<1>1. Gate!Begin(r)  BY GateKept DEF OnlyOf, Gate!Begin, Gate!Move
<1>2. QED  BY <1>1 DEF Gate!Next

\* An agent is put before the human.
LEMMA Asks ==
  ASSUME NEW r \in Runs, OnlyOf(r), PhaseOf[r] = "deciding", PhaseOf'[r] = "waiting",
         NEW a \in ChosenOf[r], WaitingOf'[r] = {a}, TrustedOf[r] => a \in Policy,
         ChosenOf'[r] = ChosenOf[r],
         AnswerOf'[r] = AnswerOf[r], TrustedOf'[r] = TrustedOf[r], BarredOf'[r] = BarredOf[r],
         EmployedOf'[r] = EmployedOf[r], OutcomeOf'[r] = OutcomeOf[r]
  PROVE  Gate!Next
<1>1. Gate!Ask(r)  BY GateKept DEF OnlyOf, Gate!Ask, Gate!Move, Gate!decision
<1>2. QED  BY <1>1 DEF Gate!Next

\* The human answers.
LEMMA Answers ==
  ASSUME NEW r \in Runs, OnlyOf(r), PhaseOf[r] = "waiting", PhaseOf'[r] = "deciding",
         NEW a \in WaitingOf[r], NEW d \in Decision,
         AnswerOf'[r] = [AnswerOf[r] EXCEPT ![a] = d], WaitingOf'[r] = {},
         ChosenOf'[r] = ChosenOf[r], TrustedOf'[r] = TrustedOf[r], BarredOf'[r] = BarredOf[r],
         EmployedOf'[r] = EmployedOf[r], OutcomeOf'[r] = OutcomeOf[r]
  PROVE  Gate!Next
<1>1. AnswerOf' = [AnswerOf EXCEPT ![r][a] = d]
  BY GateKept DEF OnlyOf
<1>2. /\ Policy' = Policy /\ ChosenOf' = ChosenOf /\ TrustedOf' = TrustedOf
      /\ BarredOf' = BarredOf /\ EmployedOf' = EmployedOf /\ OutcomeOf' = OutcomeOf
  BY GateKept DEF OnlyOf
<1>3. Gate!Move(r, {"waiting"}, "deciding") /\ WaitingOf' = [WaitingOf EXCEPT ![r] = {}]
  BY DEF OnlyOf, Gate!Move
<1>4. d \in {"approved", "rejected"}  BY DEF Decision
<1>5. Gate!Answer(r)  BY <1>1, <1>2, <1>3, <1>4 DEF Gate!Answer
<1>6. QED  BY <1>5 DEF Gate!Next

\* Who is barred is settled.
LEMMA Settles ==
  ASSUME NEW r \in Runs, OnlyOf(r), PhaseOf[r] = "deciding", PhaseOf'[r] = "working",
         BarredOf'[r] \in SUBSET ChosenOf[r],
         TrustedOf[r] => /\ BarredOf'[r] = {a \in ChosenOf[r] : AnswerOf[r][a] = "rejected"}
                         /\ \A a \in ChosenOf[r] \cap Policy : AnswerOf[r][a] # "none",
         WaitingOf'[r] = WaitingOf[r], ChosenOf'[r] = ChosenOf[r],
         AnswerOf'[r] = AnswerOf[r], TrustedOf'[r] = TrustedOf[r],
         EmployedOf'[r] = EmployedOf[r], OutcomeOf'[r] = OutcomeOf[r]
  PROVE  Gate!Next
<1>1. Gate!Settle(r)  BY GateKept DEF OnlyOf, Gate!Settle, Gate!Move
<1>2. QED  BY <1>1 DEF Gate!Next

\* An agent executes.
LEMMA Employs ==
  ASSUME NEW r \in Runs, OnlyOf(r), PhaseOf[r] = "working", PhaseOf'[r] = PhaseOf[r],
         NEW a \in ChosenOf[r] \ BarredOf[r], EmployedOf'[r] = EmployedOf[r] \cup {a},
         WaitingOf'[r] = WaitingOf[r], ChosenOf'[r] = ChosenOf[r],
         AnswerOf'[r] = AnswerOf[r], TrustedOf'[r] = TrustedOf[r], BarredOf'[r] = BarredOf[r],
         OutcomeOf'[r] = OutcomeOf[r]
  PROVE  Gate!Next
<1>1. Gate!Employ(r)  BY GateKept DEF OnlyOf, Gate!Employ, Gate!decision
<1>2. QED  BY <1>1 DEF Gate!Next

\* The run reports.
LEMMA Finishes ==
  ASSUME NEW r \in Runs, OnlyOf(r), PhaseOf[r] = "working", PhaseOf'[r] = "ended",
         EmployedOf[r] = ChosenOf[r] \ BarredOf[r], OutcomeOf'[r] \in Gate!Reports,
         (OutcomeOf'[r] = "no_agents_authorized") <=> (EmployedOf[r] = {}),
         EmployedOf'[r] = EmployedOf[r],
         WaitingOf'[r] = WaitingOf[r], ChosenOf'[r] = ChosenOf[r],
         AnswerOf'[r] = AnswerOf[r], TrustedOf'[r] = TrustedOf[r], BarredOf'[r] = BarredOf[r]
  PROVE  Gate!Next
<1>1. /\ Policy' = Policy /\ ChosenOf' = ChosenOf /\ TrustedOf' = TrustedOf
      /\ BarredOf' = BarredOf /\ EmployedOf' = EmployedOf /\ WaitingOf' = WaitingOf
      /\ AnswerOf' = AnswerOf
  BY GateKept DEF OnlyOf
<1>2. Gate!Move(r, {"working"}, "ended")  BY DEF OnlyOf, Gate!Move
<1>3. OutcomeOf' = [OutcomeOf EXCEPT ![r] = OutcomeOf'[r]]  BY DEF OnlyOf
<1>4. Gate!Finish(r)  BY <1>1, <1>2, <1>3 DEF Gate!Finish, Gate!decision
<1>5. QED  BY <1>4 DEF Gate!Next

\* A run dies while the gate decides, or at work after some more agents.
LEMMA Breaks ==
  ASSUME NEW r \in Runs, OnlyOf(r), PhaseOf'[r] = "ended", OutcomeOf'[r] = "failed",
         \/ /\ PhaseOf[r] = "deciding" /\ BarredOf'[r] \in SUBSET ChosenOf[r]
            /\ EmployedOf'[r] = EmployedOf[r]
         \/ /\ PhaseOf[r] = "working" /\ BarredOf'[r] = BarredOf[r]
            /\ \E S \in SUBSET (ChosenOf[r] \ BarredOf[r]) :
                 EmployedOf'[r] = EmployedOf[r] \cup S,
         WaitingOf'[r] = WaitingOf[r], ChosenOf'[r] = ChosenOf[r],
         AnswerOf'[r] = AnswerOf[r], TrustedOf'[r] = TrustedOf[r]
  PROVE  Gate!Next
<1>1. /\ Policy' = Policy /\ ChosenOf' = ChosenOf /\ TrustedOf' = TrustedOf
      /\ WaitingOf' = WaitingOf /\ AnswerOf' = AnswerOf
      /\ BarredOf'[r] = BarredOf[r] => BarredOf' = BarredOf
      /\ EmployedOf'[r] = EmployedOf[r] => EmployedOf' = EmployedOf
  BY GateKept DEF OnlyOf
<1>2. /\ PhaseOf[r] \in {"deciding", "working"} /\ Gate!Move(r, {"deciding", "working"}, "ended")
      /\ OutcomeOf' = [OutcomeOf EXCEPT ![r] = "failed"]
      /\ BarredOf' = [BarredOf EXCEPT ![r] = BarredOf'[r]]
      /\ EmployedOf' = [EmployedOf EXCEPT ![r] = EmployedOf'[r]]
  BY DEF OnlyOf, Gate!Move
<1>3. CASE PhaseOf[r] = "deciding" /\ BarredOf'[r] \in SUBSET ChosenOf[r]
           /\ EmployedOf'[r] = EmployedOf[r]
  <2>1. Gate!Break(r)  BY <1>1, <1>2, <1>3 DEF Gate!Break
  <2>2. QED  BY <2>1 DEF Gate!Next
<1>4. ASSUME PhaseOf[r] = "working", BarredOf'[r] = BarredOf[r],
             NEW S \in SUBSET (ChosenOf[r] \ BarredOf[r]),
             EmployedOf'[r] = EmployedOf[r] \cup S
      PROVE  Gate!Next
  <2>1. EmployedOf' = [EmployedOf EXCEPT ![r] = EmployedOf[r] \cup S]  BY <1>2, <1>4
  <2>2. Gate!Break(r)  BY <1>1, <1>2, <1>4, <2>1 DEF Gate!Break
  <2>3. QED  BY <2>2 DEF Gate!Next
<1>5. QED  BY <1>3, <1>4

-----------------------------------------------------------------------------
\* Which step of HumanGate a step of the engine is, or that it is none.
Allowed == Gate!Next \/ UNCHANGED Gate!vars

\* A step of one run, seen before and after it.
LEMMA Seen ==
  ASSUME TypeInv, TypeInv', NEW r \in Runs,
         Invoke(r) \/ Human(r) \/ \E rt \in Routings : Start(r, rt)
  PROVE  OnlyOf(r) /\ View(r) /\ View(r)'
<1>1. OnlyOf(r)  BY StepOfOne
<1>2. View(r)  BY GateViews
<1>3. View(r)'  BY GateViewsNext
<1>4. QED  BY <1>1, <1>2, <1>3

\* start() begins a run with the agents of its routing.
LEMMA StartAllowed ==
  ASSUME TypeInv, TypeInv', NEW r \in Runs, NEW rt \in Routings, Start(r, rt)
  PROVE  Allowed
<1>1. OnlyOf(r) /\ View(r) /\ View(r)'  BY Seen
<1>2. /\ pc[r] = "idle" /\ pc'[r] = "gate" /\ routing'[r] = rt /\ work'[r] = <<>>
      /\ answer'[r] = [a \in Agents |-> "none"] /\ undisturbed'[r] = TRUE
      /\ status'[r] = "running"
  BY DEF Start, TypeInv, TypeOK, ControlOK, TeamOK, ReviewOK, HistoryOK
<1>3. rt \in Seq(Agents) /\ rt # <<>>  BY EngineAssumption
<1>4. Selected(r)' = AgentsOf(rt)  BY <1>2 DEF Selected
<1>5. AgentsOf(rt) \in (SUBSET Agents) \ {{}}
  <2>1. 1 \in DOMAIN rt /\ \A i \in DOMAIN rt : rt[i] \in Agents  BY <1>3
  <2>2. rt[1] \in AgentsOf(rt) /\ AgentsOf(rt) \subseteq Agents  BY <2>1 DEF AgentsOf
  <2>3. AgentsOf(rt) # {}  BY <2>2
  <2>4. AgentsOf(rt) \in SUBSET Agents  BY <2>2
  <2>5. QED  BY <2>3, <2>4
<1>6. Staff(r, Outcomes)' = {}  BY <1>2 DEF Staff
<1>7. /\ PhaseOf[r] = "idle" /\ PhaseOf'[r] = "deciding" /\ WaitingOf'[r] = WaitingOf[r]
      /\ AnswerOf'[r] = AnswerOf[r] /\ TrustedOf'[r] = TrustedOf[r]
      /\ BarredOf'[r] = BarredOf[r] /\ OutcomeOf'[r] = OutcomeOf[r]
  BY <1>1, <1>2 DEF View
<1>8. EmployedOf'[r] = EmployedOf[r] /\ ChosenOf'[r] \in (SUBSET Agents) \ {{}}
  BY <1>1, <1>2, <1>4, <1>5, <1>6 DEF View
<1>9. QED  BY <1>1, <1>7, <1>8, Begins DEF Allowed

\* The run, its agents and what the human said stay what they were.
SameRun(r) ==
  /\ pc[r] # "idle" /\ pc'[r] # "idle"
  /\ routing'[r] = routing[r] /\ undisturbed'[r] = undisturbed[r]
  /\ status'[r] = status[r] /\ Staff(r, Outcomes)' = Staff(r, Outcomes)

\* Such a step may change the phase and nothing else HumanGate sees.
LEMMA SameRunSeen ==
  ASSUME NEW r \in Runs, View(r), View(r)', SameRun(r)
  PROVE  /\ ChosenOf'[r] = ChosenOf[r] /\ TrustedOf'[r] = TrustedOf[r]
         /\ EmployedOf'[r] = EmployedOf[r]
         /\ answer'[r] = answer[r] => AnswerOf'[r] = AnswerOf[r]
         /\ pc'[r] \notin {"failed", "overrun"} /\ pc[r] \notin {"failed", "overrun"} =>
              OutcomeOf'[r] = OutcomeOf[r]
<1>1. Selected(r)' = Selected(r)  BY DEF SameRun, Selected, AgentsOf
<1>2. QED  BY <1>1 DEF SameRun, View

\* resume() hands the human's answer to the agent the run waits for.
LEMMA ResumeAllowed ==
  ASSUME TypeInv, TypeInv', NEW r \in Runs, NEW d \in Decision, Resume(r, d)
  PROVE  Allowed
<1>1. OnlyOf(r) /\ View(r) /\ View(r)'  BY Seen DEF Human
<1>2. /\ pc[r] = "awaiting" /\ pc'[r] = "gate"
      /\ answer'[r] = [answer[r] EXCEPT ![PendingAgent(r)] = d]
  BY DEF Resume, TypeInv, TypeOK, ControlOK, HistoryOK
<1>3. SameRun(r)  BY <1>2 DEF Resume, SameRun, Staff, team, review
<1>4. /\ PhaseOf[r] = "waiting" /\ PhaseOf'[r] = "deciding"
      /\ PendingAgent(r) \in WaitingOf[r] /\ WaitingOf'[r] = {}
      /\ AnswerOf'[r] = [AnswerOf[r] EXCEPT ![PendingAgent(r)] = d]
      /\ BarredOf'[r] = BarredOf[r]
  BY <1>1, <1>2 DEF View
<1>5. /\ ChosenOf'[r] = ChosenOf[r] /\ TrustedOf'[r] = TrustedOf[r]
      /\ EmployedOf'[r] = EmployedOf[r] /\ OutcomeOf'[r] = OutcomeOf[r]
  BY <1>1, <1>2, <1>3, SameRunSeen
<1>6. QED  BY <1>1, <1>4, <1>5, Answers DEF Allowed

\* The gate goes on deciding.
LEMMA DecidingAllowed ==
  ASSUME TypeInv, TypeInv', NEW r \in Runs, GateRepeat(r) \/ GatePass(r) \/ GateDecide(r)
  PROVE  Allowed
<1>1. OnlyOf(r) /\ View(r) /\ View(r)'  BY Seen DEF Invoke
<1>2. pc[r] = "gate" /\ pc'[r] = "gate" /\ answer'[r] = answer[r]
  BY DEF GateRepeat, GatePass, GateDecide, Undecided, AtItem, history
<1>3. SameRun(r)
  BY <1>2 DEF GateRepeat, GatePass, GateDecide, SameRun, Staff, team, review, history
<1>4. /\ PhaseOf'[r] = PhaseOf[r] /\ WaitingOf'[r] = WaitingOf[r]
      /\ BarredOf'[r] = BarredOf[r]
  BY <1>1, <1>2 DEF View
<1>5. /\ ChosenOf'[r] = ChosenOf[r] /\ TrustedOf'[r] = TrustedOf[r]
      /\ AnswerOf'[r] = AnswerOf[r]
      /\ EmployedOf'[r] = EmployedOf[r] /\ OutcomeOf'[r] = OutcomeOf[r]
  BY <1>1, <1>2, <1>3, SameRunSeen
<1>6. QED  BY <1>1, <1>4, <1>5, StaysPut DEF Allowed

\* A run that suspends asks about a selected agent the policy names.
LEMMA AskAllowed ==
  ASSUME TypeInv, TypeInv', NEW r \in Runs, GateAsk(r)
  PROVE  Allowed
<1>1. OnlyOf(r) /\ View(r) /\ View(r)'  BY Seen DEF Invoke
<1>2. /\ pc[r] = "gate" /\ pc'[r] = "awaiting" /\ answer'[r] = answer[r]
      /\ pos[r] \in DOMAIN routing[r] /\ NeedsApproval(Item(r))
      /\ asked'[r] = Append(asked[r], pos[r]) /\ routing'[r] = routing[r]
      /\ asked[r] \in Seq(Nat) /\ pos[r] \in Nat
  BY DEF GateAsk, Undecided, AtItem, history, TypeInv, TypeOK, ControlOK, GateOK
<1>3. SameRun(r)  BY <1>2 DEF GateAsk, SameRun, Staff, team, review, history
<1>4. Item(r) \in Selected(r) /\ Item(r) \in Policy
  <2>1. Item(r) \in Agents  BY <1>2, ItemType DEF TypeInv, TypeOK
  <2>2. QED  BY <1>2, <2>1 DEF Item, Selected, AgentsOf, Policy
<1>5. PendingAgent(r)' = Item(r)  BY <1>2 DEF PendingAgent, Item
<1>6. /\ PhaseOf[r] = "deciding" /\ PhaseOf'[r] = "waiting" /\ WaitingOf'[r] = {Item(r)}
      /\ Item(r) \in ChosenOf[r] /\ BarredOf'[r] = BarredOf[r]
  BY <1>1, <1>2, <1>4, <1>5 DEF View
<1>7. /\ ChosenOf'[r] = ChosenOf[r] /\ TrustedOf'[r] = TrustedOf[r]
      /\ AnswerOf'[r] = AnswerOf[r]
      /\ EmployedOf'[r] = EmployedOf[r] /\ OutcomeOf'[r] = OutcomeOf[r]
  BY <1>1, <1>2, <1>3, SameRunSeen
<1>8. QED  BY <1>1, <1>4, <1>6, <1>7, Asks DEF Allowed

\* A raising subscriber ends the run, or leaves it waiting for whom it waited for.
LEMMA AbortAllowed ==
  ASSUME TypeInv, TypeInv', NEW r \in Runs, ReplayInv(r), ChoiceInv(r), GateAbort(r)
  PROVE  Allowed
<1>1. OnlyOf(r) /\ View(r) /\ View(r)'  BY Seen DEF Invoke
<1>2. /\ pc[r] = "gate" /\ pc'[r] = IF asked[r] = <<>> THEN "failed" ELSE "awaiting"
      /\ UNCHANGED <<answer, routing, asked, rejections>>
  BY DEF GateAbort, Undecided, AtItem, gate, history, TypeInv, TypeOK, ControlOK
<1>3. SameRun(r)  BY <1>2 DEF GateAbort, SameRun, Staff, team, review, history
<1>4. /\ ChosenOf'[r] = ChosenOf[r] /\ TrustedOf'[r] = TrustedOf[r]
      /\ AnswerOf'[r] = AnswerOf[r] /\ EmployedOf'[r] = EmployedOf[r]
      /\ pc'[r] = "awaiting" => OutcomeOf'[r] = OutcomeOf[r]
  BY <1>1, <1>2, <1>3, SameRunSeen
<1>5. CASE asked[r] = <<>>
  <2>1. /\ PhaseOf[r] = "deciding" /\ PhaseOf'[r] = "ended" /\ OutcomeOf'[r] = "failed"
        /\ WaitingOf'[r] = WaitingOf[r] /\ BarredOf'[r] = rejections[r]
        /\ ChosenOf[r] = Selected(r)
    BY <1>1, <1>2, <1>5 DEF View, Ended
  <2>2. rejections[r] \subseteq Selected(r)  BY <1>2 DEF ChoiceInv
  <2>3. QED  BY <1>1, <1>4, <2>1, <2>2, Breaks DEF Allowed
<1>6. CASE asked[r] # <<>>
  <2>1. asked[r] \in Seq(Nat) /\ Len(asked[r]) \in DOMAIN asked[r]
    BY <1>6 DEF TypeInv, TypeOK, GateOK
  <2>2. PendingAgent(r) \in Selected(r)
    BY <1>2, <2>1 DEF ChoiceInv, PendingAgent, Selected, AgentsOf
  <2>3. Selected(r) \subseteq Agents
    BY DEF Selected, AgentsOf, TypeInv, TypeOK, ControlOK
  <2>4. undisturbed[r] => NeedsApproval(PendingAgent(r))
    BY <1>2, <2>1 DEF ReplayInv, AskedInOrder, FirstFlagged, PendingAgent
  <2>5. PendingAgent(r)' = PendingAgent(r)  BY <1>2 DEF PendingAgent
  <2>6. /\ PhaseOf[r] = "deciding" /\ PhaseOf'[r] = "waiting"
        /\ WaitingOf'[r] = {PendingAgent(r)} /\ PendingAgent(r) \in ChosenOf[r]
        /\ TrustedOf[r] = undisturbed[r] /\ BarredOf'[r] = BarredOf[r]
    BY <1>1, <1>2, <1>6, <2>2, <2>5 DEF View
  <2>7. TrustedOf[r] => PendingAgent(r) \in Policy
    BY <2>2, <2>3, <2>4, <2>6 DEF Policy
  <2>8. QED  BY <1>1, <1>2, <1>4, <1>6, <2>6, <2>7, Asks DEF Allowed
<1>7. QED  BY <1>5, <1>6

\* The gate is through: who is barred is settled, unless the limit is spent.
LEMMA DoneAllowed ==
  ASSUME TypeInv, TypeInv', NEW r \in Runs, ReplayInv(r)', ChoiceInv(r), GateDone(r)
  PROVE  Allowed
<1>1. OnlyOf(r) /\ View(r) /\ View(r)'  BY Seen DEF Invoke
<1>2. /\ pc[r] = "gate" /\ pc'[r] \in {"resolve", "overrun"}
      /\ UNCHANGED <<answer, routing, rejections, undisturbed, enabled, flagged>>
  BY DEF GateDone, Enter, history, registry, TypeInv, TypeOK, ControlOK
<1>3. SameRun(r)  BY <1>2 DEF GateDone, SameRun, Staff, team, review
<1>4. /\ ChosenOf'[r] = ChosenOf[r] /\ TrustedOf'[r] = TrustedOf[r]
      /\ AnswerOf'[r] = AnswerOf[r] /\ EmployedOf'[r] = EmployedOf[r]
      /\ pc'[r] = "resolve" => OutcomeOf'[r] = OutcomeOf[r]
  BY <1>1, <1>2, <1>3, SameRunSeen
<1>5. /\ PhaseOf[r] = "deciding" /\ WaitingOf'[r] = WaitingOf[r]
      /\ BarredOf'[r] = rejections[r] /\ ChosenOf[r] = Selected(r)
      /\ AnswerOf[r] = answer[r] /\ TrustedOf[r] = undisturbed[r]
  BY <1>1, <1>2 DEF View
<1>6. rejections[r] \subseteq Selected(r)  BY <1>2 DEF ChoiceInv
<1>7. CASE pc'[r] = "overrun"
  <2>1. PhaseOf'[r] = "ended" /\ OutcomeOf'[r] = "failed"  BY <1>1, <1>7 DEF View, Ended
  <2>2. QED  BY <1>1, <1>4, <1>5, <1>6, <2>1, Breaks DEF Allowed
<1>8. CASE pc'[r] = "resolve"
  <2>1. PhaseOf'[r] = "working"  BY <1>1, <1>8 DEF View, Working
  <2>2. ASSUME undisturbed[r]
        PROVE  /\ \A a \in Agents : (a \in rejections[r]) <=> (answer[r][a] = "rejected")
               /\ \A a \in Selected(r) : NeedsApproval(a) => answer[r][a] # "none"
    <3>1. GateSettled(r)'  BY <1>2, <1>8, <2>2 DEF ReplayInv, PastGate, Working
    <3>2. \A a \in Agents : /\ (a \in rejections[r]) <=> (answer[r][a] = "rejected")
                            /\ (a \in approvals'[r]) <=> (answer[r][a] = "approved")
      BY <1>2, <3>1 DEF GateSettled
    <3>3. \A a \in Selected(r) : NeedsApproval(a) => a \in approvals'[r] \cup rejections[r]
      BY <1>2, <3>1 DEF GateSettled, Selected, AgentsOf, NeedsApproval, Decided
    <3>4. Selected(r) \subseteq Agents
      BY DEF Selected, AgentsOf, TypeInv, TypeOK, ControlOK
    <3>5. QED  BY <3>2, <3>3, <3>4
  <2>3. Selected(r) \subseteq Agents
    BY DEF Selected, AgentsOf, TypeInv, TypeOK, ControlOK
  <2>4. TrustedOf[r] => /\ BarredOf'[r] = {a \in ChosenOf[r] : AnswerOf[r][a] = "rejected"}
                        /\ \A a \in ChosenOf[r] \cap Policy : AnswerOf[r][a] # "none"
    BY <1>5, <1>6, <2>2, <2>3 DEF Policy
  <2>5. QED  BY <1>1, <1>4, <1>5, <1>6, <1>8, <2>1, <2>4, Settles DEF Allowed
<1>9. QED  BY <1>2, <1>7, <1>8

\* Behind the gate: the run works on, or dies, and nobody else executed.
LEMMA WorksOn ==
  ASSUME NEW r \in Runs, OnlyOf(r), View(r), View(r)', SameRun(r),
         pc[r] \in Working \ {"gate"},
         pc'[r] \in (Working \ {"gate"}) \cup {"failed", "overrun"},
         answer'[r] = answer[r], rejections'[r] = rejections[r]
  PROVE  Allowed
<1> USE DEF Working, Ended
<1>1. /\ ChosenOf'[r] = ChosenOf[r] /\ TrustedOf'[r] = TrustedOf[r]
      /\ AnswerOf'[r] = AnswerOf[r] /\ EmployedOf'[r] = EmployedOf[r]
      /\ pc'[r] \in Working => OutcomeOf'[r] = OutcomeOf[r]
  BY SameRunSeen
<1>2. /\ PhaseOf[r] = "working" /\ WaitingOf'[r] = WaitingOf[r]
      /\ BarredOf'[r] = BarredOf[r]
  BY DEF View
<1>3. CASE pc'[r] \in {"failed", "overrun"}
  <2>1. PhaseOf'[r] = "ended" /\ OutcomeOf'[r] = "failed"  BY <1>3 DEF View
  <2>2. EmployedOf'[r] = EmployedOf[r] \cup {}  BY <1>1
  <2>3. QED  BY <1>1, <1>2, <2>1, <2>2, Breaks DEF Allowed
<1>4. CASE pc'[r] \in Working \ {"gate"}
  <2>1. PhaseOf'[r] = PhaseOf[r]  BY <1>4 DEF View
  <2>2. QED  BY <1>1, <1>2, <1>4, <2>1, StaysPut DEF Allowed
<1>5. QED  BY <1>3, <1>4

\* A task that is still to do employs nobody.
LEMMA ResolveAllowed ==
  ASSUME TypeInv, TypeInv', NEW r \in Runs, Resolve(r)
  PROVE  Allowed
<1>1. OnlyOf(r) /\ View(r) /\ View(r)'  BY Seen DEF Invoke
<1>2. /\ pc[r] = "resolve" /\ pc'[r] \in {"resolve", "failed"}
      /\ UNCHANGED <<answer, routing, rejections, undisturbed, status>>
      /\ \/ work'[r] = work[r]
         \/ work'[r] = Append(work[r], [agent |-> Item(r), out |-> "todo"])
      /\ work[r] \in Seq(Tasks) /\ Item(r) \in Agents
  BY ItemType DEF Resolve, Fail, review, history, TypeInv, TypeOK, ControlOK, TeamOK
<1>3. Staff(r, Outcomes)' = Staff(r, Outcomes)
  <2>1. CASE work'[r] = work[r]  BY <2>1 DEF Staff
  <2>2. CASE work'[r] = Append(work[r], [agent |-> Item(r), out |-> "todo"])
    <3> DEFINE task == [agent |-> Item(r), out |-> "todo"]
    <3>1. task \in Tasks /\ task.out \notin Outcomes  BY <1>2 DEF Tasks, Outcomes
    <3> HIDE DEF task
    <3>2. /\ DOMAIN work'[r] = DOMAIN work[r] \cup {Len(work[r]) + 1}
          /\ work'[r][Len(work[r]) + 1] = task
          /\ \A i \in DOMAIN work[r] : work'[r][i] = work[r][i]
      <4>1. work'[r] = Append(work[r], task)  BY <2>2 DEF task
      <4>2. QED  BY <1>2, <3>1, <4>1
    <3>3. \A i \in DOMAIN work'[r] : work'[r][i].out \in Outcomes =>
            i \in DOMAIN work[r] /\ work'[r][i] = work[r][i]
      BY <3>1, <3>2
    <3>4. QED  BY <3>2, <3>3 DEF Staff
  <2>3. QED  BY <1>2, <2>1, <2>2
<1>4. SameRun(r)  BY <1>2, <1>3 DEF SameRun
<1>5. QED  BY <1>1, <1>2, <1>4, WorksOn DEF Working

\* Collecting, proposing, reviewing and refining employ nobody.
LEMMA TeamAllowed ==
  ASSUME TypeInv, TypeInv', NEW r \in Runs,
         \/ Resolved(r) \/ Collect(r) \/ Propose(r) \/ Refine(r) \/ ReviewRaises(r)
         \/ \E v \in BOOLEAN : Critic(r, v)
  PROVE  Allowed
<1>1. OnlyOf(r) /\ View(r) /\ View(r)'  BY Seen DEF Invoke
<1>2. /\ pc[r] \in Working \ {"gate"}
      /\ pc'[r] \in (Working \ {"gate"}) \cup {"failed", "overrun"}
  BY DEF Resolved, Collect, Propose, Refine, ReviewRaises, Critic, RouteCritic, Enter,
         Fail, Working, TypeInv, TypeOK, ControlOK
<1>3. UNCHANGED <<answer, routing, rejections, undisturbed, work, status>>
  BY DEF Resolved, Collect, Propose, Refine, ReviewRaises, Critic, gate, team, review,
         history
<1>4. Staff(r, Outcomes)' = Staff(r, Outcomes)  BY <1>3 DEF Staff
<1>5. SameRun(r)  BY <1>2, <1>3, <1>4 DEF SameRun, Working
<1>6. QED  BY <1>1, <1>2, <1>3, <1>5, WorksOn

\* An answer employs its agent, which was selected and not rejected.
LEMMA ExecuteAllowed ==
  ASSUME TypeInv, TypeInv', NEW r \in Runs, StatusInv(r), NEW i \in DOMAIN work[r],
         NEW o \in Outcomes, Execute(r, i, o)
  PROVE  Allowed
<1> DEFINE a == work[r][i].agent
<1>1. OnlyOf(r) /\ View(r) /\ View(r)'  BY Seen DEF Invoke
<1>2. /\ pc[r] = "execute" /\ pc'[r] \in {"execute", "failed"}
      /\ UNCHANGED <<answer, routing, rejections, undisturbed, status>>
      /\ work'[r] = [work[r] EXCEPT ![i] = [work[r][i] EXCEPT !.out = o]]
      /\ work[r][i].out = "todo"
  BY DEF Execute, Fail, Todo, gate, review, history, TypeInv, TypeOK, ControlOK, TeamOK
<1>3. Staff(r, Outcomes)' = Staff(r, Outcomes) \cup {a}
  <2>1. /\ DOMAIN work'[r] = DOMAIN work[r]
        /\ work'[r][i] = [agent |-> a, out |-> o]
        /\ \A j \in DOMAIN work[r] : j # i => work'[r][j] = work[r][j]
    <3>1. [work[r][i] EXCEPT !.out = o] = [agent |-> a, out |-> o]
      BY WorkType DEF TypeInv, TypeOK
    <3>2. QED  BY <1>2, <3>1
  <2>2. \A j \in DOMAIN work[r] :
          (work'[r][j].out \in Outcomes) <=> (j = i \/ work[r][j].out \in Outcomes)
    BY <2>1
  <2>3. \A j \in DOMAIN work[r] : work'[r][j].agent = work[r][j].agent
    BY <2>1
  <2> HIDE DEF a
  <2>4. QED  BY <2>1, <2>2, <2>3 DEF Staff, a
<1>4. a \in Selected(r) \ rejections[r]
  BY <1>2 DEF StatusInv, Employed, Authorized
<1>5. Selected(r)' = Selected(r)  BY <1>2 DEF Selected
<1> HIDE DEF a
<1>6. /\ PhaseOf[r] = "working" /\ WaitingOf'[r] = WaitingOf[r]
      /\ BarredOf'[r] = BarredOf[r] /\ BarredOf[r] = rejections[r]
      /\ ChosenOf[r] = Selected(r) /\ ChosenOf'[r] = ChosenOf[r]
      /\ AnswerOf'[r] = AnswerOf[r] /\ TrustedOf'[r] = TrustedOf[r]
      /\ EmployedOf'[r] = EmployedOf[r] \cup {a}
  BY <1>1, <1>2, <1>3, <1>5 DEF View, Working
<1>7. CASE pc'[r] = "execute"
  <2>1. PhaseOf'[r] = PhaseOf[r] /\ OutcomeOf'[r] = OutcomeOf[r]
    BY <1>1, <1>2, <1>7 DEF View, Working
  <2>2. QED  BY <1>1, <1>4, <1>6, <2>1, Employs DEF Allowed
<1>8. CASE pc'[r] = "failed"
  <2>1. PhaseOf'[r] = "ended" /\ OutcomeOf'[r] = "failed"  BY <1>1, <1>8 DEF View, Ended
  <2>2. {a} \in SUBSET (ChosenOf[r] \ BarredOf[r])  BY <1>4, <1>6
  <2>3. QED  BY <1>1, <1>6, <2>1, <2>2, Breaks DEF Allowed
<1>9. QED  BY <1>2, <1>7, <1>8

\* A run that reports had everybody who may work at work.
LEMMA FinalizeAllowed ==
  ASSUME TypeInv, TypeInv', NEW r \in Runs, StatusInv(r), Finalize(r)
  PROVE  Allowed
<1>1. OnlyOf(r) /\ View(r) /\ View(r)'  BY Seen DEF Invoke
<1>2. /\ pc[r] = "finalize" /\ pc'[r] = "done"
      /\ UNCHANGED <<answer, routing, rejections, undisturbed, work>>
      /\ status'[r] = FinalStatus(r)
  BY DEF Finalize, gate, team, history, TypeInv, TypeOK, ControlOK, ReviewOK
<1>3. AllAnswered(r) /\ noAgents[r] = (results[r] = {})  BY <1>2 DEF StatusInv
<1>4. Staff(r, Outcomes) = Selected(r) \ rejections[r]
  BY <1>3 DEF AllAnswered, Authorized, Employed, Staff, Outcomes
<1>5. Staff(r, Outcomes)' = Staff(r, Outcomes)  BY <1>2 DEF Staff
<1>6. Selected(r)' = Selected(r)  BY <1>2 DEF Selected
<1>7. /\ FinalStatus(r) \in Gate!Reports
      /\ (FinalStatus(r) = "no_agents_authorized") <=> (Staff(r, Outcomes) = {})
  <2>1. noAgents[r] <=> Staff(r, Outcomes) = {}
    BY <1>3, <1>4 DEF AllAnswered, Authorized
  <2>2. violations[r] # {} => Staff(r, Outcomes) # {}
    BY <1>3 DEF AllAnswered, Staff, Outcomes
  <2>3. CASE violations[r] # {}
    <3>1. FinalStatus(r) = "policy_violation"  BY <2>3 DEF FinalStatus
    <3>2. QED  BY <2>2, <2>3, <3>1 DEF Gate!Reports
  <2>4. CASE violations[r] = {} /\ noAgents[r]
    <3>1. FinalStatus(r) = "no_agents_authorized"  BY <2>4 DEF FinalStatus
    <3>2. QED  BY <2>1, <2>4, <3>1 DEF Gate!Reports
  <2>5. CASE violations[r] = {} /\ ~noAgents[r]
    <3>1. FinalStatus(r) \in {"completed", "abstain_human_review"}  BY <2>5 DEF FinalStatus
    <3>2. QED  BY <2>1, <2>5, <3>1 DEF Gate!Reports
  <2>6. QED  BY <2>3, <2>4, <2>5
<1>8. /\ PhaseOf[r] = "working" /\ PhaseOf'[r] = "ended" /\ WaitingOf'[r] = WaitingOf[r]
      /\ BarredOf'[r] = BarredOf[r] /\ BarredOf[r] = rejections[r]
      /\ ChosenOf[r] = Selected(r) /\ ChosenOf'[r] = ChosenOf[r]
      /\ AnswerOf'[r] = AnswerOf[r] /\ TrustedOf'[r] = TrustedOf[r]
      /\ EmployedOf[r] = Staff(r, Outcomes) /\ EmployedOf'[r] = EmployedOf[r]
      /\ OutcomeOf'[r] = FinalStatus(r)
  BY <1>1, <1>2, <1>5, <1>6 DEF View, Working, Ended
<1>9. QED  BY <1>1, <1>4, <1>7, <1>8, Finishes DEF Allowed

\* An edit of the registry: the runs that chose the agent are no longer trusted.
LEMMA ChangeAllowed ==
  ASSUME TypeInv, NEW a \in Agents, RegistryChange(a)
  PROVE  Allowed
<1> DEFINE touched == {q \in Runs : Live(q) /\ a \in Selected(q)}
<1>1. /\ UNCHANGED <<pc, routing, asked, rejections, answer, work, status>>
      /\ \A q \in Runs : undisturbed'[q] = (undisturbed[q] /\ a \notin Selected(q))
      /\ \A c \in Agents \ {a} : NeedsApproval(c)' <=> NeedsApproval(c)
  BY DEF RegistryChange, gate, team, review, NeedsApproval
<1>2. /\ UNCHANGED <<PhaseOf, BarredOf, OutcomeOf>>
      /\ AnswerOf' = AnswerOf
  BY <1>1 DEF PhaseOf, BarredOf, OutcomeOf, AnswerOf, Live
<1>3. WaitingOf' = WaitingOf  BY <1>1 DEF WaitingOf, PendingAgent
<1>4. \A q \in Runs : Selected(q)' = Selected(q)  BY <1>1 DEF Selected
<1>5. ChosenOf' = ChosenOf  BY <1>1, <1>4 DEF ChosenOf, Live
<1>6. \A q \in Runs : Staff(q, Outcomes)' = Staff(q, Outcomes)  BY <1>1 DEF Staff
<1>7. EmployedOf' = EmployedOf  BY <1>1, <1>6 DEF EmployedOf, Live
<1>8. TrustedOf' = [q \in Runs |-> TrustedOf[q] /\ q \notin touched]
  <2>1. ASSUME NEW q \in Runs
        PROVE  (Live(q) => undisturbed[q])' = (TrustedOf[q] /\ q \notin touched)
    BY <1>1 DEF TrustedOf, Live
  <2>2. TrustedOf' = [q \in Runs |-> (Live(q) => undisturbed[q])']  BY DEF TrustedOf
  <2> HIDE DEF touched
  <2>3. QED  BY <2>1, <2>2
<1>9. Policy' \in SUBSET Agents  BY DEF Policy
<1>10. ASSUME NEW q \in Runs, TrustedOf'[q]
       PROVE  Policy' \cap ChosenOf[q] = Policy \cap ChosenOf[q]
  <2>1. a \notin ChosenOf[q]
    <3>1. q \notin touched  BY <1>8, <1>10
    <3>2. ChosenOf[q] = IF Live(q) THEN Selected(q) ELSE {}  BY DEF ChosenOf
    <3>3. QED  BY <3>1, <3>2
  <2>2. \A c \in Agents \ {a} : (c \in Policy') <=> (c \in Policy)  BY <1>1 DEF Policy
  <2>3. Policy \subseteq Agents  BY DEF Policy
  <2>4. QED  BY <1>9, <2>1, <2>2, <2>3
<1>11. touched \in SUBSET Runs  OBVIOUS
<1> HIDE DEF touched
<1>12. Gate!Interfere
  BY <1>2, <1>3, <1>5, <1>7, <1>8, <1>9, <1>10, <1>11 DEF Gate!Interfere
<1>13. QED  BY <1>12 DEF Gate!Next, Allowed

\* A restart: HumanGate begins anew.
LEMMA RestartBegins == ASSUME Restart PROVE NewLife
<1>1. \A q \in Runs : pc'[q] = "idle"  BY DEF Restart
<1>2. restarts' = restarts + 1  BY DEF Restart
<1>3. Policy' \in SUBSET Agents  BY DEF Policy
<1>4. PhaseOf' = [q \in Runs |-> "idle"] /\ ChosenOf' = [q \in Runs |-> {}]
  BY <1>1 DEF PhaseOf, ChosenOf, Live, Working, Ended
<1>5. WaitingOf' = [q \in Runs |-> {}] /\ TrustedOf' = [q \in Runs |-> TRUE]
  BY <1>1 DEF WaitingOf, TrustedOf, Live
<1>6. /\ AnswerOf' = [q \in Runs |-> [a \in Agents |-> "none"]]
      /\ BarredOf' = [q \in Runs |-> {}]
  BY <1>1 DEF AnswerOf, BarredOf, Live
<1>7. EmployedOf' = [q \in Runs |-> {}] /\ OutcomeOf' = [q \in Runs |-> "running"]
  BY <1>1 DEF EmployedOf, OutcomeOf, Live
<1>8. (Gate!Init)'  BY <1>3, <1>4, <1>5, <1>6, <1>7 DEF Gate!Init
<1>9. QED  BY <1>2, <1>8 DEF NewLife

\* Nothing happens.
LEMMA StutterAllowed == ASSUME UNCHANGED vars PROVE Allowed
<1>1. UNCHANGED <<pc, routing, asked, rejections, answer, work, status, undisturbed,
                  enabled, flagged>>
  BY DEF vars, registry, gate, team, review, history
<1>2. UNCHANGED <<PhaseOf, BarredOf, OutcomeOf, AnswerOf, TrustedOf>>
  BY <1>1 DEF PhaseOf, BarredOf, OutcomeOf, AnswerOf, TrustedOf, Live
<1>3. UNCHANGED <<WaitingOf, Policy>>
  BY <1>1 DEF WaitingOf, PendingAgent, Policy, NeedsApproval
<1>4. \A q \in Runs : /\ Selected(q)' = Selected(q)
                      /\ Staff(q, Outcomes)' = Staff(q, Outcomes)
  BY <1>1 DEF Selected, Staff
<1>5. UNCHANGED <<ChosenOf, EmployedOf>>  BY <1>1, <1>4 DEF ChosenOf, EmployedOf, Live
<1>6. QED  BY <1>2, <1>3, <1>5 DEF Allowed, Gate!vars, Gate!decision

\* No run has begun.
LEMMA GateInit == Init => Gate!Init
<1> SUFFICES ASSUME Init PROVE Gate!Init
  OBVIOUS
<1>1. \A q \in Runs : pc[q] = "idle"  BY DEF Init
<1>2. Policy \in SUBSET Agents  BY DEF Policy
<1>3. PhaseOf = [q \in Runs |-> "idle"] /\ ChosenOf = [q \in Runs |-> {}]
  BY <1>1 DEF PhaseOf, ChosenOf, Live, Working, Ended
<1>4. WaitingOf = [q \in Runs |-> {}] /\ TrustedOf = [q \in Runs |-> TRUE]
  BY <1>1 DEF WaitingOf, TrustedOf, Live
<1>5. /\ AnswerOf = [q \in Runs |-> [a \in Agents |-> "none"]]
      /\ BarredOf = [q \in Runs |-> {}]
  BY <1>1 DEF AnswerOf, BarredOf, Live
<1>6. EmployedOf = [q \in Runs |-> {}] /\ OutcomeOf = [q \in Runs |-> "running"]
  BY <1>1 DEF EmployedOf, OutcomeOf, Live
<1>7. QED  BY <1>2, <1>3, <1>4, <1>5, <1>6 DEF Gate!Init

\* What the refinement rests on: the replayed gate, the gathered results and whom
\* the lists may hold.
PromiseInv ==
  /\ IInv /\ \A r \in Runs : LoopInv(r)
  /\ \A r \in Runs : StatusInv(r) /\ ChoiceInv(r)

\* PromiseInv at the start.
LEMMA PromiseInit == Init => PromiseInv
BY TypeInit, ReplayInit, LoopInit, StatusInit DEF IInv, PromiseInv, Init, ChoiceInv

\* PromiseInv is inductive.
LEMMA PromiseNext == PromiseInv /\ [Next]_vars => PromiseInv'
<1> SUFFICES ASSUME PromiseInv, [Next]_vars PROVE PromiseInv'
  OBVIOUS
<1>1. TypeInv  BY DEF PromiseInv, IInv
<1>2. IInv'  BY <1>1, TypeNext, ReplayNext DEF PromiseInv, IInv
<1>3. (\A r \in Runs : LoopInv(r))'  BY <1>1, LoopNext DEF PromiseInv
<1>4. (\A r \in Runs : StatusInv(r))'  BY <1>1, StatusNext DEF PromiseInv
<1>5. (\A r \in Runs : ChoiceInv(r))'  BY <1>1, ChoiceNext DEF PromiseInv
<1>6. QED  BY <1>2, <1>3, <1>4, <1>5 DEF PromiseInv

\* Every step of the engine is one of the gate's, or none, or begins a new life.
LEMMA PromiseStep == PromiseInv /\ PromiseInv' /\ [Next]_vars
                     => [Gate!Next \/ NewLife]_(Gate!vars)
<1> SUFFICES ASSUME PromiseInv, PromiseInv', [Next]_vars PROVE Allowed \/ NewLife
  BY DEF Allowed
<1>1. /\ TypeInv /\ TypeInv' /\ (\A r \in Runs : ReplayInv(r)) /\ (\A r \in Runs : ReplayInv(r))'
      /\ \A r \in Runs : StatusInv(r) /\ ChoiceInv(r)
  BY DEF PromiseInv, IInv
<1>2. ASSUME NEW r \in Runs, NEW rt \in Routings, Start(r, rt) PROVE Allowed
  BY <1>1, <1>2, StartAllowed
<1>3. ASSUME NEW r \in Runs, Human(r) PROVE Allowed
  BY <1>1, <1>3, ResumeAllowed DEF Human
<1>4. ASSUME NEW r \in Runs, Invoke(r) PROVE Allowed
  <2>1. ReplayInv(r) /\ ReplayInv(r)' /\ StatusInv(r) /\ ChoiceInv(r)  BY <1>1
  <2>2. CASE GateRepeat(r) \/ GatePass(r) \/ GateDecide(r) \/ GateAsk(r)
    BY <1>1, <2>2, DecidingAllowed, AskAllowed
  <2>3. CASE GateAbort(r) \/ GateDone(r)
    BY <1>1, <2>1, <2>3, AbortAllowed, DoneAllowed
  <2>4. CASE Resolve(r)  BY <1>1, <2>4, ResolveAllowed
  <2>5. ASSUME NEW i \in DOMAIN work[r], NEW o \in Outcomes, Execute(r, i, o) PROVE Allowed
    BY <1>1, <2>1, <2>5, ExecuteAllowed
  <2>6. CASE Resolved(r) \/ Collect(r) \/ Propose(r) \/ Refine(r) \/ ReviewRaises(r)
    BY <1>1, <2>6, TeamAllowed
  <2>7. ASSUME NEW v \in BOOLEAN, Critic(r, v) PROVE Allowed
    BY <1>1, <2>7, TeamAllowed
  <2>8. CASE Finalize(r)  BY <1>1, <2>1, <2>8, FinalizeAllowed
  <2>9. QED  BY <1>4, <2>2, <2>3, <2>4, <2>5, <2>6, <2>7, <2>8 DEF Invoke
<1>5. ASSUME NEW a \in Agents, RegistryChange(a) PROVE Allowed
  BY <1>1, <1>5, ChangeAllowed
<1>6. CASE Restart  BY <1>6, RestartBegins
<1>7. CASE UNCHANGED vars  BY <1>7, StutterAllowed
<1>8. QED  BY <1>2, <1>3, <1>4, <1>5, <1>6, <1>7 DEF Next

\* Each life of the process is a human gate, for any agents, routings, replays, failing
\* subscribers and edits of the registry: every step of the engine is a step HumanGate
\* allows, or invisible to it, but the restarts, each of which leaves a gate that begins
\* anew (start, resume and the graph of LangGraphOrchestrator).
THEOREM GateInEachLife == Spec => ImplementsHumanGate
<1>1. Spec => []PromiseInv  BY PromiseInit, PromiseNext, PTL DEF Spec
<1>2. QED
  BY <1>1, GateInit, PromiseStep, PTL DEF Spec, ImplementsHumanGate
===============================================================================
