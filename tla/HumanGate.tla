------------------------------ MODULE HumanGate ------------------------------
(***************************************************************************)
(* A human gate, with no word about graphs, checkpoints, replays or events: *)
(* somebody chooses agents; while the run is deciding it may stop and wait *)
(* for a human to answer for one of them; then it settles which agents are *)
(* barred, employs others, and ends.  As long as a run is trusted (nobody  *)
(* changed the policy of its agents meanwhile), the barred agents are      *)
(* exactly those the human rejected, and no agent the policy names goes    *)
(* unanswered.                                                             *)
(*                                                                         *)
(* Of section 5 of docs/RUNTIME_POLICY.md these are the gate before the    *)
(* execution, the explicit resolution and the outcomes; the audit is not   *)
(* in it.  No step forgets a run: nothing a human was asked or answered is *)
(* lost.  The engine keeps to this as long as its process lives.           *)
(***************************************************************************)
CONSTANTS Agents, Runs

VARIABLES phase,      \* idle, deciding, waiting, working or ended
          policy,     \* the agents that need a human's approval now
          chosen,     \* the agents of a run
          waitingFor, \* the agent put before the human, as a set
          answer,     \* the human's latest answer for each agent
          trusted,    \* the policy of the chosen agents did not change
          barred,     \* the agents the run settled to leave out
          employed,   \* the agents that executed
          outcome     \* how the run ended

decision == <<chosen, answer, trusted, barred>>
vars     == <<phase, policy, waitingFor, decision, employed, outcome>>

Init ==
  /\ phase = [r \in Runs |-> "idle"] /\ policy \in SUBSET Agents
  /\ chosen = [r \in Runs |-> {}] /\ waitingFor = [r \in Runs |-> {}]
  /\ answer = [r \in Runs |-> [a \in Agents |-> "none"]]
  /\ trusted = [r \in Runs |-> TRUE] /\ barred = [r \in Runs |-> {}]
  /\ employed = [r \in Runs |-> {}] /\ outcome = [r \in Runs |-> "running"]

Reports == {"policy_violation", "completed", "abstain_human_review",
            "no_agents_authorized"}

Move(r, from, to) == phase[r] \in from /\ phase' = [phase EXCEPT ![r] = to]

Begin(r) ==
  /\ Move(r, {"idle"}, "deciding")
  /\ \E S \in (SUBSET Agents) \ {{}} : chosen' = [chosen EXCEPT ![r] = S]
  /\ UNCHANGED <<policy, waitingFor, answer, trusted, barred, employed, outcome>>

Ask(r) ==
  /\ Move(r, {"deciding"}, "waiting")
  /\ \E a \in chosen[r] : /\ waitingFor' = [waitingFor EXCEPT ![r] = {a}]
                          /\ trusted[r] => a \in policy
  /\ UNCHANGED <<policy, decision, employed, outcome>>

Answer(r) ==
  /\ Move(r, {"waiting"}, "deciding")
  /\ \E a \in waitingFor[r], d \in {"approved", "rejected"} :
       answer' = [answer EXCEPT ![r][a] = d]
  /\ waitingFor' = [waitingFor EXCEPT ![r] = {}]
  /\ UNCHANGED <<policy, chosen, trusted, barred, employed, outcome>>

Settle(r) ==
  /\ Move(r, {"deciding"}, "working")
  /\ \E S \in SUBSET chosen[r] :
       /\ barred' = [barred EXCEPT ![r] = S]
       /\ trusted[r] => /\ S = {a \in chosen[r] : answer[r][a] = "rejected"}
                        /\ \A a \in chosen[r] \cap policy : answer[r][a] # "none"
  /\ UNCHANGED <<policy, waitingFor, chosen, answer, trusted, employed, outcome>>

Employ(r) ==
  /\ phase[r] = "working"
  /\ \E a \in chosen[r] \ barred[r] : employed' = [employed EXCEPT ![r] = @ \cup {a}]
  /\ UNCHANGED <<phase, policy, waitingFor, decision, outcome>>

\* The run reports a result: everybody who was not barred had been employed.
Finish(r) ==
  /\ Move(r, {"working"}, "ended")
  /\ employed[r] = chosen[r] \ barred[r]
  /\ \E o \in Reports : /\ outcome' = [outcome EXCEPT ![r] = o]
                       /\ (o = "no_agents_authorized") <=> (employed[r] = {})
  /\ UNCHANGED <<policy, waitingFor, decision, employed>>

\* The run dies of an exception while it decides, or at work, possibly of one
\* of the agent it has just employed.
Break(r) ==
  /\ Move(r, {"deciding", "working"}, "ended")
  /\ outcome' = [outcome EXCEPT ![r] = "failed"]
  /\ \/ \E S \in SUBSET chosen[r] : /\ phase[r] = "deciding"
                                  /\ barred' = [barred EXCEPT ![r] = S]
                                  /\ UNCHANGED employed
     \/ \E S \in SUBSET (chosen[r] \ barred[r]) :
          /\ phase[r] = "working"
          /\ employed' = [employed EXCEPT ![r] = @ \cup S]
          /\ UNCHANGED barred
  /\ UNCHANGED <<policy, waitingFor, chosen, answer, trusted>>

\* Somebody changes the policy of agents: the runs that chose them are no
\* longer trusted.
Interfere ==
  /\ policy' \in SUBSET Agents
  /\ \E T \in SUBSET Runs : trusted' = [r \in Runs |-> trusted[r] /\ r \notin T]
  /\ \A r \in Runs : trusted'[r] => policy' \cap chosen[r] = policy \cap chosen[r]
  /\ UNCHANGED <<phase, waitingFor, chosen, answer, barred, employed, outcome>>

Next ==
  \/ \E r \in Runs : \/ Begin(r) \/ Ask(r) \/ Answer(r) \/ Settle(r)
                     \/ Employ(r) \/ Finish(r) \/ Break(r)
  \/ Interfere

Spec == Init /\ [][Next]_vars
=============================================================================
