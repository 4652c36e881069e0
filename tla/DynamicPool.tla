------------------------------ MODULE DynamicPool ------------------------------
(***************************************************************************)
(* The runtime pool of agents, DynamicPool (app/registry/pool.py): the     *)
(* in-memory AgentRegistry of the application, driven by a remote registry *)
(* that others edit, over HTTP calls that may fail or lose their answer.   *)
(*                                                                         *)
(* An operation of the pool changes the local registry while nobody else   *)
(* does; what others do to the remote one in between matters to refresh()  *)
(* only, which works on the list it fetched.                               *)
(***************************************************************************)
EXTENDS Naturals

CONSTANTS
  Agents,         \* agent ids
  Versions,       \* version strings
  RemoteVersions, \* the versions the client may read of the remote registry: of
                  \* registry-service, which stores none, "registry" alone
  MaxEdits,       \* bound: edits of the remote registry by others
  MaxCalls        \* bound: operations called on the pool

ASSUME PoolAssumption ==
  /\ RemoteVersions \subseteq Versions /\ RemoteVersions # {}
  /\ "none" \notin Versions /\ MaxEdits \in Nat /\ MaxCalls \in Nat

VARIABLES
  remote, local,    \* the two registries: state and version of each agent
  versions,         \* _versions: RuntimePoolState of each agent
  pc, fetched, existing, todo, \* a refresh() on its way
  edits, calls,
  synced,           \* history: a refresh() succeeded and nothing was called since
  barred,           \* history: the agents of a disable() that nobody has revoked
  rolled            \* history: the version a rollback_version() went back to, until
                    \* a refresh() reads another one

refreshing == <<pc, fetched, existing, todo>>
history    == <<synced, barred, rolled>>
vars       == <<remote, local, versions, refreshing, edits, calls, history>>

Entry == [st : {"absent", "off", "on"}, ver : Versions]
Track == [active : Versions \cup {"none"}, previous : Versions \cup {"none"}]
Untracked == [active |-> "none", previous |-> "none"]

\* list_enabled(), and fetch_enabled_agents() of the client.
EnabledIn(reg) == {a \in Agents : reg[a].st = "on"}
Versioned(reg) == [a \in EnabledIn(reg) |-> reg[a].ver]

Call == calls < MaxCalls /\ calls' = calls + 1

-----------------------------------------------------------------------------
Init ==
  /\ remote \in [Agents -> {e \in Entry : e.ver \in RemoteVersions}]
  /\ local \in [Agents -> Entry]
  /\ versions = [a \in Agents |-> Untracked]
  /\ pc = "idle" /\ fetched = Versioned(local) /\ existing = fetched /\ todo = {}
  /\ edits = 0 /\ calls = 0
  /\ synced = FALSE /\ barred = {} /\ rolled = [a \in Agents |-> "none"]

\* Somebody registers, changes, enables, disables or deletes a remote agent.
RemoteEdit(a) ==
  /\ edits < MaxEdits /\ edits' = edits + 1
  /\ \E e \in Entry : /\ e.ver \in RemoteVersions
                      /\ remote' = [remote EXCEPT ![a] = e]
  /\ barred' = barred \ {a}
  /\ UNCHANGED <<local, versions, refreshing, calls, synced, rolled>>

-----------------------------------------------------------------------------
(* refresh().                                                              *)
Fetch ==
  /\ pc = "idle" /\ Call
  /\ fetched' = Versioned(remote) /\ existing' = Versioned(local)
  /\ todo' = EnabledIn(remote) /\ pc' = "adding"
  /\ synced' = FALSE
  /\ rolled' = [a \in Agents |->
        IF a \in EnabledIn(remote) /\ remote[a].ver # rolled[a] THEN "none" ELSE rolled[a]]
  /\ UNCHANGED <<remote, local, versions, edits, barred>>

\* fetch_enabled_agents() raises RegistryUnavailable.
FetchFails ==
  /\ pc = "idle" /\ Call /\ synced' = FALSE
  /\ UNCHANGED <<remote, local, versions, refreshing, edits, barred, rolled>>

\* "elif old.version != definition.version"; the mutant takes any definition
\* for the one that is there.
ChangedMutant(a) == FALSE
Changed(a) == existing[a] # fetched[a]

\* One definition of the fetched list.  The agents of the list that are known
\* locally, but not enabled, are not in the snapshot either.
Keep(a) ==
  /\ a \in DOMAIN existing /\ ~Changed(a)
  /\ UNCHANGED <<local, versions>>
Replace(a) ==
  /\ a \in DOMAIN existing /\ Changed(a)
  /\ versions' = [versions EXCEPT ![a] = [active |-> existing[a], previous |-> existing[a]]]
  /\ local' = [local EXCEPT ![a] = [st |-> "on", ver |-> fetched[a]]]
Register(a) ==
  /\ a \notin DOMAIN existing /\ local[a].st = "absent"
  /\ versions' = [versions EXCEPT ![a] = [active |-> fetched[a], previous |-> "none"]]
  /\ local' = [local EXCEPT ![a] = [st |-> "on", ver |-> fetched[a]]]

AddOrUpdate(a) ==
  /\ pc = "adding" /\ a \in todo /\ todo' = todo \ {a}
  /\ Keep(a) \/ Replace(a) \/ Register(a)
  /\ UNCHANGED <<remote, pc, fetched, existing, edits, calls, history>>

\* register() raises "agent already registered" for an agent that is only
\* disabled, and refresh() ends there.
Refuse(a) ==
  /\ pc = "adding" /\ a \in todo /\ todo' = {}
  /\ a \notin DOMAIN existing /\ local[a].st = "off"
  /\ pc' = "refused"
  /\ UNCHANGED <<remote, local, versions, fetched, existing, edits, calls, history>>

AddsDone ==
  /\ pc = "adding" /\ todo = {}
  /\ pc' = "disabling" /\ todo' = DOMAIN existing \ DOMAIN fetched
  /\ UNCHANGED <<remote, local, versions, fetched, existing, edits, calls, history>>

\* "self.registry.disable(agent_id)"; the mutant removes the agent.
SwitchedOffMutant(entry) == [entry EXCEPT !.st = "absent"]
SwitchedOff(entry) == [entry EXCEPT !.st = "off"]

DisableGone(a) ==
  /\ pc = "disabling" /\ a \in todo /\ todo' = todo \ {a}
  /\ versions' = IF versions[a] = Untracked
                 THEN [versions EXCEPT ![a] = [active |-> existing[a], previous |-> "none"]]
                 ELSE versions
  /\ local' = [local EXCEPT ![a] = SwitchedOff(@)]
  /\ UNCHANGED <<remote, pc, fetched, existing, edits, calls, history>>

Report ==
  /\ \/ pc = "disabling" /\ todo = {} /\ synced' = TRUE
     \/ pc = "refused" /\ UNCHANGED synced
  /\ pc' = "idle"
  /\ UNCHANGED <<remote, local, versions, fetched, existing, todo, edits, calls,
                 barred, rolled>>

-----------------------------------------------------------------------------
(* enable(), disable() and rollback_version().  A remote call is refused for *)
(* an unknown agent, fails before it took effect, or after.                 *)
Set(reg, a, st) == [reg EXCEPT ![a].st = st]

Enable(a) ==
  /\ pc = "idle" /\ Call /\ synced' = FALSE
  /\ \/ UNCHANGED <<remote, local, barred, rolled>>
     \/ /\ remote[a].st # "absent" /\ remote' = Set(remote, a, "on")
        /\ local' \in {local} \cup
             (IF local[a].st # "absent" THEN {Set(local, a, "on")} ELSE {})
        /\ barred' = barred \ {a} /\ UNCHANGED rolled
  /\ UNCHANGED <<versions, refreshing, edits>>

\* The mutant forgets the local registry.
SwitchedMutant(a) == local
Switched(a) == Set(local, a, "off")

Disable(a) ==
  /\ pc = "idle" /\ Call /\ synced' = FALSE
  /\ \/ UNCHANGED <<remote, local, barred>>
     \/ /\ remote[a].st # "absent" /\ remote' = Set(remote, a, "off")
        /\ \/ UNCHANGED <<local, barred>> \* the answer is lost, or the agent unknown here
           \/ /\ local[a].st # "absent" /\ local' = Switched(a)
              /\ barred' = barred \cup {a}
  /\ UNCHANGED <<versions, refreshing, edits, rolled>>

\* A PUT of a definition: the registry keeps its version if it stores versions.
Told(a, v) ==
  IF v \in RemoteVersions THEN [remote EXCEPT ![a].ver = v] ELSE remote

\* Local first, then the remote registry; the version is what an operator counts on
\* when the call was answered.  get() raises for an unknown agent.
\* The definition to go back to may be an enabled or a disabled one.
Rollback(a, v, st) ==
  /\ pc = "idle" /\ Call /\ synced' = FALSE
  /\ local[a].st # "absent"
  /\ LET state == IF versions[a] = Untracked
                  THEN [active |-> local[a].ver, previous |-> "none"] ELSE versions[a]
     IN versions' = [versions EXCEPT ![a] =
          [active   |-> v,
           previous |-> IF state.previous = "none" THEN state.active ELSE state.previous]]
  /\ local' = [local EXCEPT ![a] = [st |-> st, ver |-> v]]
  /\ \/ /\ UNCHANGED remote \* refused or not reached
        /\ rolled' = [rolled EXCEPT ![a] = "none"]
     \/ /\ remote[a].st # "absent" /\ remote' = Told(a, v)
        /\ rolled' \in {[rolled EXCEPT ![a] = r] : r \in {"none", v}}
  /\ barred' = barred \ {a}
  /\ UNCHANGED <<refreshing, edits>>

-----------------------------------------------------------------------------
Refresh ==
  \/ Fetch \/ FetchFails \/ AddsDone \/ Report
  \/ \E a \in Agents : AddOrUpdate(a) \/ Refuse(a) \/ DisableGone(a)

Operate(a) ==
  \/ Enable(a) \/ Disable(a)
  \/ \E v \in Versions, st \in {"on", "off"} : Rollback(a, v, st)

Next == Refresh \/ \E a \in Agents : Operate(a) \/ RemoteEdit(a)

Spec == Init /\ [][Next]_vars

-----------------------------------------------------------------------------
\* Every variable has the type the code gives it.
TypeOK ==
  /\ remote \in [Agents -> Entry] /\ local \in [Agents -> Entry]
  /\ versions \in [Agents -> Track]
  /\ pc \in {"idle", "adding", "disabling", "refused"}
  /\ DOMAIN fetched \subseteq Agents /\ DOMAIN existing \subseteq Agents
  /\ fetched \in [DOMAIN fetched -> Versions]
  /\ existing \in [DOMAIN existing -> Versions]
  /\ todo \subseteq Agents /\ edits \in Nat /\ calls \in Nat
  /\ synced \in BOOLEAN /\ barred \subseteq Agents
  /\ rolled \in [Agents -> Versions \cup {"none"}]

\* A refresh() that reports back has made the enabled agents of the pool, with
\* their versions, exactly the list it fetched, whatever was there before.
RefreshMirrors == synced => Versioned(local) = fetched

\* An agent that disable() has disabled stays disabled, here and there, through
\* every refresh(), until somebody enables or rolls back that agent.
DisableSticks == \A a \in barred : local[a].st # "on" /\ remote[a].st # "on"

\* An agent that rollback_version() has brought back to a version is never deleted and
\* keeps that version, switched on or off, through every refresh(), until one reads
\* another version of it from the remote registry.
RollbackHolds ==
  \A a \in Agents : rolled[a] # "none" => local[a].st # "absent" /\ local[a].ver = rolled[a]

\* Refuted by the code with the registry of this repository: "`rollback_version()`
\* mutate local + remote state"; the version that was rolled back to is there, too.
RollbackReachesRemote ==
  \A a \in Agents : rolled[a] # "none" => remote[a].ver = rolled[a]

\* Refuted by the code: a refresh() that got the list applies it, "add / remove
\* (disables, never deletes) / version-change diffs".
RefreshApplies == pc # "refused"
===============================================================================
