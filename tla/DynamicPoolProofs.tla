--------------------------- MODULE DynamicPoolProofs ---------------------------
(* Theorems about DynamicPool for any set of agents and versions.          *)
EXTENDS DynamicPool, TLAPS

\* What a refresh() on its way has still to do is on one of its lists.
TodoInv ==
  /\ pc = "adding" => todo \subseteq DOMAIN fetched
  /\ pc = "disabling" => todo \subseteq DOMAIN existing \ DOMAIN fetched

\* What it has done so far, and what is still as it found it.
Adding(a) ==
  IF a \in DOMAIN fetched \ todo
  THEN local[a].st = "on" /\ local[a].ver = fetched[a]
  ELSE /\ (a \in DOMAIN existing) <=> (local[a].st = "on")
       /\ a \in DOMAIN existing => local[a].ver = existing[a]

Disabling(a) ==
  IF a \in DOMAIN fetched
  THEN local[a].st = "on" /\ local[a].ver = fetched[a]
  ELSE local[a].st = "on" <=> a \in todo

RefreshInv ==
  /\ pc = "adding" => \A a \in Agents : Adding(a)
  /\ pc = "disabling" => \A a \in Agents : Disabling(a)
  /\ synced => pc = "idle" /\ RefreshMirrors

\* The list a refresh() works on was fetched after whatever it could undo.
BarredInv ==
  DisableSticks /\ (pc # "idle" => barred \cap DOMAIN fetched = {})

\* Nor will a refresh() on its way change the version of an agent rolled back.
RolledInv ==
  /\ RollbackHolds
  /\ pc # "idle" => \A a \in DOMAIN fetched : rolled[a] # "none" => fetched[a] = rolled[a]

-----------------------------------------------------------------------------
\* What switching the state of one entry does.
LEMMA SwitchType ==
  ASSUME NEW reg \in [Agents -> Entry], NEW a \in Agents, NEW st \in {"absent", "off", "on"}
  PROVE  /\ Set(reg, a, st) \in [Agents -> Entry]
         /\ Set(reg, a, st)[a].st = st /\ Set(reg, a, st)[a].ver = reg[a].ver
         /\ \A c \in Agents : c # a => Set(reg, a, st)[c] = reg[c]
<1>1. reg[a] \in Entry  OBVIOUS
<1>2. [reg[a] EXCEPT !.st = st] = [st |-> st, ver |-> reg[a].ver]
  BY <1>1 DEF Entry
<1>3. Set(reg, a, st) = [reg EXCEPT ![a] = [reg[a] EXCEPT !.st = st]]
  BY DEF Set
<1>4. QED  BY <1>1, <1>2, <1>3 DEF Entry

LEMMA PoolTypeInit == Init => TypeOK /\ TodoInv
<1> SUFFICES ASSUME Init PROVE TypeOK /\ TodoInv
  OBVIOUS
<1>1. local \in [Agents -> Entry] /\ remote \in [Agents -> Entry]
  BY DEF Init
<1>2. \A a \in Agents : local[a].ver \in Versions  BY <1>1 DEF Entry
<1>3. fetched = [a \in EnabledIn(local) |-> local[a].ver] /\ existing = fetched
      /\ EnabledIn(local) \subseteq Agents
  BY DEF Init, Versioned, EnabledIn
<1>4. fetched \in [DOMAIN fetched -> Versions] /\ DOMAIN fetched \subseteq Agents
  BY <1>2, <1>3
<1>5. QED  BY <1>1, <1>3, <1>4 DEF Init, TypeOK, TodoInv, Track, Untracked

\* What a list of enabled agents looks like.
LEMMA VersionedType ==
  ASSUME NEW reg \in [Agents -> Entry]
  PROVE  /\ DOMAIN Versioned(reg) = EnabledIn(reg) /\ EnabledIn(reg) \subseteq Agents
         /\ Versioned(reg) \in [DOMAIN Versioned(reg) -> Versions]
         /\ \A a \in Agents : a \in DOMAIN Versioned(reg) <=> reg[a].st = "on"
         /\ \A a \in DOMAIN Versioned(reg) : Versioned(reg)[a] = reg[a].ver
BY DEF Versioned, EnabledIn, Entry

LEMMA PoolTypeNext == TypeOK /\ TodoInv /\ [Next]_vars => TypeOK'
<1> SUFFICES ASSUME TypeOK, TodoInv, [Next]_vars PROVE TypeOK'
  OBVIOUS
<1> USE DEF TypeOK
<1>1. CASE Fetch
  <2>1. /\ DOMAIN fetched' \subseteq Agents /\ DOMAIN existing' \subseteq Agents
        /\ fetched' \in [DOMAIN fetched' -> Versions]
        /\ existing' \in [DOMAIN existing' -> Versions] /\ todo' \subseteq Agents
    <3>1. fetched' = Versioned(remote) /\ existing' = Versioned(local) /\ todo' = EnabledIn(remote)
      BY <1>1 DEF Fetch
    <3>2. /\ DOMAIN Versioned(remote) \subseteq Agents
          /\ Versioned(remote) \in [DOMAIN Versioned(remote) -> Versions]
          /\ EnabledIn(remote) \subseteq Agents
      BY VersionedType
    <3>3. /\ DOMAIN Versioned(local) \subseteq Agents
          /\ Versioned(local) \in [DOMAIN Versioned(local) -> Versions]
      BY VersionedType
    <3>4. QED  BY <3>1, <3>2, <3>3
  <2>2. /\ Call /\ synced' = FALSE /\ pc' = "adding"
        /\ UNCHANGED <<remote, local, versions, edits, barred>>
    BY <1>1 DEF Fetch
  <2>3. synced' \in BOOLEAN  BY <2>2, Zenon
  <2>4. rolled' \in [Agents -> Versions \cup {"none"}]  BY <1>1 DEF Fetch
  <2>5. QED  BY <2>1, <2>2, <2>3, <2>4 DEF Call
<1>2. CASE FetchFails
  <2>1. synced' \in BOOLEAN  BY <1>2, Zenon DEF FetchFails
  <2>2. QED  BY <1>2, <2>1 DEF FetchFails, Call, refreshing
<1>3. CASE AddsDone  BY <1>3 DEF AddsDone, history
<1>4. CASE Report  BY <1>4 DEF Report
<1>5. ASSUME NEW a \in Agents, AddOrUpdate(a), a \in DOMAIN fetched PROVE TypeOK'
  <2>1. /\ local' \in [Agents -> Entry]
        /\ versions' \in [Agents -> Track]
    <3>1. a \in DOMAIN existing => existing[a] \in Versions  OBVIOUS
    <3>2. fetched[a] \in Versions  BY <1>5
    <3>3. CASE Keep(a)  BY <3>3 DEF Keep
    <3>4. CASE Replace(a)  BY <3>1, <3>2, <3>4 DEF Replace, Entry, Track
    <3>5. CASE Register(a)  BY <3>2, <3>5 DEF Register, Entry, Track
    <3>6. QED  BY <1>5, <3>3, <3>4, <3>5 DEF AddOrUpdate
  <2>2. QED  BY <1>5, <2>1 DEF AddOrUpdate, history
<1>6. ASSUME NEW a \in Agents, Refuse(a) PROVE TypeOK'
  BY <1>6 DEF Refuse, history
<1>7. ASSUME NEW a \in Agents, DisableGone(a), a \in DOMAIN existing PROVE TypeOK'
  <2>1. local' \in [Agents -> Entry]
    BY <1>7 DEF DisableGone, SwitchedOff, Entry
  <2>2. versions' \in [Agents -> Track]
    BY <1>7 DEF DisableGone, Track
  <2>3. QED  BY <1>7, <2>1, <2>2 DEF DisableGone, history
<1>8. ASSUME NEW a \in Agents, Enable(a) PROVE TypeOK'
  <2>1. Set(remote, a, "on") \in [Agents -> Entry] /\ Set(local, a, "on") \in [Agents -> Entry]
    BY SwitchType
  <2>2. remote' \in [Agents -> Entry] /\ local' \in [Agents -> Entry]
    BY <1>8, <2>1 DEF Enable
  <2>3. barred' \subseteq Agents /\ rolled' = rolled  BY <1>8 DEF Enable
  <2>4. Call /\ synced' = FALSE /\ UNCHANGED <<versions, refreshing, edits>>
    BY <1>8 DEF Enable
  <2>5. synced' \in BOOLEAN  BY <2>4, Zenon
  <2>6. QED  BY <2>2, <2>3, <2>4, <2>5 DEF Call, refreshing
<1>9. ASSUME NEW a \in Agents, Disable(a) PROVE TypeOK'
  <2>1. Set(remote, a, "off") \in [Agents -> Entry] /\ Set(local, a, "off") \in [Agents -> Entry]
    BY SwitchType
  <2>2. remote' \in [Agents -> Entry] /\ local' \in [Agents -> Entry]
    BY <1>9, <2>1 DEF Disable, Switched
  <2>3. barred' \subseteq Agents  BY <1>9 DEF Disable
  <2>4. Call /\ synced' = FALSE /\ UNCHANGED <<versions, refreshing, edits, rolled>>
    BY <1>9 DEF Disable
  <2>5. synced' \in BOOLEAN  BY <2>4, Zenon
  <2>6. QED  BY <2>2, <2>3, <2>4, <2>5 DEF Call, refreshing
<1>10. ASSUME NEW a \in Agents, NEW v \in Versions, NEW st \in {"on", "off"}, Rollback(a, v, st)
       PROVE TypeOK'
  <2>1. local' \in [Agents -> Entry]  BY <1>10 DEF Rollback, Entry
  <2>2. versions' \in [Agents -> Track]
    <3>1. local[a].ver \in Versions /\ versions[a] \in Track  BY DEF Entry
    <3>2. QED  BY <1>10, <3>1 DEF Rollback, Track
  <2>3. remote' \in [Agents -> Entry]
    <3>1. Told(a, v) \in [Agents -> Entry]
      <4>1. remote[a] \in Entry  OBVIOUS
      <4>2. [remote[a] EXCEPT !.ver = v] \in Entry  BY <4>1 DEF Entry
      <4>3. QED  BY <4>2 DEF Told
    <3>2. QED  BY <1>10, <3>1 DEF Rollback
  <2>4. rolled' \in [Agents -> Versions \cup {"none"}] /\ barred' \subseteq Agents
    BY <1>10 DEF Rollback
  <2>5. Call /\ synced' = FALSE /\ UNCHANGED <<refreshing, edits>>
    BY <1>10 DEF Rollback
  <2>6. synced' \in BOOLEAN  BY <2>5, Zenon
  <2>7. QED  BY <2>1, <2>2, <2>3, <2>4, <2>5, <2>6 DEF Call, refreshing
<1>11. ASSUME NEW a \in Agents, RemoteEdit(a) PROVE TypeOK'
  <2>1. remote' \in [Agents -> Entry]  BY <1>11 DEF RemoteEdit
  <2>2. QED  BY <1>11, <2>1 DEF RemoteEdit, refreshing
<1>12. CASE UNCHANGED vars  BY <1>12 DEF vars, refreshing, history
<1>13. ASSUME NEW a \in Agents, AddOrUpdate(a) PROVE a \in DOMAIN fetched
  BY <1>13 DEF AddOrUpdate, TodoInv
<1>14. ASSUME NEW a \in Agents, DisableGone(a) PROVE a \in DOMAIN existing
  BY <1>14 DEF DisableGone, TodoInv
<1>15. QED
  BY <1>1, <1>2, <1>3, <1>4, <1>5, <1>6, <1>7, <1>8, <1>9, <1>10, <1>11, <1>12, <1>13, <1>14
  DEF Next, Refresh, Operate

LEMMA TodoNext == TypeOK /\ TodoInv /\ [Next]_vars => TodoInv'
<1> SUFFICES ASSUME TypeOK, TodoInv, [Next]_vars PROVE TodoInv'
  OBVIOUS
<1>1. CASE Fetch
  <2>1. DOMAIN fetched' = todo'  BY <1>1, VersionedType DEF Fetch, TypeOK
  <2>2. QED  BY <1>1, <2>1 DEF Fetch, TodoInv
<1>2. CASE FetchFails  BY <1>2 DEF FetchFails, TodoInv, refreshing
<1>3. CASE AddsDone  BY <1>3 DEF AddsDone, TodoInv
<1>4. CASE Report  BY <1>4 DEF Report, TodoInv
<1>5. ASSUME NEW a \in Agents, AddOrUpdate(a) \/ Refuse(a) \/ DisableGone(a) PROVE TodoInv'
  BY <1>5 DEF AddOrUpdate, Refuse, DisableGone, TodoInv
<1>6. ASSUME NEW a \in Agents, Enable(a) \/ Disable(a) PROVE TodoInv'
  BY <1>6 DEF Enable, Disable, TodoInv, refreshing
<1>7. ASSUME NEW a \in Agents, NEW v \in Versions, NEW st \in {"on", "off"}, Rollback(a, v, st)
      PROVE TodoInv'
  BY <1>7 DEF Rollback, TodoInv, refreshing
<1>8. ASSUME NEW a \in Agents, RemoteEdit(a) PROVE TodoInv'
  BY <1>8 DEF RemoteEdit, TodoInv, refreshing
<1>9. CASE UNCHANGED vars  BY <1>9 DEF vars, TodoInv, refreshing
<1>10. QED  BY <1>1, <1>2, <1>3, <1>4, <1>5, <1>6, <1>7, <1>8, <1>9 DEF Next, Refresh, Operate

\* Every variable of the pool keeps its type, whatever refresh() meets on its
\* way and whatever others do to the remote registry meanwhile.
THEOREM PoolTypeCorrect == Spec => []TypeOK
<1>1. Init => TypeOK /\ TodoInv  BY PoolTypeInit
<1>2. TypeOK /\ TodoInv /\ [Next]_vars => TypeOK' /\ TodoInv'  BY PoolTypeNext, TodoNext
<1>3. QED  BY <1>1, <1>2, PTL DEF Spec

LEMMA PoolTyped == Spec => [](TypeOK /\ TodoInv)
<1>1. QED  BY PoolTypeInit, PoolTypeNext, TodoNext, PTL DEF Spec

-----------------------------------------------------------------------------
LEMMA RefreshInvNext == TypeOK /\ TodoInv /\ RefreshInv /\ [Next]_vars => RefreshInv'
<1> SUFFICES ASSUME TypeOK, TodoInv, RefreshInv, [Next]_vars PROVE RefreshInv'
  OBVIOUS
<1>1. CASE Fetch
  <2>1. \A a \in Agents :
          /\ a \in DOMAIN existing' <=> local[a].st = "on"
          /\ a \in DOMAIN existing' => existing'[a] = local[a].ver
    BY <1>1, VersionedType DEF Fetch, TypeOK
  <2>2. DOMAIN fetched' = todo'  BY <1>1, VersionedType DEF Fetch, TypeOK
  <2>3. local' = local /\ pc' = "adding" /\ ~synced'  BY <1>1 DEF Fetch
  <2>4. \A a \in Agents : Adding(a)'  BY <2>1, <2>2, <2>3 DEF Adding
  <2>5. QED  BY <2>3, <2>4 DEF RefreshInv
<1>2. CASE FetchFails
  <2>1. pc = "idle" /\ pc' = pc /\ ~synced'  BY <1>2 DEF FetchFails, refreshing
  <2>2. QED  BY <2>1 DEF RefreshInv
<1>3. CASE AddsDone
  <2>1. /\ pc = "adding" /\ todo = {} /\ pc' = "disabling"
        /\ todo' = DOMAIN existing \ DOMAIN fetched
        /\ UNCHANGED <<local, fetched, existing, synced>>
    BY <1>3 DEF AddsDone, history
  <2>2. \A a \in Agents : Disabling(a)'
    BY <2>1 DEF RefreshInv, Adding, Disabling
  <2>3. QED  BY <2>1, <2>2 DEF RefreshInv
<1>4. CASE Report
  <2>1. pc' = "idle" /\ UNCHANGED <<local, fetched>>  BY <1>4 DEF Report
  <2>2. CASE pc = "disabling" /\ todo = {}
    <3>1. \A a \in Agents : /\ local[a].st = "on" <=> a \in DOMAIN fetched
                            /\ a \in DOMAIN fetched => local[a].ver = fetched[a]
      BY <2>2 DEF RefreshInv, Disabling
    <3>2. EnabledIn(local) = DOMAIN fetched  BY <3>1 DEF EnabledIn, TypeOK
    <3>3. Versioned(local) = fetched  BY <3>1, <3>2 DEF Versioned, TypeOK
    <3>4. Versioned(local)' = fetched'
      BY <2>1, <3>3 DEF Versioned, EnabledIn
    <3>5. QED  BY <2>1, <3>4 DEF RefreshInv, RefreshMirrors
  <2>3. CASE pc = "refused" /\ UNCHANGED synced
    BY <2>1, <2>3 DEF RefreshInv
  <2>4. QED  BY <1>4, <2>2, <2>3 DEF Report
<1>5. ASSUME NEW a \in Agents, AddOrUpdate(a) PROVE RefreshInv'
  <2>1. /\ pc = "adding" /\ a \in todo /\ todo' = todo \ {a}
        /\ UNCHANGED <<pc, fetched, existing, synced>>
    BY <1>5 DEF AddOrUpdate, history
  <2>2. a \in DOMAIN fetched  BY <2>1 DEF TodoInv
  <2>3. Adding(a)  BY <2>1 DEF RefreshInv
  <2>4. /\ local'[a].st = "on" /\ local'[a].ver = fetched[a]
        /\ \A c \in Agents : c # a => local'[c] = local[c]
    <3>1. CASE Keep(a)  BY <2>1, <2>2, <2>3, <3>1 DEF Keep, Changed, Adding
    <3>2. CASE Replace(a)  BY <3>2 DEF Replace, TypeOK
    <3>3. CASE Register(a)  BY <3>3 DEF Register, TypeOK
    <3>4. QED  BY <1>5, <3>1, <3>2, <3>3 DEF AddOrUpdate
  <2>5. ASSUME NEW c \in Agents PROVE Adding(c)'
    <3>1. Adding(c)  BY <2>1 DEF RefreshInv
    <3>2. CASE c = a  BY <2>1, <2>2, <2>4, <3>2 DEF Adding
    <3>3. CASE c # a  BY <2>1, <2>4, <3>1, <3>3 DEF Adding
    <3>4. QED  BY <3>2, <3>3
  <2>6. QED  BY <2>1, <2>5 DEF RefreshInv
<1>6. ASSUME NEW a \in Agents, Refuse(a) PROVE RefreshInv'
  <2>1. pc = "adding" /\ pc' = "refused" /\ UNCHANGED synced  BY <1>6 DEF Refuse, history
  <2>2. QED  BY <2>1 DEF RefreshInv
<1>7. ASSUME NEW a \in Agents, DisableGone(a) PROVE RefreshInv'
  <2>1. /\ pc = "disabling" /\ a \in todo /\ todo' = todo \ {a}
        /\ UNCHANGED <<pc, fetched, existing, synced>>
    BY <1>7 DEF DisableGone, history
  <2>2. a \notin DOMAIN fetched  BY <2>1 DEF TodoInv
  <2>3. /\ local'[a].st = "off"
        /\ \A c \in Agents : c # a => local'[c] = local[c]
    BY <1>7 DEF DisableGone, SwitchedOff, TypeOK, Entry
  <2>4. ASSUME NEW c \in Agents PROVE Disabling(c)'
    <3>1. Disabling(c)  BY <2>1 DEF RefreshInv
    <3>2. CASE c = a  BY <2>1, <2>2, <2>3, <3>2 DEF Disabling
    <3>3. CASE c # a  BY <2>1, <2>3, <3>1, <3>3 DEF Disabling
    <3>4. QED  BY <3>2, <3>3
  <2>5. QED  BY <2>1, <2>4 DEF RefreshInv
<1>8. ASSUME NEW a \in Agents, Enable(a) \/ Disable(a) PROVE RefreshInv'
  <2>1. pc = "idle" /\ pc' = pc /\ ~synced'  BY <1>8 DEF Enable, Disable, refreshing
  <2>2. QED  BY <2>1 DEF RefreshInv
<1>9. ASSUME NEW a \in Agents, NEW v \in Versions, NEW st \in {"on", "off"}, Rollback(a, v, st)
      PROVE RefreshInv'
  <2>1. pc = "idle" /\ pc' = pc /\ ~synced'  BY <1>9 DEF Rollback, refreshing
  <2>2. QED  BY <2>1 DEF RefreshInv
<1>10. CASE UNCHANGED <<local, refreshing, synced>>
  <2>1. UNCHANGED <<local, pc, fetched, existing, todo, synced>>  BY <1>10 DEF refreshing
  <2>2. QED
    BY <2>1 DEF RefreshInv, RefreshMirrors, Adding, Disabling, Versioned, EnabledIn
<1>11. ASSUME NEW a \in Agents, RemoteEdit(a) PROVE UNCHANGED <<local, refreshing, synced>>
  BY <1>11 DEF RemoteEdit
<1>12. CASE UNCHANGED vars  BY <1>10, <1>12 DEF vars, history
<1>13. QED
  BY <1>1, <1>2, <1>3, <1>4, <1>5, <1>6, <1>7, <1>8, <1>9, <1>10, <1>11, <1>12
  DEF Next, Refresh, Operate

\* A refresh() that reports back has made the enabled agents exactly the list it
\* fetched, for any number of agents and versions.
THEOREM RefreshIsExact == Spec => []RefreshMirrors
<1>1. Init => RefreshInv
  <2>1. Init => pc = "idle" /\ ~synced  BY DEF Init
  <2>2. QED  BY <2>1 DEF RefreshInv
<1>2. Spec => []RefreshInv
  BY <1>1, PoolTyped, RefreshInvNext, PTL DEF Spec
<1>3. RefreshInv => RefreshMirrors
  BY DEF RefreshInv, RefreshMirrors
<1>4. QED  BY <1>2, <1>3, PTL

-----------------------------------------------------------------------------
LEMMA BarredInvNext == TypeOK /\ TodoInv /\ BarredInv /\ [Next]_vars => BarredInv'
<1> SUFFICES ASSUME TypeOK, TodoInv, BarredInv, [Next]_vars PROVE BarredInv'
  OBVIOUS
<1>1. CASE Fetch
  <2>1. \A a \in Agents : a \in DOMAIN fetched' <=> remote[a].st = "on"
    BY <1>1, VersionedType DEF Fetch, TypeOK
  <2>2. UNCHANGED <<remote, local, barred>>  BY <1>1 DEF Fetch
  <2>3. QED  BY <2>1, <2>2 DEF BarredInv, DisableSticks, TypeOK
<1>2. CASE FetchFails  BY <1>2 DEF FetchFails, BarredInv, DisableSticks, refreshing
<1>3. CASE AddsDone  BY <1>3 DEF AddsDone, BarredInv, DisableSticks, history
<1>4. CASE Report  BY <1>4 DEF Report, BarredInv, DisableSticks
<1>5. ASSUME NEW a \in Agents, AddOrUpdate(a) PROVE BarredInv'
  <2>1. pc # "idle" /\ a \in DOMAIN fetched  BY <1>5 DEF AddOrUpdate, TodoInv
  <2>2. a \notin barred  BY <2>1 DEF BarredInv
  <2>3. \A c \in Agents : c # a => local'[c] = local[c]
    BY <1>5 DEF AddOrUpdate, Keep, Replace, Register, TypeOK
  <2>4. UNCHANGED <<remote, fetched, barred>> /\ pc' = pc
    BY <1>5 DEF AddOrUpdate, history
  <2>5. QED  BY <2>2, <2>3, <2>4 DEF BarredInv, DisableSticks, TypeOK
<1>6. ASSUME NEW a \in Agents, Refuse(a) PROVE BarredInv'
  BY <1>6 DEF Refuse, BarredInv, DisableSticks, history
<1>7. ASSUME NEW a \in Agents, DisableGone(a) PROVE BarredInv'
  <2>1. /\ local'[a].st = "off"
        /\ \A c \in Agents : c # a => local'[c] = local[c]
    BY <1>7 DEF DisableGone, SwitchedOff, TypeOK, Entry
  <2>2. UNCHANGED <<remote, fetched, barred, pc>>
    BY <1>7 DEF DisableGone, history
  <2>3. QED  BY <2>1, <2>2 DEF BarredInv, DisableSticks, TypeOK
<1>8. ASSUME NEW a \in Agents, Enable(a) PROVE BarredInv'
  <2>1. pc = "idle" /\ pc' = "idle"  BY <1>8 DEF Enable, refreshing
  <2>2. CASE UNCHANGED <<remote, local, barred>>
    BY <2>1, <2>2 DEF BarredInv, DisableSticks
  <2>3. CASE barred' = barred \ {a}
    <3>1. \A c \in Agents : c # a => local'[c] = local[c] /\ remote'[c] = remote[c]
      <4>1. \A c \in Agents : c # a => /\ Set(remote, a, "on")[c] = remote[c]
                                       /\ Set(local, a, "on")[c] = local[c]
        BY SwitchType DEF TypeOK
      <4>2. QED  BY <1>8, <4>1 DEF Enable
    <3>2. QED  BY <2>1, <2>3, <3>1 DEF BarredInv, DisableSticks, TypeOK
  <2>4. QED  BY <1>8, <2>2, <2>3 DEF Enable
<1>9. ASSUME NEW a \in Agents, Disable(a) PROVE BarredInv'
  <2>1. pc = "idle" /\ pc' = "idle"  BY <1>9 DEF Disable, refreshing
  <2>2. /\ Set(remote, a, "off")[a].st = "off" /\ Set(local, a, "off")[a].st = "off"
        /\ \A c \in Agents : c # a => /\ Set(remote, a, "off")[c] = remote[c]
                                      /\ Set(local, a, "off")[c] = local[c]
    <3>1. remote \in [Agents -> Entry] /\ local \in [Agents -> Entry]  BY DEF TypeOK
    <3>2. /\ Set(remote, a, "off")[a].st = "off"
          /\ \A c \in Agents : c # a => Set(remote, a, "off")[c] = remote[c]
      BY <3>1, SwitchType
    <3>3. /\ Set(local, a, "off")[a].st = "off"
          /\ \A c \in Agents : c # a => Set(local, a, "off")[c] = local[c]
      BY <3>1, SwitchType
    <3>4. QED  BY <3>2, <3>3
  <2>3. CASE UNCHANGED <<remote, local, barred>>
    BY <2>1, <2>3 DEF BarredInv, DisableSticks
  <2>4. CASE remote' = Set(remote, a, "off") /\ UNCHANGED <<local, barred>>
    BY <2>1, <2>2, <2>4 DEF BarredInv, DisableSticks, TypeOK
  <2>5. CASE /\ remote' = Set(remote, a, "off") /\ local' = Set(local, a, "off")
             /\ barred' = barred \cup {a}
    BY <2>1, <2>2, <2>5 DEF BarredInv, DisableSticks, TypeOK
  <2>6. QED  BY <1>9, <2>3, <2>4, <2>5 DEF Disable, Switched
<1>10. ASSUME NEW a \in Agents, NEW v \in Versions, NEW st \in {"on", "off"}, Rollback(a, v, st)
       PROVE BarredInv'
  <2>1. pc = "idle" /\ pc' = "idle" /\ barred' = barred \ {a}
    BY <1>10 DEF Rollback, refreshing
  <2>2. \A c \in Agents : c # a => local'[c] = local[c] /\ remote'[c] = remote[c]
    BY <1>10 DEF Rollback, Told, TypeOK
  <2>3. QED  BY <2>1, <2>2 DEF BarredInv, DisableSticks, TypeOK
<1>11. ASSUME NEW a \in Agents, RemoteEdit(a) PROVE BarredInv'
  <2>1. /\ barred' = barred \ {a} /\ UNCHANGED <<local, pc, fetched>>
        /\ \A c \in Agents : c # a => remote'[c] = remote[c]
    BY <1>11 DEF RemoteEdit, refreshing, TypeOK
  <2>2. QED  BY <2>1 DEF BarredInv, DisableSticks, TypeOK
<1>12. CASE UNCHANGED vars
  BY <1>12 DEF vars, BarredInv, DisableSticks, refreshing, history
<1>13. QED
  BY <1>1, <1>2, <1>3, <1>4, <1>5, <1>6, <1>7, <1>8, <1>9, <1>10, <1>11, <1>12
  DEF Next, Refresh, Operate

\* What disable() has disabled no refresh() brings back, however it interleaves
\* with the edits of others, until somebody asks for that agent.
THEOREM DisabledStays == Spec => []DisableSticks
<1>1. Init => BarredInv  BY DEF Init, BarredInv, DisableSticks
<1>2. Spec => []BarredInv  BY <1>1, PoolTyped, BarredInvNext, PTL DEF Spec
<1>3. BarredInv => DisableSticks  BY DEF BarredInv
<1>4. QED  BY <1>2, <1>3, PTL

-----------------------------------------------------------------------------
LEMMA RolledInvNext == TypeOK /\ TodoInv /\ RolledInv /\ [Next]_vars => RolledInv'
<1> SUFFICES ASSUME TypeOK, TodoInv, RolledInv, [Next]_vars PROVE RolledInv'
  OBVIOUS
<1>1. CASE Fetch
  <2>1. fetched' = Versioned(remote) /\ UNCHANGED local  BY <1>1 DEF Fetch
  <2>2. ASSUME NEW a \in DOMAIN fetched', rolled'[a] # "none"
        PROVE  fetched'[a] = rolled'[a]
    <3>1. a \in Agents /\ a \in EnabledIn(remote) /\ fetched'[a] = remote[a].ver
      BY <2>1, <2>2, VersionedType DEF TypeOK
    <3>2. rolled'[a] = IF a \in EnabledIn(remote) /\ remote[a].ver # rolled[a]
                       THEN "none" ELSE rolled[a]
      BY <1>1, <3>1 DEF Fetch
    <3>3. QED  BY <2>2, <3>1, <3>2
  <2>3. \A a \in Agents : rolled'[a] # "none" => rolled'[a] = rolled[a]
    BY <1>1 DEF Fetch
  <2>4. QED  BY <2>1, <2>2, <2>3 DEF RolledInv, RollbackHolds
<1>2. CASE FetchFails  BY <1>2 DEF FetchFails, RolledInv, RollbackHolds, refreshing
<1>3. CASE AddsDone  BY <1>3 DEF AddsDone, RolledInv, RollbackHolds, history
<1>4. CASE Report  BY <1>4 DEF Report, RolledInv, RollbackHolds
<1>5. ASSUME NEW a \in Agents, AddOrUpdate(a) PROVE RolledInv'
  <2>1. pc # "idle" /\ a \in DOMAIN fetched  BY <1>5 DEF AddOrUpdate, TodoInv
  <2>2. rolled[a] # "none" => fetched[a] = rolled[a]  BY <2>1 DEF RolledInv
  <2>3. /\ (local'[a].st = "on" /\ local'[a].ver = fetched[a]) \/ local'[a] = local[a]
        /\ \A c \in Agents : c # a => local'[c] = local[c]
    BY <1>5 DEF AddOrUpdate, Keep, Replace, Register, TypeOK
  <2>4. UNCHANGED <<fetched, rolled, pc>>  BY <1>5 DEF AddOrUpdate, history
  <2>5. QED  BY <2>2, <2>3, <2>4 DEF RolledInv, RollbackHolds
<1>6. ASSUME NEW a \in Agents, Refuse(a) PROVE RolledInv'
  BY <1>6 DEF Refuse, RolledInv, RollbackHolds, history
<1>7. ASSUME NEW a \in Agents, DisableGone(a) PROVE RolledInv'
  <2>1. \A c \in Agents : /\ local'[c].ver = local[c].ver
                          /\ local'[c].st = local[c].st \/ local'[c].st = "off"
    BY <1>7 DEF DisableGone, SwitchedOff, TypeOK, Entry
  <2>2. UNCHANGED <<fetched, rolled, pc>>  BY <1>7 DEF DisableGone, history
  <2>3. QED  BY <2>1, <2>2 DEF RolledInv, RollbackHolds
<1>8. ASSUME NEW a \in Agents, Enable(a) \/ Disable(a) PROVE RolledInv'
  <2>1. \A st \in {"on", "off"}, c \in Agents :
          /\ Set(local, a, st)[c].ver = local[c].ver
          /\ Set(local, a, st)[c].st \in {local[c].st, "on", "off"}
    <3>1. TAKE st \in {"on", "off"}, c \in Agents
    <3>2. CASE a = c  BY <3>2, SwitchType DEF TypeOK
    <3>3. CASE a # c  BY <3>3, SwitchType DEF TypeOK
    <3>4. QED  BY <3>2, <3>3
  <2>2. local' \in {local, Set(local, a, "on"), Set(local, a, "off")}
    BY <1>8 DEF Enable, Disable, Switched
  <2>3. \A c \in Agents : /\ local'[c].ver = local[c].ver
                          /\ local'[c].st \in {local[c].st, "on", "off"}
    BY <2>1, <2>2
  <2>4. UNCHANGED <<pc, fetched, rolled>>  BY <1>8 DEF Enable, Disable, refreshing
  <2>5. QED  BY <2>3, <2>4 DEF RolledInv, RollbackHolds
<1>9. ASSUME NEW a \in Agents, NEW v \in Versions, NEW st \in {"on", "off"}, Rollback(a, v, st)
      PROVE RolledInv'
  <2>1. /\ local'[a] = [st |-> st, ver |-> v]
        /\ \A c \in Agents : c # a => local'[c] = local[c]
    BY <1>9 DEF Rollback, TypeOK
  <2>2. /\ rolled'[a] \in {"none", v}
        /\ \A c \in Agents : c # a => rolled'[c] = rolled[c]
    BY <1>9 DEF Rollback, TypeOK
  <2>3. pc = "idle" /\ UNCHANGED pc  BY <1>9 DEF Rollback, refreshing
  <2>4. QED  BY <2>1, <2>2, <2>3 DEF RolledInv, RollbackHolds
<1>10. ASSUME NEW a \in Agents, RemoteEdit(a) PROVE RolledInv'
  BY <1>10 DEF RemoteEdit, refreshing, RolledInv, RollbackHolds
<1>11. CASE UNCHANGED vars
  BY <1>11 DEF vars, RolledInv, RollbackHolds, refreshing, history
<1>12. QED
  BY <1>1, <1>2, <1>3, <1>4, <1>5, <1>6, <1>7, <1>8, <1>9, <1>10, <1>11
  DEF Next, Refresh, Operate

\* What rollback_version() has brought back is never deleted and keeps its version,
\* whatever versions the remote registry stores, until a refresh() reads another one.
THEOREM RollbackHeld == Spec => []RollbackHolds
<1>1. Init => RolledInv  BY DEF Init, RolledInv, RollbackHolds
<1>2. Spec => []RolledInv  BY <1>1, RolledInvNext, PoolTyped, PTL DEF Spec
<1>3. RolledInv => RollbackHolds  BY DEF RolledInv
<1>4. QED  BY <1>2, <1>3, PTL
===============================================================================
