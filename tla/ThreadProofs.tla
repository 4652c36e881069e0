------------------------------ MODULE ThreadProofs ------------------------------
(***************************************************************************)
(* Theorems about the two places where threads race: the event stream      *)
(* (EventStream), for any number of emitters and consumers, and guarded    *)
(* calls (GuardedCall), for any agents, tools and limits.  The two share   *)
(* nothing but the threads of a run.                                       *)
(***************************************************************************)
EXTENDS EventStream, GuardedCall, FiniteSetTheorems, TLAPS

\* A thread inside emit() has an event.
EmittingInv == \A p \in Emitters : emitter[p] # "idle" => sent[p] > 0

TypeInv == TypeOK /\ EmittingInv

\* The event of p has not been put into the queue yet.
Ahead(p) == emitter[p] \in {"recording", "putting"} \/ (SinkFirst /\ emitter[p] = "posting")

\* What was accepted of p are events that p has emitted, but the one it is about.
AcceptedInv ==
  \A e \in accepted : e.n <= sent[e.by] /\ (Ahead(e.by) => e.n < sent[e.by])

\* The queue continues, for every emitter, what the consumers were given.
OrderInv ==
  /\ \A i, j \in DOMAIN queue :
       i < j /\ queue[i] # End /\ queue[j] # End /\ queue[i].by = queue[j].by =>
         queue[i].n < queue[j].n
  /\ \A c \in Consumers : \A i \in DOMAIN taken[c], j \in DOMAIN queue :
       queue[j] # End /\ taken[c][i].by = queue[j].by => taken[c][i].n < queue[j].n
  /\ InOrder

IInv == TypeInv /\ AcceptedInv /\ NothingLost /\ OrderInv

-----------------------------------------------------------------------------
(* Type correctness.                                                       *)
LEMMA EndIsNoEvent == End \notin Events
BY StreamAssumption DEF End, Events

LEMMA EventType ==
  ASSUME TypeInv, NEW p \in Emitters, emitter[p] # "idle"
  PROVE  Event(p) \in Events /\ Event(p).by = p /\ Event(p).n = sent[p]
BY DEF TypeInv, TypeOK, EmittingInv, Event, Events

\* What a get() returns and leaves.
LEMMA GetFacts ==
  ASSUME NEW S, NEW q \in Seq(S), q # <<>>
  PROVE  /\ Head(q) \in S /\ Head(q) = q[1] /\ 1 \in DOMAIN q /\ Tail(q) \in Seq(S)
         /\ \A i \in DOMAIN Tail(q) : i + 1 \in DOMAIN q /\ Tail(q)[i] = q[i + 1]
         /\ \A j \in DOMAIN q : j > 1 => j - 1 \in DOMAIN Tail(q) /\ Tail(q)[j - 1] = q[j]
OBVIOUS

\* What a put() adds.
LEMMA PutFacts ==
  ASSUME NEW S, NEW q \in Seq(S), NEW e \in S
  PROVE  /\ Append(q, e) \in Seq(S)
         /\ DOMAIN Append(q, e) = DOMAIN q \cup {Len(q) + 1} /\ Len(q) + 1 \notin DOMAIN q
         /\ \A i \in DOMAIN q : i < Len(q) + 1 /\ Append(q, e)[i] = q[i]
         /\ Append(q, e)[Len(q) + 1] = e
OBVIOUS

LEMMA StreamTypeInit == Init => TypeInv
BY StreamAssumption DEF Init, TypeInv, TypeOK, EmittingInv

LEMMA StreamTypeNext == TypeInv /\ [Next]_vars => TypeInv'
<1> SUFFICES ASSUME TypeInv, [Next]_vars PROVE TypeInv'
  OBVIOUS
<1> USE DEF TypeInv, TypeOK, EmittingInv
<1>1. ASSUME NEW p \in Emitters, Emit(p) PROVE TypeInv'
  BY <1>1, StreamAssumption DEF Emit, reading
<1>2. ASSUME NEW p \in Emitters, Posted(p) PROVE TypeInv'
  BY <1>2 DEF Posted, reading
<1>3. ASSUME NEW p \in Emitters, PostRaises(p) PROVE TypeInv'
  BY <1>3 DEF PostRaises, reading
<1>4. ASSUME NEW p \in Emitters, Admit(p) PROVE TypeInv'
  BY <1>4 DEF Admit, reading
<1>5. ASSUME NEW p \in Emitters, Drop(p) PROVE TypeInv'
  BY <1>5 DEF Drop, Recorded, reading
<1>6. ASSUME NEW p \in Emitters, Put(p) PROVE TypeInv'
  <2>1. Event(p) \in Events  BY <1>6, EventType DEF Put
  <2>2. queue' \in Seq(Events \cup {End})
    BY <1>6, <2>1, PutFacts DEF Put, Enqueued
  <2>3. QED  BY <1>6, <2>1, <2>2 DEF Put, Recorded, reading
<1>7. CASE Shut  BY <1>7 DEF Shut, emitting, reading
<1>8. CASE Mark
  <2>1. queue' \in Seq(Events \cup {End})  BY <1>8, PutFacts DEF Mark, Marked
  <2>2. QED  BY <1>8, <2>1 DEF Mark, emitting, reading
<1>9. ASSUME NEW c \in Consumers, Leave(c) PROVE TypeInv'
  BY <1>9 DEF Leave, emitting
<1>10. ASSUME NEW c \in Consumers, Continue(c) PROVE TypeInv'
  BY <1>10 DEF Continue, emitting
<1>11. ASSUME NEW c \in Consumers, Get(c) PROVE TypeInv'
  <2>1. Head(queue) \in Events /\ queue' \in Seq(Events \cup {End})
    BY <1>11, GetFacts DEF Get, Rest, IsEnd
  <2>2. taken' \in [Consumers -> Seq(Events)]
    BY <1>11, <2>1, PutFacts DEF Get
  <2>3. QED  BY <1>11, <2>1, <2>2 DEF Get, emitting
<1>12. ASSUME NEW c \in Consumers, GetEnd(c) PROVE TypeInv'
  <2>1. queue' \in Seq(Events \cup {End})  BY <1>12, GetFacts DEF GetEnd, Rest
  <2>2. QED  BY <1>12, <2>1 DEF GetEnd, emitting
<1>13. CASE UNCHANGED vars  BY <1>13 DEF vars, emitting, reading
<1>14. QED
  BY <1>1, <1>2, <1>3, <1>4, <1>5, <1>6, <1>7, <1>8, <1>9, <1>10, <1>11, <1>12, <1>13
  DEF Next, Emitting, Reading, Closing

\* Every variable keeps the type the code gives it.
THEOREM StreamTypeCorrect == Spec => []TypeOK
<1>1. TypeInv => TypeOK  BY DEF TypeInv
<1>2. QED  BY <1>1, StreamTypeInit, StreamTypeNext, PTL DEF Spec

-----------------------------------------------------------------------------
(* Nothing is lost and nothing overtakes.                                  *)
\* What was accepted stays behind what its emitter has emitted.
LEMMA AcceptedNext == TypeInv /\ TypeInv' /\ AcceptedInv /\ [Next]_vars => AcceptedInv'
<1> SUFFICES ASSUME TypeInv, TypeInv', AcceptedInv, [Next]_vars PROVE AcceptedInv'
  OBVIOUS
<1>0. \A e \in accepted : e \in Events /\ e.by \in Emitters /\ e.n \in Nat /\ sent[e.by] \in Nat
  BY DEF TypeInv, TypeOK, Events
<1>1. ASSUME NEW p \in Emitters, Emit(p) PROVE AcceptedInv'
  <2>1. accepted' = accepted /\ sent' = [sent EXCEPT ![p] = sent[p] + 1]
    BY <1>1 DEF Emit
  <2>2. \A o \in Emitters \ {p} : sent'[o] = sent[o] /\ emitter'[o] = emitter[o]
    BY <1>1 DEF Emit, TypeInv, TypeOK
  <2>3. sent'[p] = sent[p] + 1 /\ sent[p] \in Nat  BY <2>1 DEF TypeInv, TypeOK
  <2>4. ASSUME NEW e \in accepted
        PROVE  e.n <= sent'[e.by] /\ (Ahead(e.by)' => e.n < sent'[e.by])
    <3>1. CASE e.by = p  BY <3>1, <2>3, <1>0 DEF AcceptedInv
    <3>2. CASE e.by # p  BY <3>2, <2>2, <1>0 DEF AcceptedInv, Ahead
    <3>3. QED  BY <3>1, <3>2
  <2>5. QED  BY <2>1, <2>4 DEF AcceptedInv
<1>2. ASSUME NEW p \in Emitters, sent' = sent, accepted' = accepted,
             \A o \in Emitters : Ahead(o)' => Ahead(o)
      PROVE  AcceptedInv'
  BY <1>2, <1>0 DEF AcceptedInv
<1>3. ASSUME NEW p \in Emitters, Posted(p) PROVE AcceptedInv'
  BY <1>2, <1>3 DEF Posted, Ahead, TypeInv, TypeOK
<1>4. ASSUME NEW p \in Emitters, PostRaises(p) PROVE AcceptedInv'
  BY <1>2, <1>4 DEF PostRaises, Ahead, TypeInv, TypeOK
<1>5. ASSUME NEW p \in Emitters, Admit(p) PROVE AcceptedInv'
  BY <1>2, <1>5 DEF Admit, Ahead, TypeInv, TypeOK
<1>6. ASSUME NEW p \in Emitters, Drop(p) PROVE AcceptedInv'
  BY <1>2, <1>6 DEF Drop, Recorded, Ahead, TypeInv, TypeOK
<1>7. ASSUME NEW p \in Emitters, Put(p) PROVE AcceptedInv'
  <2>1. Event(p) \in Events /\ Event(p).by = p /\ Event(p).n = sent[p]
    BY <1>7, EventType DEF Put
  <2>2. sent' = sent /\ accepted' = accepted \cup {Event(p)}  BY <1>7 DEF Put
  <2>3. ~Ahead(p)'  BY <1>7 DEF Put, Recorded, Ahead, TypeInv, TypeOK
  <2>4. \A o \in Emitters : Ahead(o)' => Ahead(o)
    BY <1>7 DEF Put, Recorded, Ahead, TypeInv, TypeOK
  <2>5. ASSUME NEW e \in accepted'
        PROVE  e.n <= sent'[e.by] /\ (Ahead(e.by)' => e.n < sent'[e.by])
    <3>1. CASE e = Event(p)  BY <3>1, <2>1, <2>2, <2>3 DEF TypeInv, TypeOK
    <3>2. CASE e \in accepted  BY <3>2, <2>2, <2>4, <1>0 DEF AcceptedInv
    <3>3. QED  BY <3>1, <3>2, <2>2
  <2>6. QED  BY <2>5 DEF AcceptedInv
<1>8. CASE UNCHANGED <<emitter, sent, accepted>>
  BY <1>8 DEF AcceptedInv, Ahead
<1>9. CASE Closing  BY <1>8, <1>9 DEF Closing, Shut, Mark, emitting
<1>10. ASSUME NEW c \in Consumers, Reading(c) PROVE AcceptedInv'
  BY <1>8, <1>10 DEF Reading, Leave, Continue, Get, GetEnd, emitting
<1>11. CASE UNCHANGED vars  BY <1>8, <1>11 DEF vars, emitting
<1>12. QED
  BY <1>1, <1>3, <1>4, <1>5, <1>6, <1>7, <1>9, <1>10, <1>11 DEF Next, Emitting

\* The events of the queue and of the consumers are those that were accepted.
LEMMA WhereEventsAre ==
  ASSUME TypeInv, NothingLost
  PROVE  /\ \A i \in DOMAIN queue : queue[i] # End => queue[i] \in accepted
         /\ \A c \in Consumers : \A i \in DOMAIN taken[c] : taken[c][i] \in accepted
         /\ \A e \in accepted : e \in Events /\ e.by \in Emitters /\ e.n \in Nat
BY DEF TypeInv, TypeOK, Events, NothingLost, Queued, Taken

LEMMA PutStep ==
  ASSUME IInv, NEW p \in Emitters, Put(p) PROVE NothingLost' /\ OrderInv'
<1> DEFINE e == Event(p)  k == Len(queue) + 1
<1>1. e \in Events /\ e.by = p /\ e.n = sent[p] /\ sent[p] \in Nat
  BY EventType DEF IInv, Put, TypeInv, TypeOK
<1>2. e \notin accepted /\ \A x \in accepted : x.by = p => x.n < e.n
  BY <1>1 DEF IInv, AcceptedInv, Put, Ahead
<1>3. e # End  BY <1>1, EndIsNoEvent
<1>4. /\ accepted' = accepted \cup {e} /\ taken' = taken
      /\ DOMAIN queue' = DOMAIN queue \cup {k} /\ k \notin DOMAIN queue /\ queue'[k] = e
      /\ \A i \in DOMAIN queue : i < k /\ queue'[i] = queue[i]
  <2>1. queue \in Seq(Events \cup {End}) /\ e \in Events \cup {End}
    BY <1>1 DEF IInv, TypeInv, TypeOK
  <2>2. QED  BY <2>1, PutFacts DEF Put, Enqueued, reading
<1>5. Queued' = Queued \cup {e}  BY <1>3, <1>4 DEF Queued
<1>6. \A c \in Consumers : Taken(c)' = Taken(c)  BY <1>4 DEF Taken
<1>7. \A c \in Consumers : e \notin Taken(c)  BY <1>2 DEF IInv, NothingLost
<1>8. NothingLost'
  BY <1>4, <1>5, <1>6, <1>7 DEF IInv, NothingLost
<1>9. ASSUME NEW i \in DOMAIN queue', NEW j \in DOMAIN queue', i < j,
             queue'[i] # End, queue'[j] # End, queue'[i].by = queue'[j].by
      PROVE  queue'[i].n < queue'[j].n
  <2>1. i \in DOMAIN queue
    <3>1. k \in Nat /\ i \in Nat /\ j \in Nat /\ j <= k
      BY <1>4 DEF IInv, TypeInv, TypeOK
    <3>2. QED  BY <1>4, <1>9, <3>1
  <2>2. CASE j = k
    <3>1. queue[i] \in accepted  BY <2>1, <1>4, <1>9, WhereEventsAre DEF IInv
    <3>2. QED  BY <3>1, <2>1, <2>2, <1>1, <1>2, <1>4, <1>9
  <2>3. CASE j \in DOMAIN queue  BY <2>1, <2>3, <1>4, <1>9 DEF IInv, OrderInv
  <2>4. QED  BY <2>2, <2>3, <1>4
<1>10. ASSUME NEW c \in Consumers, NEW i \in DOMAIN taken'[c], NEW j \in DOMAIN queue',
              queue'[j] # End, taken'[c][i].by = queue'[j].by
       PROVE  taken'[c][i].n < queue'[j].n
  <2>1. taken[c][i] \in accepted  BY <1>4, WhereEventsAre DEF IInv
  <2>2. CASE j = k  BY <2>1, <2>2, <1>1, <1>2, <1>4, <1>10
  <2>3. CASE j \in DOMAIN queue  BY <2>3, <1>4, <1>10 DEF IInv, OrderInv
  <2>4. QED  BY <2>2, <2>3, <1>4
<1>11. InOrder'  BY <1>4 DEF IInv, OrderInv, InOrder
<1>12. QED  BY <1>8, <1>9, <1>10, <1>11 DEF OrderInv

LEMMA MarkStep ==
  ASSUME IInv, Mark PROVE NothingLost' /\ OrderInv'
<1> DEFINE k == Len(queue) + 1
<1>1. /\ accepted' = accepted /\ taken' = taken
      /\ DOMAIN queue' = DOMAIN queue \cup {k} /\ k \notin DOMAIN queue /\ queue'[k] = End
      /\ \A i \in DOMAIN queue : i < k /\ queue'[i] = queue[i]
  <2>1. queue \in Seq(Events \cup {End}) /\ End \in Events \cup {End}
    BY DEF IInv, TypeInv, TypeOK
  <2>2. QED  BY <2>1, PutFacts DEF Mark, Marked, reading
<1>2. Queued' = Queued  BY <1>1 DEF Queued
<1>3. \A c \in Consumers : Taken(c)' = Taken(c)  BY <1>1 DEF Taken
<1>4. NothingLost'  BY <1>1, <1>2, <1>3 DEF IInv, NothingLost
<1>5. \A i \in DOMAIN queue' : queue'[i] # End => i \in DOMAIN queue /\ queue'[i] = queue[i]
  BY <1>1
<1>6. OrderInv'  BY <1>1, <1>5 DEF IInv, OrderInv, InOrder
<1>7. QED  BY <1>4, <1>6

\* Every element that is left was one behind the first.
LEMMA RestFacts ==
  ASSUME IInv, queue # <<>>, queue' = Rest(queue)
  PROVE  /\ queue[1] = Head(queue) /\ 1 \in DOMAIN queue
         /\ \A i \in DOMAIN queue' : i \in Nat /\ i + 1 \in DOMAIN queue /\ queue'[i] = queue[i + 1]
                                     /\ 1 < i + 1
         /\ \A j \in DOMAIN queue : j = 1 \/ (j - 1 \in DOMAIN queue' /\ queue'[j - 1] = queue[j])
<1>1. queue \in Seq(Events \cup {End})  BY DEF IInv, TypeInv, TypeOK
<1>2. \A i \in DOMAIN Tail(queue) : i \in Nat /\ 1 < i + 1  BY <1>1
<1>3. \A j \in DOMAIN queue : j = 1 \/ j > 1  BY <1>1
<1>4. QED  BY <1>1, <1>2, <1>3, GetFacts DEF Rest

LEMMA GetStep ==
  ASSUME IInv, NEW c \in Consumers, Get(c) PROVE NothingLost' /\ OrderInv'
<1> DEFINE e == Head(queue)  k == Len(taken[c]) + 1
<1>1. /\ queue # <<>> /\ queue' = Rest(queue) /\ e # End /\ accepted' = accepted
      /\ taken' = [taken EXCEPT ![c] = Append(taken[c], e)]
  BY DEF Get, IsEnd
<1>2. e \in accepted /\ e \in Queued /\ e \in Events
  BY <1>1, RestFacts, WhereEventsAre DEF IInv, Queued
<1>3. \A d \in Consumers \ {c} : taken'[d] = taken[d]
  BY <1>1 DEF IInv, TypeInv, TypeOK
<1>4. /\ DOMAIN taken'[c] = DOMAIN taken[c] \cup {k} /\ k \notin DOMAIN taken[c] /\ taken'[c][k] = e
      /\ \A i \in DOMAIN taken[c] : i \in Nat /\ i < k /\ taken'[c][i] = taken[c][i]
  <2>1. taken[c] \in Seq(Events) /\ taken'[c] = Append(taken[c], e)
    BY <1>1 DEF IInv, TypeInv, TypeOK
  <2>2. QED  BY <2>1, <1>2, PutFacts
<1>5. \A i \in DOMAIN queue' : queue'[i] # End /\ queue'[i].by = e.by => e.n < queue'[i].n
  <2> SUFFICES ASSUME NEW i \in DOMAIN queue', queue'[i] # End, queue'[i].by = e.by
               PROVE  e.n < queue'[i].n
    OBVIOUS
  <2>1. i + 1 \in DOMAIN queue /\ queue'[i] = queue[i + 1] /\ 1 < i + 1 /\ 1 \in DOMAIN queue
        /\ queue[1] = e
    BY <1>1, RestFacts
  <2>2. QED  BY <2>1, <1>1 DEF IInv, OrderInv
<1>6. e \notin Queued' /\ e.n \in Nat
  BY <1>2, <1>5, WhereEventsAre DEF IInv, Queued
<1>7. Queued' = Queued \ {e}
  <2>1. Queued' \subseteq Queued  BY <1>1, RestFacts DEF Queued
  <2>2. Queued \ {e} \subseteq Queued'  BY <1>1, RestFacts DEF Queued
  <2>3. QED  BY <2>1, <2>2, <1>6
<1>8. Taken(c)' = Taken(c) \cup {e}  BY <1>4 DEF Taken
<1>9. \A d \in Consumers \ {c} : Taken(d)' = Taken(d)  BY <1>3 DEF Taken
<1>10. NothingLost'
  <2>1. accepted' = Queued' \cup UNION {Taken(d)' : d \in Consumers}
    <3>1. accepted = Queued \cup UNION {Taken(d) : d \in Consumers}  BY DEF IInv, NothingLost
    <3>2. \A x : x \in UNION {Taken(d)' : d \in Consumers} <=>
                 x = e \/ x \in UNION {Taken(d) : d \in Consumers}
      BY <1>8, <1>9
    <3>3. QED  BY <3>1, <3>2, <1>1, <1>2, <1>7
  <2>2. \A d \in Consumers : e \notin Taken(d)  BY <1>2 DEF IInv, NothingLost
  <2>3. \A d \in Consumers : Taken(d)' \cap Queued' = {}
    BY <1>7, <1>8, <1>9 DEF IInv, NothingLost
  <2>4. \A d, o \in Consumers : d # o => Taken(d)' \cap Taken(o)' = {}
    BY <2>2, <1>8, <1>9 DEF IInv, NothingLost
  <2>5. QED  BY <2>1, <2>3, <2>4 DEF NothingLost
<1>11. ASSUME NEW i \in DOMAIN queue', NEW j \in DOMAIN queue', i < j,
              queue'[i] # End, queue'[j] # End, queue'[i].by = queue'[j].by
       PROVE  queue'[i].n < queue'[j].n
  <2>1. /\ i \in Nat /\ j \in Nat /\ i + 1 \in DOMAIN queue /\ j + 1 \in DOMAIN queue
        /\ queue'[i] = queue[i + 1] /\ queue'[j] = queue[j + 1]
    BY <1>1, RestFacts
  <2>2. i + 1 < j + 1  BY <2>1, <1>11
  <2>3. QED  BY <2>1, <2>2, <1>11 DEF IInv, OrderInv
<1>12. ASSUME NEW d \in Consumers, NEW i \in DOMAIN taken'[d], NEW j \in DOMAIN queue',
              queue'[j] # End, taken'[d][i].by = queue'[j].by
       PROVE  taken'[d][i].n < queue'[j].n
  <2>1. j + 1 \in DOMAIN queue /\ queue'[j] = queue[j + 1]  BY <1>1, RestFacts
  <2>2. CASE d = c /\ i = k  BY <2>2, <1>4, <1>5, <1>12
  <2>3. CASE d = c /\ i \in DOMAIN taken[c]
    BY <2>1, <2>3, <1>4, <1>12 DEF IInv, OrderInv
  <2>4. CASE d # c  BY <2>1, <2>4, <1>3, <1>12 DEF IInv, OrderInv
  <2>5. QED  BY <2>2, <2>3, <2>4, <1>4
<1>13. ASSUME NEW d \in Consumers, NEW i \in DOMAIN taken'[d], NEW j \in DOMAIN taken'[d],
              i < j, taken'[d][i].by = taken'[d][j].by
       PROVE  taken'[d][i].n < taken'[d][j].n
  <2>1. CASE d # c  BY <2>1, <1>3, <1>13 DEF IInv, OrderInv, InOrder
  <2>2. CASE d = c /\ j \in DOMAIN taken[c]
    <3>1. i \in DOMAIN taken[c]
      <4>1. k \in Nat /\ j < k /\ j \in Nat  BY <2>2, <1>4 DEF IInv, TypeInv, TypeOK
      <4>2. QED  BY <4>1, <2>2, <1>4, <1>13
    <3>2. QED  BY <3>1, <2>2, <1>4, <1>13 DEF IInv, OrderInv, InOrder
  <2>3. CASE d = c /\ j = k
    <3>1. i \in DOMAIN taken[c]
      <4>1. k \in Nat  BY DEF IInv, TypeInv, TypeOK
      <4>2. QED  BY <4>1, <2>3, <1>4, <1>13
    <3>2. 1 \in DOMAIN queue /\ queue[1] = e  BY <1>1, RestFacts
    <3>3. QED  BY <3>1, <3>2, <2>3, <1>1, <1>4, <1>13 DEF IInv, OrderInv
  <2>4. QED  BY <2>1, <2>2, <2>3, <1>4
<1>14. QED  BY <1>10, <1>11, <1>12, <1>13 DEF OrderInv, InOrder

LEMMA GetEndStep ==
  ASSUME IInv, NEW c \in Consumers, GetEnd(c) PROVE NothingLost' /\ OrderInv'
<1>1. /\ queue # <<>> /\ queue' = Rest(queue) /\ Head(queue) = End
      /\ accepted' = accepted /\ taken' = taken
  BY DEF GetEnd, IsEnd
<1>2. Queued' = Queued
  <2>1. Queued' \subseteq Queued  BY <1>1, RestFacts DEF Queued
  <2>2. Queued \subseteq Queued'  BY <1>1, RestFacts DEF Queued
  <2>3. QED  BY <2>1, <2>2
<1>3. \A d \in Consumers : Taken(d)' = Taken(d)  BY <1>1 DEF Taken
<1>4. NothingLost'  BY <1>1, <1>2, <1>3 DEF IInv, NothingLost
<1>5. ASSUME NEW i \in DOMAIN queue', NEW j \in DOMAIN queue', i < j,
             queue'[i] # End, queue'[j] # End, queue'[i].by = queue'[j].by
      PROVE  queue'[i].n < queue'[j].n
  <2>1. /\ i \in Nat /\ j \in Nat /\ i + 1 \in DOMAIN queue /\ j + 1 \in DOMAIN queue
        /\ queue'[i] = queue[i + 1] /\ queue'[j] = queue[j + 1]
    BY <1>1, RestFacts
  <2>2. i + 1 < j + 1  BY <2>1, <1>5
  <2>3. QED  BY <2>1, <2>2, <1>5 DEF IInv, OrderInv
<1>6. ASSUME NEW d \in Consumers, NEW i \in DOMAIN taken'[d], NEW j \in DOMAIN queue',
             queue'[j] # End, taken'[d][i].by = queue'[j].by
      PROVE  taken'[d][i].n < queue'[j].n
  <2>1. j + 1 \in DOMAIN queue /\ queue'[j] = queue[j + 1]  BY <1>1, RestFacts
  <2>2. QED  BY <2>1, <1>1, <1>6 DEF IInv, OrderInv
<1>7. InOrder'  BY <1>1 DEF IInv, OrderInv, InOrder
<1>8. QED  BY <1>4, <1>5, <1>6, <1>7 DEF OrderInv

LEMMA StreamInit == Init => IInv
<1> SUFFICES ASSUME Init PROVE IInv
  OBVIOUS
<1>1. queue = <<>> /\ accepted = {} /\ taken = [c \in Consumers |-> <<>>]  BY DEF Init
<1>2. Queued = {} /\ \A c \in Consumers : Taken(c) = {}  BY <1>1 DEF Queued, Taken
<1>3. NothingLost  BY <1>1, <1>2 DEF NothingLost
<1>4. OrderInv  BY <1>1 DEF OrderInv, InOrder
<1>5. QED  BY <1>1, <1>3, <1>4, StreamTypeInit DEF IInv, AcceptedInv

LEMMA StreamNext == IInv /\ [Next]_vars => IInv'
<1> SUFFICES ASSUME IInv, [Next]_vars PROVE IInv'
  OBVIOUS
<1>1. TypeInv' /\ AcceptedInv'  BY StreamTypeNext, AcceptedNext DEF IInv
<1>2. ASSUME UNCHANGED <<queue, taken, accepted>> PROVE NothingLost' /\ OrderInv'
  <2>1. queue' = queue /\ taken' = taken /\ accepted' = accepted  BY <1>2
  <2>2. Queued' = Queued /\ \A c \in Consumers : Taken(c)' = Taken(c)
    BY <2>1 DEF Queued, Taken
  <2>3. NothingLost'  BY <2>1, <2>2 DEF IInv, NothingLost
  <2>4. OrderInv'  BY <2>1 DEF IInv, OrderInv, InOrder
  <2>5. QED  BY <2>3, <2>4
<1>3. ASSUME NEW p \in Emitters, Emitting(p) PROVE NothingLost' /\ OrderInv'
  BY <1>2, <1>3, PutStep DEF Emitting, Emit, Posted, PostRaises, Admit, Drop, reading
<1>4. ASSUME NEW c \in Consumers, Reading(c) PROVE NothingLost' /\ OrderInv'
  BY <1>2, <1>4, GetStep, GetEndStep DEF Reading, Leave, Continue
<1>5. ASSUME Closing PROVE NothingLost' /\ OrderInv'
  BY <1>2, <1>5, MarkStep DEF Closing, Shut, reading
<1>6. ASSUME UNCHANGED vars PROVE NothingLost' /\ OrderInv'
  BY <1>2, <1>6 DEF vars, reading
<1>7. NothingLost' /\ OrderInv'  BY <1>3, <1>4, <1>5, <1>6 DEF Next
<1>8. QED  BY <1>1, <1>7 DEF IInv

\* Every event that record() accepted is in exactly one place: no race of emitters,
\* consumers and close() loses or doubles one.
THEOREM NoEventIsLost == Spec => []NothingLost
<1>1. IInv => NothingLost  BY DEF IInv
<1>2. QED  BY <1>1, StreamInit, StreamNext, PTL DEF Spec

\* However many runs emit and however many clients read, each client sees the
\* events of a run in the order they were emitted in.
THEOREM EventsInOrder == Spec => []InOrder
<1>1. IInv => InOrder  BY DEF IInv, OrderInv
<1>2. QED  BY <1>1, StreamInit, StreamNext, PTL DEF Spec

\* What the stream delivers is what was recorded, once and in order, for any number
\* of emitters and consumers (EventStream.record, close, events).
THEOREM FaithfullyDelivered == Spec => []FaithfulDelivery
<1>1. NothingLost /\ InOrder => FaithfulDelivery  BY DEF FaithfulDelivery
<1> QED  BY <1>1, NoEventIsLost, EventsInOrder, PTL

-----------------------------------------------------------------------------
\* The end mark comes with close(), and until a consumer has ended it is on its way:
\* nobody stays in get() for want of it; and nobody ends while the stream is open.
MarkInv == \E i \in DOMAIN queue : queue[i] = End
EndInv ==
  /\ open <=> closing = "before"
  /\ MarkInv => closing = "after"
  /\ closing = "after" => MarkInv \/ \E c \in Consumers : consumer[c] = "ended"
  /\ \A c \in Consumers : consumer[c] = "ended" => ~open

LEMMA EndNext == TypeInv /\ EndInv /\ [Next]_vars => EndInv'
<1> SUFFICES ASSUME TypeInv, EndInv, [Next]_vars PROVE EndInv'  OBVIOUS
<1> USE DEF TypeInv, TypeOK
<1>1. ASSUME NEW p \in Emitters, Emitting(p) PROVE EndInv'
  <2>1. MarkInv' <=> MarkInv
    <3>1. CASE Put(p)
      <4>1. emitter[p] # "idle"  BY <3>1 DEF Put
      <4>2. Event(p) \in Events  BY <4>1, EventType
      <4>3. Event(p) # End  BY <4>2, EndIsNoEvent
      <4>4. queue' = Append(queue, Event(p)) /\ queue \in Seq(Events \cup {End})
        BY <3>1 DEF Put, Enqueued
      <4> QED  BY <4>2, <4>3, <4>4, PutFacts DEF MarkInv
    <3>2. CASE queue' = queue  BY <3>2 DEF MarkInv
    <3> QED  BY <1>1, <3>1, <3>2 DEF Emitting, Emit, Posted, PostRaises, Admit, Drop
  <2>2. UNCHANGED <<open, closing, consumer>>
    BY <1>1 DEF Emitting, Emit, Posted, PostRaises, Admit, Drop, Put, reading
  <2> QED  BY <2>1, <2>2 DEF EndInv
<1>2. ASSUME NEW c \in Consumers, Leave(c) \/ Continue(c) PROVE EndInv'
  <2>1. UNCHANGED <<queue, open, closing>> /\ (MarkInv' <=> MarkInv)
    BY <1>2 DEF Leave, Continue, MarkInv
  <2>2. \A d \in Consumers : consumer'[d] = "ended" <=>
          consumer[d] = "ended" \/ (d = c /\ Leave(c))
    BY <1>2 DEF Leave, Continue
  <2>3. Leave(c) => ~open  BY DEF Leave, Over
  <2> QED  BY <2>1, <2>2, <2>3 DEF EndInv
<1>3. ASSUME NEW c \in Consumers, Get(c) PROVE EndInv'
  <2>1. queue \in Seq(Events \cup {End}) /\ queue # <<>> /\ Head(queue) # End /\ queue' = Tail(queue)
    BY <1>3 DEF Get, Rest, IsEnd
  <2>2. queue[1] # End  BY <2>1, GetFacts
  <2>3. MarkInv' => MarkInv  BY <2>1, GetFacts DEF MarkInv
  <2>4. MarkInv => MarkInv'
    <3> SUFFICES ASSUME NEW i \in DOMAIN queue, queue[i] = End PROVE MarkInv'  BY DEF MarkInv
    <3>1. i > 1  BY <2>1, <2>2
    <3> QED  BY <2>1, <3>1, GetFacts DEF MarkInv
  <2>5. UNCHANGED <<open, closing>>
        /\ \A d \in Consumers : consumer'[d] = "ended" <=> consumer[d] = "ended"
    BY <1>3 DEF Get
  <2> QED  BY <2>3, <2>4, <2>5 DEF EndInv
<1>4. ASSUME NEW c \in Consumers, GetEnd(c) PROVE EndInv'
  <2>1. queue \in Seq(Events \cup {End}) /\ queue # <<>> /\ Head(queue) = End /\ queue' = Tail(queue)
    BY <1>4 DEF GetEnd, Rest, IsEnd
  <2>2. MarkInv  BY <2>1, GetFacts DEF MarkInv
  <2>3. closing = "after" /\ ~open  BY <2>2 DEF EndInv
  <2>4. UNCHANGED <<open, closing>> /\ consumer'[c] = "ended"  BY <1>4 DEF GetEnd
  <2> QED  BY <2>3, <2>4 DEF EndInv
<1>5. CASE Shut
  BY <1>5 DEF Shut, EndInv, MarkInv, reading
<1>6. CASE Mark
  <2>1. queue \in Seq(Events \cup {End}) /\ queue' = Append(queue, End)  BY <1>6 DEF Mark, Marked
  <2>2. MarkInv'  BY <2>1, PutFacts DEF MarkInv
  <2> QED  BY <1>6, <2>2 DEF Mark, EndInv, reading
<1>7. CASE UNCHANGED vars  BY <1>7 DEF vars, reading, EndInv, MarkInv
<1> QED  BY <1>1, <1>2, <1>3, <1>4, <1>5, <1>6, <1>7 DEF Next, Reading, Closing

\* The safety behind StreamEnds, for any number of consumers: after close() the end
\* mark stays in the queue until a consumer has ended (events(), GetEnd), and before
\* it none ends.
THEOREM NobodyWaitsInVain ==
  Spec => [](/\ closing = "after" /\ (\A c \in Consumers : consumer[c] = "getting") => queue # <<>>
             /\ \A c \in Consumers : consumer[c] = "ended" => closing # "before")
<1>1. Init => EndInv  BY DEF Init, EndInv, MarkInv
<1>2. EndInv =>
        /\ closing = "after" /\ (\A c \in Consumers : consumer[c] = "getting") => queue # <<>>
        /\ \A c \in Consumers : consumer[c] = "ended" => closing # "before"
  BY DEF EndInv, MarkInv
<1> QED  BY <1>1, <1>2, StreamTypeInit, StreamTypeNext, EndNext, PTL DEF Spec

-----------------------------------------------------------------------------
(* Guarded calls.                                                          *)
\* How far a call has come, and what its worker and its entries look like then.
\* A worker that exceeded the limit has recorded so; the caller adds its own.
Breached(a) == IF worker[a] = "violation" THEN {"max_tool_calls"} ELSE {}

Progress(a) ==
  /\ pc[a] = "idle" => worker[a] = "none"
  /\ pc[a] \in {"idle", "waiting"} => got[a] = "none"
  /\ pc[a] # "returned" => verdict[a] = "none" /\ audit[a] = Breached(a)
  /\ pc[a] \in {"waiting", "leaving"} => worker[a] # "none"
  /\ pc[a] = "leaving" => got[a] # "none"
  /\ got[a] \in {"result", "violation", "error"} => worker[a] = got[a]
  /\ pc[a] \in {"returned", "raised"} => worker[a] # "executing"
  /\ worker[a] = "result" => calls[a] <= MaxToolCalls[a]

\* What the caller returned, and the entries behind it.
Verdict(a) ==
  pc[a] = "returned" =>
    \/ verdict[a] = "completed" /\ got[a] = "result" /\ audit[a] = {"ok"}
    \/ /\ verdict[a] = "policy_violation" /\ got[a] = "violation"
       /\ audit[a] = {"max_tool_calls", "ok"}
    \/ /\ verdict[a] = "policy_violation" /\ got[a] = "timeout"
       /\ audit[a] = Breached(a) \cup {"timeout"}
    \/ verdict[a] = "policy_violation" /\ got[a] = "none" /\ audit[a] = {"allowlist"}

CallsInv == CallTypeOK /\ \A a \in Agents : Progress(a) /\ Verdict(a)

-----------------------------------------------------------------------------
LEMMA GuardedTypeInit == CallInit => CallTypeOK
BY CallAssumption DEF CallInit, CallTypeOK

\* An agent that reports nothing counts as at least one call.
LEMMA AssumedType == ASSUME NEW a \in Agents PROVE Assumed(a) \in Nat
<1>1. IsFiniteSet(AllowedTools[a])
  BY CallAssumption, FS_Subset
<1>2. QED  BY <1>1, FS_CardinalityType DEF Assumed

LEMMA RegisterType ==
  ASSUME CallTypeOK, NEW t \in Tools, NEW A \in SUBSET Agents, Register(t, A)
  PROVE  DOMAIN specs' \subseteq Tools /\ specs' \in [DOMAIN specs' -> SUBSET Agents]
BY DEF Register, CallTypeOK

LEMMA GuardedTypeNext == CallTypeOK /\ [CallNext]_callVars => CallTypeOK'
<1> SUFFICES ASSUME CallTypeOK, [CallNext]_callVars PROVE CallTypeOK'
  OBVIOUS
<1>1. ASSUME NEW t \in Tools, NEW A \in SUBSET Agents, Register(t, A) PROVE CallTypeOK'
  BY <1>1, RegisterType DEF Register, CallTypeOK
<1>2. ASSUME NEW a \in Agents, Refuse(a) PROVE CallTypeOK'
  BY <1>2 DEF Refuse, Return, BreachRecorded, Logged, CallTypeOK,
              Breaches
<1>3. ASSUME NEW a \in Agents, Submit(a) PROVE CallTypeOK'
  BY <1>3 DEF Submit, CallTypeOK
<1>4. ASSUME NEW a \in Agents, NEW n \in 0..MaxReported \cup {Assumed(a)}, Finish(a, n)
      PROVE CallTypeOK'
  <2>1. n \in Nat  BY AssumedType, CallAssumption
  <2>2. worker' \in [Agents -> Outcomes \cup {"none", "executing"}]
    BY <1>4 DEF Finish, CallTypeOK, Outcomes
  <2>3. audit' \in [Agents -> SUBSET (Breaches \cup {"ok"})]
    BY <1>4 DEF Finish, CallTypeOK, BreachRecorded, Logged, Breaches
  <2>4. QED  BY <1>4, <2>1, <2>2, <2>3 DEF Finish, CallTypeOK
<1>5. ASSUME NEW a \in Agents, NEW e \in {"error", "timeout"}, Break(a, e) PROVE CallTypeOK'
  BY <1>5 DEF Break, CallTypeOK, Outcomes
<1>6. ASSUME NEW a \in Agents, Take(a) PROVE CallTypeOK'
  <2>1. worker[a] \in Outcomes \cup {"none"}  BY <1>6 DEF Take, Ready, CallTypeOK
  <2>2. QED  BY <1>6, <2>1 DEF Take, CallTypeOK
<1>7. ASSUME NEW a \in Agents, Expire(a) PROVE CallTypeOK'
  BY <1>7 DEF Expire, CallTypeOK, Outcomes
<1>8. ASSUME NEW a \in Agents, ReturnResult(a) PROVE CallTypeOK'
  BY <1>8 DEF ReturnResult, Return, Logged, CallTypeOK
<1>9. ASSUME NEW a \in Agents, ReturnTimeout(a) PROVE CallTypeOK'
  BY <1>9 DEF ReturnTimeout, Return, BreachRecorded, Logged, CallTypeOK,
              Breaches
<1>10. ASSUME NEW a \in Agents, Raise(a) PROVE CallTypeOK'
  BY <1>10 DEF Raise, CallTypeOK
<1>11. CASE UNCHANGED callVars  BY <1>11 DEF callVars, CallTypeOK
<1>12. QED
  BY <1>1, <1>2, <1>3, <1>4, <1>5, <1>6, <1>7, <1>8, <1>9, <1>10, <1>11
  DEF CallNext, Caller, Worker

\* Every variable keeps the type the code gives it.
THEOREM GuardedTypeCorrect == CallSpec => []CallTypeOK
BY GuardedTypeInit, GuardedTypeNext, PTL DEF CallSpec

-----------------------------------------------------------------------------
\* The invariant speaks of one call at a time.
CallInv(a) == Progress(a) /\ Verdict(a)

LEMMA CallsBegin == CallInit => \A a \in Agents : CallInv(a)
BY DEF CallInit, CallInv, Progress, Verdict, Breached

\* A call whose variables stay as they are keeps its invariant.
LEMMA CallFrame ==
  ASSUME NEW q \in Agents, CallInv(q), pc'[q] = pc[q], worker'[q] = worker[q],
         got'[q] = got[q], calls'[q] = calls[q], audit'[q] = audit[q],
         verdict'[q] = verdict[q]
  PROVE  CallInv(q)'
BY DEF CallInv, Progress, Verdict, Breached

\* A step of one call leaves all others alone.
LEMMA OtherCalls ==
  ASSUME CallTypeOK, NEW a \in Agents, Caller(a) \/ Worker(a), NEW q \in Agents, q # a
  PROVE  /\ pc'[q] = pc[q] /\ worker'[q] = worker[q] /\ got'[q] = got[q]
         /\ calls'[q] = calls[q] /\ audit'[q] = audit[q] /\ verdict'[q] = verdict[q]
<1>1. CASE Caller(a)
  BY <1>1 DEF Caller, Refuse, Submit, Take, Expire, ReturnResult,
              ReturnTimeout, Raise,
              Return, BreachRecorded, Logged, CallTypeOK
<1>2. CASE Worker(a)
  BY <1>2 DEF Worker, Finish, Break, BreachRecorded, Logged, CallTypeOK
<1>3. QED  BY <1>1, <1>2

LEMMA WorkerInv ==
  ASSUME CallTypeOK, NEW a \in Agents, CallInv(a), Worker(a)
  PROVE  CallInv(a)'
<1>1. ASSUME NEW n \in 0..MaxReported \cup {Assumed(a)}, Finish(a, n) PROVE CallInv(a)'
  <2>1. /\ pc[a] \in {"waiting", "leaving"} /\ worker[a] = "executing"
        /\ audit[a] = {} /\ verdict[a] = "none" /\ got[a] \in {"none", "timeout"}
    BY <1>1 DEF Finish, CallInv, Progress, Breached, CallTypeOK, Outcomes
  <2>2. /\ pc'[a] = pc[a] /\ got'[a] = got[a] /\ verdict'[a] = verdict[a] /\ calls'[a] = n
    BY <1>1 DEF Finish, CallTypeOK
  <2>3. CASE Exceeds(a, n)
    <3>1. worker'[a] = "violation" /\ audit'[a] = {"max_tool_calls"}
      BY <1>1, <2>1, <2>3 DEF Finish, BreachRecorded, Logged, CallTypeOK
    <3>2. QED  BY <2>1, <2>2, <3>1 DEF CallInv, Progress, Verdict, Breached
  <2>4. CASE ~Exceeds(a, n)
    <3>1. worker'[a] = "result" /\ audit'[a] = {}
      BY <1>1, <2>1, <2>4 DEF Finish, CallTypeOK
    <3>2. n <= MaxToolCalls[a]
      BY <2>4, AssumedType, CallAssumption DEF Exceeds
    <3>3. QED
      BY <2>1, <2>2, <3>1, <3>2 DEF CallInv, Progress, Verdict, Breached
  <2>5. QED  BY <2>3, <2>4
<1>2. ASSUME NEW e \in {"error", "timeout"}, Break(a, e) PROVE CallInv(a)'
  <2>1. /\ pc[a] \in {"waiting", "leaving"} /\ worker[a] = "executing"
        /\ audit[a] = {} /\ verdict[a] = "none" /\ got[a] \in {"none", "timeout"}
    BY <1>2 DEF Break, CallInv, Progress, Breached, CallTypeOK, Outcomes
  <2>2. /\ pc'[a] = pc[a] /\ got'[a] = got[a] /\ verdict'[a] = verdict[a]
        /\ worker'[a] = e /\ audit'[a] = {}
    BY <1>2, <2>1 DEF Break, CallTypeOK
  <2>3. QED  BY <2>1, <2>2 DEF CallInv, Progress, Verdict, Breached
<1>3. QED  BY <1>1, <1>2 DEF Worker

LEMMA CallerInv ==
  ASSUME CallTypeOK, NEW a \in Agents, CallInv(a), Caller(a)
  PROVE  CallInv(a)'
<1>1. CASE Refuse(a)
  <2>1. /\ pc[a] = "idle" /\ worker[a] = "none" /\ got[a] = "none" /\ audit[a] = {}
    BY <1>1 DEF Refuse, CallInv, Progress, Breached
  <2>2. /\ pc'[a] = "returned" /\ worker'[a] = "none" /\ got'[a] = "none"
        /\ audit'[a] = {"allowlist"} /\ verdict'[a] = "policy_violation"
    BY <1>1, <2>1 DEF Refuse, Return, BreachRecorded, Logged, CallTypeOK
  <2>3. QED  BY <2>2 DEF CallInv, Progress, Verdict
<1>2. CASE Submit(a)
  <2>1. /\ got[a] = "none" /\ audit[a] = {} /\ verdict[a] = "none"
    BY <1>2 DEF Submit, CallInv, Progress, Breached
  <2>2. /\ pc'[a] = "waiting" /\ worker'[a] = "executing" /\ got'[a] = "none"
        /\ audit'[a] = {} /\ verdict'[a] = "none"
    BY <1>2, <2>1 DEF Submit, CallTypeOK
  <2>3. QED  BY <2>2 DEF CallInv, Progress, Verdict, Breached
<1>3. CASE Take(a)
  <2>1. /\ worker[a] \in Outcomes /\ audit[a] = Breached(a) /\ verdict[a] = "none"
    BY <1>3 DEF Take, Ready, CallInv, Progress, CallTypeOK
  <2>2. /\ pc'[a] = "leaving" /\ worker'[a] = worker[a] /\ got'[a] = worker[a]
        /\ audit'[a] = audit[a] /\ verdict'[a] = "none" /\ calls'[a] = calls[a]
    BY <1>3, <2>1 DEF Take, CallTypeOK
  <2>3. QED  BY <2>1, <2>2 DEF CallInv, Progress, Verdict, Breached, Outcomes
<1>4. CASE Expire(a)
  <2>1. /\ worker[a] = "executing" /\ audit[a] = {} /\ verdict[a] = "none"
    BY <1>4 DEF Expire, CallInv, Progress, Breached
  <2>2. /\ pc'[a] = "leaving" /\ worker'[a] = "executing" /\ got'[a] = "timeout"
        /\ audit'[a] = {} /\ verdict'[a] = "none"
    BY <1>4, <2>1 DEF Expire, CallTypeOK
  <2>3. QED  BY <2>2 DEF CallInv, Progress, Verdict, Breached
<1>5. CASE ReturnResult(a)
  <2>1. /\ worker[a] = got[a] /\ got[a] \in {"result", "violation"}
        /\ audit[a] = Breached(a)
    BY <1>5 DEF ReturnResult, Leaving, CallInv, Progress
  <2>2. /\ pc'[a] = "returned" /\ worker'[a] = worker[a] /\ got'[a] = got[a]
        /\ audit'[a] = audit[a] \cup {"ok"} /\ calls'[a] = calls[a]
        /\ verdict'[a] = IF got[a] = "result" THEN "completed" ELSE "policy_violation"
    BY <1>5 DEF ReturnResult, Return, Logged, CallTypeOK
  <2>3. CASE got[a] = "result"
    BY <1>5, <2>1, <2>2, <2>3 DEF CallInv, Progress, Verdict, Breached
  <2>4. CASE got[a] = "violation"
    BY <1>5, <2>1, <2>2, <2>4 DEF CallInv, Progress, Verdict, Breached
  <2>5. QED  BY <2>1, <2>3, <2>4
<1>6. CASE ReturnTimeout(a)
  <2>1. /\ got[a] = "timeout" /\ worker[a] # "executing" /\ audit[a] = Breached(a)
    BY <1>6 DEF ReturnTimeout, Leaving, Joined, CallInv, Progress
  <2>2. /\ pc'[a] = "returned" /\ worker'[a] = worker[a] /\ got'[a] = got[a]
        /\ audit'[a] = audit[a] \cup {"timeout"} /\ calls'[a] = calls[a]
        /\ verdict'[a] = "policy_violation"
    BY <1>6 DEF ReturnTimeout, Return, BreachRecorded, Logged, CallTypeOK
  <2>3. QED  BY <2>1, <2>2 DEF CallInv, Progress, Verdict, Breached
<1>7. CASE Raise(a)
  <2>1. /\ got[a] = "error" /\ worker[a] = "error" /\ audit[a] = Breached(a)
        /\ verdict[a] = "none"
    BY <1>7 DEF Raise, Leaving, CallInv, Progress
  <2>2. /\ pc'[a] = "raised" /\ worker'[a] = worker[a] /\ got'[a] = got[a]
        /\ audit'[a] = audit[a] /\ verdict'[a] = "none"
    BY <1>7, <2>1 DEF Raise, CallTypeOK
  <2>3. QED  BY <2>1, <2>2 DEF CallInv, Progress, Verdict, Breached
<1>8. QED
  BY <1>1, <1>2, <1>3, <1>4, <1>5, <1>6, <1>7 DEF Caller

LEMMA CallsGoOn == CallTypeOK /\ (\A a \in Agents : CallInv(a)) /\ [CallNext]_callVars
           => (\A a \in Agents : CallInv(a))'
<1> SUFFICES ASSUME CallTypeOK, \A a \in Agents : CallInv(a), [CallNext]_callVars,
  NEW q \in Agents
             PROVE  CallInv(q)'
  OBVIOUS
<1>1. ASSUME NEW a \in Agents, Caller(a) \/ Worker(a) PROVE CallInv(q)'
  <2>1. CASE q = a  BY <1>1, <2>1, CallerInv, WorkerInv
  <2>2. CASE q # a  BY <1>1, <2>2, OtherCalls, CallFrame
  <2>3. QED  BY <2>1, <2>2
<1>2. ASSUME NEW t \in Tools, NEW A \in SUBSET Agents, Register(t, A) PROVE CallInv(q)'
  BY <1>2, CallFrame DEF Register
<1>3. CASE UNCHANGED callVars  BY <1>3, CallFrame DEF callVars
<1>4. QED  BY <1>1, <1>2, <1>3 DEF CallNext

LEMMA Called == CallSpec => []CallsInv
<1>1. CallInit => CallsInv
  BY GuardedTypeInit, CallsBegin DEF CallsInv, CallInv
<1>2. CallsInv /\ [CallNext]_callVars => CallsInv'
  BY GuardedTypeNext, CallsGoOn DEF CallsInv, CallInv
<1>3. QED  BY <1>1, <1>2, PTL DEF CallSpec

-----------------------------------------------------------------------------
\* A late result, or one beyond the limit, never gets out of a guarded call.
THEOREM NothingSlipsThrough == CallSpec => []FailClosed
<1>1. CallsInv => FailClosed
  <2> SUFFICES ASSUME CallsInv, NEW a \in Agents, verdict[a] = "completed"
               PROVE  /\ got[a] = "result" /\ worker[a] = "result"
                      /\ calls[a] <= MaxToolCalls[a] /\ audit[a] = {"ok"}
    BY DEF FailClosed
  <2>1. pc[a] = "returned"  BY DEF CallsInv, Progress
  <2>2. got[a] = "result" /\ audit[a] = {"ok"}  BY <2>1 DEF CallsInv, Verdict
  <2>3. QED  BY <2>2 DEF CallsInv, Progress
<1>2. QED  BY <1>1, Called, PTL

\* Verdict and audit entries of a call agree, whoever recorded first.
THEOREM EveryViolationAudited == CallSpec => []ViolationsAudited
<1>1. CallsInv => ViolationsAudited
  <2> SUFFICES ASSUME CallsInv, NEW a \in Agents, pc[a] = "returned"
               PROVE  /\ (verdict[a] = "policy_violation") <=> (audit[a] \cap Breaches # {})
                      /\ got[a] = "timeout" => "timeout" \in audit[a] /\ "ok" \notin audit[a]
    BY DEF ViolationsAudited
  <2>1. Verdict(a)  BY DEF CallsInv
  <2>2. QED  BY <2>1 DEF Verdict, Breached, Breaches
<1>2. QED  BY <1>1, Called, PTL

\* A call that is over has no work left behind and records nothing more.
THEOREM OverIsOver == CallSpec => NoStrayWork
<1>1. CallsInv /\ [CallNext]_callVars =>
        [\A a \in Agents : pc[a] \in {"returned", "raised"} =>
           worker[a] # "executing" /\ audit'[a] = audit[a]]_callVars
  <2> SUFFICES ASSUME CallsInv, CallNext, NEW q \in Agents, pc[q] \in {"returned", "raised"}
               PROVE  worker[q] # "executing" /\ audit'[q] = audit[q]
    OBVIOUS
  <2>1. worker[q] # "executing"  BY DEF CallsInv, Progress
  <2>2. ASSUME NEW a \in Agents, Caller(a) \/ Worker(a) PROVE audit'[q] = audit[q]
    <3>1. CASE q # a  BY <2>2, <3>1, OtherCalls DEF CallsInv
    <3>2. CASE q = a
      <4>1. ~Worker(a)  BY <2>1, <3>2 DEF Worker, Finish, Break
      <4>2. ~Caller(a)
        BY <3>2 DEF Caller, Refuse, Submit, Take, Expire,
                    ReturnResult, ReturnTimeout,
                    Raise, Leaving
      <4>3. QED  BY <2>2, <4>1, <4>2
    <3>3. QED  BY <3>1, <3>2
  <2>3. ASSUME NEW t \in Tools, NEW A \in SUBSET Agents, Register(t, A)
        PROVE  audit'[q] = audit[q]
    BY <2>3 DEF Register
  <2>4. QED  BY <2>1, <2>2, <2>3 DEF CallNext
<1>2. QED  BY <1>1, Called, PTL DEF CallSpec, NoStrayWork
===============================================================================
