------------------------------ MODULE EventStream ------------------------------
(***************************************************************************)
(* Delivery of approval events (app/agents/events.py): the threads of      *)
(* several runs emit on one EventBus, whose subscribers are an EventStream *)
(* and a WebhookSink; other threads iterate over the stream's events()     *)
(* until somebody closes it.                                               *)
(*                                                                         *)
(* queue.Queue is a FIFO queue; get() waits for an element, the bus and    *)
(* the open flag have no lock.                                             *)
(***************************************************************************)
EXTENDS Naturals, Sequences

CONSTANTS
  Emitters,       \* threads that emit
  Consumers,      \* threads that iterate
  SinkFirst,      \* whether the webhook was subscribed before the stream
  MaxEvents,      \* bound: events of each emitter
  MaxSinkFailures \* bound: POSTs of the webhook that raise

ASSUME StreamAssumption ==
  /\ Emitters # {} /\ Consumers # {}
  /\ SinkFirst \in BOOLEAN /\ MaxEvents \in Nat /\ MaxSinkFailures \in Nat

VARIABLES
  queue, open,    \* the stream
  closing,        \* close(): before, between its two statements, after
  emitter, sent,  \* what each emitter does, and the number of its event
  sinkFailures,
  consumer, taken, \* what each consumer does, and the events it was given
  accepted        \* history: the events record() put into the queue

emitting == <<emitter, sent, sinkFailures>>
reading  == <<consumer, taken>>
vars     == <<queue, open, closing, emitting, reading, accepted>>

Events == [by : Emitters, n : 1..MaxEvents]
Event(p) == [by |-> p, n |-> sent[p]]
End == [by |-> "nobody", n |-> 0] \* the None of close()

-----------------------------------------------------------------------------
Init ==
  /\ queue = <<>> /\ open = TRUE /\ closing = "before"
  /\ emitter = [p \in Emitters |-> "idle"] /\ sent = [p \in Emitters |-> 0]
  /\ sinkFailures = 0
  /\ consumer = [c \in Consumers |-> "testing"] /\ taken = [c \in Consumers |-> <<>>]
  /\ accepted = {}

-----------------------------------------------------------------------------
(* EventBus.emit: the subscribers one after the other.                     *)
Emit(p) ==
  /\ emitter[p] = "idle" /\ sent[p] < MaxEvents
  /\ sent' = [sent EXCEPT ![p] = @ + 1]
  /\ emitter' = [emitter EXCEPT ![p] = IF SinkFirst THEN "posting" ELSE "recording"]
  /\ UNCHANGED <<queue, open, closing, sinkFailures, reading, accepted>>

\* WebhookSink.record.
Posted(p) ==
  /\ emitter[p] = "posting"
  /\ emitter' = [emitter EXCEPT ![p] = IF SinkFirst THEN "recording" ELSE "idle"]
  /\ UNCHANGED <<queue, open, closing, sent, sinkFailures, reading, accepted>>

\* It raises out of emit(): the subscribers behind it never see the event.
PostRaises(p) ==
  /\ emitter[p] = "posting" /\ sinkFailures < MaxSinkFailures
  /\ sinkFailures' = sinkFailures + 1
  /\ emitter' = [emitter EXCEPT ![p] = "idle"]
  /\ UNCHANGED <<queue, open, closing, sent, reading, accepted>>

\* EventStream.record: look at the flag, then put.
Recorded(p) == emitter' = [emitter EXCEPT ![p] = IF SinkFirst THEN "idle" ELSE "posting"]

Admit(p) ==
  /\ emitter[p] = "recording" /\ open
  /\ emitter' = [emitter EXCEPT ![p] = "putting"]
  /\ UNCHANGED <<queue, open, closing, sent, sinkFailures, reading, accepted>>

Drop(p) ==
  /\ emitter[p] = "recording" /\ ~open
  /\ Recorded(p)
  /\ UNCHANGED <<queue, open, closing, sent, sinkFailures, reading, accepted>>

Enqueued(q, e) == Append(q, e)

Put(p) ==
  /\ emitter[p] = "putting" /\ queue' = Enqueued(queue, Event(p))
  /\ accepted' = accepted \cup {Event(p)} /\ Recorded(p)
  /\ UNCHANGED <<open, closing, sent, sinkFailures, reading>>

-----------------------------------------------------------------------------
(* close(), once.                                                          *)
Shut ==
  /\ closing = "before" /\ closing' = "between" /\ open' = FALSE
  /\ UNCHANGED <<queue, emitting, reading, accepted>>

\* "self._queue.put(None)"; the mutant forgets it.
MarkedMutant(q) == q
Marked(q) == Append(q, End)

Mark ==
  /\ closing = "between" /\ closing' = "after" /\ queue' = Marked(queue)
  /\ UNCHANGED <<open, emitting, reading, accepted>>

-----------------------------------------------------------------------------
(* events(): "while self._open", get, yield.                               *)
\* The mutant stops when it finds nothing to do.
OverMutant == ~open \/ queue = <<>>
Over == ~open

Leave(c) ==
  /\ consumer[c] = "testing" /\ Over
  /\ consumer' = [consumer EXCEPT ![c] = "ended"]
  /\ UNCHANGED <<queue, open, closing, emitting, taken, accepted>>

Continue(c) ==
  /\ consumer[c] = "testing" /\ ~Over
  /\ consumer' = [consumer EXCEPT ![c] = "getting"]
  /\ UNCHANGED <<queue, open, closing, emitting, taken, accepted>>

\* What get() leaves in the queue; the mutant looks at the element instead of
\* taking it.
RestMutant(q) == q
Rest(q) == Tail(q)

\* "if event is None".
IsEnd(e) == e = End

Get(c) ==
  /\ consumer[c] = "getting" /\ queue # <<>> /\ ~IsEnd(Head(queue))
  /\ queue' = Rest(queue) /\ taken' = [taken EXCEPT ![c] = Append(@, Head(queue))]
  /\ consumer' = [consumer EXCEPT ![c] = "testing"]
  /\ UNCHANGED <<open, closing, emitting, accepted>>

GetEnd(c) ==
  /\ consumer[c] = "getting" /\ queue # <<>> /\ IsEnd(Head(queue))
  /\ queue' = Rest(queue)
  /\ consumer' = [consumer EXCEPT ![c] = "ended"]
  /\ UNCHANGED <<open, closing, emitting, taken, accepted>>

-----------------------------------------------------------------------------
Emitting(p) == Emit(p) \/ Posted(p) \/ PostRaises(p) \/ Admit(p) \/ Drop(p) \/ Put(p)
Reading(c)  == Leave(c) \/ Continue(c) \/ Get(c) \/ GetEnd(c)
Closing     == Shut \/ Mark

Next ==
  \/ \E p \in Emitters : Emitting(p)
  \/ \E c \in Consumers : Reading(c)
  \/ Closing

Spec == Init /\ [][Next]_vars

\* A thread inside close(), or iterating, keeps running; nobody has to emit or to
\* close.
FairSpec == Spec /\ WF_vars(Mark) /\ \A c \in Consumers : WF_vars(Reading(c))

-----------------------------------------------------------------------------
\* Every variable has the type the code gives it.
TypeOK ==
  /\ queue \in Seq(Events \cup {End}) /\ open \in BOOLEAN
  /\ closing \in {"before", "between", "after"}
  /\ emitter \in [Emitters -> {"idle", "posting", "recording", "putting"}]
  /\ sent \in [Emitters -> 0..MaxEvents] /\ sinkFailures \in Nat
  /\ consumer \in [Consumers -> {"testing", "getting", "ended"}]
  /\ taken \in [Consumers -> Seq(Events)]
  /\ accepted \subseteq Events

Queued == {queue[i] : i \in DOMAIN queue} \ {End}
Taken(c) == {taken[c][i] : i \in DOMAIN taken[c]}

\* Every event that record() accepted is in exactly one place, the queue or one
\* consumer, however emitters, consumers and close() interleave.
NothingLost ==
  /\ accepted = Queued \cup UNION {Taken(c) : c \in Consumers}
  /\ \A c \in Consumers : /\ Taken(c) \cap Queued = {}
                          /\ \A d \in Consumers : c # d => Taken(c) \cap Taken(d) = {}

\* No consumer sees an event twice, or the events of one run in another order than
\* they were emitted in.
InOrder ==
  \A c \in Consumers : \A i, j \in DOMAIN taken[c] :
    i < j /\ taken[c][i].by = taken[c][j].by => taken[c][i].n < taken[c][j].n

\* Together: every accepted event reaches one reader at most, once, in its turn.
FaithfulDelivery == NothingLost /\ InOrder

\* After close() a consumer that waits for an event ends; of several consumers,
\* one (there is one end mark for all of them).
StreamEnds == closing = "after" ~> \E c \in Consumers : consumer[c] = "ended"

\* While the stream is open, what was accepted is given to a consumer.
Delivered ==
  \A e \in Events :
    e \in accepted ~> closing # "before" \/ \E c \in Consumers : e \in Taken(c)
===============================================================================
