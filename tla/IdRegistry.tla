------------------------------ MODULE IdRegistry ------------------------------
(***************************************************************************)
(* What the registry service promises about the ids it keeps, with no word *)
(* about handlers, statements or rows: a set of ids, and requests that     *)
(* each take effect at one moment between their arrival and their answer.  *)
(* A registration takes only a new id, any other request only a known one. *)
(***************************************************************************)
CONSTANTS Ids, Threads

VARIABLES ids,   \* the registered ids
          phase, \* idle, called or over, for each thread
          call,  \* the operation and id of its request
          result \* whether its id was accepted, once it took effect

vars == <<ids, phase, call, result>>

Ops == {"post", "put", "toggle", "delete"}

Nothing == [op |-> "none", id |-> "none"]

Init ==
  /\ ids \in SUBSET Ids
  /\ phase = [t \in Threads |-> "idle"]
  /\ call = [t \in Threads |-> Nothing]
  /\ result = [t \in Threads |-> "none"]

Arrive(t) ==
  /\ phase[t] = "idle" /\ phase' = [phase EXCEPT ![t] = "called"]
  /\ \E c \in [op : Ops, id : Ids] : call' = [call EXCEPT ![t] = c]
  /\ UNCHANGED <<ids, result>>

Accepts(c) == IF c.op = "post" THEN c.id \notin ids ELSE c.id \in ids

Effect(c) ==
  CASE c.op = "post" -> ids \cup {c.id}
    [] c.op = "delete" -> ids \ {c.id}
    [] OTHER -> ids

Take(t) ==
  /\ phase[t] = "called" /\ phase' = [phase EXCEPT ![t] = "over"]
  /\ result' = [result EXCEPT ![t] = IF Accepts(call[t]) THEN "accepted" ELSE "refused"]
  /\ ids' = IF Accepts(call[t]) THEN Effect(call[t]) ELSE ids
  /\ UNCHANGED call

Leave(t) ==
  /\ phase[t] = "over" /\ phase' = [phase EXCEPT ![t] = "idle"]
  /\ result' = [result EXCEPT ![t] = "none"] /\ call' = [call EXCEPT ![t] = Nothing]
  /\ UNCHANGED ids

Next == \E t \in Threads : Arrive(t) \/ Take(t) \/ Leave(t)

Spec == Init /\ [][Next]_vars
===============================================================================
