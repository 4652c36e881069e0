----------------------------- MODULE MCEventStream -----------------------------
(* Small instances of EventStream.                                         *)
EXTENDS EventStream
===============================================================================
