----------------------------- MODULE MCDynamicPool -----------------------------
(* Small instances of DynamicPool.                                         *)
EXTENDS DynamicPool

CONSTANTS a, b \* two agents

MCVersions == {"registry", "2.0"}

\* What the client reads of an agent of registry-service.
MCRemoteVersions == {"registry"}
===============================================================================
