----------------------------- MODULE MCGovernedRun -----------------------------
(* Two agents that may be named twice, and a limit on parallel work that three *)
(* of them exceed.                                                             *)
EXTENDS GovernedRun

MCLimits == {0, 1, 3}
===============================================================================
