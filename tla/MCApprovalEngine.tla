--------------------------- MODULE MCApprovalEngine ---------------------------
(* Small instances of ApprovalEngine.                                      *)
EXTENDS ApprovalEngine

CONSTANTS a, b \* two agents

\* Two agents in either order, one alone, and one that a caller names twice.
MCRoutings == {<<a, b>>, <<b>>, <<a, b, a>>}
PairOnly   == {<<a, b>>}
SingleOnly == {<<a>>}
===============================================================================
