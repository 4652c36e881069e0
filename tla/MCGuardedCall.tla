----------------------------- MODULE MCGuardedCall -----------------------------
(* Small instances of GuardedCall.                                         *)
EXTENDS GuardedCall, TLC

CONSTANTS a, b, \* two agents
          s, u  \* two tools

\* a needs both tools and may call one; b needs none and may call none.
MCAllowedTools == (a :> {s, u}) @@ (b :> {})
MCMaxToolCalls == (a :> 1) @@ (b :> 0)
===============================================================================
