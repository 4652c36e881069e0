------------------------------ MODULE MCResolution ------------------------------
(* Two agents, two tools and two servers, rows of every kind the calls tell apart. *)
EXTENDS Resolution

CONSTANTS t1, t2, s1, s2, c1, c2

MCAgentRows == [on : {TRUE}, caps : {{c1}, {c2}, {c1, c2}}] \cup {[on |-> FALSE, caps |-> {c1}]}
MCToolRows ==
  {[on |-> TRUE, cap |-> c1, provider |-> Builtin], [on |-> TRUE, cap |-> c1, provider |-> s1],
   [on |-> FALSE, cap |-> c1, provider |-> s1], [on |-> TRUE, cap |-> c2, provider |-> s2]}
MCCatalogues ==
  {None, [t \in {t1} |-> [on |-> TRUE, cap |-> c2]],
   [t \in {t1, t2} |-> [on |-> t = t1, cap |-> c1]]}
MCWanted == {<<c1>>, <<c1, c2>>}
MCAuthorized == {{c1}, {c1, c2, Joined}}
MCMaxEdits == [resolve |-> 2, provide |-> 2, discover |-> 1, overview |-> 1]
===============================================================================
