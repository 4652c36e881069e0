--------------------------- MODULE MCDependencyOrder ---------------------------
(* Small instances of DependencyOrder.                                     *)
EXTENDS DependencyOrder

MCCities == 1..3
===============================================================================
