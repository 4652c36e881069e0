--------------------------- MODULE MCRegistryService ---------------------------
(* Small instances of RegistryService.                                     *)
EXTENDS RegistryService, TLC

CONSTANTS t1, t2, \* worker threads
          f, g        \* a plain field, and the output_contract of an agent

\* 0 stands for an empty contract, 1 for one with entries.
MCContracts == {<<g, 1>>}
NoContracts == {}

\* The handlers do not tell the threads apart, nor do the properties.
ThreadSymmetry == Permutations(Threads)
===============================================================================
