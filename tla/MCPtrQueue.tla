---------------------------- MODULE MCPtrQueue ----------------------------
(* Values for model checking PtrQueue.                                     *)
EXTENDS PtrQueue, TLC

Interchangeable == Permutations(Producers) \cup Permutations(Consumers)
                     \cup Permutations(Items)
=============================================================================
