------------------------------ MODULE MCNcPool ------------------------------
(* Small instances of NcPool for TLC.                                      *)
EXTENDS NcPool, TLC

\* Addresses of the heap are interchangeable: no operator orders them.
HeapSymmetry == Permutations(HeapAddrs)
=============================================================================
