----------------------------- MODULE MCNcRbtree -----------------------------
(* Small instances of NcRbtree for TLC.  The nodes are numbers, so that      *)
(* their keys are easily given.                                              *)
EXTENDS NcRbtree

\* Nodes 1 to 5 share keys, and all odd nodes and those after 5 differ in theirs.
SomeShared == [n \in Nodes |-> IF n <= 5 THEN (n + 1) \div 2 ELSE n - 2]
=============================================================================
