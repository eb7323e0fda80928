---------------------------- MODULE MCNcSysQueue ----------------------------
(* Small instances of NcSysQueue for TLC.                                   *)
EXTENDS NcSysQueue, TLC

Interchangeable == Permutations(Elems) \cup Permutations(Heads)
=============================================================================
