--------------------------- MODULE MCNcHashtable ---------------------------
(* Small instances of NcHashtable for TLC: the table of bucket counts is    *)
(* <<2, 3, 5>>, so that a few pairs are enough to collide and to rehash.    *)
EXTENDS NcHashtable, TLC

CONSTANTS x1, x2, y1, w1

SmallPrimes == <<2, 3, 5>>

\* w has the very hash of x; y shares their bucket among three, not among two or
\* five, so that a bucket grows to three pairs and is split again.
Keys == {x1, x2, y1, w1}
Naming == (x1 :> "x") @@ (x2 :> "x") @@ (y1 :> "y") @@ (w1 :> "w")
Hashing == ("x" :> 0) @@ ("y" :> 3) @@ ("w" :> 0)

\* Addresses and values are interchangeable: no operator orders them.
Interchangeable == Permutations(Nodes) \cup Permutations(ValueObjs)
=============================================================================
