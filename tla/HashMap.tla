------------------------------ MODULE HashMap ------------------------------
(***************************************************************************)
(* What nc_hashtable.h promises of a table of names and values: each call, *)
(* with what it returns, acts on a map.  A call may fail for want of       *)
(* memory, and then changes nothing.                                       *)
(***************************************************************************)
CONSTANTS Names, Values, NULL, OK, ERROR

VARIABLES map, ret

Init == map = <<>> /\ ret = OK

Put(f, n, v) == [m \in DOMAIN f \cup {n} |-> IF m = n THEN v ELSE f[m]]
Drop(f, n) == [m \in DOMAIN f \ {n} |-> f[m]]

Set(n, v) ==
  \/ map' = Put(map, n, v) /\ ret' = OK
  \/ ret' = ERROR /\ UNCHANGED map

Get(n) ==
  /\ ret' = IF n \in DOMAIN map THEN map[n] ELSE NULL
  /\ UNCHANGED map

Del(n) ==
  IF n \in DOMAIN map THEN map' = Drop(map, n) /\ ret' = OK
                      ELSE ret' = ERROR /\ UNCHANGED map

\* nc_hashtable_create, clear and destroy.
Clear == map' = <<>> /\ ret' \in {OK, NULL}

\* nc_hashtable_iter_set: some name of the map gets a new value.
IterSet(n, v) == n \in DOMAIN map /\ map' = Put(map, n, v) /\ ret' = OK

Next ==
  \/ \E n \in Names, v \in Values : Set(n, v) \/ IterSet(n, v)
  \/ \E n \in Names : Get(n) \/ Del(n)
  \/ Clear

Spec == Init /\ [][Next]_<<map, ret>>
=============================================================================
