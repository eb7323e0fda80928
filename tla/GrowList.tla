------------------------------ MODULE GrowList ------------------------------
(***************************************************************************)
(* What a growing array promises: a list that only gets longer, by the     *)
(* elements asked for, and whose elements change only when written.        *)
(***************************************************************************)
EXTENDS Integers

CONSTANTS Values, Undef, OK, FAILED

VARIABLES
  list,   \* the elements, a function from 1 .. length
  len,    \* how many there are
  ret     \* what the last call returned

vars == <<list, len, ret>>

Init == list = [i \in 1 .. 0 |-> Undef] /\ len = 0 /\ ret = FAILED

\* create and destroy.
Empty == len' = 0 /\ list' = [i \in 1 .. 0 |-> Undef] /\ ret' \in {OK, FAILED}

\* More elements, or none: their values are not defined yet.
Extend ==
  /\ len' >= len
  /\ DOMAIN list' = 1 .. len'
  /\ \A i \in 1 .. len : list'[i] = list[i]
  /\ ret' = OK

Fail == ret' = FAILED /\ UNCHANGED <<list, len>>

Write(i, v) == list' = [list EXCEPT ![i] = v] /\ UNCHANGED <<len, ret>>

Next ==
  \/ Empty \/ Extend \/ Fail
  \/ \E i \in 1 .. len, v \in Values : Write(i, v)

Spec == Init /\ [][Next]_vars
=============================================================================
