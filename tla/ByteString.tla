----------------------------- MODULE ByteString -----------------------------
(***************************************************************************)
(* What nc_sds.h promises of one dynamic string: each call acts on a       *)
(* sequence of bytes.  A call that finds no memory returns NULL, and the   *)
(* string the caller still holds is what it was.                           *)
(***************************************************************************)
EXTENDS Integers, Sequences

CONSTANTS Texts, Sizes, CharMaps, NULL

VARIABLE text  \* the string, NULL when there is none

Zeros(n) == [i \in 1 .. n |-> 0]
Least(a, b) == IF a < b THEN a ELSE b

\* The bytes before the first NUL.
UpToNul(t) == CHOOSE u \in {SubSeq(t, 1, n) : n \in 0 .. Len(t)} :
                /\ \A i \in DOMAIN u : u[i] # 0
                /\ u # t => t[Len(u) + 1] = 0

\* Index i of a string, -1 being the last byte; one before the first byte stands
\* for the first.
Place(t, i) == IF i >= 0 THEN i + 1 ELSE IF Len(t) + i < 0 THEN 1 ELSE Len(t) + i + 1

\* Both ends are part of the result.
Slice(t, i, j) == SubSeq(t, Place(t, i), Least(Place(t, j), Len(t)))

\* u is what is left of t between the bytes of the set at both ends.
IsTrimmed(u, t, set) ==
  \E l \in 0 .. Len(t) - Len(u) :
    /\ u = SubSeq(t, l + 1, l + Len(u))
    /\ \A i \in DOMAIN t : ~(l < i /\ i <= l + Len(u)) => t[i] \in set
    /\ u # <<>> => u[1] \notin set /\ u[Len(u)] \notin set

\* Every byte replaced, at once, by what the map gives for it.
Replaced(t, map) == [i \in DOMAIN t |-> IF t[i] \in DOMAIN map THEN map[t[i]] ELSE t[i]]

-----------------------------------------------------------------------------
Init == text = NULL

\* A call that makes t of the string, or fails.
Become(t) == text' \in {t, text}

Create == text = NULL /\ (Become(<<>>) \/ \E t \in Texts : Become(t) \/ Become(UpToNul(t)))
CreateZeros == text = NULL /\ \E n \in Sizes : Become(Zeros(n))
Free == text' = NULL
Extend ==
  \/ \E t \in Texts : Become(text \o t) \/ Become(text \o UpToNul(t))
  \/ \E n \in Sizes : Become(text \o Zeros(n - Len(text)))
  \/ Become(text \o text)
Assign == \E t \in Texts : Become(t) \/ Become(UpToNul(t))
Shorten == \E l \in 1 .. Len(text) + 1, n \in 0 .. Len(text) : text' = SubSeq(text, l, n)
Change ==
  \/ \E i \in DOMAIN text : text' = [text EXCEPT ![i] = 0]
  \/ \E map \in CharMaps : text' = Replaced(text, map)

Next ==
  \/ Create \/ CreateZeros
  \/ text # NULL /\ (Free \/ Extend \/ Assign \/ Shorten \/ Change)

Spec == Init /\ [][Next]_text
=============================================================================
