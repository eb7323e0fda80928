------------------------------ MODULE NatSets ------------------------------
(***************************************************************************)
(* Facts about sets of natural numbers that serve for induction: to show   *)
(* that all numbers have a property, show that the set of those that have  *)
(* it is closed.                                                           *)
(***************************************************************************)
EXTENDS Integers, WellFoundedInduction, TLAPS

\* The natural numbers are well founded.
LEMMA LeastNumber ==
  ASSUME NEW S \in SUBSET Nat, S # {}
  PROVE  \E x \in S : \A y \in S : x <= y
<1> DEFINE R == {p \in Nat \X Nat : p[1] < p[2]}
<1>1. IsWellFoundedOn(R, Nat)
  BY NatLessThanWellFounded DEF OpToRel
<1>2. \A x, y \in Nat : y < x => <<y, x>> \in R
  OBVIOUS
<1> HIDE DEF R
<1>3. PICK x \in S : \A y \in S : <<y, x>> \notin R
  BY <1>1, WFMin
<1>4. ASSUME NEW y \in S PROVE x <= y
  <2>1. x \in Nat /\ y \in Nat
    OBVIOUS
  <2>2. ~(y < x)
    BY <1>2, <1>3, <2>1
  <2> QED
    BY <2>1, <2>2
<1> QED
  BY <1>4

\* Induction over an interval: what holds at its start and is passed on to the
\* next number holds up to its end.
LEMMA IntervalInduction ==
  ASSUME NEW a \in Nat, NEW b \in Nat, NEW S, a \in S,
         \A k \in a .. b - 1 : k \in S => k + 1 \in S
  PROVE  \A k \in a .. b : k \in S
<1> DEFINE Out == {k \in a .. b : k \notin S}
<1>1. Out \in SUBSET Nat
  OBVIOUS
<1>2. CASE Out = {}
  BY <1>2
<1>3. CASE Out # {}
  <2>1. PICK x \in Out : \A y \in Out : x <= y
    <3> HIDE DEF Out
    <3> QED
      BY <1>1, <1>3, LeastNumber
  <2>2. x \in a .. b /\ x \notin S /\ x # a
    BY <2>1
  <2>3. x - 1 \in a .. b - 1 /\ x - 1 < x
    BY <2>2
  <2>4. x - 1 \in S
    BY <2>1, <2>3
  <2>5. x - 1 + 1 \in S
    BY <2>3, <2>4
  <2>6. x - 1 + 1 = x
    BY <2>2
  <2> QED
    BY <2>2, <2>5, <2>6
<1> QED
  BY <1>2, <1>3

\* A function applied over and over to a starting value.
Iterated(d, V, base, step, N) ==
  d \in [0 .. N -> V] /\ d[0] = base /\ \A n \in 1 .. N : d[n] = step[d[n - 1]]
Iteration(V, base, step, N) == CHOOSE d : Iterated(d, V, base, step, N)

LEMMA Iterates ==
  ASSUME NEW V, NEW base \in V, NEW step \in [V -> V], NEW N \in Nat
  PROVE  Iterated(Iteration(V, base, step, N), V, base, step, N)
<1> DEFINE Runs(d, k) == /\ d \in [0 .. k -> V]
                         /\ d[0] = base /\ \A n \in 1 .. k : d[n] = step[d[n - 1]]
           S == {k \in 0 .. N : \E d : Runs(d, k)}
<1>1. 0 \in S
  <2>1. Runs([n \in 0 .. 0 |-> base], 0)
    OBVIOUS
  <2> HIDE DEF Runs
  <2> QED
    BY <2>1
<1>2. ASSUME NEW k \in 0 .. N - 1, k \in S PROVE k + 1 \in S
  <2>1. PICK d : Runs(d, k)
    BY <1>2
  <2> DEFINE g == [n \in 0 .. k + 1 |-> IF n <= k THEN d[n] ELSE step[d[k]]]
  <2>2. k \in Nat /\ d[k] \in V /\ 0 \in 0 .. k /\ k \in 0 .. k
    BY <2>1
  <2>3. step[d[k]] \in V
    BY <2>2
  <2>4. g \in [0 .. k + 1 -> V]
    BY <2>1, <2>2, <2>3
  <2>5. /\ \A n \in 0 .. k : g[n] = d[n]
        /\ g[k + 1] = step[d[k]]
    BY <2>2
  <2> HIDE DEF g
  <2>6. ASSUME NEW n \in 1 .. k + 1 PROVE g[n] = step[g[n - 1]]
    <3>1. CASE n \in 1 .. k
      <4>1. n \in 0 .. k /\ n - 1 \in 0 .. k
        BY <3>1
      <4> QED
        BY <2>1, <2>5, <3>1, <4>1
    <3>2. CASE n = k + 1
      <4>1. n - 1 = k
        BY <2>2, <3>2
      <4> QED
        BY <2>2, <2>5, <3>2, <4>1
    <3> QED
      BY <2>2, <3>1, <3>2
  <2>7. Runs(g, k + 1)
    BY <2>1, <2>2, <2>4, <2>5, <2>6
  <2>8. k + 1 \in 0 .. N
    BY <2>2
  <2> HIDE DEF Runs
  <2> QED
    BY <2>7, <2>8
<1>3. N \in S
  <2> HIDE DEF S
  <2>1. \A k \in 0 .. N : k \in S
    BY <1>1, <1>2, IntervalInduction
  <2> QED
    BY <2>1
<1>4. PICK d : Runs(d, N)
  BY <1>3
<1> QED
  <2>1. Iterated(d, V, base, step, N)
    BY <1>4, Zenon DEF Iterated
  <2> QED
    BY <2>1, Zenon DEF Iteration
=============================================================================
