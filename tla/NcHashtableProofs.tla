-------------------------- MODULE NcHashtableProofs --------------------------
(***************************************************************************)
(* The hash table is a sequence of pairs: the circular list runs through   *)
(* it in both directions, and the pairs of each bucket are a stretch of it.*)
(* Every call keeps such a sequence, which is what makes the pairs that a  *)
(* bucket encloses the pairs that are there.                               *)
(***************************************************************************)
EXTENDS NcHashtable, NatSets, FiniteSetTheorems, SequenceTheorems, TLAPS

-----------------------------------------------------------------------------
(* Sequences without repetition                                            *)

Elements(s) == {s[k] : k \in 1 .. Len(s)}

Distinct(s) ==
  /\ s \in Seq(Nodes)
  /\ \A i, j \in 1 .. Len(s) : s[i] = s[j] => i = j

\* The place before the first and the one after the last are the head's.
At(s, k) == IF k \in 1 .. Len(s) THEN s[k] ELSE ListHead

\* x becomes the element at p, x the element at p goes.
Inserted(s, p, x) ==
  [k \in 1 .. Len(s) + 1 |-> IF k < p THEN s[k] ELSE IF k = p THEN x ELSE s[k - 1]]
Removed(s, p) ==
  [k \in 1 .. Len(s) - 1 |-> IF k < p THEN s[k] ELSE s[k + 1]]

LEMMA NodesAndHead ==
  /\ ListHead \notin Nodes /\ ListHead \in Links /\ Nodes \subseteq Links
  /\ NULL \notin Links /\ ListHead # NULL
BY HashtableAssumption DEF Links

LEMMA AtProperties ==
  ASSUME NEW s, Distinct(s)
  PROVE  /\ Len(s) \in Nat
         /\ \A k \in 1 .. Len(s) : At(s, k) = s[k] /\ s[k] \in Nodes
         /\ At(s, 0) = ListHead /\ At(s, Len(s) + 1) = ListHead
         /\ \A k \in Int : At(s, k) \in Links
         /\ \A k \in Int : At(s, k) = ListHead <=> k \notin 1 .. Len(s)
         /\ \A i, j \in 0 .. Len(s) : At(s, i) = At(s, j) => i = j
         /\ \A i, j \in 1 .. Len(s) + 1 : At(s, i) = At(s, j) => i = j
<1>1. Len(s) \in Nat /\ \A k \in 1 .. Len(s) : s[k] \in Nodes
  BY DEF Distinct
<1>2. \A k \in Int : At(s, k) = ListHead <=> k \notin 1 .. Len(s)
  BY <1>1, NodesAndHead DEF At
<1>3. \A k \in 1 .. Len(s) : At(s, k) = s[k] /\ s[k] \in Nodes
  BY <1>1 DEF At
<1>4. \A k \in Int : At(s, k) \in Links
  BY <1>1, NodesAndHead DEF At
<1>5. \A i, j \in 1 .. Len(s) : At(s, i) = At(s, j) => i = j
  BY <1>3 DEF Distinct
<1>6. \A i, j \in 0 .. Len(s) : At(s, i) = At(s, j) => i = j
  <2> SUFFICES ASSUME NEW i \in 0 .. Len(s), NEW j \in 0 .. Len(s), At(s, i) = At(s, j)
               PROVE  i = j
    OBVIOUS
  <2>1. CASE i = 0 \/ j = 0
    BY <1>1, <1>2, <2>1
  <2>2. CASE i # 0 /\ j # 0
    BY <1>1, <1>5, <2>2
  <2> QED
    BY <2>1, <2>2
<1>7. \A i, j \in 1 .. Len(s) + 1 : At(s, i) = At(s, j) => i = j
  <2> SUFFICES ASSUME NEW i \in 1 .. Len(s) + 1, NEW j \in 1 .. Len(s) + 1, At(s, i) = At(s, j)
               PROVE  i = j
    OBVIOUS
  <2>1. CASE i = Len(s) + 1 \/ j = Len(s) + 1
    BY <1>1, <1>2, <2>1
  <2>2. CASE i # Len(s) + 1 /\ j # Len(s) + 1
    BY <1>1, <1>5, <2>2
  <2> QED
    BY <2>1, <2>2
<1>8. At(s, 0) = ListHead /\ At(s, Len(s) + 1) = ListHead
  BY <1>1, <1>2
<1> QED
  BY <1>1, <1>2, <1>3, <1>4, <1>6, <1>7, <1>8

LEMMA InsertedProperties ==
  ASSUME NEW s, Distinct(s), NEW p \in 1 .. Len(s) + 1,
         NEW x \in Nodes, x \notin Elements(s)
  PROVE  /\ Distinct(Inserted(s, p, x))
         /\ Len(Inserted(s, p, x)) = Len(s) + 1
         /\ Elements(Inserted(s, p, x)) = Elements(s) \cup {x}
         /\ \A k \in 0 .. Len(s) + 2 :
              At(Inserted(s, p, x), k) =
                IF k < p THEN At(s, k) ELSE IF k = p THEN x ELSE At(s, k - 1)
<1> DEFINE u == Inserted(s, p, x)
<1>1. Len(s) \in Nat /\ \A k \in 1 .. Len(s) : s[k] \in Nodes
  BY DEF Distinct
<1>2. u \in Seq(Nodes) /\ Len(u) = Len(s) + 1
  <2>1. u \in [1 .. Len(s) + 1 -> Nodes]
    <3> SUFFICES ASSUME NEW k \in 1 .. Len(s) + 1
                 PROVE (IF k < p THEN s[k] ELSE IF k = p THEN x ELSE s[k - 1]) \in Nodes
      BY DEF Inserted
    <3>1. CASE k < p
      BY <1>1, <3>1
    <3>2. CASE k = p
      BY <3>2
    <3>3. CASE k > p
      BY <1>1, <3>3
    <3> QED
      BY <1>1, <3>1, <3>2, <3>3
  <2>2. Len(s) + 1 \in Nat
    BY <1>1
  <2> HIDE DEF u
  <2> QED
    BY <2>1, <2>2
<1>3. \A k \in 1 .. Len(s) + 1 : u[k] = IF k < p THEN s[k] ELSE IF k = p THEN x ELSE s[k - 1]
  BY DEF Inserted
<1> HIDE DEF u
<1>4. \A k \in 1 .. Len(s) : s[k] # x
  BY DEF Elements
<1>5. ASSUME NEW i \in 1 .. Len(u), NEW j \in 1 .. Len(u), u[i] = u[j]
      PROVE  i = j
  <2> DEFINE from(k) == IF k < p THEN k ELSE k - 1
  <2>1. \A k \in 1 .. Len(u) : k # p => from(k) \in 1 .. Len(s) /\ u[k] = s[from(k)]
    BY <1>1, <1>2, <1>3
  <2>2. u[p] = x
    BY <1>1, <1>3
  <2>3. CASE i = p
    BY <2>1, <2>2, <2>3, <1>4, <1>5
  <2>4. CASE j = p
    BY <2>1, <2>2, <2>4, <1>4, <1>5
  <2>5. CASE i # p /\ j # p
    <3>1. from(i) = from(j)
      BY <2>1, <2>5, <1>5 DEF Distinct
    <3> QED
      BY <3>1, <2>5, <1>1, <1>2
  <2> QED
    BY <2>3, <2>4, <2>5
<1>6. Elements(u) = Elements(s) \cup {x}
  <2>1. \A k \in 1 .. Len(u) : u[k] \in Elements(s) \cup {x}
    <3> TAKE k \in 1 .. Len(u)
    <3>1. CASE k < p
      BY <1>1, <1>2, <1>3, <3>1 DEF Elements
    <3>2. CASE k = p
      BY <1>1, <1>2, <1>3, <3>2
    <3>3. CASE k > p
      <4>1. u[k] = s[k - 1] /\ k - 1 \in 1 .. Len(s)
        BY <1>1, <1>2, <1>3, <3>3
      <4> QED
        BY <4>1 DEF Elements
    <3> QED
      BY <1>1, <1>2, <3>1, <3>2, <3>3
  <2>2. \A k \in 1 .. Len(s) : s[k] \in Elements(u)
    <3> TAKE k \in 1 .. Len(s)
    <3>1. CASE k < p
      <4>1. u[k] = s[k] /\ k \in 1 .. Len(u)
        BY <1>1, <1>2, <1>3, <3>1
      <4> QED
        BY <4>1 DEF Elements
    <3>2. CASE k >= p
      <4>1. u[k + 1] = s[k] /\ k + 1 \in 1 .. Len(u)
        BY <1>1, <1>2, <1>3, <3>2
      <4> QED
        BY <4>1 DEF Elements
    <3> QED
      BY <1>1, <3>1, <3>2
  <2>3. x \in Elements(u)
    <3>1. u[p] = x /\ p \in 1 .. Len(u)
      BY <1>1, <1>2, <1>3
    <3> QED
      BY <3>1 DEF Elements
  <2> QED
    BY <2>1, <2>2, <2>3 DEF Elements
<1>7. \A k \in 0 .. Len(s) + 2 :
        At(u, k) = IF k < p THEN At(s, k) ELSE IF k = p THEN x ELSE At(s, k - 1)
  <2> TAKE k \in 0 .. Len(s) + 2
  <2>1. CASE k < p
    BY <1>1, <1>2, <1>3, <2>1 DEF At
  <2>2. CASE k = p
    BY <1>1, <1>2, <1>3, <2>2 DEF At
  <2>3. CASE k > p
    BY <1>1, <1>2, <1>3, <2>3 DEF At
  <2> QED
    BY <1>1, <2>1, <2>2, <2>3
<1> QED
  BY <1>2, <1>5, <1>6, <1>7 DEF Distinct, u

LEMMA RemovedProperties ==
  ASSUME NEW s, Distinct(s), NEW p \in 1 .. Len(s)
  PROVE  /\ Distinct(Removed(s, p))
         /\ Len(Removed(s, p)) = Len(s) - 1
         /\ Elements(Removed(s, p)) = Elements(s) \ {s[p]}
         /\ \A k \in 0 .. Len(s) :
              At(Removed(s, p), k) = IF k < p THEN At(s, k) ELSE At(s, k + 1)
<1> DEFINE u == Removed(s, p)
<1>1. Len(s) \in Nat /\ \A k \in 1 .. Len(s) : s[k] \in Nodes
  BY DEF Distinct
<1>2. u \in Seq(Nodes) /\ Len(u) = Len(s) - 1
  <2>1. u \in [1 .. Len(s) - 1 -> Nodes]
    BY <1>1 DEF Removed
  <2>2. Len(s) - 1 \in Nat
    BY <1>1
  <2> HIDE DEF u
  <2> QED
    BY <2>1, <2>2
<1>3. \A k \in 1 .. Len(s) - 1 : u[k] = IF k < p THEN s[k] ELSE s[k + 1]
  BY DEF Removed
<1> HIDE DEF u
<1> DEFINE from(k) == IF k < p THEN k ELSE k + 1
<1>4. \A k \in 1 .. Len(u) : from(k) \in 1 .. Len(s) \ {p} /\ u[k] = s[from(k)]
  BY <1>1, <1>2, <1>3
<1>5. ASSUME NEW i \in 1 .. Len(u), NEW j \in 1 .. Len(u), u[i] = u[j]
      PROVE  i = j
  <2>1. from(i) = from(j)
    BY <1>4, <1>5 DEF Distinct
  <2> QED
    BY <2>1, <1>1, <1>2
<1>6. Elements(u) = Elements(s) \ {s[p]}
  <2>1. \A k \in 1 .. Len(u) : u[k] \in Elements(s) \ {s[p]}
    BY <1>4 DEF Elements, Distinct
  <2>2. \A k \in 1 .. Len(s) : k # p => s[k] \in Elements(u)
    <3> TAKE k \in 1 .. Len(s)
    <3> HAVE k # p
    <3>1. CASE k < p
      <4>1. u[k] = s[k] /\ k \in 1 .. Len(u)
        BY <1>1, <1>2, <1>3, <3>1
      <4> QED
        BY <4>1 DEF Elements
    <3>2. CASE k > p
      <4>1. u[k - 1] = s[k] /\ k - 1 \in 1 .. Len(u)
        BY <1>1, <1>2, <1>3, <3>2
      <4> QED
        BY <4>1 DEF Elements
    <3> QED
      BY <1>1, <3>1, <3>2
  <2> QED
    BY <2>1, <2>2 DEF Elements
<1>7. \A k \in 0 .. Len(s) : At(u, k) = IF k < p THEN At(s, k) ELSE At(s, k + 1)
  BY <1>1, <1>2, <1>3 DEF At
<1> QED
  BY <1>2, <1>5, <1>6, <1>7 DEF Distinct, u

-----------------------------------------------------------------------------
(* The circular list                                                       *)

LinkMaps == [Links -> Links \cup {NULL}]

\* next and prev lead through s, forth and back, from the head to the head.
Linked(next, prev, s) ==
  /\ Distinct(s)
  /\ \A k \in 0 .. Len(s) : next[At(s, k)] = At(s, k + 1) /\ prev[At(s, k + 1)] = At(s, k)

LEMMA LinkedInsert ==
  ASSUME NEW next \in LinkMaps, NEW prev \in LinkMaps, NEW s, Linked(next, prev, s),
         NEW p \in 1 .. Len(s) + 1, NEW x \in Nodes, x \notin Elements(s),
         NEW at, at = At(s, p), NEW before, before = prev[at]
  PROVE  Linked([next EXCEPT ![x] = at, ![before] = x],
                [prev EXCEPT ![x] = before, ![at] = x], Inserted(s, p, x))
<1> DEFINE u == Inserted(s, p, x)
           nx == [next EXCEPT ![x] = at, ![before] = x]
           pv == [prev EXCEPT ![x] = before, ![at] = x]
<1>1. Distinct(s) /\ Len(s) \in Nat
  BY AtProperties DEF Linked
<1>2. /\ Distinct(u) /\ Len(u) = Len(s) + 1
      /\ \A k \in 0 .. Len(s) + 2 :
           At(u, k) = IF k < p THEN At(s, k) ELSE IF k = p THEN x ELSE At(s, k - 1)
  BY <1>1, InsertedProperties
<1>3. before = At(s, p - 1)
  <2>1. p - 1 \in 0 .. Len(s) /\ p - 1 + 1 = p
    BY <1>1
  <2> QED
    BY <2>1 DEF Linked
<1>4. \A k \in 0 .. Len(s) + 1 : At(s, k) # x
  BY <1>1, NodesAndHead DEF At, Elements
<1>5. x \in Links /\ at \in Links /\ before \in Links /\ x # at /\ x # before
  BY <1>1, <1>3, <1>4, AtProperties, NodesAndHead
<1>6. /\ \A l \in Links : nx[l] = IF l = before THEN x ELSE IF l = x THEN at ELSE next[l]
      /\ \A l \in Links : pv[l] = IF l = at THEN x ELSE IF l = x THEN before ELSE prev[l]
  BY <1>5 DEF LinkMaps
<1> HIDE DEF u, nx, pv
<1>7. ASSUME NEW k \in 0 .. Len(s) + 1
      PROVE  nx[At(u, k)] = At(u, k + 1) /\ pv[At(u, k + 1)] = At(u, k)
  <2>0. /\ k + 1 \in 0 .. Len(s) + 2
        /\ \A j \in 0 .. Len(s) : At(s, j) = before => j = p - 1
        /\ \A j \in 1 .. Len(s) + 1 : At(s, j) = at => j = p
        /\ \A j \in 0 .. Len(s) + 1 : At(s, j) \in Links
    BY <1>1, <1>3, AtProperties
  <2>1. CASE k < p - 1
    <3>1. /\ k \in 0 .. Len(s) /\ k + 1 \in 1 .. Len(s) + 1 /\ k + 1 < p
          /\ At(u, k) = At(s, k) /\ At(u, k + 1) = At(s, k + 1)
      BY <1>1, <1>2, <2>0, <2>1
    <3>2. At(s, k) # before /\ At(s, k + 1) # at
      BY <2>0, <2>1, <3>1
    <3>3. nx[At(s, k)] = next[At(s, k)] /\ pv[At(s, k + 1)] = prev[At(s, k + 1)]
      BY <1>4, <1>6, <2>0, <3>1, <3>2
    <3> QED
      BY <3>1, <3>3 DEF Linked
  <2>2. CASE k = p - 1
    <3>1. At(u, k) = before /\ At(u, k + 1) = x
      BY <1>1, <1>2, <1>3, <2>0, <2>2
    <3> QED
      BY <1>5, <1>6, <3>1
  <2>3. CASE k = p
    <3>1. At(u, k) = x /\ At(u, k + 1) = at
      BY <1>1, <1>2, <2>0, <2>3
    <3> QED
      BY <1>5, <1>6, <3>1
  <2>4. CASE k > p
    <3>1. /\ k - 1 \in 0 .. Len(s) /\ k - 1 # p - 1 /\ k \in 1 .. Len(s) + 1 /\ k # p
          /\ At(u, k) = At(s, k - 1) /\ At(u, k + 1) = At(s, k)
          /\ k - 1 + 1 = k
      BY <1>1, <1>2, <2>0, <2>4
    <3>2. At(s, k - 1) # before /\ At(s, k) # at
      BY <2>0, <3>1
    <3>3. nx[At(s, k - 1)] = next[At(s, k - 1)] /\ pv[At(s, k)] = prev[At(s, k)]
      BY <1>4, <1>6, <2>0, <3>1, <3>2
    <3>4. next[At(s, k - 1)] = At(s, k) /\ prev[At(s, k)] = At(s, k - 1)
      BY <3>1 DEF Linked
    <3> QED
      BY <3>1, <3>3, <3>4
  <2> QED
    BY <1>1, <2>1, <2>2, <2>3, <2>4
<1> QED
  BY <1>2, <1>7 DEF Linked, u, nx, pv

LEMMA LinkedRemove ==
  ASSUME NEW next \in LinkMaps, NEW prev \in LinkMaps, NEW s, Linked(next, prev, s),
         NEW p \in 1 .. Len(s), NEW x, x = s[p]
  PROVE  Linked([next EXCEPT ![prev[x]] = next[x]],
                [prev EXCEPT ![next[x]] = prev[x]], Removed(s, p))
<1> DEFINE u == Removed(s, p)
           before == prev[x]
           after == next[x]
           nx == [next EXCEPT ![before] = after]
           pv == [prev EXCEPT ![after] = before]
<1>1. Distinct(s) /\ Len(s) \in Nat
  BY AtProperties DEF Linked
<1>2. /\ Distinct(u) /\ Len(u) = Len(s) - 1
      /\ \A k \in 0 .. Len(s) : At(u, k) = IF k < p THEN At(s, k) ELSE At(s, k + 1)
  BY <1>1, RemovedProperties
<1>3. before = At(s, p - 1) /\ after = At(s, p + 1)
  <2>1. p - 1 \in 0 .. Len(s) /\ p - 1 + 1 = p /\ p \in 0 .. Len(s) /\ x = At(s, p)
    BY <1>1 DEF At
  <2> QED
    BY <2>1 DEF Linked
<1>4. before \in Links /\ after \in Links
  BY <1>1, <1>3, AtProperties
<1>6. /\ \A l \in Links : nx[l] = IF l = before THEN after ELSE next[l]
      /\ \A l \in Links : pv[l] = IF l = after THEN before ELSE prev[l]
  BY <1>4 DEF LinkMaps
<1> HIDE DEF u, nx, pv, before, after
<1>7. ASSUME NEW k \in 0 .. Len(s) - 1
      PROVE  nx[At(u, k)] = At(u, k + 1) /\ pv[At(u, k + 1)] = At(u, k)
  <2>0. /\ k + 1 \in 0 .. Len(s) /\ k \in 0 .. Len(s)
        /\ \A j \in 0 .. Len(s) : At(s, j) = before => j = p - 1
        /\ \A j \in 1 .. Len(s) + 1 : At(s, j) = after => j = p + 1
        /\ \A j \in 0 .. Len(s) + 1 : At(s, j) \in Links
    BY <1>1, <1>3, AtProperties
  <2>1. CASE k < p - 1
    <3>1. /\ k \in 0 .. Len(s) /\ k + 1 \in 1 .. Len(s) + 1 /\ k + 1 < p
          /\ At(u, k) = At(s, k) /\ At(u, k + 1) = At(s, k + 1)
      BY <1>1, <1>2, <2>0, <2>1
    <3>2. At(s, k) # before /\ At(s, k + 1) # after
      BY <2>0, <2>1, <3>1
    <3>3. nx[At(s, k)] = next[At(s, k)] /\ pv[At(s, k + 1)] = prev[At(s, k + 1)]
      BY <1>6, <2>0, <3>1, <3>2
    <3> QED
      BY <3>1, <3>3 DEF Linked
  <2>2. CASE k = p - 1
    <3>1. At(u, k) = before /\ At(u, k + 1) = after
      BY <1>1, <1>2, <1>3, <2>0, <2>2
    <3> QED
      BY <1>4, <1>6, <3>1
  <2>4. CASE k > p - 1
    <3>1. /\ k + 1 \in 0 .. Len(s) /\ k + 1 # p - 1 /\ k + 2 \in 1 .. Len(s) + 1 /\ k + 2 # p + 1
          /\ At(u, k) = At(s, k + 1) /\ At(u, k + 1) = At(s, k + 2)
          /\ k + 1 + 1 = k + 2
      BY <1>1, <1>2, <2>0, <2>4
    <3>2. At(s, k + 1) # before /\ At(s, k + 2) # after
      BY <2>0, <3>1
    <3>3. nx[At(s, k + 1)] = next[At(s, k + 1)] /\ pv[At(s, k + 2)] = prev[At(s, k + 2)]
      BY <1>1, <1>6, <2>0, <3>1, <3>2
    <3>4. next[At(s, k + 1)] = At(s, k + 2) /\ prev[At(s, k + 2)] = At(s, k + 1)
      BY <3>1 DEF Linked
    <3> QED
      BY <3>1, <3>3, <3>4
  <2> QED
    BY <1>1, <2>1, <2>2, <2>4
<1> QED
  BY <1>2, <1>7 DEF Linked, u, nx, pv, before, after

-----------------------------------------------------------------------------
(* Buckets as stretches of the sequence; f says to which bucket a pair     *)
(* belongs                                                                 *)

Stretch(bucket, f, s, b) ==
  \/ bucket = EmptyBucket /\ \A k \in 1 .. Len(s) : f[s[k]] # b
  \/ \E i, j \in 1 .. Len(s) :
       /\ i <= j /\ bucket = [first |-> s[i], last |-> s[j]]
       /\ \A k \in 1 .. Len(s) : f[s[k]] = b <=> i <= k /\ k <= j

LEMMA StretchCases ==
  ASSUME NEW s, Distinct(s), NEW f, NEW b, NEW bucket, Stretch(bucket, f, s, b)
  PROVE  IF bucket = EmptyBucket
         THEN \A k \in 1 .. Len(s) : f[s[k]] # b
         ELSE \E i, j \in 1 .. Len(s) :
                /\ i <= j /\ bucket = [first |-> s[i], last |-> s[j]]
                /\ \A k \in 1 .. Len(s) : f[s[k]] = b <=> i <= k /\ k <= j
<1>1. \A i, j \in 1 .. Len(s) : [first |-> s[i], last |-> s[j]] # EmptyBucket
  <2> TAKE i, j \in 1 .. Len(s)
  <2>1. s[i] # ListHead
    BY NodesAndHead, AtProperties
  <2> QED
    BY <2>1 DEF EmptyBucket
<1> QED
  BY <1>1 DEF Stretch

\* What is said of pairs of the sequence does not depend on the others.
LEMMA StretchAgrees ==
  ASSUME NEW s, NEW f, NEW g, NEW b, NEW bucket, Stretch(bucket, f, s, b),
         \A k \in 1 .. Len(s) : g[s[k]] = f[s[k]]
  PROVE  Stretch(bucket, g, s, b)
<1>1. CASE bucket = EmptyBucket /\ \A k \in 1 .. Len(s) : f[s[k]] # b
  BY <1>1 DEF Stretch
<1>2. CASE \E i, j \in 1 .. Len(s) :
             /\ i <= j /\ bucket = [first |-> s[i], last |-> s[j]]
             /\ \A k \in 1 .. Len(s) : f[s[k]] = b <=> i <= k /\ k <= j
  <2>1. PICK i \in 1 .. Len(s), j \in 1 .. Len(s) :
             /\ i <= j /\ bucket = [first |-> s[i], last |-> s[j]]
             /\ \A k \in 1 .. Len(s) : f[s[k]] = b <=> i <= k /\ k <= j
    BY <1>2
  <2>2. \A k \in 1 .. Len(s) : g[s[k]] = b <=> i <= k /\ k <= j
    BY <2>1
  <2> QED
    BY <2>1, <2>2 DEF Stretch
<1> QED
  BY <1>1, <1>2 DEF Stretch

\* An element put in at the end, or in front of one of its own bucket, leaves the
\* stretches of the other buckets alone.
LEMMA StretchInsertOther ==
  ASSUME NEW s, Distinct(s), NEW f, NEW b, NEW bucket, Stretch(bucket, f, s, b),
         NEW p \in 1 .. Len(s) + 1, p = Len(s) + 1 \/ f[s[p]] # b,
         NEW x \in Nodes, x \notin Elements(s), f[x] # b
  PROVE  Stretch(bucket, f, Inserted(s, p, x), b)
<1> DEFINE u == Inserted(s, p, x)
<1>1. Len(s) \in Nat /\ Len(u) = Len(s) + 1
  BY AtProperties, InsertedProperties
<1>2. \A k \in 1 .. Len(u) : u[k] = IF k < p THEN s[k] ELSE IF k = p THEN x ELSE s[k - 1]
  BY <1>1 DEF Inserted
<1> HIDE DEF u
<1>3. CASE bucket = EmptyBucket
  <2>1. \A k \in 1 .. Len(s) : f[s[k]] # b
    BY <1>3, StretchCases
  <2>2. ASSUME NEW k \in 1 .. Len(u) PROVE f[u[k]] # b
    <3>1. CASE k < p
      BY <1>1, <1>2, <2>1, <3>1
    <3>2. CASE k = p
      BY <1>2, <3>2
    <3>3. CASE k > p
      <4>1. k - 1 \in 1 .. Len(s) /\ u[k] = s[k - 1]
        BY <1>1, <1>2, <3>3
      <4> QED
        BY <2>1, <4>1
    <3> QED
      BY <1>1, <3>1, <3>2, <3>3
  <2> QED
    BY <1>3, <2>2 DEF Stretch, u
<1>4. CASE bucket # EmptyBucket
  <2>1. PICK i \in 1 .. Len(s), j \in 1 .. Len(s) :
             /\ i <= j /\ bucket = [first |-> s[i], last |-> s[j]]
             /\ \A k \in 1 .. Len(s) : f[s[k]] = b <=> i <= k /\ k <= j
    BY <1>4, StretchCases
  <2>2. p <= i \/ j < p
    BY <1>1, <2>1
  <2> DEFINE to(k) == IF k < p THEN k ELSE k + 1
  <2>3. /\ to(i) \in 1 .. Len(u) /\ to(j) \in 1 .. Len(u) /\ to(i) <= to(j)
        /\ u[to(i)] = s[i] /\ u[to(j)] = s[j]
    BY <1>1, <1>2, <2>1
  <2>4. ASSUME NEW k \in 1 .. Len(u) PROVE f[u[k]] = b <=> to(i) <= k /\ k <= to(j)
    <3>1. CASE k < p
      <4>1. k \in 1 .. Len(s) /\ u[k] = s[k]
        BY <1>1, <1>2, <3>1
      <4>2. (i <= k /\ k <= j) <=> (to(i) <= k /\ k <= to(j))
        BY <1>1, <2>1, <2>2, <3>1
      <4> QED
        BY <2>1, <4>1, <4>2
    <3>2. CASE k = p
      <4>1. u[k] = x
        BY <1>2, <3>2
      <4>2. ~(to(i) <= k /\ k <= to(j))
        BY <1>1, <2>1, <2>2, <3>2
      <4> QED
        BY <4>1, <4>2
    <3>3. CASE k > p
      <4>1. k - 1 \in 1 .. Len(s) /\ u[k] = s[k - 1]
        BY <1>1, <1>2, <3>3
      <4>2. (i <= k - 1 /\ k - 1 <= j) <=> (to(i) <= k /\ k <= to(j))
        BY <1>1, <2>1, <2>2, <3>3
      <4> QED
        BY <2>1, <4>1, <4>2
    <3> QED
      BY <1>1, <3>1, <3>2, <3>3
  <2>5. \E a, c \in 1 .. Len(u) :
          /\ a <= c /\ bucket = [first |-> u[a], last |-> u[c]]
          /\ \A k \in 1 .. Len(u) : f[u[k]] = b <=> a <= k /\ k <= c
    <3>1. bucket = [first |-> u[to(i)], last |-> u[to(j)]]
      BY <2>1, <2>3
    <3> HIDE DEF to
    <3> QED
      BY <2>3, <2>4, <3>1
  <2> QED
    BY <2>5 DEF Stretch, u
<1> QED
  BY <1>3, <1>4

\* An element put in front of its bucket's first one, or anywhere when it is the
\* only one, joins the stretch.
LEMMA StretchInsertFirst ==
  ASSUME NEW s, Distinct(s), NEW f, NEW b, NEW bucket, Stretch(bucket, f, s, b),
         bucket # EmptyBucket, NEW p \in 1 .. Len(s), s[p] = bucket.first,
         NEW x \in Nodes, x \notin Elements(s), f[x] = b
  PROVE  /\ Stretch([bucket EXCEPT !.first = x], f, Inserted(s, p, x), b)
         /\ f[s[p]] = b
<1> DEFINE u == Inserted(s, p, x)
<1>1. Len(s) \in Nat /\ Len(u) = Len(s) + 1
  BY AtProperties, InsertedProperties
<1>2. \A k \in 1 .. Len(u) : u[k] = IF k < p THEN s[k] ELSE IF k = p THEN x ELSE s[k - 1]
  BY <1>1 DEF Inserted
<1> HIDE DEF u
<1>3. PICK i \in 1 .. Len(s), j \in 1 .. Len(s) :
           /\ i <= j /\ bucket = [first |-> s[i], last |-> s[j]]
           /\ \A k \in 1 .. Len(s) : f[s[k]] = b <=> i <= k /\ k <= j
  BY StretchCases
<1>4. i = p
  BY <1>3 DEF Distinct
<1>5. u[p] = x /\ u[j + 1] = s[j] /\ p \in 1 .. Len(u) /\ j + 1 \in 1 .. Len(u) /\ p <= j + 1
  BY <1>1, <1>2, <1>3, <1>4
<1>6. ASSUME NEW k \in 1 .. Len(u) PROVE f[u[k]] = b <=> p <= k /\ k <= j + 1
  <2>1. CASE k < p
    <3>1. k \in 1 .. Len(s) /\ u[k] = s[k]
      BY <1>1, <1>2, <2>1
    <3> QED
      BY <1>3, <1>4, <2>1, <3>1
  <2>2. CASE k = p
    BY <1>2, <1>3, <1>4, <2>2
  <2>3. CASE k > p
    <3>1. k - 1 \in 1 .. Len(s) /\ u[k] = s[k - 1]
      BY <1>1, <1>2, <2>3
    <3>2. f[s[k - 1]] = b <=> p <= k - 1 /\ k - 1 <= j
      BY <1>3, <1>4, <3>1
    <3> QED
      BY <2>3, <3>1, <3>2
  <2> QED
    BY <1>1, <2>1, <2>2, <2>3
<1>7. [bucket EXCEPT !.first = x] = [first |-> u[p], last |-> u[j + 1]]
  BY <1>3, <1>5
<1>8. Stretch([bucket EXCEPT !.first = x], f, u, b)
  BY <1>5, <1>6, <1>7 DEF Stretch
<1> QED
  BY <1>3, <1>4, <1>8 DEF u

LEMMA StretchInsertOnly ==
  ASSUME NEW s, Distinct(s), NEW f, NEW b, Stretch(EmptyBucket, f, s, b),
         NEW p \in 1 .. Len(s) + 1, NEW x \in Nodes, x \notin Elements(s), f[x] = b
  PROVE  Stretch([first |-> x, last |-> x], f, Inserted(s, p, x), b)
<1> DEFINE u == Inserted(s, p, x)
<1>1. Len(s) \in Nat /\ Len(u) = Len(s) + 1
  BY AtProperties, InsertedProperties
<1>2. \A k \in 1 .. Len(u) : u[k] = IF k < p THEN s[k] ELSE IF k = p THEN x ELSE s[k - 1]
  BY <1>1 DEF Inserted
<1> HIDE DEF u
<1>3. \A k \in 1 .. Len(s) : f[s[k]] # b
  BY StretchCases
<1>4. u[p] = x /\ p \in 1 .. Len(u)
  BY <1>1, <1>2
<1>5. ASSUME NEW k \in 1 .. Len(u) PROVE f[u[k]] = b <=> p <= k /\ k <= p
  <2>1. CASE k < p
    BY <1>1, <1>2, <1>3, <2>1
  <2>2. CASE k = p
    BY <1>4, <2>2
  <2>3. CASE k > p
    <3>1. k - 1 \in 1 .. Len(s) /\ u[k] = s[k - 1]
      BY <1>1, <1>2, <2>3
    <3> QED
      BY <1>3, <2>3, <3>1
  <2> QED
    BY <1>1, <2>1, <2>2, <2>3
<1>6. p <= p
  BY <1>1
<1> QED
  BY <1>4, <1>5, <1>6 DEF Stretch, u

\* An element that goes leaves the stretches of the other buckets alone.
LEMMA StretchRemoveOther ==
  ASSUME NEW s, Distinct(s), NEW f, NEW b, NEW bucket, Stretch(bucket, f, s, b),
         NEW p \in 1 .. Len(s), f[s[p]] # b
  PROVE  Stretch(bucket, f, Removed(s, p), b)
<1> DEFINE u == Removed(s, p)
<1>1. Len(s) \in Nat /\ Len(u) = Len(s) - 1
  BY AtProperties, RemovedProperties
<1>2. \A k \in 1 .. Len(u) : u[k] = IF k < p THEN s[k] ELSE s[k + 1]
  BY <1>1 DEF Removed
<1> HIDE DEF u
<1> DEFINE from(k) == IF k < p THEN k ELSE k + 1
<1>3. \A k \in 1 .. Len(u) : from(k) \in 1 .. Len(s) /\ u[k] = s[from(k)]
  BY <1>1, <1>2
<1>4. CASE bucket = EmptyBucket
  <2>1. \A k \in 1 .. Len(s) : f[s[k]] # b
    BY <1>4, StretchCases
  <2>2. \A k \in 1 .. Len(u) : f[u[k]] # b
    BY <1>3, <2>1
  <2> QED
    BY <1>4, <2>2 DEF Stretch, u
<1>5. CASE bucket # EmptyBucket
  <2>1. PICK i \in 1 .. Len(s), j \in 1 .. Len(s) :
             /\ i <= j /\ bucket = [first |-> s[i], last |-> s[j]]
             /\ \A k \in 1 .. Len(s) : f[s[k]] = b <=> i <= k /\ k <= j
    BY <1>5, StretchCases
  <2>2. p < i \/ j < p
    BY <1>1, <2>1
  <2> DEFINE to(k) == IF k < p THEN k ELSE k - 1
  <2>3. /\ to(i) \in 1 .. Len(u) /\ to(j) \in 1 .. Len(u) /\ to(i) <= to(j)
        /\ u[to(i)] = s[i] /\ u[to(j)] = s[j]
    <3>1. CASE p < i
      <4>1. to(i) = i - 1 /\ to(j) = j - 1
        BY <1>1, <2>1, <3>1
      <4>2. /\ i - 1 \in 1 .. Len(u) /\ j - 1 \in 1 .. Len(u) /\ i - 1 <= j - 1
            /\ u[i - 1] = s[i] /\ u[j - 1] = s[j]
        BY <1>1, <1>2, <2>1, <3>1
      <4> QED
        BY <4>1, <4>2
    <3>2. CASE j < p
      <4>1. to(i) = i /\ to(j) = j
        BY <1>1, <2>1, <3>2
      <4>2. /\ i \in 1 .. Len(u) /\ j \in 1 .. Len(u)
            /\ u[i] = s[i] /\ u[j] = s[j]
        BY <1>1, <1>2, <2>1, <3>2
      <4> QED
        BY <2>1, <4>1, <4>2
    <3> QED
      BY <2>2, <3>1, <3>2
  <2>4. ASSUME NEW k \in 1 .. Len(u) PROVE f[u[k]] = b <=> to(i) <= k /\ k <= to(j)
    <3>1. f[s[from(k)]] = b <=> i <= from(k) /\ from(k) <= j
      BY <1>3, <2>1
    <3>2. (i <= from(k) /\ from(k) <= j) <=> (to(i) <= k /\ k <= to(j))
      BY <1>1, <2>1, <2>2
    <3> QED
      BY <1>3, <3>1, <3>2
  <2>5. bucket = [first |-> u[to(i)], last |-> u[to(j)]]
    BY <2>1, <2>3
  <2> HIDE DEF to
  <2> QED
    BY <2>3, <2>4, <2>5 DEF Stretch, u
<1> QED
  BY <1>4, <1>5

\* The stretch of the element that goes shrinks at the end where it was, and is
\* gone with the last one.
ShrunkBucket(bucket, s, p) ==
  IF s[p] = bucket.first /\ s[p] = bucket.last THEN EmptyBucket
  ELSE IF s[p] = bucket.first THEN [bucket EXCEPT !.first = At(s, p + 1)]
  ELSE IF s[p] = bucket.last THEN [bucket EXCEPT !.last = At(s, p - 1)]
  ELSE bucket

LEMMA StretchRemoveOwn ==
  ASSUME NEW s, Distinct(s), NEW f, NEW b, NEW bucket, Stretch(bucket, f, s, b),
         NEW p \in 1 .. Len(s), f[s[p]] = b
  PROVE  Stretch(ShrunkBucket(bucket, s, p), f, Removed(s, p), b)
<1> DEFINE u == Removed(s, p)
           left == ShrunkBucket(bucket, s, p)
<1>1. Len(s) \in Nat /\ Len(u) = Len(s) - 1
  BY AtProperties, RemovedProperties
<1>2. \A k \in 1 .. Len(u) : u[k] = IF k < p THEN s[k] ELSE s[k + 1]
  BY <1>1 DEF Removed
<1> HIDE DEF u
<1> DEFINE from(k) == IF k < p THEN k ELSE k + 1
<1>3. \A k \in 1 .. Len(u) : from(k) \in 1 .. Len(s) /\ u[k] = s[from(k)]
  BY <1>1, <1>2
<1>4. PICK i \in 1 .. Len(s), j \in 1 .. Len(s) :
             /\ i <= j /\ bucket = [first |-> s[i], last |-> s[j]]
             /\ \A k \in 1 .. Len(s) : f[s[k]] = b <=> i <= k /\ k <= j
  BY StretchCases
<1>5. i <= p /\ p <= j /\ (s[p] = bucket.first <=> p = i) /\ (s[p] = bucket.last <=> p = j)
  BY <1>4 DEF Distinct
<1>6. ASSUME NEW k \in 1 .. Len(u) PROVE f[u[k]] = b <=> i <= k /\ k <= j - 1
  <2>1. f[s[from(k)]] = b <=> i <= from(k) /\ from(k) <= j
    BY <1>3, <1>4
  <2>2. (i <= from(k) /\ from(k) <= j) <=> (i <= k /\ k <= j - 1)
    BY <1>1, <1>4, <1>5
  <2> QED
    BY <1>3, <2>1, <2>2
<1>7. CASE i = j
  <2>1. left = EmptyBucket
    BY <1>4, <1>5, <1>7 DEF ShrunkBucket
  <2>2. \A k \in 1 .. Len(u) : f[u[k]] # b
    BY <1>1, <1>6, <1>7
  <2> QED
    BY <2>1, <2>2 DEF Stretch, u
<1>8. CASE i < j
  <2>1. /\ i \in 1 .. Len(u) /\ j - 1 \in 1 .. Len(u) /\ i <= j - 1
        /\ u[i] = IF i = p THEN s[i + 1] ELSE s[i]
        /\ u[j - 1] = IF j = p THEN s[j - 1] ELSE s[j]
    BY <1>1, <1>2, <1>4, <1>5, <1>8, SMTT(20)
  <2>2. left = [first |-> u[i], last |-> u[j - 1]]
    <3>1. CASE p = i
      <4>1. At(s, p + 1) = s[i + 1] /\ p # j
        BY <1>1, <1>4, <1>8, <3>1 DEF At
      <4>2. left = [bucket EXCEPT !.first = s[i + 1]]
        BY <1>5, <3>1, <4>1 DEF ShrunkBucket
      <4> QED
        BY <1>4, <2>1, <3>1, <4>1, <4>2
    <3>2. CASE p = j
      <4>1. At(s, p - 1) = s[j - 1] /\ p # i
        BY <1>1, <1>4, <1>8, <3>2 DEF At
      <4>2. left = [bucket EXCEPT !.last = s[j - 1]]
        BY <1>5, <3>2, <4>1 DEF ShrunkBucket
      <4> QED
        BY <1>4, <2>1, <3>2, <4>1, <4>2
    <3>3. CASE p # i /\ p # j
      BY <1>4, <1>5, <2>1, <3>3 DEF ShrunkBucket
    <3> QED
      BY <3>1, <3>2, <3>3
  <2> QED
    BY <1>6, <2>1, <2>2 DEF Stretch, u
<1> QED
  BY <1>4, <1>7, <1>8

-----------------------------------------------------------------------------
(* Following the list                                                      *)

LEMMA DistinctCount ==
  ASSUME NEW s, Distinct(s)
  PROVE  /\ IsFiniteSet(Elements(s)) /\ Cardinality(Elements(s)) = Len(s)
         /\ Cardinality(Nodes) \in Nat /\ Len(s) <= Cardinality(Nodes)
<1>1. Len(s) \in Nat /\ s \in [1 .. Len(s) -> Nodes] /\ Elements(s) \subseteq Nodes
  BY DEF Distinct, Elements
<1>2. s \in Bijection(1 .. Len(s), Elements(s))
  BY <1>1 DEF Distinct, Elements, Bijection, Injection, Surjection, IsInjective
<1>3. IsFiniteSet(Nodes) /\ Cardinality(Nodes) \in Nat
  BY HashtableAssumption, FS_CardinalityType
<1>4. Cardinality(Elements(s)) = Len(s)
  BY <1>1, <1>2, FS_CountingElements DEF ExistsBijection
<1>5. IsFiniteSet(Elements(s)) /\ Cardinality(Elements(s)) <= Cardinality(Nodes)
  BY <1>1, <1>3, FS_Subset
<1> QED
  BY <1>3, <1>4, <1>5

\* Walking from the element at p meets the rest of the sequence.
LEMMA WalkFrom ==
  ASSUME NEW t, NEW s, Linked(t.next, t.prev, s), NEW p \in 1 .. Len(s) + 1
  PROVE  Walk(t, At(s, p)) = [i \in 1 .. Len(s) + 1 - p |-> s[p + i - 1]]
<1> DEFINE node == At(s, p)
           D == 1 .. Cardinality(Nodes) + 1
           R(f) == [i \in D |-> IF i = 1 THEN node
                                ELSE IF f[i - 1] = ListHead THEN ListHead ELSE t.next[f[i - 1]]]
           at == CHOOSE f : f = R(f)
           met == {i \in DOMAIN at : at[i] # ListHead}
           rest == Len(s) + 1 - p
<1>1. /\ Distinct(s) /\ Len(s) \in Nat /\ Cardinality(Nodes) \in Nat
      /\ Len(s) <= Cardinality(Nodes) /\ rest \in Nat /\ rest <= Cardinality(Nodes)
  BY AtProperties, DistinctCount DEF Linked
<1>2. Walk(t, node) = [i \in 1 .. Cardinality(met) |-> at[i]]
  BY DEF Walk
<1>3. at = R(at)
  <2> DEFINE w == [i \in D |-> At(s, p + i - 1)]
  <2>1. w = R(w)
    <3> SUFFICES ASSUME NEW i \in D
                 PROVE  w[i] = IF i = 1 THEN node
                               ELSE IF w[i - 1] = ListHead THEN ListHead ELSE t.next[w[i - 1]]
      BY Zenon
    <3>1. CASE i = 1
      BY <1>1, <3>1
    <3>2. CASE i # 1
      <4> DEFINE j == p + i - 2
      <4>1. /\ i - 1 \in D /\ w[i - 1] = At(s, j) /\ w[i] = At(s, j + 1)
            /\ j \in Nat \ {0}
        BY <1>1, <3>2
      <4> HIDE DEF j, w
      <4>2. CASE j \in 1 .. Len(s)
        <5>1. At(s, j) # ListHead
          BY <1>1, <4>2, AtProperties
        <5>2. j \in 0 .. Len(s)
          BY <4>2
        <5>3. t.next[At(s, j)] = At(s, j + 1)
          BY <5>2 DEF Linked
        <5> QED
          BY <3>2, <4>1, <5>1, <5>3
      <4>3. CASE j \notin 1 .. Len(s)
        <5>1. j + 1 \notin 1 .. Len(s)
          BY <1>1, <4>1, <4>3
        <5>2. At(s, j) = ListHead /\ At(s, j + 1) = ListHead
          BY <4>3, <5>1 DEF At
        <5> QED
          BY <3>2, <4>1, <5>2
      <4> QED
        BY <4>2, <4>3
    <3> QED
      BY <3>1, <3>2
  <2> HIDE DEF w, R
  <2> QED
    BY <2>1
<1> HIDE DEF at
<1>10. DOMAIN at = D
  BY <1>3
<1>4. \A i \in D : at[i] = IF i = 1 THEN node
                           ELSE IF at[i - 1] = ListHead THEN ListHead ELSE t.next[at[i - 1]]
  BY <1>3
<1> HIDE DEF R
<1>5. \A i \in D : at[i] = At(s, p + i - 1)
  <2> DEFINE S == {i \in D : at[i] = At(s, p + i - 1)}
  <2>1. 1 \in S
    BY <1>1, <1>4
  <2>2. ASSUME NEW k \in 1 .. (Cardinality(Nodes) + 1) - 1, k \in S
        PROVE  k + 1 \in S
    <3> DEFINE j == p + k - 1
    <3>1. k + 1 \in D /\ k + 1 # 1 /\ k + 1 - 1 = k /\ at[k] = At(s, j) /\ j \in Nat \ {0}
          /\ p + (k + 1) - 1 = j + 1
      BY <1>1, <2>2
    <3>2. at[k + 1] = IF at[k] = ListHead THEN ListHead ELSE t.next[at[k]]
      BY <1>4, <3>1
    <3> HIDE DEF j
    <3>3. at[k + 1] = At(s, j + 1)
      <4>1. CASE j \in 1 .. Len(s)
        <5>1. At(s, j) # ListHead /\ j \in 0 .. Len(s)
          BY <1>1, <4>1, AtProperties
        <5>2. t.next[At(s, j)] = At(s, j + 1)
          BY <5>1 DEF Linked
        <5> QED
          BY <3>1, <3>2, <5>1, <5>2
      <4>2. CASE j \notin 1 .. Len(s)
        <5>1. j + 1 \notin 1 .. Len(s)
          BY <1>1, <3>1, <4>2
        <5>2. At(s, j) = ListHead /\ At(s, j + 1) = ListHead
          BY <4>2, <5>1 DEF At
        <5> QED
          BY <3>1, <3>2, <5>2
      <4> QED
        BY <4>1, <4>2
    <3> QED
      BY <3>1, <3>3
  <2>3. 1 \in Nat /\ Cardinality(Nodes) + 1 \in Nat
    BY <1>1
  <2>4. \A k \in 1 .. Cardinality(Nodes) + 1 : k \in S
    <3> HIDE DEF S
    <3> QED
      BY <2>1, <2>2, <2>3, IntervalInduction
  <2> QED
    BY <2>4
<1>6. met = 1 .. rest
  <2>1. \A i \in D : at[i] # ListHead <=> i <= rest
    <3> TAKE i \in D
    <3>1. p + i - 1 \in Int /\ (p + i - 1 \in 1 .. Len(s) <=> i <= rest)
      BY <1>1
    <3>2. At(s, p + i - 1) = ListHead <=> p + i - 1 \notin 1 .. Len(s)
      BY <1>1, <3>1, AtProperties
    <3> QED
      BY <1>5, <3>1, <3>2
  <2>2. \A i \in Int : (i \in D /\ i <= rest) <=> i \in 1 .. rest
    BY <1>1
  <2> QED
    BY <1>10, <2>1, <2>2
<1>7. Cardinality(met) = rest
  <2> HIDE DEF rest, met
  <2>1. Cardinality(1 .. rest) = IF 1 > rest THEN 0 ELSE rest - 1 + 1
    BY <1>1, FS_Interval
  <2> QED
    BY <1>1, <1>6, <2>1
<1>8. \A i \in 1 .. rest : at[i] = s[p + i - 1]
  <2> TAKE i \in 1 .. rest
  <2>1. i \in D /\ p + i - 1 \in 1 .. Len(s)
    BY <1>1
  <2> QED
    BY <1>5, <2>1 DEF At
<1> HIDE DEF met, rest
<1>9. Walk(t, node) = [i \in 1 .. rest |-> s[p + i - 1]]
  BY <1>2, <1>7, <1>8
<1> QED
  BY <1>9 DEF rest

LEMMA PairsAre ==
  ASSUME NEW t, NEW s, Linked(t.next, t.prev, s)
  PROVE  Pairs(t) = s /\ PairSet(t) = Elements(s)
<1>1. Distinct(s) /\ Len(s) \in Nat /\ s \in Seq(Nodes)
  BY AtProperties DEF Linked, Distinct
<1>2. t.next[ListHead] = At(s, 1)
  <2>1. 0 \in 0 .. Len(s) /\ At(s, 0) = ListHead /\ 0 + 1 = 1
    BY <1>1, AtProperties
  <2> QED
    BY <2>1 DEF Linked
<1>3. Walk(t, At(s, 1)) = [i \in 1 .. Len(s) + 1 - 1 |-> s[1 + i - 1]]
  BY <1>1, WalkFrom
<1>4. [i \in 1 .. Len(s) + 1 - 1 |-> s[1 + i - 1]] = s
  <2>1. Len(s) + 1 - 1 = Len(s) /\ \A i \in 1 .. Len(s) : 1 + i - 1 = i
    BY <1>1
  <2>2. s = [i \in 1 .. Len(s) |-> s[i]]
    BY <1>1
  <2> QED
    BY <2>1, <2>2
<1>5. Pairs(t) = s
  BY <1>2, <1>3, <1>4 DEF Pairs
<1>6. DOMAIN s = 1 .. Len(s)
  BY <1>1
<1> QED
  BY <1>5, <1>6 DEF PairSet, Elements

-----------------------------------------------------------------------------
(* The table: its fields, its pairs in sequence, its buckets               *)

FieldNames == {"next", "prev", "pair", "size", "num_buckets", "buckets"}

\* A table that links the pairs of s, its bucket array apart.
Sound(t, s) ==
  /\ DOMAIN t = FieldNames
  /\ t.next \in LinkMaps /\ t.prev \in LinkMaps
  /\ t.pair \in [Nodes -> Stored \cup {NULL}]
  /\ t.size \in Int /\ t.num_buckets \in DOMAIN Primes
  /\ Linked(t.next, t.prev, s)
  /\ \A n \in Elements(s) : t.pair[n] \in Stored

Home(t) == [n \in Nodes |-> t.pair[n].hash % num_buckets(t)]

\* Its bucket array: each bucket encloses the pairs that belong to it.
Indexed(t, s) ==
  /\ t.buckets \in [0 .. num_buckets(t) - 1 -> BucketType]
  /\ \A b \in 0 .. num_buckets(t) - 1 : Stretch(t.buckets[b], Home(t), s, b)

LEMMA NumBuckets ==
  ASSUME NEW t, t.num_buckets \in DOMAIN Primes
  PROVE  num_buckets(t) \in Nat \ {0}
BY HashtableAssumption DEF num_buckets

LEMMA HomeInRange ==
  ASSUME NEW t, t.num_buckets \in DOMAIN Primes, NEW n \in Nodes, t.pair[n] \in Stored
  PROVE  /\ Home(t)[n] = t.pair[n].hash % num_buckets(t)
         /\ Home(t)[n] \in 0 .. num_buckets(t) - 1
<1>1. num_buckets(t) \in Nat \ {0}
  BY NumBuckets
<1>2. t.pair[n].hash \in Nat
  BY DEF Stored
<1>3. Home(t)[n] = t.pair[n].hash % num_buckets(t)
  BY DEF Home
<1> HIDE DEF Home
<1> QED
  BY <1>1, <1>2, <1>3

\* A pair put into its bucket: the list has it in one place more, and the buckets
\* enclose what they should.
LEMMA InsertToBucket ==
  ASSUME NEW t, NEW s, Sound(t, s), Indexed(t, s),
         NEW node \in Nodes, node \notin Elements(s), t.pair[node] \in Stored,
         NEW b, b = Home(t)[node]
  PROVE  LET r == insert_to_bucket(t, b, node)
         IN  /\ r.pair = t.pair /\ r.size = t.size /\ r.num_buckets = t.num_buckets
             /\ \A x \in Nodes : x \notin Elements(s) \cup {node} => r.next[x] = t.next[x]
             /\ \E p \in 1 .. Len(s) + 1 :
                  /\ Sound(r, Inserted(s, p, node)) /\ Indexed(r, Inserted(s, p, node))
<1> DEFINE r == insert_to_bucket(t, b, node)
           bucket == t.buckets[b]
           N == num_buckets(t)
           f == Home(t)
<1>1. /\ DOMAIN t = FieldNames /\ t.next \in LinkMaps /\ t.prev \in LinkMaps
      /\ t.pair \in [Nodes -> Stored \cup {NULL}] /\ t.size \in Int
      /\ t.num_buckets \in DOMAIN Primes /\ Linked(t.next, t.prev, s)
      /\ Distinct(s) /\ Len(s) \in Nat
  BY AtProperties DEF Sound, Linked
<1>2. b \in 0 .. N - 1
  BY <1>1, HomeInRange
<1>3. t.buckets \in [0 .. N - 1 -> BucketType] /\ \A c \in 0 .. N - 1 : Stretch(t.buckets[c], f, s, c)
  BY DEF Indexed
<1> HIDE DEF f, N
<1>4. \E p \in 1 .. Len(s) + 1, new \in BucketType :
        /\ r = [list_insert(t, At(s, p), node) EXCEPT !.buckets = [t.buckets EXCEPT ![b] = new]]
        /\ Stretch(new, f, Inserted(s, p, node), b)
        /\ p = Len(s) + 1 \/ f[s[p]] = b
  <2>1. CASE bucket = EmptyBucket
    <3> DEFINE p == Len(s) + 1
               new == [first |-> node, last |-> node]
    <3>1. p \in 1 .. Len(s) + 1 /\ At(s, p) = ListHead
      BY <1>1, AtProperties
    <3>2. new \in BucketType
      BY NodesAndHead DEF BucketType
    <3>3. r = [list_insert(t, ListHead, node) EXCEPT !.buckets[b] = new]
      BY <2>1 DEF insert_to_bucket, bucket_is_empty
    <3>4. r = [list_insert(t, ListHead, node) EXCEPT !.buckets = [t.buckets EXCEPT ![b] = new]]
      <4>1. list_insert(t, ListHead, node).buckets = t.buckets
        BY <1>1 DEF list_insert, FieldNames
      <4> QED
        BY <3>3, <4>1
    <3>5. Stretch(EmptyBucket, f, s, b)
      BY <1>2, <1>3, <2>1
    <3>6. Stretch(new, f, Inserted(s, p, node), b)
      <4> HIDE DEF p
      <4> QED
        BY <1>1, <3>1, <3>5, StretchInsertOnly DEF f
    <3> QED
      BY <3>1, <3>2, <3>4, <3>6
  <2>2. CASE bucket # EmptyBucket
    <3> DEFINE new == [bucket EXCEPT !.first = node]
    <3>1. bucket \in BucketType
      BY <1>2, <1>3
    <3>2. new \in BucketType
      BY <3>1, NodesAndHead DEF BucketType
    <3>3. PICK p \in 1 .. Len(s) : s[p] = bucket.first
      <4>1. Stretch(bucket, f, s, b)
        BY <1>2, <1>3
      <4>2. PICK i \in 1 .. Len(s), j \in 1 .. Len(s) : bucket = [first |-> s[i], last |-> s[j]]
        BY <1>1, <2>2, <4>1, StretchCases
      <4> QED
        BY <4>2
    <3>4. At(s, p) = bucket.first /\ p \in 1 .. Len(s) + 1
      BY <1>1, <3>3, AtProperties
    <3>5. r = [list_insert(t, bucket.first, node) EXCEPT !.buckets[b].first = node]
      BY <2>2 DEF insert_to_bucket, bucket_is_empty
    <3>6. r = [list_insert(t, bucket.first, node) EXCEPT !.buckets = [t.buckets EXCEPT ![b] = new]]
      <4>1. list_insert(t, bucket.first, node).buckets = t.buckets
        BY <1>1 DEF list_insert, FieldNames
      <4> QED
        BY <3>5, <4>1
    <3>7. Stretch(new, f, Inserted(s, p, node), b) /\ f[s[p]] = b
      <4>1. Stretch(bucket, f, s, b)
        BY <1>2, <1>3
      <4>2. f[node] = b
        BY DEF f
      <4> HIDE DEF bucket
      <4> QED
        BY <1>1, <2>2, <3>3, <4>1, <4>2, StretchInsertFirst
    <3> QED
      BY <3>2, <3>4, <3>6, <3>7
  <2> QED
    BY <2>1, <2>2
<1>5. PICK p \in 1 .. Len(s) + 1, new \in BucketType :
        /\ r = [list_insert(t, At(s, p), node) EXCEPT !.buckets = [t.buckets EXCEPT ![b] = new]]
        /\ Stretch(new, f, Inserted(s, p, node), b)
        /\ p = Len(s) + 1 \/ f[s[p]] = b
  BY <1>4
<1> DEFINE at == At(s, p)
           before == t.prev[at]
           u == Inserted(s, p, node)
<1> HIDE DEF r
<1>6. /\ DOMAIN r = FieldNames
      /\ r.next = [t.next EXCEPT ![node] = at, ![before] = node]
      /\ r.prev = [t.prev EXCEPT ![node] = before, ![at] = node]
      /\ r.pair = t.pair /\ r.size = t.size /\ r.num_buckets = t.num_buckets
      /\ r.buckets = [t.buckets EXCEPT ![b] = new]
  <2> DEFINE q == list_insert(t, at, node)
  <2>1. /\ DOMAIN q = FieldNames
        /\ q.next = [t.next EXCEPT ![node] = at, ![before] = node]
        /\ q.prev = [t.prev EXCEPT ![node] = before, ![at] = node]
        /\ q.pair = t.pair /\ q.size = t.size /\ q.num_buckets = t.num_buckets
    <3> HIDE DEF at
    <3> QED
      BY <1>1 DEF list_insert, FieldNames
  <2>2. r = [q EXCEPT !.buckets = [t.buckets EXCEPT ![b] = new]]
    BY <1>5
  <2> HIDE DEF q, at, before
  <2> QED
    BY <2>1, <2>2 DEF FieldNames
<1>7. at \in Links /\ before \in Links \cup {NULL}
  <2>1. p \in Int
    BY <1>1
  <2>2. at \in Links
    BY <1>1, <2>1, AtProperties
  <2> QED
    BY <1>1, <2>2 DEF LinkMaps
<1>8. r.next \in LinkMaps /\ r.prev \in LinkMaps
  <2> HIDE DEF at, before
  <2>1. node \in Links
    BY NodesAndHead
  <2>2. r.next \in LinkMaps
    <3>1. t.next \in LinkMaps
      BY <1>1
    <3> QED
      BY <1>6, <1>7, <2>1, <3>1 DEF LinkMaps
  <2>3. r.prev \in LinkMaps
    <3>1. t.prev \in LinkMaps
      BY <1>1
    <3> QED
      BY <1>6, <1>7, <2>1, <3>1 DEF LinkMaps
  <2> QED
    BY <2>2, <2>3
<1>9. Linked(r.next, r.prev, u)
  <2> HIDE DEF at, before
  <2>1. Linked([t.next EXCEPT ![node] = at, ![before] = node],
               [t.prev EXCEPT ![node] = before, ![at] = node], u)
    BY <1>1, LinkedInsert DEF at, before
  <2> QED
    BY <1>6, <2>1
<1>10. Elements(u) = Elements(s) \cup {node}
  BY <1>1, InsertedProperties
<1>11. Sound(r, u)
  BY <1>1, <1>6, <1>8, <1>9, <1>10 DEF Sound
<1>12. num_buckets(r) = N /\ Home(r) = f
  BY <1>6 DEF num_buckets, Home, N, f
<1>13. ASSUME NEW c \in 0 .. N - 1 PROVE Stretch(r.buckets[c], f, u, c)
  <2>1. CASE c = b
    <3>1. r.buckets[c] = new
      BY <1>2, <1>3, <1>6, <2>1
    <3> QED
      BY <1>5, <2>1, <3>1
  <2>2. CASE c # b
    <3>1. r.buckets[c] = t.buckets[c]
      BY <1>3, <1>6, <2>2
    <3>2. f[node] # c /\ (p = Len(s) + 1 \/ f[s[p]] # c)
      BY <1>5, <2>2 DEF f
    <3>3. Stretch(t.buckets[c], f, s, c)
      BY <1>3
    <3> QED
      BY <1>1, <3>1, <3>2, <3>3, StretchInsertOther
  <2> QED
    BY <2>1, <2>2
<1>14. r.buckets \in [0 .. N - 1 -> BucketType]
  BY <1>2, <1>3, <1>5, <1>6
<1>15. Indexed(r, u)
  BY <1>12, <1>13, <1>14 DEF Indexed
<1>16. ASSUME NEW x \in Nodes, x \notin Elements(s) \cup {node} PROVE r.next[x] = t.next[x]
  <2>1. before = At(s, p - 1)
    <3>1. p - 1 \in 0 .. Len(s) /\ p - 1 + 1 = p
      BY <1>1
    <3> QED
      BY <1>1, <3>1 DEF Linked
  <2>2. At(s, p - 1) \in Elements(s) \cup {ListHead}
    BY DEF At, Elements
  <2>3. x # before /\ x # node /\ x \in Links
    BY <1>16, <2>1, <2>2, NodesAndHead
  <2>4. t.next \in LinkMaps
    BY <1>1
  <2> HIDE DEF at, before
  <2> QED
    BY <1>6, <2>3, <2>4 DEF LinkMaps
<1> QED
  BY <1>6, <1>11, <1>15, <1>16 DEF r, u

\* A pair taken out of its bucket and of the list.
LEMMA UnlinkPair ==
  ASSUME NEW t, NEW s, Sound(t, s), Indexed(t, s),
         NEW p \in 1 .. Len(s), NEW node, node = s[p], NEW b, b = Home(t)[node]
  PROVE  LET r == Unlink(t, b, node)
         IN  /\ r.pair = t.pair /\ r.size = t.size - 1 /\ r.num_buckets = t.num_buckets
             /\ Sound(r, Removed(s, p)) /\ Indexed(r, Removed(s, p))
<1> DEFINE r == Unlink(t, b, node)
           bucket == t.buckets[b]
           N == num_buckets(t)
           f == Home(t)
           left == ShrunkBucket(bucket, s, p)
           u == Removed(s, p)
<1>1. /\ DOMAIN t = FieldNames /\ t.next \in LinkMaps /\ t.prev \in LinkMaps
      /\ t.pair \in [Nodes -> Stored \cup {NULL}] /\ t.size \in Int
      /\ t.num_buckets \in DOMAIN Primes /\ Linked(t.next, t.prev, s)
      /\ Distinct(s) /\ Len(s) \in Nat /\ node \in Nodes /\ t.pair[node] \in Stored
  <2>1. node \in Elements(s)
    BY DEF Elements
  <2> QED
    BY <2>1, AtProperties DEF Sound, Linked
<1>2. b \in 0 .. N - 1
  BY <1>1, HomeInRange
<1>3. t.buckets \in [0 .. N - 1 -> BucketType] /\ \A c \in 0 .. N - 1 : Stretch(t.buckets[c], f, s, c)
  BY DEF Indexed
<1> HIDE DEF f, N
<1>4. t.prev[node] = At(s, p - 1) /\ t.next[node] = At(s, p + 1)
  <2>1. p - 1 \in 0 .. Len(s) /\ p - 1 + 1 = p /\ p \in 0 .. Len(s) /\ node = At(s, p)
    BY <1>1 DEF At
  <2> QED
    BY <1>1, <2>1 DEF Linked
<1>5. /\ DOMAIN r = FieldNames
      /\ r.next = [t.next EXCEPT ![t.prev[node]] = t.next[node]]
      /\ r.prev = [t.prev EXCEPT ![t.next[node]] = t.prev[node]]
      /\ r.pair = t.pair /\ r.size = t.size - 1 /\ r.num_buckets = t.num_buckets
      /\ r.buckets = [t.buckets EXCEPT ![b] = left]
  <2> DEFINE q == [t EXCEPT !.buckets[b] = left]
             v == list_remove(q, node)
  <2>1. r = [v EXCEPT !.size = @ - 1]
    BY <1>4 DEF Unlink, ShrunkBucket
  <2>2. /\ DOMAIN q = FieldNames /\ q.next = t.next /\ q.prev = t.prev /\ q.pair = t.pair
        /\ q.size = t.size /\ q.num_buckets = t.num_buckets
        /\ q.buckets = [t.buckets EXCEPT ![b] = left]
    BY <1>1 DEF FieldNames
  <2> HIDE DEF q, left, r
  <2>3. /\ DOMAIN v = FieldNames
        /\ v.next = [q.next EXCEPT ![q.prev[node]] = q.next[node]]
        /\ v.prev = [q.prev EXCEPT ![q.next[node]] = q.prev[node]]
        /\ v.pair = q.pair /\ v.size = q.size /\ v.num_buckets = q.num_buckets
        /\ v.buckets = q.buckets
    BY <2>2 DEF list_remove, FieldNames
  <2> HIDE DEF v
  <2>4. /\ DOMAIN r = FieldNames /\ r.next = v.next /\ r.prev = v.prev /\ r.pair = v.pair
        /\ r.size = v.size - 1 /\ r.num_buckets = v.num_buckets /\ r.buckets = v.buckets
    BY <2>1, <2>3 DEF FieldNames
  <2> QED
    BY <2>2, <2>3, <2>4
<1> HIDE DEF r
<1>6. t.prev[node] \in Links /\ t.next[node] \in Links
  <2>1. p - 1 \in Int /\ p + 1 \in Int
    BY <1>1
  <2> QED
    BY <1>1, <1>4, <2>1, AtProperties
<1>7. r.next \in LinkMaps /\ r.prev \in LinkMaps
  <2>1. t.next \in LinkMaps /\ t.prev \in LinkMaps
    BY <1>1
  <2> QED
    BY <1>5, <1>6, <2>1 DEF LinkMaps
<1>8. Linked(r.next, r.prev, u)
  <2>1. Linked([t.next EXCEPT ![t.prev[node]] = t.next[node]],
               [t.prev EXCEPT ![t.next[node]] = t.prev[node]], u)
    BY <1>1, LinkedRemove
  <2> QED
    BY <1>5, <2>1
<1>9. Elements(u) = Elements(s) \ {node}
  BY <1>1, RemovedProperties
<1>10. Sound(r, u)
  BY <1>1, <1>5, <1>7, <1>8, <1>9 DEF Sound
<1>11. num_buckets(r) = N /\ Home(r) = f
  BY <1>5 DEF num_buckets, Home, N, f
<1>12. Stretch(left, f, u, b)
  <2>1. Stretch(bucket, f, s, b) /\ f[s[p]] = b
    BY <1>2, <1>3 DEF f
  <2> HIDE DEF bucket
  <2> QED
    BY <1>1, <2>1, StretchRemoveOwn
<1>13. ASSUME NEW c \in 0 .. N - 1 PROVE Stretch(r.buckets[c], f, u, c)
  <2> HIDE DEF left, u
  <2>1. CASE c = b
    <3>1. r.buckets[c] = left
      BY <1>2, <1>3, <1>5, <2>1
    <3> QED
      BY <1>12, <2>1, <3>1
  <2>2. CASE c # b
    <3>1. r.buckets[c] = t.buckets[c]
      BY <1>3, <1>5, <2>2
    <3>2. f[s[p]] # c
      BY <2>2 DEF f
    <3>3. Stretch(t.buckets[c], f, s, c)
      BY <1>3
    <3> QED
      BY <1>1, <3>1, <3>2, <3>3, StretchRemoveOther DEF u
  <2> QED
    BY <2>1, <2>2
<1>14. left \in BucketType
  <2>1. bucket \in BucketType
    BY <1>2, <1>3
  <2>2. At(s, p + 1) \in Links /\ At(s, p - 1) \in Links
    BY <1>4, <1>6
  <2>3. EmptyBucket \in BucketType
    BY NodesAndHead DEF EmptyBucket, BucketType
  <2> HIDE DEF bucket
  <2> QED
    BY <2>1, <2>2, <2>3 DEF ShrunkBucket, BucketType
<1>15. r.buckets \in [0 .. N - 1 -> BucketType]
  <2> HIDE DEF left
  <2> QED
    BY <1>2, <1>3, <1>5, <1>14
<1>16. Indexed(r, u)
  BY <1>11, <1>13, <1>15 DEF Indexed
<1> QED
  BY <1>5, <1>10, <1>16 DEF r, u

\* Memory given back that the list does not use.
LEMMA FreedAside ==
  ASSUME NEW t, NEW s, Sound(t, s), NEW nodes \in SUBSET Nodes, nodes \cap Elements(s) = {}
  PROVE  LET r == Freed(t, nodes)
         IN  /\ Sound(r, s) /\ r.size = t.size /\ r.num_buckets = t.num_buckets
             /\ r.buckets = t.buckets
             /\ r.pair = [n \in Nodes |-> IF n \in nodes THEN NULL ELSE t.pair[n]]
             /\ Indexed(t, s) => Indexed(r, s)
<1> DEFINE r == Freed(t, nodes)
<1>1. /\ DOMAIN t = FieldNames /\ t.next \in LinkMaps /\ t.prev \in LinkMaps
      /\ t.pair \in [Nodes -> Stored \cup {NULL}] /\ t.size \in Int
      /\ t.num_buckets \in DOMAIN Primes /\ Linked(t.next, t.prev, s)
      /\ Distinct(s) /\ Len(s) \in Nat /\ \A n \in Elements(s) : t.pair[n] \in Stored
  BY AtProperties DEF Sound, Linked
<1>2. /\ DOMAIN r = FieldNames
      /\ r.next = [n \in Links |-> IF n \in nodes THEN NULL ELSE t.next[n]]
      /\ r.prev = [n \in Links |-> IF n \in nodes THEN NULL ELSE t.prev[n]]
      /\ r.pair = [n \in Nodes |-> IF n \in nodes THEN NULL ELSE t.pair[n]]
      /\ r.size = t.size /\ r.num_buckets = t.num_buckets /\ r.buckets = t.buckets
  BY <1>1 DEF Freed, FieldNames
<1> HIDE DEF r
<1>3. \A k \in 0 .. Len(s) + 1 : At(s, k) \in Links /\ At(s, k) \notin nodes
  <2> TAKE k \in 0 .. Len(s) + 1
  <2>1. CASE k \in 1 .. Len(s)
    <3>1. At(s, k) = s[k] /\ s[k] \in Elements(s) /\ s[k] \in Nodes
      BY <1>1, <2>1, AtProperties DEF Elements
    <3> QED
      BY <3>1, NodesAndHead
  <2>2. CASE k \notin 1 .. Len(s)
    BY <2>2, NodesAndHead DEF At
  <2> QED
    BY <2>1, <2>2
<1>4. \A k \in 0 .. Len(s) : r.next[At(s, k)] = At(s, k + 1) /\ r.prev[At(s, k + 1)] = At(s, k)
  <2> TAKE k \in 0 .. Len(s)
  <2>1. k \in 0 .. Len(s) + 1 /\ k + 1 \in 0 .. Len(s) + 1
    BY <1>1
  <2>2. r.next[At(s, k)] = t.next[At(s, k)] /\ r.prev[At(s, k + 1)] = t.prev[At(s, k + 1)]
    BY <1>2, <1>3, <2>1
  <2> QED
    BY <1>1, <2>2 DEF Linked
<1>5. Linked(r.next, r.prev, s)
  BY <1>1, <1>4 DEF Linked
<1>6. r.next \in LinkMaps /\ r.prev \in LinkMaps /\ r.pair \in [Nodes -> Stored \cup {NULL}]
  BY <1>1, <1>2 DEF LinkMaps
<1>7. \A n \in Elements(s) : n \in Nodes /\ r.pair[n] = t.pair[n]
  <2>1. Elements(s) \subseteq Nodes
    BY <1>1, AtProperties DEF Elements
  <2> QED
    BY <1>2, <2>1
<1>8. Sound(r, s)
  BY <1>1, <1>2, <1>5, <1>6, <1>7 DEF Sound
<1>9. ASSUME Indexed(t, s) PROVE Indexed(r, s)
  <2>1. num_buckets(r) = num_buckets(t) /\ r.buckets = t.buckets
    BY <1>2 DEF num_buckets
  <2>2. \A k \in 1 .. Len(s) : Home(r)[s[k]] = Home(t)[s[k]]
    <3> TAKE k \in 1 .. Len(s)
    <3>1. s[k] \in Elements(s) /\ s[k] \in Nodes
      BY <1>1, AtProperties DEF Elements
    <3> QED
      BY <1>7, <2>1, <3>1 DEF Home
  <2>3. ASSUME NEW b \in 0 .. num_buckets(r) - 1 PROVE Stretch(r.buckets[b], Home(r), s, b)
    <3>1. Stretch(r.buckets[b], Home(t), s, b)
      BY <1>9, <2>1 DEF Indexed
    <3> QED
      BY <2>2, <3>1, StretchAgrees
  <2> QED
    BY <1>9, <2>1, <2>3 DEF Indexed
<1> QED
  BY <1>2, <1>8, <1>9 DEF r

-----------------------------------------------------------------------------
(* Rehashing                                                               *)

\* Filled is what its definition says: one round after the other, as many as there
\* can be pairs.
LEMMA FilledStepwise ==
  ASSUME NEW empty, NEW list, Cardinality(Nodes) \in Nat
  PROVE  \E filled :
           /\ filled[0] = [t |-> empty, list |-> list]
           /\ \A i \in 1 .. Cardinality(Nodes) : filled[i] = Reinsert(filled[i - 1])
           /\ Filled(empty, list) = filled[Cardinality(Nodes)].t
<1> DEFINE Step(f, i) == IF i = 0 THEN [t |-> empty, list |-> list] ELSE Reinsert(f[i - 1])
           Fills(f, k) == f = [i \in 0 .. k |-> Step(f, i)]
           S == {k \in 0 .. Cardinality(Nodes) : \E f : Fills(f, k)}
<1>1. 0 \in S
  <2> DEFINE f == [i \in 0 .. 0 |-> [t |-> empty, list |-> list]]
  <2>1. \A i \in 0 .. 0 : f[i] = Step(f, i)
    OBVIOUS
  <2>2. f = [i \in 0 .. 0 |-> f[i]]
    OBVIOUS
  <2>3. Fills(f, 0)
    <3> HIDE DEF f, Step
    <3> QED
      BY <2>1, <2>2
  <2> HIDE DEF f, Fills
  <2> QED
    BY <2>3
<1>2. ASSUME NEW k \in 0 .. Cardinality(Nodes) - 1, k \in S PROVE k + 1 \in S
  <2>1. PICK f : Fills(f, k)
    BY <1>2
  <2> DEFINE g == [i \in 0 .. k + 1 |-> IF i <= k THEN f[i] ELSE Reinsert(f[k])]
  <2>2. \A i \in 0 .. k : f[i] = Step(f, i)
    BY <2>1
  <2>3. \A i \in 0 .. k : g[i] = f[i]
    OBVIOUS
  <2>4. ASSUME NEW i \in 0 .. k + 1 PROVE g[i] = Step(g, i)
    <3>1. CASE i = 0
      BY <2>2, <2>3, <3>1
    <3>2. CASE i \in 1 .. k
      <4>1. i - 1 \in 0 .. k /\ i \in 0 .. k /\ i # 0
        BY <3>2
      <4>2. g[i - 1] = f[i - 1] /\ g[i] = f[i] /\ f[i] = Step(f, i)
        BY <2>2, <2>3, <4>1
      <4> HIDE DEF g
      <4> QED
        BY <4>1, <4>2
    <3>3. CASE i = k + 1
      <4>1. g[i] = Reinsert(f[k]) /\ i - 1 = k /\ i # 0 /\ k \in 0 .. k
        BY <3>3
      <4>2. g[i - 1] = f[k]
        BY <2>3, <4>1
      <4> HIDE DEF g
      <4> QED
        BY <3>3, <4>1, <4>2
    <3> QED
      BY <3>1, <3>2, <3>3
  <2>5. Fills(g, k + 1)
    <3>1. g = [i \in 0 .. k + 1 |-> g[i]]
      OBVIOUS
    <3> HIDE DEF g, Step
    <3> QED
      BY <2>4, <3>1
  <2>6. k + 1 \in 0 .. Cardinality(Nodes)
    OBVIOUS
  <2> HIDE DEF Fills, g
  <2> QED
    BY <2>5, <2>6
<1>3. Cardinality(Nodes) \in S
  <2> HIDE DEF S
  <2>1. \A k \in 0 .. Cardinality(Nodes) : k \in S
    BY <1>1, <1>2, IntervalInduction
  <2> QED
    BY <2>1
<1> DEFINE filled == CHOOSE f : Fills(f, Cardinality(Nodes))
<1>4. Fills(filled, Cardinality(Nodes))
  <2>1. \E f : Fills(f, Cardinality(Nodes))
    BY <1>3
  <2> HIDE DEF Fills
  <2> QED
    BY <2>1
<1>5. Filled(empty, list) = filled[Cardinality(Nodes)].t
  BY DEF Filled
<1> HIDE DEF filled
<1>6. \A i \in 0 .. Cardinality(Nodes) : filled[i] = Step(filled, i)
  BY <1>4
<1>7. filled[0] = [t |-> empty, list |-> list]
  BY <1>6
<1>8. \A i \in 1 .. Cardinality(Nodes) : filled[i] = Reinsert(filled[i - 1])
  BY <1>6
<1> QED
  BY <1>5, <1>7, <1>8

LEMMA EmptySequence ==
  ASSUME NEW t, t.next[ListHead] = ListHead, t.prev[ListHead] = ListHead
  PROVE  /\ Linked(t.next, t.prev, <<>>) /\ Distinct(<<>>) /\ Elements(<<>>) = {}
         /\ Len(<<>>) = 0
<1>1. Len(<<>>) = 0 /\ <<>> \in Seq(Nodes)
  OBVIOUS
<1>2. Distinct(<<>>) /\ Elements(<<>>) = {}
  BY <1>1 DEF Distinct, Elements
<1>3. \A k \in 0 .. 0 : k = 0 /\ At(<<>>, 0) = ListHead /\ At(<<>>, 0 + 1) = ListHead
  BY <1>1 DEF At
<1> QED
  BY <1>1, <1>2, <1>3 DEF Linked

\* The buckets of an empty table are empty.
LEMMA EmptyIndexed ==
  ASSUME NEW t, t.num_buckets \in DOMAIN Primes, t.buckets = EmptyBuckets(t)
  PROVE  Indexed(t, <<>>)
<1>1. EmptyBucket \in BucketType
  BY NodesAndHead DEF EmptyBucket, BucketType
<1>2. t.buckets = [b \in 0 .. num_buckets(t) - 1 |-> EmptyBucket]
  BY DEF EmptyBuckets
<1>3. \A b \in 0 .. num_buckets(t) - 1 : Stretch(EmptyBucket, Home(t), <<>>, b)
  BY DEF Stretch
<1> QED
  BY <1>1, <1>2, <1>3 DEF Indexed

\* A rehash, whether or not there is memory for the new array, loses no pair.
LEMMA RehashKeepsPairs ==
  ASSUME NEW t, NEW s, Sound(t, s), t.num_buckets + 1 \in DOMAIN Primes,
         NEW r \in hashtable_do_rehash(t)
  PROVE  /\ r.pair = t.pair /\ r.size = t.size /\ r.num_buckets = t.num_buckets + 1
         /\ \E u : /\ Elements(u) = Elements(s) /\ Sound(r, u)
                   /\ (r.buckets = NULL /\ u = s) \/ Indexed(r, u)
<1> DEFINE grown == [t EXCEPT !.num_buckets = @ + 1]
           failed == [grown EXCEPT !.buckets = NULL]
           empty == [list_init(grown) EXCEPT !.buckets = EmptyBuckets(grown)]
<1>1. /\ DOMAIN t = FieldNames /\ t.next \in LinkMaps /\ t.prev \in LinkMaps
      /\ t.pair \in [Nodes -> Stored \cup {NULL}] /\ t.size \in Int
      /\ t.num_buckets \in DOMAIN Primes /\ Linked(t.next, t.prev, s)
      /\ Distinct(s) /\ Len(s) \in Nat /\ \A n \in Elements(s) : t.pair[n] \in Stored
  BY AtProperties DEF Sound, Linked
<1>2. /\ DOMAIN grown = FieldNames /\ grown.next = t.next /\ grown.prev = t.prev
      /\ grown.pair = t.pair /\ grown.size = t.size /\ grown.num_buckets = t.num_buckets + 1
  BY <1>1 DEF FieldNames
<1>3. r = failed \/ r = Filled(empty, At(s, 1))
  <2>1. t.next[ListHead] = At(s, 1)
    <3>1. At(s, 0) = ListHead /\ 0 \in 0 .. Len(s) /\ 0 + 1 = 1
      BY <1>1, AtProperties
    <3> QED
      BY <1>1, <3>1 DEF Linked
  <2> QED
    BY <2>1 DEF hashtable_do_rehash
<1> HIDE DEF grown
<1>4. CASE r = failed
  <2>1. /\ DOMAIN r = FieldNames /\ r.next = t.next /\ r.prev = t.prev
        /\ r.pair = t.pair /\ r.size = t.size /\ r.num_buckets = t.num_buckets + 1
        /\ r.buckets = NULL
    BY <1>2, <1>4 DEF FieldNames
  <2>2. Sound(r, s)
    BY <1>1, <2>1 DEF Sound
  <2> QED
    BY <2>1, <2>2
<1>5. CASE r = Filled(empty, At(s, 1))
  <2>1. /\ DOMAIN empty = FieldNames
        /\ empty.next = [t.next EXCEPT ![ListHead] = ListHead]
        /\ empty.prev = [t.prev EXCEPT ![ListHead] = ListHead]
        /\ empty.pair = t.pair /\ empty.size = t.size
        /\ empty.num_buckets = t.num_buckets + 1
        /\ empty.buckets = EmptyBuckets(grown)
    BY <1>2 DEF FieldNames, list_init
  <2> HIDE DEF empty
  <2>2. empty.buckets = EmptyBuckets(empty)
    BY <1>2, <2>1 DEF EmptyBuckets, num_buckets
  <2>3. Sound(empty, <<>>) /\ Indexed(empty, <<>>)
    <3>1. empty.next[ListHead] = ListHead /\ empty.prev[ListHead] = ListHead
      BY <1>1, <2>1, NodesAndHead DEF LinkMaps
    <3>2. empty.next \in LinkMaps /\ empty.prev \in LinkMaps
      BY <1>1, <2>1, NodesAndHead DEF LinkMaps
    <3>3. Indexed(empty, <<>>)
      BY <2>1, <2>2, EmptyIndexed
    <3>4. Linked(empty.next, empty.prev, <<>>) /\ Elements(<<>>) = {}
      BY <3>1, EmptySequence
    <3> QED
      BY <1>1, <2>1, <3>2, <3>3, <3>4 DEF Sound
  <2> DEFINE N == Cardinality(Nodes)
  <2>n. N \in Nat /\ Len(s) <= N
    BY <1>1, DistinctCount
  <2>4. PICK filled :
           /\ filled[0] = [t |-> empty, list |-> At(s, 1)]
           /\ \A i \in 1 .. N : filled[i] = Reinsert(filled[i - 1])
           /\ Filled(empty, At(s, 1)) = filled[N].t
    BY <2>n, FilledStepwise
  <2> DEFINE Met(k) == {s[i] : i \in 1 .. k}
             Kept(v, k) ==
               /\ v.pair = t.pair /\ v.size = t.size /\ v.num_buckets = t.num_buckets + 1
               /\ \E u : Elements(u) = Met(k) /\ Sound(v, u) /\ Indexed(v, u)
             Ahead(w, k) ==
               /\ w.list = At(s, k + 1)
               /\ \A i \in k + 1 .. Len(s) : w.t.next[s[i]] = At(s, i + 1)
             S == {k \in 0 .. Len(s) : Kept(filled[k].t, k) /\ Ahead(filled[k], k)}
  <2> HIDE DEF N
  <2>5. 0 \in S
    <3>1. Elements(<<>>) = {} /\ Met(0) = {}
      BY DEF Elements
    <3>2. Kept(empty, 0)
      BY <2>1, <2>3, <3>1
    <3>3. \A i \in 1 .. Len(s) : empty.next[s[i]] = At(s, i + 1)
      <4> TAKE i \in 1 .. Len(s)
      <4>1. s[i] \in Links /\ s[i] # ListHead /\ At(s, i) = s[i]
        BY <1>1, AtProperties, NodesAndHead
      <4>2. empty.next[s[i]] = t.next[s[i]]
        BY <1>1, <2>1, <4>1 DEF LinkMaps
      <4>3. i \in 0 .. Len(s)
        OBVIOUS
      <4> QED
        BY <1>1, <4>1, <4>2, <4>3 DEF Linked
    <3>4. filled[0].t = empty /\ filled[0].list = At(s, 1)
      BY <2>4
    <3>5. Ahead(filled[0], 0)
      BY <3>3, <3>4
    <3> HIDE DEF Kept, Ahead
    <3> QED
      BY <1>1, <3>2, <3>4, <3>5
  <2>6. ASSUME NEW k \in 0 .. Len(s) - 1, k \in S PROVE k + 1 \in S
    <3> DEFINE v == filled[k].t
               w == filled[k + 1].t
               node == s[k + 1]
    <3>1. v.pair = t.pair /\ v.size = t.size /\ v.num_buckets = t.num_buckets + 1
      BY <2>6
    <3>2. PICK u : Elements(u) = Met(k) /\ Sound(v, u) /\ Indexed(v, u)
      BY <2>6
    <3>a. /\ filled[k].list = At(s, k + 1)
          /\ \A i \in k + 1 .. Len(s) : v.next[s[i]] = At(s, i + 1)
      BY <2>6
    <3>3. k + 1 \in 1 .. Len(s) /\ k + 1 - 1 = k /\ k + 1 \in 0 .. Len(s) /\ k + 1 \in 1 .. N
      BY <1>1, <2>n
    <3>5. node \in Nodes /\ node \in Elements(s) /\ node \notin Elements(u) /\ At(s, k + 1) = node
      <4>1. node \in Nodes /\ node \in Elements(s) /\ At(s, k + 1) = node
        BY <1>1, <3>3, AtProperties DEF Elements
      <4>2. \A i \in 1 .. k : i \in 1 .. Len(s) /\ i # k + 1
        BY <1>1
      <4>3. \A i \in 1 .. k : s[i] # s[k + 1]
        BY <1>1, <3>3, <4>2 DEF Distinct
      <4> QED
        BY <3>2, <4>1, <4>3
    <3>4. w = insert_by_hash(v, node) /\ filled[k + 1].list = v.next[node]
      <4>1. filled[k + 1] = Reinsert(filled[k])
        BY <2>4, <3>3
      <4>2. filled[k].list = node /\ node # ListHead
        BY <3>a, <3>5, NodesAndHead
      <4> HIDE DEF node
      <4> QED
        BY <4>1, <4>2 DEF Reinsert
    <3>l. filled[k + 1].list = At(s, k + 1 + 1)
      <4>1. k + 1 \in k + 1 .. Len(s)
        BY <3>3
      <4> QED
        BY <3>4, <3>a, <4>1
    <3> HIDE DEF v, w, node
    <3>6. v.pair[node] \in Stored
      BY <1>1, <3>1, <3>5
    <3>7. w = insert_to_bucket(v, Home(v)[node], node)
      BY <3>4, <3>5 DEF insert_by_hash, Home
    <3>8. /\ w.pair = v.pair /\ w.size = v.size /\ w.num_buckets = v.num_buckets
          /\ \A x \in Nodes : x \notin Elements(u) \cup {node} => w.next[x] = v.next[x]
          /\ \E p \in 1 .. Len(u) + 1 :
               Sound(w, Inserted(u, p, node)) /\ Indexed(w, Inserted(u, p, node))
      BY <3>2, <3>5, <3>6, <3>7, InsertToBucket
    <3>9. PICK p \in 1 .. Len(u) + 1 :
               Sound(w, Inserted(u, p, node)) /\ Indexed(w, Inserted(u, p, node))
      BY <3>8
    <3>10. Elements(Inserted(u, p, node)) = Elements(u) \cup {node}
      BY <3>2, <3>5, InsertedProperties DEF Sound, Linked
    <3>11. Met(k + 1) = Met(k) \cup {node}
      <4>1. \A i \in 1 .. k + 1 : i \in 1 .. k \/ i = k + 1
        OBVIOUS
      <4>2. k + 1 \in 1 .. k + 1 /\ \A i \in 1 .. k : i \in 1 .. k + 1
        OBVIOUS
      <4> QED
        BY <4>1, <4>2 DEF node
    <3>12. Kept(w, k + 1)
      BY <3>1, <3>2, <3>8, <3>9, <3>10, <3>11
    <3>13. ASSUME NEW i \in k + 1 + 1 .. Len(s) PROVE w.next[s[i]] = At(s, i + 1)
      <4>1. i \in 1 .. Len(s) /\ i \in k + 1 .. Len(s) /\ \A j \in 1 .. k + 1 : j \in 1 .. Len(s) /\ j # i
        BY <1>1, <3>3
      <4>2. s[i] \in Nodes /\ \A j \in 1 .. k + 1 : s[j] # s[i]
        BY <1>1, <4>1, AtProperties DEF Distinct
      <4>3. s[i] \notin Met(k + 1)
        BY <4>2
      <4>4. w.next[s[i]] = v.next[s[i]]
        BY <3>2, <3>8, <3>11, <4>2, <4>3
      <4> QED
        BY <3>a, <4>1, <4>4
    <3>14. Ahead(filled[k + 1], k + 1)
      BY <3>13, <3>l DEF w
    <3> HIDE DEF Kept, Ahead
    <3> QED
      BY <3>3, <3>12, <3>14 DEF w
  <2>7. Kept(filled[N].t, Len(s))
    <3>1. Len(s) \in S
      <4> HIDE DEF S
      <4>1. \A k \in 0 .. Len(s) : k \in S
        BY <1>1, <2>5, <2>6, IntervalInduction
      <4> QED
        BY <1>1, <4>1
    <3>2. Kept(filled[Len(s)].t, Len(s)) /\ filled[Len(s)].list = ListHead
      <4>1. At(s, Len(s) + 1) = ListHead
        BY <1>1, AtProperties
      <4> HIDE DEF Kept
      <4> QED
        BY <3>1, <4>1
    <3> DEFINE Rest == {k \in Len(s) .. N : filled[k] = filled[Len(s)]}
    <3>3. Len(s) \in Rest
      BY <1>1, <2>n
    <3>4. ASSUME NEW k \in Len(s) .. N - 1, k \in Rest PROVE k + 1 \in Rest
      <4>1. k + 1 \in 1 .. N /\ k + 1 - 1 = k /\ k + 1 \in Len(s) .. N
        BY <1>1, <2>n
      <4>2. filled[k + 1] = Reinsert(filled[k]) /\ filled[k] = filled[Len(s)]
        BY <2>4, <3>4, <4>1
      <4>3. filled[k + 1] = filled[Len(s)]
        BY <3>2, <4>2 DEF Reinsert
      <4> QED
        BY <4>1, <4>3
    <3>5. N \in Rest
      <4> HIDE DEF Rest
      <4>1. \A k \in Len(s) .. N : k \in Rest
        BY <1>1, <2>n, <3>3, <3>4, IntervalInduction
      <4> QED
        BY <1>1, <2>n, <4>1
    <3>6. filled[N] = filled[Len(s)]
      BY <3>5
    <3> HIDE DEF Kept
    <3> QED
      BY <3>2, <3>6
  <2>8. Kept(r, Len(s)) /\ Met(Len(s)) = Elements(s)
    <3>1. r = filled[N].t /\ Met(Len(s)) = Elements(s)
      BY <1>5, <2>4 DEF Elements
    <3> HIDE DEF Kept
    <3> QED
      BY <2>7, <3>1
  <2> QED
    BY <2>8
<1> QED
  BY <1>3, <1>4, <1>5

-----------------------------------------------------------------------------
(* Finding a pair                                                          *)

\* From the first pair of a bucket to its last, the walk meets those that belong.
LEMMA BucketIs ==
  ASSUME NEW t, NEW s, Sound(t, s), Indexed(t, s),
         NEW b \in 0 .. num_buckets(t) - 1, t.buckets[b] # EmptyBucket
  PROVE  /\ Bucket(t, b) = {n \in Elements(s) : Home(t)[n] = b}
         /\ {t.buckets[b].first, t.buckets[b].last} \subseteq {n \in Elements(s) : Home(t)[n] = b}
         /\ {n \in Elements(s) : Home(t)[n] = b} # {}
<1> DEFINE bucket == t.buckets[b]
           f == Home(t)
           walk == Walk(t, bucket.first)
<1>1. Linked(t.next, t.prev, s) /\ Distinct(s) /\ Len(s) \in Nat
  BY AtProperties DEF Sound, Linked
<1>2. Stretch(bucket, f, s, b)
  BY DEF Indexed
<1> HIDE DEF f
<1>3. PICK i \in 1 .. Len(s), j \in 1 .. Len(s) :
             /\ i <= j /\ bucket = [first |-> s[i], last |-> s[j]]
             /\ \A k \in 1 .. Len(s) : f[s[k]] = b <=> i <= k /\ k <= j
  BY <1>1, <1>2, StretchCases
<1>4. bucket.first = s[i] /\ bucket.last = s[j]
  BY <1>3
<1> HIDE DEF bucket
<1> DEFINE rest == Len(s) + 1 - i
<1>5. walk = [k \in 1 .. rest |-> s[i + k - 1]]
  <2>1. i \in 1 .. Len(s) + 1 /\ bucket.first = At(s, i)
    BY <1>1, <1>4, AtProperties
  <2> QED
    BY <1>1, <2>1, WalkFrom
<1> HIDE DEF walk
<1>6. Bucket(t, b) = {walk[k] : k \in {m \in DOMAIN walk : \A l \in 1 .. m - 1 : walk[l] # bucket.last}}
  BY DEF Bucket, walk, bucket
<1> DEFINE In == {m \in DOMAIN walk : \A l \in 1 .. m - 1 : walk[l] # bucket.last}
<1>7. \A m \in 1 .. rest : m \in In <=> i + m - 1 <= j
  <2> TAKE m \in 1 .. rest
  <2>1. \A l \in 1 .. m - 1 : /\ l \in 1 .. rest /\ walk[l] = s[i + l - 1]
                              /\ i + l - 1 \in 1 .. Len(s)
    BY <1>1, <1>5
  <2>2. \A l \in 1 .. m - 1 : walk[l] = bucket.last <=> i + l - 1 = j
    BY <1>1, <1>4, <2>1 DEF Distinct
  <2>3. m \in DOMAIN walk
    BY <1>5
  <2>4. CASE i + m - 1 <= j
    <3>1. \A l \in 1 .. m - 1 : i + l - 1 # j
      BY <2>4
    <3> QED
      BY <2>2, <2>3, <2>4, <3>1
  <2>5. CASE i + m - 1 > j
    <3>1. j - i + 1 \in 1 .. m - 1 /\ i + (j - i + 1) - 1 = j
      BY <1>3, <2>5
    <3>2. walk[j - i + 1] = bucket.last
      BY <2>2, <3>1
    <3> QED
      BY <2>5, <3>1, <3>2
  <2> QED
    BY <1>1, <2>4, <2>5
<1>8. ASSUME NEW n \in Bucket(t, b) PROVE n \in Elements(s) /\ f[n] = b
  <2>1. PICK m \in In : n = walk[m]
    BY <1>6
  <2>2. m \in 1 .. rest
    BY <1>5, <2>1
  <2>3. i + m - 1 <= j /\ n = s[i + m - 1] /\ i + m - 1 \in 1 .. Len(s) /\ i <= i + m - 1
    <3> HIDE DEF In
    <3>1. i + m - 1 <= j
      BY <1>7, <2>1, <2>2
    <3>2. n = s[i + m - 1]
      BY <1>5, <2>1, <2>2
    <3> QED
      BY <1>1, <2>2, <3>1, <3>2
  <2> HIDE DEF In
  <2> QED
    BY <1>1, <1>3, <2>2, <2>3 DEF Elements
<1>9. ASSUME NEW n \in Elements(s), f[n] = b PROVE n \in Bucket(t, b)
  <2>1. PICK k \in 1 .. Len(s) : n = s[k]
    BY DEF Elements
  <2>2. i <= k /\ k <= j
    BY <1>3, <1>9, <2>1
  <2>3. k - i + 1 \in 1 .. rest /\ i + (k - i + 1) - 1 = k
    BY <1>1, <2>2
  <2>4. k - i + 1 \in In /\ walk[k - i + 1] = n
    BY <1>5, <1>7, <2>1, <2>2, <2>3
  <2> HIDE DEF In
  <2> QED
    BY <1>6, <2>4 DEF In
<1>10. {bucket.first, bucket.last} \subseteq {n \in Elements(s) : f[n] = b}
  <2>1. s[i] \in Elements(s) /\ s[j] \in Elements(s) /\ f[s[i]] = b /\ f[s[j]] = b
    BY <1>1, <1>3 DEF Elements
  <2> QED
    BY <1>4, <2>1
<1>11. Bucket(t, b) = {n \in Elements(s) : f[n] = b}
  BY <1>8, <1>9
<1>12. {n \in Elements(s) : f[n] = b} # {}
  BY <1>10
<1> QED
  BY <1>10, <1>11, <1>12 DEF bucket, f

LEMMA EmptyBucketIs ==
  ASSUME NEW t, NEW s, Sound(t, s), Indexed(t, s),
         NEW b \in 0 .. num_buckets(t) - 1, t.buckets[b] = EmptyBucket
  PROVE  {n \in Elements(s) : Home(t)[n] = b} = {}
<1>1. Distinct(s) /\ Stretch(EmptyBucket, Home(t), s, b)
  BY DEF Sound, Linked, Indexed
<1>2. \A k \in 1 .. Len(s) : Home(t)[s[k]] # b
  BY <1>1, StretchCases
<1> QED
  BY <1>2 DEF Elements

HashesAgree(t, nodes) == \A n \in nodes : t.pair[n].hash = Hash[Name[t.pair[n].key]]

\* A call finds the pair of its key wherever on the list it is, and no other.
LEMMA FindPair ==
  ASSUME NEW t, NEW s, Sound(t, s), Indexed(t, s), HashesAgree(t, Elements(s)),
         NEW key \in KeyObjs
  PROVE  /\ hashtable_find_pair(t, IndexOf(t, key), key)
              = {n \in Elements(s) : Name[t.pair[n].key] = Name[key]}
         /\ IndexOf(t, key) \in 0 .. num_buckets(t) - 1
         /\ \A n \in Elements(s) :
              Name[t.pair[n].key] = Name[key] => Home(t)[n] = IndexOf(t, key)
<1> DEFINE b == IndexOf(t, key)
<1>1. Distinct(s) /\ t.num_buckets \in DOMAIN Primes /\ \A n \in Elements(s) : n \in Nodes
  BY AtProperties DEF Sound, Linked, Elements
<1>2. b \in 0 .. num_buckets(t) - 1
  <2>1. Hash[Name[key]] \in Nat
    BY HashtableAssumption DEF Names
  <2>2. num_buckets(t) \in Nat \ {0}
    BY <1>1, NumBuckets
  <2> QED
    BY <2>1, <2>2 DEF IndexOf
<1>3. \A n \in Elements(s) :
        Name[t.pair[n].key] = Name[key] => t.pair[n].hash = Hash[Name[key]] /\ Home(t)[n] = b
  BY <1>1 DEF HashesAgree, Home, IndexOf
<1> HIDE DEF b
<1>4. CASE t.buckets[b] = EmptyBucket
  <2>1. {n \in Elements(s) : Home(t)[n] = b} = {}
    BY <1>2, <1>4, EmptyBucketIs
  <2>2. hashtable_find_pair(t, b, key) = {}
    BY <1>4 DEF hashtable_find_pair, bucket_is_empty
  <2> QED
    BY <1>2, <1>3, <2>1, <2>2 DEF b
<1>5. CASE t.buckets[b] # EmptyBucket
  <2>1. Bucket(t, b) = {n \in Elements(s) : Home(t)[n] = b}
    BY <1>2, <1>5, BucketIs
  <2>2. hashtable_find_pair(t, b, key)
          = {n \in Bucket(t, b) : /\ t.pair[n].hash = Hash[Name[key]]
                                  /\ Name[t.pair[n].key] = Name[key]}
    BY <1>5 DEF hashtable_find_pair, bucket_is_empty
  <2>3. hashtable_find_pair(t, b, key) = {n \in Elements(s) : Name[t.pair[n].key] = Name[key]}
    BY <1>3, <2>1, <2>2
  <2> QED
    BY <1>2, <1>3, <2>3 DEF b
<1> QED
  BY <1>4, <1>5

-----------------------------------------------------------------------------
(* The invariant                                                           *)

\* s is the list of the table, also after a rehash that got no bucket array.
Fits(t, nodes, s) ==
  /\ Elements(s) = nodes
  /\ Sound(t, s)
  /\ t.buckets = NULL \/ Indexed(t, s)

\* OwnershipExact, of any table.
Owns(t, nodes, objects) ==
  /\ objects = UNION {{t.pair[n].key, t.pair[n].value} : n \in nodes}
  /\ \A m, n \in nodes : m # n =>
       /\ Name[t.pair[m].key] # Name[t.pair[n].key]
       /\ t.pair[m].value # t.pair[n].value

Holds(t, nodes, objects, s) ==
  /\ Fits(t, nodes, s)
  /\ t.size = Cardinality(nodes) /\ t.size <= num_buckets(t)
  /\ HashesAgree(t, nodes)
  /\ Owns(t, nodes, objects)

\* The iterator is at a place of the list that no pair already seen is behind,
\* and every pair still owed to the client is.
InOrder(s, it, met, owed) ==
  it = NULL \/
  \E p \in 1 .. Len(s) :
    /\ s[p] = it
    /\ \A n \in met : \E k \in 1 .. p : s[k] = n
    /\ \A n \in owed : n \in met \/ \E k \in p + 1 .. Len(s) : s[k] = n

Calls ==
  /\ phase \in {"none", "open", "crashed"} /\ (phase = "none" => live = {})
  /\ ret \in ValueObjs \cup {NULL, OK, ERROR}
  /\ iter \in live \cup {NULL} /\ seen \subseteq live /\ start \subseteq live
  /\ rehashed \in BOOLEAN

IInv ==
  /\ \E s : Holds(table, live, owned, s) /\ (rehashed \/ InOrder(s, iter, seen, start))
  /\ Calls

-----------------------------------------------------------------------------
(* What the calls do to a table that holds                                 *)

\* The three links of an iteration, after an insertion and after a deletion.
LEMMA InOrderInserted ==
  ASSUME NEW s, Distinct(s), NEW p \in 1 .. Len(s) + 1, NEW x \in Nodes, x \notin Elements(s),
         NEW it, NEW met, NEW owed, InOrder(s, it, met, owed)
  PROVE  InOrder(Inserted(s, p, x), it, met, owed)
<1> DEFINE u == Inserted(s, p, x)
<1>1. Len(s) \in Nat /\ Len(u) = Len(s) + 1
  BY AtProperties, InsertedProperties
<1>2. \A k \in 1 .. Len(s) : /\ k < p => u[k] = s[k] /\ k \in 1 .. Len(u)
                             /\ k >= p => u[k + 1] = s[k] /\ k + 1 \in 1 .. Len(u)
  BY <1>1 DEF Inserted
<1> HIDE DEF u
<1>3. CASE it = NULL
  BY <1>3 DEF InOrder
<1>4. CASE it # NULL
  <2>1. PICK q \in 1 .. Len(s) : /\ s[q] = it
                                 /\ \A n \in met : \E k \in 1 .. q : s[k] = n
                                 /\ \A n \in owed : n \in met \/ \E k \in q + 1 .. Len(s) : s[k] = n
    BY <1>4 DEF InOrder
  <2> DEFINE r == IF q < p THEN q ELSE q + 1
  <2>2. r \in 1 .. Len(u) /\ u[r] = it
    BY <1>1, <1>2, <2>1
  <2>3. \A k \in 1 .. q : \E l \in 1 .. r : u[l] = s[k]
    <3> TAKE k \in 1 .. q
    <3>1. CASE k < p
      BY <1>1, <1>2, <3>1
    <3>2. CASE k >= p
      BY <1>1, <1>2, <3>2
    <3> QED
      BY <1>1, <3>1, <3>2
  <2>4. \A k \in q + 1 .. Len(s) : \E l \in r + 1 .. Len(u) : u[l] = s[k]
    <3> TAKE k \in q + 1 .. Len(s)
    <3>1. CASE k < p
      BY <1>1, <1>2, <3>1
    <3>2. CASE k >= p
      BY <1>1, <1>2, <3>2
    <3> QED
      BY <1>1, <3>1, <3>2
  <2> HIDE DEF r
  <2>5. \A n \in met : \E k \in 1 .. r : u[k] = n
    BY <2>1, <2>3
  <2>6. \A n \in owed : n \in met \/ \E k \in r + 1 .. Len(u) : u[k] = n
    BY <2>1, <2>4
  <2> QED
    BY <2>2, <2>5, <2>6 DEF InOrder, u
<1> QED
  BY <1>3, <1>4

LEMMA InOrderRemoved ==
  ASSUME NEW s, Distinct(s), NEW p \in 1 .. Len(s),
         NEW it, NEW met, NEW owed, InOrder(s, it, met, owed)
  PROVE  InOrder(Removed(s, p), IF it = s[p] THEN NULL ELSE it, met \ {s[p]}, owed \ {s[p]})
<1> DEFINE u == Removed(s, p)
           x == s[p]
<1>1. Len(s) \in Nat /\ Len(u) = Len(s) - 1
  BY AtProperties, RemovedProperties
<1>2. \A k \in 1 .. Len(s) : /\ k < p => u[k] = s[k] /\ k \in 1 .. Len(u)
                             /\ k > p => u[k - 1] = s[k] /\ k - 1 \in 1 .. Len(u)
  BY <1>1 DEF Removed
<1> HIDE DEF u
<1>3. CASE it = NULL \/ it = x
  BY <1>3 DEF InOrder
<1>4. CASE it # NULL /\ it # x
  <2>1. PICK q \in 1 .. Len(s) : /\ s[q] = it
                                 /\ \A n \in met : \E k \in 1 .. q : s[k] = n
                                 /\ \A n \in owed : n \in met \/ \E k \in q + 1 .. Len(s) : s[k] = n
    BY <1>4 DEF InOrder
  <2> DEFINE r == IF q < p THEN q ELSE q - 1
  <2>2. q # p
    BY <1>4, <2>1
  <2>3. r \in 1 .. Len(u) /\ u[r] = it
    BY <1>1, <1>2, <2>1, <2>2
  <2>4. \A k \in 1 .. q : k # p => \E l \in 1 .. r : u[l] = s[k]
    <3> TAKE k \in 1 .. q
    <3>1. CASE k < p
      BY <1>1, <1>2, <2>2, <3>1
    <3>2. CASE k > p
      BY <1>1, <1>2, <2>2, <3>2
    <3> QED
      BY <1>1, <3>1, <3>2
  <2>5. \A k \in q + 1 .. Len(s) : k # p => \E l \in r + 1 .. Len(u) : u[l] = s[k]
    <3> TAKE k \in q + 1 .. Len(s)
    <3>1. CASE k < p
      BY <1>1, <1>2, <2>2, <3>1
    <3>2. CASE k > p
      BY <1>1, <1>2, <2>2, <3>2
    <3> QED
      BY <1>1, <3>1, <3>2
  <2> HIDE DEF r
  <2>6. \A n \in met \ {x} : \E k \in 1 .. r : u[k] = n
    BY <2>1, <2>4
  <2>7. \A n \in owed \ {x} : n \in met \ {x} \/ \E k \in r + 1 .. Len(u) : u[k] = n
    BY <2>1, <2>5
  <2> QED
    BY <1>4, <2>3, <2>6, <2>7 DEF InOrder, u
<1> QED
  BY <1>3, <1>4

\* Setting a field of the pair of a node keeps the table, as long as it leaves
\* the hash alone.
LEMMA SetValue ==
  ASSUME NEW t, NEW nodes, NEW objects, NEW s, Holds(t, nodes, objects, s),
         NEW node \in nodes, NEW value \in ValueObjs, value \notin objects
  PROVE  LET r == [t EXCEPT !.pair[node].value = value]
         IN  Holds(r, nodes, (objects \cup {value}) \ {t.pair[node].value}, s)
<1> DEFINE r == [t EXCEPT !.pair[node].value = value]
           set == [t.pair[node] EXCEPT !.value = value]
<1>1. /\ DOMAIN t = FieldNames /\ t.pair \in [Nodes -> Stored \cup {NULL}]
      /\ nodes = Elements(s) /\ nodes \subseteq Nodes
      /\ \A n \in nodes : t.pair[n] \in Stored
      /\ t.num_buckets \in DOMAIN Primes
  BY AtProperties DEF Holds, Fits, Sound, Linked, Elements
<1>2. /\ DOMAIN r = FieldNames /\ r.next = t.next /\ r.prev = t.prev /\ r.size = t.size
      /\ r.num_buckets = t.num_buckets /\ r.buckets = t.buckets
      /\ r.pair = [t.pair EXCEPT ![node] = set]
  BY <1>1 DEF FieldNames
<1>3. /\ set \in Stored /\ set.key = t.pair[node].key /\ set.hash = t.pair[node].hash
      /\ set.value = value
  BY <1>1 DEF Stored
<1> HIDE DEF r, set
<1>4. r.pair \in [Nodes -> Stored \cup {NULL}] /\ r.pair[node] = set
      /\ \A n \in Nodes : n # node => r.pair[n] = t.pair[n]
  BY <1>1, <1>2, <1>3
<1>5. \A n \in nodes : /\ r.pair[n] \in Stored
                       /\ r.pair[n].key = t.pair[n].key /\ r.pair[n].hash = t.pair[n].hash
                       /\ r.pair[n].value = IF n = node THEN value ELSE t.pair[n].value
  BY <1>1, <1>3, <1>4
<1>6. num_buckets(r) = num_buckets(t)
  BY <1>2 DEF num_buckets
<1>7. Sound(r, s)
  BY <1>1, <1>2, <1>4, <1>5 DEF Holds, Fits, Sound
<1>8. Indexed(t, s) => Indexed(r, s)
  <2>1. \A k \in 1 .. Len(s) : Home(r)[s[k]] = Home(t)[s[k]]
    BY <1>1, <1>5, <1>6 DEF Home, Elements
  <2>2. \A b \in 0 .. num_buckets(t) - 1 :
          Stretch(t.buckets[b], Home(t), s, b) => Stretch(t.buckets[b], Home(r), s, b)
    BY <2>1, StretchAgrees
  <2> QED
    BY <1>2, <1>6, <2>2 DEF Indexed
<1>9. Fits(r, nodes, s)
  BY <1>1, <1>2, <1>7, <1>8 DEF Holds, Fits
<1>10. HashesAgree(r, nodes)
  BY <1>5 DEF Holds, HashesAgree
<1>11. Owns(r, nodes, (objects \cup {value}) \ {t.pair[node].value})
  <2>1. /\ objects = UNION {{t.pair[n].key, t.pair[n].value} : n \in nodes}
        /\ \A m, n \in nodes : m # n => /\ Name[t.pair[m].key] # Name[t.pair[n].key]
                                        /\ t.pair[m].value # t.pair[n].value
    BY DEF Holds, Owns
  <2>2. \A n \in nodes : t.pair[n].key \in KeyObjs /\ t.pair[n].value \in ValueObjs
    BY <1>1 DEF Stored
  <2>3. KeyObjs \cap ValueObjs = {}
    BY HashtableAssumption
  <2>4. \A n \in nodes : t.pair[n].key \in objects /\ t.pair[n].value \in objects
    BY <2>1
  <2>5. \A n \in nodes : t.pair[n].key # t.pair[node].value
    BY <2>2, <2>3
  <2>6. (objects \cup {value}) \ {t.pair[node].value}
          = UNION {{r.pair[n].key, r.pair[n].value} : n \in nodes}
    <3>1. \A x : x \in objects <=> \E n \in nodes : x = t.pair[n].key \/ x = t.pair[n].value
      BY <2>1
    <3>2. \A x : x \in UNION {{r.pair[n].key, r.pair[n].value} : n \in nodes}
                   <=> \E n \in nodes : x = r.pair[n].key \/ x = r.pair[n].value
      OBVIOUS
    <3>3. ASSUME NEW x \in (objects \cup {value}) \ {t.pair[node].value}
          PROVE  \E n \in nodes : x = r.pair[n].key \/ x = r.pair[n].value
      BY <1>5, <3>1
    <3>4. ASSUME NEW n \in nodes, NEW x, x = r.pair[n].key \/ x = r.pair[n].value
          PROVE  x \in (objects \cup {value}) \ {t.pair[node].value}
      BY <1>5, <2>1, <2>4, <2>5, <3>4
    <3> QED
      BY <3>2, <3>3, <3>4
  <2>7. \A m, n \in nodes : m # n => /\ Name[r.pair[m].key] # Name[r.pair[n].key]
                                     /\ r.pair[m].value # r.pair[n].value
    BY <1>5, <2>1, <2>4
  <2> QED
    BY <2>6, <2>7 DEF Owns
<1> QED
  BY <1>2, <1>6, <1>9, <1>10, <1>11 DEF Holds, r

\* The pairs and what they hold do not depend on where the list has them.
LEMMA HoldsCount ==
  ASSUME NEW t, NEW nodes, NEW objects, NEW s, Holds(t, nodes, objects, s)
  PROVE  /\ nodes \subseteq Nodes /\ IsFiniteSet(nodes)
         /\ Cardinality(nodes) \in Nat /\ Cardinality(nodes) <= Cardinality(Nodes)
         /\ t.size = Cardinality(nodes) /\ Cardinality(Nodes) \in Nat
         /\ \A n \in nodes : t.pair[n] \in Stored
<1>1. Distinct(s) /\ nodes = Elements(s)
  BY DEF Holds, Fits, Sound, Linked
<1>2. \A k \in 1 .. Len(s) : s[k] \in Nodes
  BY <1>1, AtProperties
<1>3. Len(s) \in Nat
  BY <1>1, AtProperties
<1> QED
  BY <1>1, <1>2, <1>3, DistinctCount, ZenonT(30) DEF Holds, Fits, Sound, Elements

\* The table a set begins with has a bucket to spare; rehashed, it may have its
\* pairs in another order, unless it got no buckets.
LEMMA GrownTable ==
  ASSUME NEW t, NEW nodes, NEW objects, NEW s, Holds(t, nodes, objects, s),
         NEW g \in IF t.size >= num_buckets(t) THEN hashtable_do_rehash(t) ELSE {t}
  PROVE  /\ g.pair = t.pair /\ g.size = t.size /\ g.size < num_buckets(g)
         /\ \E u : Holds(g, nodes, objects, u) /\ (g = t \/ g.buckets = NULL => u = s)
<1>1. /\ t.size \in Nat /\ t.size <= Cardinality(Nodes) /\ Cardinality(Nodes) \in Nat
      /\ t.num_buckets \in DOMAIN Primes /\ num_buckets(t) \in Nat \ {0}
      /\ t.size <= num_buckets(t)
  BY HoldsCount, NumBuckets DEF Holds, Fits, Sound
<1>2. CASE t.size < num_buckets(t)
  <2>1. g = t
    BY <1>1, <1>2
  <2> QED
    BY <1>2, <2>1
<1>3. CASE t.size >= num_buckets(t)
  <2>1. /\ Primes \in Seq(Nat \ {0}) /\ Len(Primes) \in Nat
        /\ \A i \in 1 .. Len(Primes) - 1 : Primes[i] < Primes[i + 1]
        /\ Cardinality(Nodes) < Primes[Len(Primes)]
    BY HashtableAssumption
  <2>2. t.num_buckets \in 1 .. Len(Primes) - 1
    BY <1>1, <1>3, <2>1 DEF num_buckets
  <2>3. t.num_buckets + 1 \in DOMAIN Primes
    BY <2>1, <2>2
  <2>4. Sound(t, s) /\ Elements(s) = nodes /\ g \in hashtable_do_rehash(t)
    BY <1>3 DEF Holds, Fits
  <2>5. PICK u : /\ Elements(u) = Elements(s) /\ Sound(g, u)
                 /\ (g.buckets = NULL /\ u = s) \/ Indexed(g, u)
    BY <2>3, <2>4, RehashKeepsPairs
  <2>6. g.pair = t.pair /\ g.size = t.size /\ g.num_buckets = t.num_buckets + 1
    BY <2>3, <2>4, RehashKeepsPairs
  <2>7. num_buckets(t) < num_buckets(g) /\ num_buckets(g) \in Nat
    <3>1. /\ Primes[t.num_buckets] < Primes[t.num_buckets + 1]
          /\ Primes[t.num_buckets + 1] \in Nat
      <4>1. Primes[t.num_buckets] < Primes[t.num_buckets + 1]
        BY <2>1, <2>2
      <4> QED
        BY <2>1, <2>3, <4>1
    <3> QED
      BY <2>6, <3>1 DEF num_buckets
  <2>8. g.size < num_buckets(g) /\ g # t
    BY <1>1, <2>6, <2>7
  <2>9. g.buckets = NULL => u = s
    BY <2>3, <2>5, <2>6, HashtableAssumption DEF Indexed, num_buckets, BucketType
  <2>10. Fits(g, nodes, u)
    BY <2>4, <2>5 DEF Fits
  <2>11. HashesAgree(g, nodes) /\ Owns(g, nodes, objects) /\ g.size = Cardinality(nodes)
    BY <2>6 DEF Holds, HashesAgree, Owns
  <2>12. g.size <= num_buckets(g)
    BY <1>1, <2>6, <2>7, <2>8
  <2>13. Holds(g, nodes, objects, u)
    BY <2>10, <2>11, <2>12 DEF Holds
  <2> QED
    BY <2>6, <2>8, <2>9, <2>13
<1> QED
  BY <1>1, <1>2, <1>3

SamePairs(r, t, nodes) == \A n \in nodes : r.pair[n] = t.pair[n]
OneMore(r, t, node, stored) == r.pair = [t.pair EXCEPT ![node] = stored]

\* A new pair for a key the table does not have.
LEMMA AddPair ==
  ASSUME NEW t, NEW nodes, NEW objects, NEW s, Holds(t, nodes, objects, s),
         t.buckets # NULL, t.size < num_buckets(t),
         NEW key \in KeyObjs, NEW value \in ValueObjs, value \notin objects,
         hashtable_find_pair(t, IndexOf(t, key), key) = {},
         NEW node \in Nodes, node \notin nodes
  PROVE  LET stored == [key |-> key, value |-> value, hash |-> Hash[Name[key]]]
             r == [insert_to_bucket([t EXCEPT !.pair[node] = stored], IndexOf(t, key), node)
                     EXCEPT !.size = @ + 1]
         IN  /\ OneMore(r, t, node, stored)
             /\ \E p \in 1 .. Len(s) + 1 :
                  Holds(r, nodes \cup {node}, objects \cup {key, value}, Inserted(s, p, node))
<1> DEFINE stored == [key |-> key, value |-> value, hash |-> Hash[Name[key]]]
           v == [t EXCEPT !.pair[node] = stored]
           b == IndexOf(t, key)
           w == insert_to_bucket(v, b, node)
           r == [w EXCEPT !.size = @ + 1]
<1>1. /\ Sound(t, s) /\ Indexed(t, s) /\ Elements(s) = nodes /\ Distinct(s)
      /\ HashesAgree(t, nodes) /\ Owns(t, nodes, objects)
      /\ t.num_buckets \in DOMAIN Primes /\ num_buckets(t) \in Nat \ {0}
  BY NumBuckets DEF Holds, Fits, Sound, Linked
<1>2. /\ nodes \subseteq Nodes /\ IsFiniteSet(nodes) /\ Cardinality(nodes) \in Nat
      /\ t.size = Cardinality(nodes) /\ \A n \in nodes : t.pair[n] \in Stored
  BY HoldsCount
<1>3. \A n \in nodes : Name[t.pair[n].key] # Name[key]
  BY <1>1, FindPair
<1>4. Hash[Name[key]] \in Nat /\ Name[key] \in Names
  BY HashtableAssumption DEF Names
<1>5. stored \in Stored /\ stored.key = key /\ stored.value = value /\ stored.hash = Hash[Name[key]]
  BY <1>4 DEF Stored
<1> HIDE DEF stored
<1>6. /\ DOMAIN v = FieldNames /\ v.next = t.next /\ v.prev = t.prev /\ v.size = t.size
      /\ v.num_buckets = t.num_buckets /\ v.buckets = t.buckets
      /\ v.pair = [t.pair EXCEPT ![node] = stored]
  BY <1>1 DEF Sound, FieldNames
<1> HIDE DEF v
<1>7. /\ v.pair \in [Nodes -> Stored \cup {NULL}] /\ v.pair[node] = stored
      /\ \A n \in nodes : v.pair[n] = t.pair[n]
  BY <1>1, <1>2, <1>5, <1>6 DEF Sound
<1>8. num_buckets(v) = num_buckets(t)
  BY <1>6 DEF num_buckets
<1>9. Sound(v, s)
  BY <1>1, <1>2, <1>6, <1>7 DEF Sound
<1>10. Indexed(v, s)
  <2>1. \A k \in 1 .. Len(s) : Home(v)[s[k]] = Home(t)[s[k]]
    BY <1>1, <1>2, <1>7, <1>8 DEF Home, Elements
  <2>2. \A c \in 0 .. num_buckets(t) - 1 :
          Stretch(t.buckets[c], Home(t), s, c) => Stretch(t.buckets[c], Home(v), s, c)
    BY <2>1, StretchAgrees
  <2> QED
    BY <1>1, <1>6, <1>8, <2>2 DEF Indexed
<1>11. b = Home(v)[node]
  BY <1>5, <1>7, <1>8 DEF Home, IndexOf
<1> HIDE DEF b
<1>12. /\ w.pair = v.pair /\ w.size = v.size /\ w.num_buckets = v.num_buckets
       /\ \E p \in 1 .. Len(s) + 1 :
            Sound(w, Inserted(s, p, node)) /\ Indexed(w, Inserted(s, p, node))
  BY <1>1, <1>5, <1>7, <1>9, <1>10, <1>11, InsertToBucket
<1> HIDE DEF w
<1>13. PICK p \in 1 .. Len(s) + 1 :
         Sound(w, Inserted(s, p, node)) /\ Indexed(w, Inserted(s, p, node))
  BY <1>12
<1> DEFINE u == Inserted(s, p, node)
<1>14. Distinct(u) /\ Elements(u) = nodes \cup {node}
  BY <1>1, InsertedProperties
<1> HIDE DEF u
<1>15. /\ DOMAIN r = FieldNames /\ r.next = w.next /\ r.prev = w.prev /\ r.pair = w.pair
       /\ r.size = w.size + 1 /\ r.num_buckets = w.num_buckets /\ r.buckets = w.buckets
  BY <1>13 DEF Sound, FieldNames
<1> HIDE DEF r
<1>16. Sound(r, u)
  BY <1>2, <1>6, <1>12, <1>13, <1>15 DEF Sound, u
<1>17. Indexed(r, u)
  BY <1>13, <1>15 DEF Indexed, Home, num_buckets, u
<1>18. Fits(r, nodes \cup {node}, u)
  BY <1>14, <1>16, <1>17 DEF Fits
<1>19. r.size = Cardinality(nodes \cup {node}) /\ r.size <= num_buckets(r)
  <2>1. Cardinality(nodes \cup {node}) = Cardinality(nodes) + 1
    BY <1>2, FS_AddElement
  <2>2. r.size = t.size + 1 /\ num_buckets(r) = num_buckets(t)
    BY <1>6, <1>8, <1>12, <1>15 DEF num_buckets
  <2> QED
    BY <1>1, <1>2, <2>1, <2>2
<1>20. /\ \A n \in nodes : r.pair[n] = t.pair[n]
       /\ r.pair[node] = stored
  BY <1>7, <1>12, <1>15
<1>21. HashesAgree(r, nodes \cup {node})
  BY <1>1, <1>5, <1>20 DEF HashesAgree
<1>22. Owns(r, nodes \cup {node}, objects \cup {key, value})
  <2>1. UNION {{r.pair[n].key, r.pair[n].value} : n \in nodes \cup {node}} = objects \cup {key, value}
    <3>1. \A x : x \in objects <=> \E n \in nodes : x = t.pair[n].key \/ x = t.pair[n].value
      BY <1>1 DEF Owns
    <3>2. \A x : x \in UNION {{r.pair[n].key, r.pair[n].value} : n \in nodes \cup {node}}
                   <=> \E n \in nodes \cup {node} : x = r.pair[n].key \/ x = r.pair[n].value
      OBVIOUS
    <3> QED
      BY <1>5, <1>20, <3>1, <3>2
  <2>2. \A n \in nodes : t.pair[n].value \in objects
    BY <1>1 DEF Owns
  <2>3. \A m, n \in nodes \cup {node} : m # n => /\ Name[r.pair[m].key] # Name[r.pair[n].key]
                                                 /\ r.pair[m].value # r.pair[n].value
    BY <1>1, <1>3, <1>5, <1>20, <2>2 DEF Owns
  <2> QED
    BY <2>1, <2>3 DEF Owns
<1>23. Holds(r, nodes \cup {node}, objects \cup {key, value}, u)
  BY <1>18, <1>19, <1>21, <1>22 DEF Holds
<1>24. OneMore(r, t, node, stored)
  BY <1>6, <1>12, <1>15 DEF OneMore
<1> QED
  BY <1>23, <1>24 DEF r, w, v, b, stored, u

\* The pair of a key goes, with what it holds.
LEMMA DeletePair ==
  ASSUME NEW t, NEW nodes, NEW objects, NEW s, Holds(t, nodes, objects, s),
         t.buckets # NULL, NEW key \in KeyObjs,
         NEW node \in hashtable_find_pair(t, IndexOf(t, key), key)
  PROVE  LET r == Freed(Unlink(t, IndexOf(t, key), node), {node})
         IN  /\ node \in nodes /\ SamePairs(r, t, nodes \ {node})
             /\ \E p \in 1 .. Len(s) :
                  /\ s[p] = node
                  /\ Holds(r, nodes \ {node}, objects \ {t.pair[node].key, t.pair[node].value},
                           Removed(s, p))
<1> DEFINE b == IndexOf(t, key)
           v == Unlink(t, b, node)
           r == Freed(v, {node})
           freed == {t.pair[node].key, t.pair[node].value}
<1>1. /\ Sound(t, s) /\ Indexed(t, s) /\ Elements(s) = nodes /\ Distinct(s)
      /\ HashesAgree(t, nodes) /\ Owns(t, nodes, objects) /\ t.size <= num_buckets(t)
      /\ t.num_buckets \in DOMAIN Primes /\ num_buckets(t) \in Nat \ {0}
  BY NumBuckets DEF Holds, Fits, Sound, Linked
<1>2. /\ nodes \subseteq Nodes /\ IsFiniteSet(nodes) /\ Cardinality(nodes) \in Nat
      /\ t.size = Cardinality(nodes) /\ \A n \in nodes : t.pair[n] \in Stored
  BY HoldsCount
<1>3. node \in nodes /\ b = Home(t)[node]
  BY <1>1, FindPair
<1> HIDE DEF b
<1>4. PICK p \in 1 .. Len(s) : s[p] = node
  BY <1>1, <1>3 DEF Elements
<1> DEFINE u == Removed(s, p)
<1>5. /\ v.pair = t.pair /\ v.size = t.size - 1 /\ v.num_buckets = t.num_buckets
      /\ Sound(v, u) /\ Indexed(v, u)
  BY <1>1, <1>3, <1>4, UnlinkPair
<1>6. Elements(u) = nodes \ {node}
  BY <1>1, <1>4, RemovedProperties
<1> HIDE DEF u, v
<1>7. /\ Sound(r, u) /\ Indexed(r, u) /\ r.size = v.size /\ r.num_buckets = v.num_buckets
      /\ r.pair = [n \in Nodes |-> IF n \in {node} THEN NULL ELSE v.pair[n]]
  <2>1. {node} \in SUBSET Nodes /\ {node} \cap Elements(u) = {}
    BY <1>2, <1>3, <1>6
  <2> QED
    BY <1>5, <2>1, FreedAside
<1> HIDE DEF r
<1>8. \A n \in nodes \ {node} : r.pair[n] = t.pair[n]
  BY <1>2, <1>5, <1>7
<1>9. Fits(r, nodes \ {node}, u)
  BY <1>6, <1>7 DEF Fits
<1>10. r.size = Cardinality(nodes \ {node}) /\ r.size <= num_buckets(r)
  <2>1. Cardinality(nodes \ {node}) = Cardinality(nodes) - 1
    BY <1>2, <1>3, FS_RemoveElement
  <2>2. num_buckets(r) = num_buckets(t)
    BY <1>5, <1>7 DEF num_buckets
  <2> QED
    BY <1>1, <1>2, <1>5, <1>7, <2>1, <2>2
<1>11. HashesAgree(r, nodes \ {node})
  BY <1>1, <1>8 DEF HashesAgree
<1>12. Owns(r, nodes \ {node}, objects \ freed)
  <2>1. /\ \A x : x \in objects <=> \E n \in nodes : x = t.pair[n].key \/ x = t.pair[n].value
        /\ \A m, n \in nodes : m # n => /\ Name[t.pair[m].key] # Name[t.pair[n].key]
                                        /\ t.pair[m].value # t.pair[n].value
    BY <1>1 DEF Owns
  <2>2. \A n \in nodes : t.pair[n].key \in KeyObjs /\ t.pair[n].value \in ValueObjs
    BY <1>2 DEF Stored
  <2>3. KeyObjs \cap ValueObjs = {}
    BY HashtableAssumption
  <2>4. \A n \in nodes \ {node} : t.pair[n].key \notin freed /\ t.pair[n].value \notin freed
    BY <1>3, <2>1, <2>2, <2>3
  <2>5. \A x : x \in UNION {{r.pair[n].key, r.pair[n].value} : n \in nodes \ {node}}
                 <=> \E n \in nodes \ {node} : x = r.pair[n].key \/ x = r.pair[n].value
    OBVIOUS
  <2>6. \A x : x \in objects \ freed
                 <=> \E n \in nodes \ {node} : x = t.pair[n].key \/ x = t.pair[n].value
    BY <1>3, <2>1, <2>4
  <2>7. objects \ freed = UNION {{r.pair[n].key, r.pair[n].value} : n \in nodes \ {node}}
    BY <1>8, <2>5, <2>6
  <2>8. \A m, n \in nodes \ {node} : m # n => /\ Name[r.pair[m].key] # Name[r.pair[n].key]
                                              /\ r.pair[m].value # r.pair[n].value
    BY <1>8, <2>1
  <2> QED
    BY <2>7, <2>8 DEF Owns
<1>13. Holds(r, nodes \ {node}, objects \ freed, u)
  BY <1>9, <1>10, <1>11, <1>12 DEF Holds
<1>14. SamePairs(r, t, nodes \ {node})
  BY <1>8 DEF SamePairs
<1> QED
  BY <1>3, <1>4, <1>13, <1>14 DEF r, v, b, u

\* An empty table, whether new or cleared.
LEMMA EmptyHolds ==
  ASSUME NEW t, DOMAIN t = FieldNames, t.next \in LinkMaps, t.prev \in LinkMaps,
         t.pair \in [Nodes -> Stored \cup {NULL}], t.size = 0, t.num_buckets \in DOMAIN Primes,
         t.next[ListHead] = ListHead, t.prev[ListHead] = ListHead, t.buckets = EmptyBuckets(t)
  PROVE  Holds(t, {}, {}, <<>>)
<1>1. Linked(t.next, t.prev, <<>>) /\ Elements(<<>>) = {}
  BY EmptySequence
<1>2. Sound(t, <<>>)
  BY <1>1 DEF Sound
<1>3. Indexed(t, <<>>)
  BY EmptyIndexed
<1>4. Cardinality({}) = 0 /\ num_buckets(t) \in Nat
  BY FS_EmptySet, NumBuckets
<1>5. HashesAgree(t, {}) /\ Owns(t, {}, {})
  BY DEF HashesAgree, Owns
<1> QED
  BY <1>1, <1>2, <1>3, <1>4, <1>5 DEF Holds, Fits

LEMMA NewHolds == Holds(NewTable, {}, {}, <<>>)
<1> DEFINE r == NewTable
<1>1. /\ DOMAIN r = FieldNames
      /\ r.next = [[n \in Links |-> NULL] EXCEPT ![ListHead] = ListHead]
      /\ r.prev = [[n \in Links |-> NULL] EXCEPT ![ListHead] = ListHead]
      /\ r.pair = [n \in Nodes |-> NULL] /\ r.size = 0 /\ r.num_buckets = 1
  BY DEF NewTable, list_init, FieldNames
<1>2. r.buckets = EmptyBuckets(r)
  BY <1>1 DEF NewTable, list_init, EmptyBuckets, num_buckets
<1> HIDE DEF r
<1>3. 1 \in DOMAIN Primes
  BY HashtableAssumption
<1>4. /\ r.next \in LinkMaps /\ r.prev \in LinkMaps
      /\ r.next[ListHead] = ListHead /\ r.prev[ListHead] = ListHead
  BY <1>1, NodesAndHead DEF LinkMaps
<1>5. r.pair \in [Nodes -> Stored \cup {NULL}]
  BY <1>1
<1> QED
  BY <1>1, <1>2, <1>3, <1>4, <1>5, EmptyHolds DEF r

LEMMA ClearTable ==
  ASSUME NEW t, NEW nodes, NEW objects, NEW s, Holds(t, nodes, objects, s)
  PROVE  /\ PairSet(t) = nodes
         /\ objects \ UNION {{t.pair[n].key, t.pair[n].value} : n \in PairSet(t)} = {}
         /\ Holds([list_init(Freed(t, PairSet(t))) EXCEPT !.buckets = EmptyBuckets(t), !.size = 0],
                  {}, {}, <<>>)
<1> DEFINE gone == PairSet(t)
           r == [list_init(Freed(t, gone)) EXCEPT !.buckets = EmptyBuckets(t), !.size = 0]
           cut(f) == [n \in Links |-> IF n \in gone THEN NULL ELSE f[n]]
<1>1. Sound(t, s) /\ Elements(s) = nodes /\ Linked(t.next, t.prev, s)
  BY DEF Holds, Fits, Sound
<1>2. gone = nodes
  BY <1>1, PairsAre
<1> HIDE DEF gone
<1>3. objects \ UNION {{t.pair[n].key, t.pair[n].value} : n \in gone} = {}
  BY <1>2 DEF Holds, Owns
<1>4. /\ DOMAIN r = FieldNames
      /\ r.next = [cut(t.next) EXCEPT ![ListHead] = ListHead]
      /\ r.prev = [cut(t.prev) EXCEPT ![ListHead] = ListHead]
      /\ r.pair = [n \in Nodes |-> IF n \in gone THEN NULL ELSE t.pair[n]]
      /\ r.size = 0 /\ r.num_buckets = t.num_buckets /\ r.buckets = EmptyBuckets(t)
  BY <1>1 DEF Sound, list_init, Freed, FieldNames
<1> HIDE DEF r
<1>5. r.num_buckets \in DOMAIN Primes /\ r.buckets = EmptyBuckets(r)
  BY <1>1, <1>4 DEF Sound, EmptyBuckets, num_buckets
<1>6. cut(t.next) \in LinkMaps /\ cut(t.prev) \in LinkMaps
  BY <1>1 DEF Sound, LinkMaps
<1>7. /\ r.next \in LinkMaps /\ r.prev \in LinkMaps
      /\ r.next[ListHead] = ListHead /\ r.prev[ListHead] = ListHead
  BY <1>4, <1>6, NodesAndHead DEF LinkMaps
<1>8. r.pair \in [Nodes -> Stored \cup {NULL}]
  BY <1>1, <1>4 DEF Sound
<1>9. Holds(r, {}, {}, <<>>)
  BY <1>4, <1>5, <1>7, <1>8, EmptyHolds
<1> QED
  BY <1>2, <1>3, <1>9 DEF r, gone

-----------------------------------------------------------------------------
(* The iterator                                                            *)

LEMMA AfterIs ==
  ASSUME NEW nodes, NEW objects, NEW s, Holds(table, nodes, objects, s),
         NEW p \in 0 .. Len(s)
  PROVE  /\ After(At(s, p)) = IF p = Len(s) THEN NULL ELSE s[p + 1]
         /\ p # Len(s) => p + 1 \in 1 .. Len(s) /\ s[p + 1] \in nodes /\ s[p + 1] # NULL
<1>1. Linked(table.next, table.prev, s) /\ Distinct(s) /\ Elements(s) = nodes
  BY DEF Holds, Fits, Sound, Linked
<1>2. Len(s) \in Nat /\ table.next[At(s, p)] = At(s, p + 1)
  BY <1>1, AtProperties DEF Linked
<1>3. CASE p = Len(s)
  <2>1. At(s, p + 1) = ListHead
    BY <1>1, <1>3, AtProperties
  <2> QED
    BY <1>2, <1>3, <2>1 DEF After
<1>4. CASE p # Len(s)
  <2>1. p + 1 \in 1 .. Len(s)
    BY <1>2, <1>4
  <2>2. At(s, p + 1) = s[p + 1] /\ s[p + 1] \in Nodes /\ s[p + 1] \in nodes
    BY <1>1, <2>1, AtProperties DEF Elements
  <2>3. s[p + 1] # ListHead /\ s[p + 1] # NULL
    BY <2>2, NodesAndHead
  <2> QED
    BY <1>2, <1>4, <2>1, <2>2, <2>3 DEF After
<1> QED
  BY <1>3, <1>4

\* Where the iterator goes: to no pair already seen, and to the end only when
\* every pair owed has been.
LEMMA IterateOn ==
  ASSUME NEW nodes, NEW objects, NEW s, Holds(table, nodes, objects, s),
         NEW it, it # NULL, NEW met, NEW owed, InOrder(s, it, met, owed)
  PROVE  /\ InOrder(s, After(it), met \cup ({After(it)} \ {NULL}), owed)
         /\ After(it) # NULL => After(it) \notin met
         /\ After(it) = NULL => owed \subseteq met
<1>1. PICK p \in 1 .. Len(s) : /\ s[p] = it
                               /\ \A n \in met : \E k \in 1 .. p : s[k] = n
                               /\ \A n \in owed : n \in met \/ \E k \in p + 1 .. Len(s) : s[k] = n
  BY DEF InOrder
<1>2. Distinct(s)
  BY DEF Holds, Fits, Sound, Linked
<1>3. Len(s) \in Nat /\ At(s, p) = it
  BY <1>1, <1>2, AtProperties
<1>4. /\ After(it) = IF p = Len(s) THEN NULL ELSE s[p + 1]
      /\ p # Len(s) => p + 1 \in 1 .. Len(s) /\ s[p + 1] # NULL
  BY <1>3, AfterIs
<1>5. CASE p = Len(s)
  <2>1. After(it) = NULL /\ p + 1 .. Len(s) = {}
    BY <1>3, <1>4, <1>5
  <2> QED
    BY <1>1, <2>1 DEF InOrder
<1>6. CASE p # Len(s)
  <2>1. p + 1 \in 1 .. Len(s) /\ After(it) = s[p + 1] /\ s[p + 1] # NULL
    BY <1>4, <1>6
  <2>2. s[p + 1] \notin met
    <3>1. \A k \in 1 .. p : s[k] # s[p + 1]
      BY <1>2, <1>3, <2>1 DEF Distinct
    <3> QED
      BY <1>1, <3>1
  <2>3. \A n \in met \cup {s[p + 1]} : \E k \in 1 .. p + 1 : s[k] = n
    <3>1. p + 1 \in 1 .. p + 1 /\ \A k \in 1 .. p : k \in 1 .. p + 1
      BY <1>3
    <3> QED
      BY <1>1, <3>1
  <2>4. \A n \in owed : n \in met \cup {s[p + 1]} \/ \E k \in (p + 1) + 1 .. Len(s) : s[k] = n
    <3>1. \A k \in p + 1 .. Len(s) : k = p + 1 \/ k \in (p + 1) + 1 .. Len(s)
      BY <1>3
    <3> QED
      BY <1>1, <3>1
  <2>5. InOrder(s, s[p + 1], met \cup {s[p + 1]}, owed)
    BY <2>1, <2>3, <2>4 DEF InOrder
  <2>6. {After(it)} \ {NULL} = {s[p + 1]}
    BY <2>1
  <2> QED
    BY <2>1, <2>2, <2>5, <2>6
<1> QED
  BY <1>5, <1>6

-----------------------------------------------------------------------------
(* Every call keeps the invariant                                          *)

LEMMA InitIInv == Init => IInv
<1> SUFFICES ASSUME Init PROVE IInv
  OBVIOUS
<1>1. Holds(table, live, owned, <<>>)
  BY NewHolds DEF Init
<1>2. InOrder(<<>>, iter, seen, start)
  BY DEF Init, InOrder
<1>3. Calls
  BY DEF Init, Calls
<1> QED
  BY <1>1, <1>2, <1>3 DEF IInv

\* A call that crashes, or only reads, leaves table and iterator alone.
LEMMA ReadOnly ==
  ASSUME IInv, UNCHANGED <<table, live, owned, iteration>>,
         phase' \in {"none", "open", "crashed"}, phase' = "none" => phase = "none",
         ret' \in ValueObjs \cup {NULL, OK, ERROR}
  PROVE  IInv'
<1>1. PICK s : Holds(table, live, owned, s) /\ (rehashed \/ InOrder(s, iter, seen, start))
  BY DEF IInv
<1>2. Holds(table', live', owned', s)
  BY <1>1
<1>3. rehashed' \/ InOrder(s, iter', seen', start')
  BY <1>1 DEF iteration
<1>4. Calls'
  BY DEF IInv, Calls, iteration
<1> QED
  BY <1>2, <1>3, <1>4 DEF IInv

LEMMA CrashIInv ==
  ASSUME IInv, NEW t, Crash(t)
  PROVE  IInv'
<1>1. ret \in ValueObjs \cup {NULL, OK, ERROR}
  BY DEF IInv, Calls
<1> QED
  BY <1>1, ReadOnly DEF Crash

LEMMA CreateIInv ==
  ASSUME IInv, nc_hashtable_create
  PROVE  IInv'
<1>1. CASE ret' = NULL /\ UNCHANGED <<table, phase>>
  BY <1>1, ReadOnly DEF nc_hashtable_create
<1>2. CASE table' = NewTable /\ phase' = "open" /\ ret' = OK
  <2>1. live = {} /\ seen = {} /\ start = {} /\ iter = NULL /\ rehashed \in BOOLEAN
    BY DEF IInv, Calls, nc_hashtable_create
  <2>2. owned = {}
    BY <2>1 DEF IInv, Holds, Owns
  <2>3. Holds(table', live', owned', <<>>)
    BY <1>2, <2>1, <2>2, NewHolds DEF nc_hashtable_create
  <2>4. InOrder(<<>>, iter', seen', start')
    BY <2>1 DEF InOrder, nc_hashtable_create, iteration
  <2>5. Calls'
    BY <1>2, <2>1 DEF Calls, nc_hashtable_create, iteration
  <2> QED
    BY <2>3, <2>4, <2>5 DEF IInv
<1> QED
  BY <1>1, <1>2 DEF nc_hashtable_create

\* Clear and destroy leave a table without pairs, and no iteration.
LEMMA ClearedIInv ==
  ASSUME IInv, hashtable_do_clear, phase' \in {"none", "open"},
         \/ table' = NewTable
         \/ table' = [list_init(Freed(table, PairSet(table)))
                       EXCEPT !.buckets = EmptyBuckets(table), !.size = 0]
  PROVE  IInv'
<1>1. PICK s : Holds(table, live, owned, s)
  BY DEF IInv
<1>2. /\ PairSet(table) = live
      /\ owned \ UNION {{table.pair[n].key, table.pair[n].value} : n \in PairSet(table)} = {}
      /\ Holds([list_init(Freed(table, PairSet(table)))
                 EXCEPT !.buckets = EmptyBuckets(table), !.size = 0], {}, {}, <<>>)
  BY <1>1, ClearTable
<1>3. live' = {} /\ owned' = {}
  BY <1>2 DEF hashtable_do_clear
<1>4. Holds(table', live', owned', <<>>)
  BY <1>2, <1>3, NewHolds
<1>5. InOrder(<<>>, iter', seen', start')
  BY DEF hashtable_do_clear, InOrder
<1>6. Calls'
  BY <1>3 DEF hashtable_do_clear, Calls
<1> QED
  BY <1>4, <1>5, <1>6 DEF IInv

\* What a call finds is the pair of its key, one of the table's.
LEMMA Found ==
  ASSUME NEW t, NEW nodes, NEW objects, NEW s, Holds(t, nodes, objects, s),
         t.buckets # NULL, NEW key \in KeyObjs
  PROVE  /\ hashtable_find_pair(t, IndexOf(t, key), key) \subseteq nodes
         /\ \A m, n \in hashtable_find_pair(t, IndexOf(t, key), key) : m = n
         /\ \A n \in nodes : t.pair[n].value \in ValueObjs
<1>1. Sound(t, s) /\ Indexed(t, s) /\ Elements(s) = nodes /\ HashesAgree(t, nodes)
  BY DEF Holds, Fits
<1>2. \A n \in nodes : t.pair[n] \in Stored
  BY HoldsCount
<1>3. hashtable_find_pair(t, IndexOf(t, key), key) = {n \in nodes : Name[t.pair[n].key] = Name[key]}
  BY <1>1, FindPair
<1>4. \A m, n \in nodes : m # n => Name[t.pair[m].key] # Name[t.pair[n].key]
  BY DEF Holds, Owns
<1> QED
  BY <1>2, <1>3, <1>4 DEF Stored

LEMMA SetIInv ==
  ASSUME IInv, NEW key \in KeyObjs, NEW value \in ValueObjs, nc_hashtable_set(key, value)
  PROVE  IInv'
<1>1. PICK s : Holds(table, live, owned, s) /\ (rehashed \/ InOrder(s, iter, seen, start))
  BY DEF IInv
<1> DEFINE found(t) == hashtable_find_pair(t, IndexOf(t, key), key)
<1>2. PICK t \in Grown :
         IF t.buckets = NULL
           THEN IF t = table THEN Crash(t)
                ELSE /\ table' = t /\ ret' = ERROR
                     /\ UNCHANGED <<phase, live, owned, iteration>>
           ELSE /\ IF found(t) = {} THEN Add(t, key, value)
                   ELSE \E node \in found(t) : Replace(t, node, key, value)
                /\ rehashed' = (rehashed \/ t # table)
                /\ UNCHANGED <<phase, iter, seen, start>>
  BY DEF nc_hashtable_set
<1> HIDE DEF found
<1>3. /\ t.pair = table.pair /\ t.size < num_buckets(t)
      /\ \E u : Holds(t, live, owned, u) /\ (t = table \/ t.buckets = NULL => u = s)
  BY <1>1, GrownTable DEF Grown
<1>4. PICK u : Holds(t, live, owned, u) /\ (t = table \/ t.buckets = NULL => u = s)
  BY <1>3
<1>5. key \notin owned /\ value \notin owned /\ phase = "open"
  BY DEF nc_hashtable_set
<1>6. Calls /\ rehashed \in BOOLEAN
  BY DEF IInv, Calls
<1>7. CASE t.buckets = NULL /\ t = table
  BY <1>2, <1>7, CrashIInv
<1>8. CASE t.buckets = NULL /\ t # table
  <2>1. table' = t /\ ret' = ERROR /\ UNCHANGED <<phase, live, owned, iteration>> /\ u = s
    BY <1>2, <1>4, <1>8
  <2>2. Holds(table', live', owned', s)
    BY <1>4, <2>1
  <2>3. rehashed' \/ InOrder(s, iter', seen', start')
    BY <1>1, <2>1 DEF iteration
  <2>4. Calls'
    BY <1>6, <2>1 DEF Calls, iteration
  <2> QED
    BY <2>2, <2>3, <2>4 DEF IInv
<1>9. CASE t.buckets # NULL
  <2>1. /\ rehashed' = (rehashed \/ t # table) /\ UNCHANGED <<phase, iter, seen, start>>
        /\ IF found(t) = {} THEN Add(t, key, value)
           ELSE \E node \in found(t) : Replace(t, node, key, value)
    BY <1>2, <1>9
  <2>2. rehashed' \in BOOLEAN /\ (rehashed' \/ (t = table /\ u = s /\ InOrder(u, iter, seen, start)))
    BY <1>1, <1>4, <1>6, <2>1
  <2>3. ASSUME live \subseteq live', ret' \in {OK, ERROR} PROVE Calls'
    BY <1>5, <1>6, <2>1, <2>2, <2>3 DEF Calls
  <2>4. CASE found(t) = {} /\ table' = t /\ ret' = ERROR /\ UNCHANGED <<live, owned>>
    <3>1. Holds(table', live', owned', u)
      BY <1>4, <2>4
    <3>2. rehashed' \/ InOrder(u, iter', seen', start')
      BY <2>1, <2>2
    <3>3. Calls'
      BY <2>3, <2>4
    <3> QED
      BY <3>1, <3>2, <3>3 DEF IInv
  <2>5. CASE found(t) = {} /\ ~(table' = t /\ ret' = ERROR /\ UNCHANGED <<live, owned>>)
    <3>1. PICK node \in Nodes \ live :
            /\ table' = [insert_to_bucket(
                           [t EXCEPT !.pair[node] =
                              [key |-> key, value |-> value, hash |-> Hash[Name[key]]]],
                           IndexOf(t, key), node) EXCEPT !.size = @ + 1]
            /\ live' = live \cup {node}
            /\ owned' = owned \cup {key, value}
            /\ ret' = OK
      BY <2>1, <2>5 DEF Add
    <3>2. PICK p \in 1 .. Len(u) + 1 : Holds(table', live', owned', Inserted(u, p, node))
      <4>1. node \in Nodes /\ node \notin live
        BY <3>1
      <4>2. hashtable_find_pair(t, IndexOf(t, key), key) = {}
        BY <2>5 DEF found
      <4> QED
        BY <1>3, <1>4, <1>5, <1>9, <3>1, <4>1, <4>2, AddPair
    <3>3. Distinct(u) /\ node \notin Elements(u)
      BY <1>4, <3>1 DEF Holds, Fits, Sound, Linked
    <3>4. InOrder(u, iter, seen, start) => InOrder(Inserted(u, p, node), iter, seen, start)
      BY <3>1, <3>3, InOrderInserted
    <3>5. rehashed' \/ InOrder(Inserted(u, p, node), iter', seen', start')
      BY <2>1, <2>2, <3>4
    <3>6. Calls'
      BY <2>3, <3>1
    <3> QED
      BY <3>2, <3>5, <3>6 DEF IInv
  <2>6. CASE found(t) # {}
    <3>1. PICK node \in found(t) : Replace(t, node, key, value)
      BY <2>1, <2>6
    <3>2. node \in live /\ t.pair[node].value \in ValueObjs
      BY <1>4, <1>9, <3>1, Found DEF found
    <3>3. Holds([t EXCEPT !.pair[node].value = value], live,
                (owned \cup {value}) \ {t.pair[node].value}, u)
      BY <1>4, <1>5, <3>2, SetValue
    <3>4. (owned \cup {key, value}) \ {key, t.pair[node].value}
            = (owned \cup {value}) \ {t.pair[node].value}
      <4>1. key # value
        BY HashtableAssumption
      <4> QED
        BY <1>5, <4>1
    <3>5. Holds(table', live', owned', u)
      BY <3>1, <3>3, <3>4 DEF Replace
    <3>6. rehashed' \/ InOrder(u, iter', seen', start')
      BY <2>1, <2>2
    <3>7. Calls'
      BY <2>3, <3>1 DEF Replace
    <3> QED
      BY <3>5, <3>6, <3>7 DEF IInv
  <2> QED
    BY <2>4, <2>5, <2>6
<1> QED
  BY <1>7, <1>8, <1>9

LEMMA GetIInv ==
  ASSUME IInv, NEW key \in KeyObjs, nc_hashtable_get(key)
  PROVE  IInv'
<1>1. CASE Crash(table)
  BY <1>1, CrashIInv
<1>2. CASE table.buckets # NULL /\ ~Crash(table)
  <2> DEFINE found == hashtable_find_pair(table, IndexOf(table, key), key)
  <2>1. PICK s : Holds(table, live, owned, s)
    BY DEF IInv
  <2>2. /\ ret' \in IF found = {} THEN {NULL} ELSE {table.pair[n].value : n \in found}
        /\ UNCHANGED <<table, phase, live, owned, iteration>>
    BY <1>2 DEF nc_hashtable_get
  <2>3. found \subseteq live /\ \A n \in live : table.pair[n].value \in ValueObjs
    BY <1>2, <2>1, Found
  <2> HIDE DEF found
  <2>4. ret' \in ValueObjs \cup {NULL, OK, ERROR}
    BY <2>2, <2>3
  <2>5. phase \in {"none", "open", "crashed"}
    BY DEF IInv, Calls
  <2> QED
    BY <2>2, <2>4, <2>5, ReadOnly
<1> QED
  BY <1>1, <1>2 DEF nc_hashtable_get, Crash

LEMMA DelIInv ==
  ASSUME IInv, NEW key \in KeyObjs, nc_hashtable_del(key)
  PROVE  IInv'
<1>1. CASE Crash(table)
  BY <1>1, CrashIInv
<1>2. CASE table.buckets # NULL /\ ~Crash(table)
  <2> DEFINE found == hashtable_find_pair(table, IndexOf(table, key), key)
  <2>1. PICK s : Holds(table, live, owned, s) /\ (rehashed \/ InOrder(s, iter, seen, start))
    BY DEF IInv
  <2>2. /\ IF found = {} THEN ret' = ERROR /\ UNCHANGED <<table, live, owned, iter, seen, start>>
           ELSE \E node \in found : hashtable_do_del(key, node)
        /\ UNCHANGED <<phase, rehashed>>
    BY <1>2 DEF nc_hashtable_del
  <2>3. phase = "open"
    BY DEF nc_hashtable_del
  <2>4. CASE found = {}
    <3>1. UNCHANGED <<table, live, owned, iteration>> /\ ret' = ERROR /\ phase' = "open"
      BY <2>2, <2>3, <2>4 DEF iteration
    <3> QED
      BY <3>1, ReadOnly
  <2>5. CASE found # {}
    <3>1. PICK node \in found : hashtable_do_del(key, node)
      BY <2>2, <2>5
    <3>2. PICK p \in 1 .. Len(s) :
            /\ s[p] = node
            /\ Holds(Freed(Unlink(table, IndexOf(table, key), node), {node}), live \ {node},
                     owned \ {table.pair[node].key, table.pair[node].value}, Removed(s, p))
      BY <1>2, <2>1, <3>1, DeletePair
    <3> HIDE DEF found
    <3>3. Holds(table', live', owned', Removed(s, p))
      BY <3>1, <3>2 DEF hashtable_do_del
    <3>4. /\ iter' = IF iter = s[p] THEN NULL ELSE iter
          /\ seen' = seen \ {s[p]} /\ start' = start \ {s[p]} /\ rehashed' = rehashed
      BY <2>2, <3>1, <3>2 DEF hashtable_do_del, Forget
    <3>5. Distinct(s)
      BY <2>1 DEF Holds, Fits, Sound, Linked
    <3>6. rehashed' \/ InOrder(Removed(s, p), iter', seen', start')
      BY <2>1, <3>4, <3>5, InOrderRemoved
    <3>7. live' = live \ {s[p]} /\ ret' = OK /\ phase' = "open"
      BY <2>2, <2>3, <3>1, <3>2 DEF hashtable_do_del
    <3>8. Calls'
      BY <3>4, <3>7 DEF IInv, Calls
    <3> QED
      BY <3>3, <3>6, <3>8 DEF IInv
  <2> QED
    BY <2>4, <2>5
<1> QED
  BY <1>1, <1>2 DEF nc_hashtable_del, Crash

LEMMA IterIInv ==
  ASSUME IInv, nc_hashtable_iter
  PROVE  IInv'
<1>1. PICK s : Holds(table, live, owned, s)
  BY DEF IInv
<1>2. Distinct(s) /\ Elements(s) = live
  BY <1>1 DEF Holds, Fits, Sound, Linked
<1>3. Len(s) \in Nat /\ At(s, 0) = ListHead
  BY <1>2, AtProperties
<1>4. /\ After(ListHead) = IF 0 = Len(s) THEN NULL ELSE s[1]
      /\ 0 # Len(s) => 1 \in 1 .. Len(s) /\ s[1] \in live /\ s[1] # NULL
  BY <1>1, <1>3, AfterIs
<1>5. Holds(table', live', owned', s)
  BY <1>1 DEF nc_hashtable_iter
<1>6. InOrder(s, iter', seen', start')
  <2>1. CASE Len(s) = 0
    BY <1>4, <2>1 DEF nc_hashtable_iter, InOrder
  <2>2. CASE Len(s) # 0
    <3>1. iter' = s[1] /\ seen' = {s[1]} /\ start' = Elements(s) /\ 1 \in 1 .. Len(s)
      BY <1>2, <1>4, <2>2 DEF nc_hashtable_iter
    <3>2. \A n \in start' : n \in seen' \/ \E k \in 1 + 1 .. Len(s) : s[k] = n
      BY <1>3, <3>1 DEF Elements
    <3>3. \A n \in seen' : \E k \in 1 .. 1 : s[k] = n
      BY <3>1
    <3> QED
      BY <3>1, <3>2, <3>3 DEF InOrder
  <2> QED
    BY <2>1, <2>2
<1>7. Calls'
  <2>1. iter' \in live \cup {NULL} /\ seen' \subseteq live
    BY <1>4 DEF nc_hashtable_iter
  <2> QED
    BY <2>1 DEF IInv, Calls, nc_hashtable_iter
<1> QED
  BY <1>5, <1>6, <1>7 DEF IInv

LEMMA IterNextIInv ==
  ASSUME IInv, nc_hashtable_iter_next
  PROVE  /\ IInv'
         /\ ~rehashed => iter' \notin seen /\ (iter' = NULL => start \subseteq seen)
<1>1. PICK s : Holds(table, live, owned, s) /\ (rehashed \/ InOrder(s, iter, seen, start))
  BY DEF IInv
<1>2. Distinct(s) /\ Elements(s) = live /\ live \subseteq Nodes
  BY <1>1, HoldsCount DEF Holds, Fits, Sound, Linked
<1>3. /\ iter \in live /\ iter # NULL /\ seen \subseteq live /\ NULL \notin live
      /\ rehashed' = rehashed /\ start' = start
      /\ iter' = After(iter) /\ seen' = seen \cup ({After(iter)} \ {NULL})
  BY <1>2, NodesAndHead DEF IInv, Calls, nc_hashtable_iter_next
<1>4. Holds(table', live', owned', s)
  BY <1>1 DEF nc_hashtable_iter_next
<1>5. ~rehashed => /\ InOrder(s, iter', seen', start')
                   /\ iter' # NULL => iter' \notin seen
                   /\ iter' = NULL => start \subseteq seen
  BY <1>1, <1>3, IterateOn
<1>6. After(iter) \in live \cup {NULL}
  <2>1. PICK p \in 1 .. Len(s) : s[p] = iter
    BY <1>2, <1>3 DEF Elements
  <2>2. At(s, p) = iter /\ p \in 0 .. Len(s)
    BY <1>2, <2>1, AtProperties
  <2> QED
    BY <1>1, <2>2, AfterIs
<1>7. Calls'
  BY <1>3, <1>6 DEF IInv, Calls, nc_hashtable_iter_next
<1>8. NULL \notin seen
  BY <1>3
<1> QED
  BY <1>1, <1>3, <1>4, <1>5, <1>7, <1>8 DEF IInv

LEMMA IterAtIInv ==
  ASSUME IInv, NEW key \in KeyObjs, nc_hashtable_iter_at(key)
  PROVE  IInv'
<1>1. CASE Crash(table)
  BY <1>1, CrashIInv
<1>2. CASE table.buckets # NULL /\ ~Crash(table)
  <2> DEFINE found == hashtable_find_pair(table, IndexOf(table, key), key)
  <2>1. PICK s : Holds(table, live, owned, s)
    BY DEF IInv
  <2>2. /\ iter' \in IF found = {} THEN {NULL} ELSE found
        /\ seen' = found /\ start' = {} /\ rehashed' = FALSE
        /\ UNCHANGED <<table, phase, live, owned, ret>>
    BY <1>2 DEF nc_hashtable_iter_at
  <2>3. found \subseteq live /\ \A m, n \in found : m = n
    BY <1>2, <2>1, Found
  <2> HIDE DEF found
  <2>4. Holds(table', live', owned', s)
    BY <2>1, <2>2
  <2>5. InOrder(s, iter', seen', start')
    <3>1. CASE found = {}
      BY <2>2, <3>1 DEF InOrder
    <3>2. CASE found # {}
      <4>1. iter' \in live /\ \A n \in seen' : n = iter'
        BY <2>2, <2>3, <3>2
      <4>2. live = Elements(s)
        BY <2>1 DEF Holds, Fits
      <4>3. PICK p \in 1 .. Len(s) : s[p] = iter'
        BY <4>1, <4>2 DEF Elements
      <4>4. Len(s) \in Nat
        BY <2>1, AtProperties DEF Holds, Fits, Sound, Linked
      <4>5. p \in 1 .. p
        BY <4>4
      <4> QED
        BY <2>2, <4>1, <4>3, <4>5 DEF InOrder
    <3> QED
      BY <3>1, <3>2
  <2>6. Calls'
    BY <2>2, <2>3 DEF IInv, Calls
  <2> QED
    BY <2>4, <2>5, <2>6 DEF IInv
<1> QED
  BY <1>1, <1>2 DEF nc_hashtable_iter_at, Crash

LEMMA IterSetIInv ==
  ASSUME IInv, NEW value \in ValueObjs, nc_hashtable_iter_set(value)
  PROVE  IInv'
<1>1. PICK s : Holds(table, live, owned, s) /\ (rehashed \/ InOrder(s, iter, seen, start))
  BY DEF IInv
<1>2. iter \in live /\ value \notin owned
  BY DEF IInv, Calls, nc_hashtable_iter_set
<1>3. Holds(table', live', owned', s)
  BY <1>1, <1>2, SetValue DEF nc_hashtable_iter_set
<1>4. rehashed' \/ InOrder(s, iter', seen', start')
  BY <1>1 DEF nc_hashtable_iter_set, iteration
<1>5. Calls'
  BY DEF IInv, Calls, nc_hashtable_iter_set, iteration
<1> QED
  BY <1>3, <1>4, <1>5 DEF IInv

LEMMA NextIInv == IInv /\ [Next]_vars => IInv'
<1> SUFFICES ASSUME IInv, [Next]_vars PROVE IInv'
  OBVIOUS
<1>1. CASE nc_hashtable_create
  BY <1>1, CreateIInv
<1>2. CASE nc_hashtable_clear
  <2>1. CASE Crash(table)
    BY <2>1, CrashIInv
  <2>2. CASE ~Crash(table)
    BY <1>2, <2>2, ClearedIInv DEF nc_hashtable_clear
  <2> QED
    BY <2>1, <2>2
<1>3. CASE nc_hashtable_destroy
  BY <1>3, ClearedIInv DEF nc_hashtable_destroy
<1>4. CASE \E key \in KeyObjs, value \in ValueObjs : nc_hashtable_set(key, value)
  BY <1>4, SetIInv
<1>5. CASE \E key \in KeyObjs : nc_hashtable_get(key)
  BY <1>5, GetIInv
<1>6. CASE \E key \in KeyObjs : nc_hashtable_del(key)
  BY <1>6, DelIInv
<1>7. CASE \E key \in KeyObjs : nc_hashtable_iter_at(key)
  BY <1>7, IterAtIInv
<1>8. CASE nc_hashtable_iter
  BY <1>8, IterIInv
<1>9. CASE nc_hashtable_iter_next
  BY <1>9, IterNextIInv
<1>10. CASE \E value \in ValueObjs : nc_hashtable_iter_set(value)
  BY <1>10, IterSetIInv
<1>11. CASE UNCHANGED vars
  <2>1. UNCHANGED <<table, live, owned, iteration>> /\ phase' = phase /\ ret' = ret
    BY <1>11 DEF vars
  <2>2. phase \in {"none", "open", "crashed"} /\ ret \in ValueObjs \cup {NULL, OK, ERROR}
    BY DEF IInv, Calls
  <2> QED
    BY <2>1, <2>2, ReadOnly
<1> QED
  BY <1>1, <1>2, <1>3, <1>4, <1>5, <1>6, <1>7, <1>8, <1>9, <1>10, <1>11 DEF Next

-----------------------------------------------------------------------------
(* The theorems                                                            *)

\* In every reachable state the list is one sequence of the table's pairs, the
\* buckets are stretches of it, and the iterator is at a place of it.
LEMMA AlwaysIInv == Spec => []IInv
  BY InitIInv, NextIInv, PTL DEF Spec

\* The fields of the table and of its pairs have their types through every call,
\* a failed rehash included.
THEOREM HashtableTypeCorrect == Spec => []TypeOK
<1>1. IInv => TypeOK
  <2> SUFFICES ASSUME IInv PROVE TypeOK
    OBVIOUS
  <2>1. PICK s : Holds(table, live, owned, s)
    BY DEF IInv
  <2>2. /\ table.next \in LinkMaps /\ table.prev \in LinkMaps
        /\ table.num_buckets \in DOMAIN Primes
        /\ table.pair \in [Nodes -> Stored \cup {NULL}]
        /\ table.buckets = NULL \/ Indexed(table, s)
        /\ Owns(table, live, owned)
    BY <2>1 DEF Holds, Fits, Sound
  <2>3. live \subseteq Nodes /\ table.size \in Nat /\ \A n \in live : table.pair[n] \in Stored
    BY <2>1, HoldsCount
  <2>4. owned \subseteq KeyObjs \cup ValueObjs
    BY <2>2, <2>3 DEF Owns, Stored
  <2>5. \A n \in Nodes : table.pair[n] = NULL \/ table.pair[n] \in Stored
    BY <2>2
  <2>6. table.buckets = NULL \/ table.buckets \in [0 .. num_buckets(table) - 1 -> BucketType]
    BY <2>2 DEF Indexed
  <2> QED
    BY <2>2, <2>3, <2>4, <2>5, <2>6 DEF TypeOK, IInv, Calls, LinkMaps
<1> QED
  BY <1>1, AlwaysIInv, PTL

\* The list of a table of any size links exactly its pairs, both ways, whatever
\* was added, deleted and rehashed, and size counts them.
THEOREM HashtableListIntact == Spec => []ListIntact
<1>1. IInv => ListIntact
  <2> SUFFICES ASSUME IInv PROVE ListIntact
    OBVIOUS
  <2>1. PICK s : Holds(table, live, owned, s)
    BY DEF IInv
  <2>2. Linked(table.next, table.prev, s) /\ Distinct(s) /\ Elements(s) = live
    BY <2>1 DEF Holds, Fits, Sound, Linked
  <2>3. PairSet(table) = live
    BY <2>2, PairsAre
  <2>4. Len(s) \in Nat
    BY <2>2, AtProperties
  <2>5. ASSUME NEW n \in live \cup {ListHead}
        PROVE  \E k \in 0 .. Len(s) : n = At(s, k)
    <3>1. CASE n = ListHead
      <4>1. 0 \in 0 .. Len(s) /\ At(s, 0) = ListHead
        BY <2>2, <2>4, AtProperties
      <4> QED
        BY <3>1, <4>1
    <3>2. CASE n \in live
      <4>1. PICK k \in 1 .. Len(s) : n = s[k]
        BY <2>2, <3>2 DEF Elements
      <4>2. k \in 0 .. Len(s) /\ At(s, k) = n
        BY <2>2, <2>4, <4>1, AtProperties
      <4> QED
        BY <4>2
    <3> QED
      BY <3>1, <3>2
  <2>6. \A k \in 0 .. Len(s) : /\ table.next[At(s, k)] = At(s, k + 1)
                               /\ table.prev[At(s, k + 1)] = At(s, k)
    BY <2>2 DEF Linked
  <2>7. \A k \in 0 .. Len(s) : At(s, k + 1) \in live \cup {ListHead}
    <3> TAKE k \in 0 .. Len(s)
    <3>1. CASE k = Len(s)
      BY <2>2, <3>1, AtProperties
    <3>2. CASE k # Len(s)
      <4>1. k + 1 \in 1 .. Len(s)
        BY <2>4, <3>2
      <4> QED
        BY <2>2, <4>1 DEF At, Elements
    <3> QED
      BY <3>1, <3>2
  <2>8. \A n \in live \cup {ListHead} : /\ table.next[n] \in live \cup {ListHead}
                                        /\ table.prev[table.next[n]] = n
    BY <2>5, <2>6, <2>7
  <2> QED
    BY <2>1, <2>3, <2>8 DEF ListIntact, Holds
<1> QED
  BY <1>1, AlwaysIInv, PTL

\* Every pair is found in the bucket of its hash and in no other, with any
\* number of buckets: a bucket's first and last enclose just its pairs.
THEOREM HashtableBucketsPartition == Spec => []BucketsPartition
<1>1. IInv => BucketsPartition
  <2> SUFFICES ASSUME IInv, table.buckets # NULL, NEW b \in DOMAIN table.buckets
               PROVE  LET mine == {n \in live : table.pair[n].hash % num_buckets(table) = b}
                          bucket == table.buckets[b]
                      IN  IF mine = {} THEN bucket = EmptyBucket
                          ELSE {bucket.first, bucket.last} \subseteq mine /\ Bucket(table, b) = mine
    BY DEF BucketsPartition
  <2>1. PICK s : Holds(table, live, owned, s)
    BY DEF IInv
  <2>2. Sound(table, s) /\ Indexed(table, s) /\ Elements(s) = live /\ live \subseteq Nodes
    BY <2>1, HoldsCount DEF Holds, Fits
  <2>3. b \in 0 .. num_buckets(table) - 1
    BY <2>2 DEF Indexed
  <2>4. {n \in live : table.pair[n].hash % num_buckets(table) = b}
          = {n \in Elements(s) : Home(table)[n] = b}
    BY <2>2 DEF Home
  <2>5. CASE table.buckets[b] = EmptyBucket
    BY <2>2, <2>3, <2>4, <2>5, EmptyBucketIs
  <2>6. CASE table.buckets[b] # EmptyBucket
    BY <2>2, <2>3, <2>4, <2>6, BucketIs
  <2> QED
    BY <2>5, <2>6
<1> QED
  BY <1>1, AlwaysIInv, PTL

\* The table owns just the keys and values of its pairs: no sequence of calls
\* leaks an object it was given, frees one twice, or has one name in two pairs.
THEOREM HashtableOwnershipExact == Spec => []OwnershipExact
<1>1. IInv => OwnershipExact
  BY DEF IInv, Holds, Owns, OwnershipExact
<1> QED
  BY <1>1, AlwaysIInv, PTL

\* The load ratio never exceeds 1, also when rehashing fails.
THEOREM HashtableLoadBounded == Spec => []LoadBounded
<1>1. IInv => LoadBounded
  BY DEF IInv, Holds, LoadBounded
<1> QED
  BY <1>1, AlwaysIInv, PTL

\* An iteration over a table that is not rehashed meets every pair that stays,
\* and no pair twice, whatever is added and deleted meanwhile.
THEOREM HashtableIterationComplete == Spec => IterationComplete
<1>1. IInv => [nc_hashtable_iter_next /\ ~rehashed =>
                 /\ iter' \notin seen
                 /\ iter' = NULL => start \subseteq seen]_vars
  BY IterNextIInv
<1> QED
  BY <1>1, AlwaysIInv, PTL DEF IterationComplete

-----------------------------------------------------------------------------
(* The calls act on a map                                                  *)

\* The map that the pairs of a table stand for.
MapOf(t, nodes) ==
  [n \in {Name[t.pair[p].key] : p \in nodes} |->
     t.pair[CHOOSE p \in nodes : Name[t.pair[p].key] = n].value]

\* The one HashMap is given.
AbstractMap == [n \in DOMAIN Contents |-> table.pair[Contents[n]].value]

LEMMA AbstractMapIs ==
  /\ AbstractMap = MapOf(table, live)
  /\ AbstractMap' = MapOf(table', live')
BY DEF AbstractMap, Contents, MapOf

\* f gives each pair's key's name the pair's value, and is a map of no more.
Maps(f, t, nodes) ==
  /\ f = [n \in DOMAIN f |-> f[n]]
  /\ DOMAIN f = {Name[t.pair[p].key] : p \in nodes}
  /\ \A p \in nodes : f[Name[t.pair[p].key]] = t.pair[p].value

LEMMA MapIs ==
  ASSUME NEW t, NEW nodes, NEW objects, NEW s, Holds(t, nodes, objects, s)
  PROVE  Maps(MapOf(t, nodes), t, nodes)
<1>1. DOMAIN MapOf(t, nodes) = {Name[t.pair[p].key] : p \in nodes}
  BY DEF MapOf
<1>2. ASSUME NEW p \in nodes PROVE MapOf(t, nodes)[Name[t.pair[p].key]] = t.pair[p].value
  <2> DEFINE name == Name[t.pair[p].key]
             q == CHOOSE x \in nodes : Name[t.pair[x].key] = name
  <2>1. q \in nodes /\ Name[t.pair[q].key] = name
    OBVIOUS
  <2>2. q = p
    BY <2>1 DEF Holds, Owns
  <2>3. MapOf(t, nodes)[name] = t.pair[q].value
    BY DEF MapOf
  <2> QED
    BY <2>2, <2>3
<1>3. MapOf(t, nodes) = [n \in DOMAIN MapOf(t, nodes) |-> MapOf(t, nodes)[n]]
  BY DEF MapOf
<1> QED
  BY <1>1, <1>2, <1>3 DEF Maps

LEMMA MapUnique ==
  ASSUME NEW t, NEW nodes, NEW objects, NEW s, Holds(t, nodes, objects, s),
         NEW f, Maps(f, t, nodes)
  PROVE  f = MapOf(t, nodes)
<1> DEFINE m == MapOf(t, nodes)
<1>1. Maps(m, t, nodes)
  BY MapIs
<1> HIDE DEF m
<1>2. DOMAIN f = DOMAIN m /\ \A n \in DOMAIN f : f[n] = m[n]
  <2>1. /\ DOMAIN f = {Name[t.pair[p].key] : p \in nodes}
        /\ \A p \in nodes : f[Name[t.pair[p].key]] = t.pair[p].value
    BY DEF Maps
  <2>2. /\ DOMAIN m = {Name[t.pair[p].key] : p \in nodes}
        /\ \A p \in nodes : m[Name[t.pair[p].key]] = t.pair[p].value
    BY <1>1 DEF Maps
  <2>3. ASSUME NEW n \in DOMAIN f PROVE f[n] = m[n]
    <3>1. PICK p \in nodes : n = Name[t.pair[p].key]
      BY <2>1, <2>3
    <3>2. f[Name[t.pair[p].key]] = t.pair[p].value /\ m[Name[t.pair[p].key]] = t.pair[p].value
      BY <2>1, <2>2
    <3> QED
      BY <3>1, <3>2
  <2> QED
    BY <2>1, <2>2, <2>3
<1>3. f = [n \in DOMAIN f |-> f[n]] /\ m = [n \in DOMAIN m |-> m[n]]
  BY <1>1 DEF Maps
<1> QED
  BY <1>2, <1>3 DEF m

\* A pair added, or given a value.
LEMMA PutPair ==
  ASSUME NEW t, NEW nodes, NEW objects, NEW s, Holds(t, nodes, objects, s),
         NEW node, NEW r, NEW objects2, NEW s2, Holds(r, nodes \cup {node}, objects2, s2),
         \A n \in nodes : n # node => r.pair[n] = t.pair[n],
         node \in nodes => r.pair[node].key = t.pair[node].key
  PROVE  MapOf(r, nodes \cup {node})
           = Abstract!Put(MapOf(t, nodes), Name[r.pair[node].key], r.pair[node].value)
<1> DEFINE f == Abstract!Put(MapOf(t, nodes), Name[r.pair[node].key], r.pair[node].value)
           more == nodes \cup {node}
           m == MapOf(t, nodes)
           name == Name[r.pair[node].key]
<1>1. Maps(m, t, nodes)
  BY MapIs
<1>2. /\ f = [n \in DOMAIN f |-> f[n]] /\ DOMAIN f = DOMAIN m \cup {name}
      /\ f[name] = r.pair[node].value
      /\ \A n \in DOMAIN m : n # name => f[n] = m[n]
  BY DEF Abstract!Put
<1> HIDE DEF f, m
<1>3. /\ DOMAIN m = {Name[t.pair[p].key] : p \in nodes}
      /\ \A p \in nodes : m[Name[t.pair[p].key]] = t.pair[p].value
  BY <1>1 DEF Maps
<1>4. \A p \in nodes : r.pair[p].key = t.pair[p].key
  OBVIOUS
<1>5. DOMAIN f = {Name[r.pair[p].key] : p \in more}
  <2>1. DOMAIN m = {Name[r.pair[p].key] : p \in nodes}
    BY <1>3, <1>4
  <2>2. DOMAIN f = DOMAIN m \cup {Name[r.pair[node].key]}
    BY <1>2
  <2> QED
    BY <2>1, <2>2
<1>6. \A p \in nodes : p # node => Name[t.pair[p].key] # name
  BY DEF Holds, Owns
<1>7. \A p \in more : f[Name[r.pair[p].key]] = r.pair[p].value
  <2> TAKE p \in more
  <2>1. CASE p = node
    BY <1>2, <2>1
  <2>2. CASE p # node
    <3>1. p \in nodes /\ Name[t.pair[p].key] # name /\ r.pair[p] = t.pair[p]
      BY <1>6, <2>2
    <3>2. Name[t.pair[p].key] \in DOMAIN m
      BY <1>3, <3>1
    <3>3. f[Name[t.pair[p].key]] = t.pair[p].value
      BY <1>3, <1>2, <3>1, <3>2
    <3> QED
      BY <3>1, <3>3
  <2> QED
    BY <2>1, <2>2
<1>8. f = MapOf(r, more)
  <2>1. Maps(f, r, more)
    BY <1>2, <1>5, <1>7 DEF Maps
  <2> HIDE DEF more
  <2> QED
    BY <2>1, MapUnique DEF more
<1> QED
  BY <1>8 DEF f, m

\* A pair deleted.
LEMMA DropPair ==
  ASSUME NEW t, NEW nodes, NEW objects, NEW s, Holds(t, nodes, objects, s),
         NEW node \in nodes, NEW r, NEW objects2, NEW s2,
         Holds(r, nodes \ {node}, objects2, s2),
         \A n \in nodes \ {node} : r.pair[n] = t.pair[n]
  PROVE  MapOf(r, nodes \ {node}) = Abstract!Drop(MapOf(t, nodes), Name[t.pair[node].key])
<1> DEFINE f == Abstract!Drop(MapOf(t, nodes), Name[t.pair[node].key])
           fewer == nodes \ {node}
           m == MapOf(t, nodes)
           name == Name[t.pair[node].key]
<1>1. Maps(m, t, nodes)
  BY MapIs
<1>2. /\ f = [n \in DOMAIN f |-> f[n]] /\ DOMAIN f = DOMAIN m \ {name}
      /\ \A n \in DOMAIN m \ {name} : f[n] = m[n]
  BY DEF Abstract!Drop
<1> HIDE DEF f, m
<1>3. /\ DOMAIN m = {Name[t.pair[p].key] : p \in nodes}
      /\ \A p \in nodes : m[Name[t.pair[p].key]] = t.pair[p].value
  BY <1>1 DEF Maps
<1>4. \A p \in fewer : Name[t.pair[p].key] # name
  BY DEF Holds, Owns
<1>5. DOMAIN f = {Name[r.pair[p].key] : p \in fewer}
  <2>1. {Name[r.pair[p].key] : p \in fewer} = {Name[t.pair[p].key] : p \in fewer}
    OBVIOUS
  <2>2. DOMAIN f = {Name[t.pair[p].key] : p \in nodes} \ {Name[t.pair[node].key]}
    BY <1>3, <1>2
  <2>3. \A p \in nodes \ {node} : Name[t.pair[p].key] # Name[t.pair[node].key]
    BY <1>4
  <2>4. DOMAIN f = {Name[t.pair[p].key] : p \in fewer}
    <3> HIDE DEF name
    <3> QED
      BY <2>2, <2>3
  <2> QED
    BY <2>1, <2>4
<1>6. \A p \in fewer : f[Name[r.pair[p].key]] = r.pair[p].value
  <2> TAKE p \in fewer
  <2>1. r.pair[p] = t.pair[p] /\ Name[t.pair[p].key] \in DOMAIN m \ {name}
    BY <1>3, <1>4
  <2>2. f[Name[t.pair[p].key]] = m[Name[t.pair[p].key]]
    BY <1>2, <2>1
  <2>3. m[Name[t.pair[p].key]] = t.pair[p].value
    BY <1>3
  <2> QED
    BY <2>1, <2>2, <2>3
<1>7. f = MapOf(r, fewer)
  <2>1. Maps(f, r, fewer)
    BY <1>2, <1>5, <1>6 DEF Maps
  <2> QED
    BY <2>1, MapUnique
<1> QED
  BY <1>7 DEF f, m

\* What each call does to the map, and what it returns, unless it crashes.
LEMMA SetMaps ==
  ASSUME IInv, NEW key \in KeyObjs, NEW value \in ValueObjs, nc_hashtable_set(key, value)
  PROVE  /\ phase' = "open" => Abstract!Set(Name[key], value)
         /\ phase' # "open" => UNCHANGED <<AbstractMap, ret>>
<1>1. PICK s : Holds(table, live, owned, s)
  BY DEF IInv
<1>2. PICK s2 : Holds(table', live', owned', s2)
  BY SetIInv DEF IInv
<1> DEFINE found(t) == hashtable_find_pair(t, IndexOf(t, key), key)
<1>3. PICK t \in Grown :
         IF t.buckets = NULL
           THEN IF t = table THEN Crash(t)
                ELSE /\ table' = t /\ ret' = ERROR
                     /\ UNCHANGED <<phase, live, owned, iteration>>
           ELSE /\ IF found(t) = {} THEN Add(t, key, value)
                   ELSE \E node \in found(t) : Replace(t, node, key, value)
                /\ rehashed' = (rehashed \/ t # table)
                /\ UNCHANGED <<phase, iter, seen, start>>
  BY DEF nc_hashtable_set
<1> HIDE DEF found
<1>4. /\ t.pair = table.pair /\ t.size < num_buckets(t)
      /\ \E u : Holds(t, live, owned, u)
  BY <1>1, GrownTable DEF Grown
<1>5. PICK u : Holds(t, live, owned, u)
  BY <1>4
<1>6. MapOf(t, live) = MapOf(table, live)
  BY <1>4 DEF MapOf
<1>7. phase = "open" /\ value \notin owned
  BY DEF nc_hashtable_set
<1>8. CASE t.buckets = NULL /\ t = table
  <2>1. phase' # "open" /\ UNCHANGED <<table, live, ret>>
    BY <1>3, <1>8 DEF Crash
  <2> QED
    BY <2>1, AbstractMapIs
<1>9. CASE UNCHANGED <<phase, live>> /\ table' = t /\ ret' = ERROR
  <2>1. AbstractMap' = AbstractMap
    BY <1>6, <1>9, AbstractMapIs
  <2> QED
    BY <1>7, <1>9, <2>1 DEF Abstract!Set, AbstractMap
<1>10. ASSUME phase' = phase, ret' = OK, NEW node \in Nodes, live' = live \cup {node},
              \A n \in live : n # node => table'.pair[n] = t.pair[n],
              node \in live => table'.pair[node].key = t.pair[node].key,
              Name[table'.pair[node].key] = Name[key], table'.pair[node].value = value
       PROVE  phase' = "open" /\ Abstract!Set(Name[key], value)
  <2>1. MapOf(table', live') = Abstract!Put(MapOf(t, live), Name[key], value)
    <3>1. Holds(table', live \cup {node}, owned', s2)
      BY <1>2, <1>10
    <3>2. MapOf(table', live \cup {node})
            = Abstract!Put(MapOf(t, live), Name[table'.pair[node].key], table'.pair[node].value)
      BY <1>5, <1>10, <3>1, PutPair
    <3> QED
      BY <1>10, <3>2
  <2>2. AbstractMap' = Abstract!Put(AbstractMap, Name[key], value)
    BY <1>6, <2>1, AbstractMapIs
  <2> QED
    BY <1>7, <1>10, <2>2 DEF Abstract!Set, AbstractMap
<1>11. CASE t.buckets # NULL /\ found(t) = {} /\ ~(UNCHANGED <<phase, live>> /\ table' = t /\ ret' = ERROR)
  <2> DEFINE stored == [key |-> key, value |-> value, hash |-> Hash[Name[key]]]
  <2>1. PICK node \in Nodes \ live :
          /\ table' = [insert_to_bucket([t EXCEPT !.pair[node] = stored], IndexOf(t, key), node)
                         EXCEPT !.size = @ + 1]
          /\ live' = live \cup {node}
          /\ ret' = OK
    BY <1>3, <1>11 DEF Add
  <2>2. table'.pair = [t.pair EXCEPT ![node] = stored]
    <3>1. node \in Nodes /\ node \notin live /\ hashtable_find_pair(t, IndexOf(t, key), key) = {}
      BY <1>11, <2>1 DEF found
    <3>2. OneMore(table', t, node, stored)
      BY <1>4, <1>5, <1>7, <1>11, <2>1, <3>1, AddPair
    <3> QED
      BY <3>2 DEF OneMore
  <2>3. t.pair \in [Nodes -> Stored \cup {NULL}] /\ live \subseteq Nodes
    BY <1>5, HoldsCount DEF Holds, Fits, Sound
  <2>4. table'.pair[node] = stored /\ \A n \in live : n # node => table'.pair[n] = t.pair[n]
    BY <2>1, <2>2, <2>3
  <2>5. node \notin live /\ phase' = phase
    BY <1>3, <1>11, <2>1
  <2> QED
    BY <1>7, <1>10, <2>1, <2>4, <2>5
<1>12. CASE t.buckets # NULL /\ found(t) # {}
  <2>1. PICK node \in found(t) : Replace(t, node, key, value)
    BY <1>3, <1>12
  <2>2. node \in live /\ Name[t.pair[node].key] = Name[key]
    BY <1>5, <1>12, Found DEF found, hashtable_find_pair
  <2>3. /\ t.pair \in [Nodes -> Stored \cup {NULL}] /\ live \subseteq Nodes
        /\ t.pair[node] \in Stored /\ DOMAIN t = FieldNames
    BY <1>5, <2>2, HoldsCount DEF Holds, Fits, Sound
  <2>4. table'.pair = [t.pair EXCEPT ![node] = [t.pair[node] EXCEPT !.value = value]]
    BY <2>1, <2>3 DEF Replace, FieldNames
  <2>5. /\ table'.pair[node].key = t.pair[node].key /\ table'.pair[node].value = value
        /\ \A n \in live : n # node => table'.pair[n] = t.pair[n]
    BY <2>2, <2>3, <2>4 DEF Stored
  <2>6. live' = live \cup {node} /\ ret' = OK /\ phase' = phase
    BY <1>3, <1>12, <2>1, <2>2 DEF Replace
  <2> QED
    BY <1>7, <1>10, <2>2, <2>3, <2>5, <2>6
<1> QED
  BY <1>3, <1>8, <1>9, <1>11, <1>12

LEMMA GetMaps ==
  ASSUME IInv, NEW key \in KeyObjs, nc_hashtable_get(key)
  PROVE  /\ phase' = "open" => Abstract!Get(Name[key])
         /\ phase' # "open" => UNCHANGED <<AbstractMap, ret>>
<1>1. PICK s : Holds(table, live, owned, s)
  BY DEF IInv
<1> DEFINE found == hashtable_find_pair(table, IndexOf(table, key), key)
<1>2. UNCHANGED <<table, live>> /\ AbstractMap' = AbstractMap
  BY AbstractMapIs DEF nc_hashtable_get, Crash
<1>3. CASE Crash(table)
  BY <1>2, <1>3 DEF Crash
<1>4. CASE table.buckets # NULL /\ ~Crash(table)
  <2>1. ret' \in IF found = {} THEN {NULL} ELSE {table.pair[n].value : n \in found}
    BY <1>4 DEF nc_hashtable_get
  <2>2. found = {n \in live : Name[table.pair[n].key] = Name[key]}
    BY <1>1, <1>4, FindPair DEF Holds, Fits
  <2> HIDE DEF found
  <2>3. Maps(AbstractMap, table, live)
    BY <1>1, AbstractMapIs, MapIs
  <2>4. ret' = IF Name[key] \in DOMAIN AbstractMap THEN AbstractMap[Name[key]] ELSE NULL
    <3>1. CASE found = {}
      BY <2>1, <2>2, <2>3, <3>1 DEF Maps
    <3>2. CASE found # {}
      <4>1. PICK n \in found : ret' = table.pair[n].value
        BY <2>1, <3>2
      <4>2. n \in live /\ Name[table.pair[n].key] = Name[key]
        BY <2>2, <4>1
      <4> QED
        BY <2>3, <4>1, <4>2 DEF Maps
    <3> QED
      BY <3>1, <3>2
  <2>5. phase' = "open"
    BY <1>4 DEF nc_hashtable_get
  <2> QED
    BY <1>2, <2>4, <2>5 DEF Abstract!Get, AbstractMap
<1> QED
  BY <1>3, <1>4 DEF nc_hashtable_get, Crash

LEMMA DelMaps ==
  ASSUME IInv, NEW key \in KeyObjs, nc_hashtable_del(key)
  PROVE  /\ phase' = "open" => Abstract!Del(Name[key])
         /\ phase' # "open" => UNCHANGED <<AbstractMap, ret>>
<1>1. PICK s : Holds(table, live, owned, s)
  BY DEF IInv
<1>2. PICK s2 : Holds(table', live', owned', s2)
  BY DelIInv DEF IInv
<1> DEFINE found == hashtable_find_pair(table, IndexOf(table, key), key)
<1>3. CASE Crash(table)
  BY <1>3, AbstractMapIs DEF Crash
<1>4. CASE table.buckets # NULL /\ ~Crash(table)
  <2>1. IF found = {} THEN ret' = ERROR /\ UNCHANGED <<table, live, owned, iter, seen, start>>
        ELSE \E node \in found : hashtable_do_del(key, node)
    BY <1>4 DEF nc_hashtable_del
  <2>2. phase' = "open"
    BY <1>4 DEF nc_hashtable_del
  <2>3. Maps(AbstractMap, table, live)
    BY <1>1, AbstractMapIs, MapIs
  <2>4. found = {n \in live : Name[table.pair[n].key] = Name[key]}
    BY <1>1, <1>4, FindPair DEF Holds, Fits
  <2>5. CASE found = {}
    <3>1. ret' = ERROR /\ AbstractMap' = AbstractMap
      BY <2>1, <2>5, AbstractMapIs
    <3> HIDE DEF found
    <3>2. Name[key] \notin DOMAIN AbstractMap
      BY <2>3, <2>4, <2>5 DEF Maps
    <3> QED
      BY <2>2, <3>1, <3>2 DEF Abstract!Del, AbstractMap
  <2>6. CASE found # {}
    <3>1. PICK node \in found : hashtable_do_del(key, node)
      BY <2>1, <2>6
    <3>2. /\ table' = Freed(Unlink(table, IndexOf(table, key), node), {node})
          /\ live' = live \ {node} /\ ret' = OK
      BY <3>1 DEF hashtable_do_del
    <3>3. node \in live /\ \A n \in live \ {node} : table'.pair[n] = table.pair[n]
      <4>1. node \in live /\ SamePairs(table', table, live \ {node})
        BY <1>1, <1>4, <3>1, <3>2, DeletePair
      <4> QED
        BY <4>1 DEF SamePairs
    <3> HIDE DEF found
    <3>4. Name[table.pair[node].key] = Name[key]
      BY <2>4, <3>1
    <3>5. MapOf(table', live') = Abstract!Drop(MapOf(table, live), Name[key])
      <4>1. Holds(table', live \ {node}, owned', s2)
        BY <1>2, <3>2
      <4>2. MapOf(table', live \ {node})
              = Abstract!Drop(MapOf(table, live), Name[table.pair[node].key])
        BY <1>1, <3>3, <4>1, DropPair
      <4> QED
        BY <3>2, <3>4, <4>2
    <3>6. AbstractMap' = Abstract!Drop(AbstractMap, Name[key])
      BY <3>5, AbstractMapIs
    <3>7. Name[key] \in DOMAIN AbstractMap
      BY <2>3, <3>3, <3>4 DEF Maps
    <3> QED
      BY <2>2, <3>2, <3>6, <3>7 DEF Abstract!Del, AbstractMap
  <2> QED
    BY <2>5, <2>6
<1> QED
  BY <1>3, <1>4 DEF nc_hashtable_del, Crash

LEMMA NoMap == ASSUME NEW t PROVE MapOf(t, {}) = <<>>
<1>1. DOMAIN MapOf(t, {}) = {}
  BY DEF MapOf
<1>2. MapOf(t, {}) = [n \in DOMAIN MapOf(t, {}) |-> MapOf(t, {})[n]]
  BY DEF MapOf
<1>3. <<>> = [n \in {} |-> MapOf(t, {})[n]]
  OBVIOUS
<1> QED
  BY <1>1, <1>2, <1>3

LEMMA IterSetMaps ==
  ASSUME IInv, NEW value \in ValueObjs, nc_hashtable_iter_set(value)
  PROVE  \E n \in Names : Abstract!IterSet(n, value)
<1>1. PICK s : Holds(table, live, owned, s)
  BY DEF IInv
<1>2. PICK s2 : Holds(table', live', owned', s2)
  BY IterSetIInv DEF IInv
<1>3. iter \in live /\ live' = live /\ ret' = OK
  BY DEF IInv, Calls, nc_hashtable_iter_set
<1>4. /\ table.pair \in [Nodes -> Stored \cup {NULL}] /\ live \subseteq Nodes
      /\ table.pair[iter] \in Stored /\ DOMAIN table = FieldNames
  BY <1>1, <1>3, HoldsCount DEF Holds, Fits, Sound
<1>5. table'.pair = [table.pair EXCEPT ![iter] = [table.pair[iter] EXCEPT !.value = value]]
  BY <1>4 DEF nc_hashtable_iter_set, FieldNames
<1>6. /\ table'.pair[iter].key = table.pair[iter].key /\ table'.pair[iter].value = value
      /\ \A n \in live : n # iter => table'.pair[n] = table.pair[n]
  BY <1>3, <1>4, <1>5 DEF Stored
<1> DEFINE name == Name[table.pair[iter].key]
<1>7. MapOf(table', live') = Abstract!Put(MapOf(table, live), name, value)
  <2>1. Holds(table', live \cup {iter}, owned', s2) /\ live' = live \cup {iter}
    BY <1>2, <1>3
  <2>2. MapOf(table', live \cup {iter})
          = Abstract!Put(MapOf(table, live), Name[table'.pair[iter].key], table'.pair[iter].value)
    BY <1>1, <1>6, <2>1, PutPair
  <2> QED
    BY <1>6, <2>1, <2>2
<1>8. AbstractMap' = Abstract!Put(AbstractMap, name, value)
  BY <1>7, AbstractMapIs
<1>9. name \in Names /\ name \in DOMAIN AbstractMap
  <2>1. Maps(AbstractMap, table, live)
    BY <1>1, AbstractMapIs, MapIs
  <2> QED
    BY <1>3, <1>4, <2>1 DEF Maps, Names, Stored
<1> HIDE DEF name
<1>10. Abstract!IterSet(name, value)
  BY <1>3, <1>8, <1>9 DEF Abstract!IterSet, AbstractMap
<1> QED
  BY <1>9, <1>10

\* A step of the table is one of the map, or leaves it and the result alone.
LEMMA NextMaps ==
  ASSUME IInv, [Next]_vars
  PROVE  Abstract!Next \/ UNCHANGED <<AbstractMap, ret>>
<1>1. ASSUME live' = {}, ret' \in {OK, NULL} PROVE Abstract!Next
  <2>1. AbstractMap' = <<>>
    BY <1>1, AbstractMapIs, NoMap
  <2> QED
    BY <1>1, <2>1 DEF Abstract!Next, Abstract!Clear, AbstractMap
<1>2. ASSUME UNCHANGED <<table, live, ret>> PROVE UNCHANGED <<AbstractMap, ret>>
  BY <1>2, AbstractMapIs
<1>3. CASE nc_hashtable_create
  <2>1. live' = {}
    BY <1>3 DEF IInv, Calls, nc_hashtable_create
  <2> QED
    BY <1>1, <1>3, <2>1 DEF nc_hashtable_create
<1>4. PairSet(table) = live
  BY ClearTable DEF IInv
<1>5. CASE nc_hashtable_clear
  <2>1. CASE Crash(table)
    BY <1>2, <2>1 DEF Crash
  <2>2. CASE ~Crash(table)
    BY <1>1, <1>4, <1>5, <2>2 DEF nc_hashtable_clear, hashtable_do_clear
  <2> QED
    BY <2>1, <2>2
<1>6. CASE nc_hashtable_destroy
  BY <1>1, <1>4, <1>6 DEF nc_hashtable_destroy, hashtable_do_clear
<1>7. \A key \in KeyObjs : Name[key] \in Names
  BY DEF Names
<1>8. ASSUME NEW key \in KeyObjs, NEW value \in ValueObjs, nc_hashtable_set(key, value)
      PROVE  Abstract!Next \/ UNCHANGED <<AbstractMap, ret>>
  BY <1>7, <1>8, SetMaps DEF Abstract!Next
<1>9. ASSUME NEW key \in KeyObjs, nc_hashtable_get(key)
      PROVE  Abstract!Next \/ UNCHANGED <<AbstractMap, ret>>
  BY <1>7, <1>9, GetMaps DEF Abstract!Next
<1>10. ASSUME NEW key \in KeyObjs, nc_hashtable_del(key)
       PROVE  Abstract!Next \/ UNCHANGED <<AbstractMap, ret>>
  BY <1>7, <1>10, DelMaps DEF Abstract!Next
<1>11. CASE \E key \in KeyObjs : nc_hashtable_iter_at(key)
  BY <1>2, <1>11 DEF nc_hashtable_iter_at, Crash
<1>12. CASE nc_hashtable_iter \/ nc_hashtable_iter_next
  BY <1>2, <1>12 DEF nc_hashtable_iter, nc_hashtable_iter_next
<1>13. ASSUME NEW value \in ValueObjs, nc_hashtable_iter_set(value) PROVE Abstract!Next
  BY <1>13, IterSetMaps DEF Abstract!Next
<1>14. CASE UNCHANGED vars
  BY <1>2, <1>14 DEF vars
<1> QED
  BY <1>3, <1>5, <1>6, <1>8, <1>9, <1>10, <1>11, <1>12, <1>13, <1>14 DEF Next

\* Every call acts on a map of names and values as nc_hashtable.h says of the name
\* it was given, whichever bucket has the pair, whatever was rehashed.
THEOREM HashtableRefinesMap == Spec => RefinesMap
<1>1. Init => Abstract!Init
  <2> SUFFICES ASSUME Init PROVE Abstract!Init
    OBVIOUS
  <2>1. AbstractMap = <<>>
    BY AbstractMapIs, NoMap DEF Init
  <2> QED
    BY <2>1 DEF Init, Abstract!Init, AbstractMap
<1>2. IInv /\ [Next]_vars
        => [Abstract!Next]_<<[n \in DOMAIN Contents |-> table.pair[Contents[n]].value], ret>>
  BY NextMaps DEF AbstractMap
<1>3. IInv => ArgumentsAgree
  BY SetMaps, GetMaps, DelMaps DEF ArgumentsAgree
<1> QED
  BY <1>1, <1>2, <1>3, AlwaysIInv, PTL DEF Spec, RefinesMap, Abstract!Spec
=============================================================================
