--------------------------- MODULE NcArrayProofs ---------------------------
(***************************************************************************)
(* The array's type invariant and, as long as no int wraps, that it stays  *)
(* within its buffer and is a list that growing leaves alone: for every    *)
(* capacity and every number of elements.                                  *)
(***************************************************************************)
EXTENDS NcArray, SequenceTheorems, TLAPS

Cell == Values \cup {Undef}

-----------------------------------------------------------------------------
(* Types                                                                   *)

LEMMA WrapType == \A x \in Int : Wrap(x) \in Int
BY ArrayAssumption DEF Wrap

LEMMA ResizeType ==
  ASSUME NEW n \in Nat, elems \in Seq(Cell)
  PROVE  Resize(n) \in Seq(Cell) /\ Len(Resize(n)) = n
<1>1. ASSUME NEW i \in 1 .. n
      PROVE  (IF i <= Len(elems) THEN elems[i] ELSE Undef) \in Cell
  BY DEF Cell
<1> QED
  BY <1>1 DEF Resize

LEMMA CellsType ==
  ASSUME NEW n \in Nat
  PROVE  Cells(n) \in Seq(Cell) /\ Len(Cells(n)) = n
BY DEF Cells, Cell

LEMMA InitTypeOK == Init => TypeOK
<1> SUFFICES ASSUME Init PROVE TypeOK
  OBVIOUS
<1>1. IF open THEN elems \in Seq(Values \cup {Undef}) ELSE elems = NULL
  BY DEF Init
<1>2. open \in BOOLEAN
  BY DEF Init
<1>3. nelem \in Int /\ nalloc \in Int
  BY DEF Init
<1>4. given \subseteq Int
  BY DEF Init
<1>5. ret \in {OK, FAILED}
  BY DEF Init
<1> QED
  BY <1>1, <1>2, <1>3, <1>4, <1>5 DEF TypeOK

LEMMA TakeType ==
  ASSUME TypeOK, NEW n \in Int, TakeElements(n)
  PROVE  nelem' \in Int /\ given' \subseteq Int /\ ret' \in {OK, FAILED}
<1>1. nelem + n \in Int
  BY DEF TypeOK
<1> QED
  BY <1>1, WrapType DEF TakeElements, TypeOK

LEMMA NextTypeOK == TypeOK /\ [Next]_vars => TypeOK'
<1> SUFFICES ASSUME TypeOK, [Next]_vars PROVE TypeOK'
  OBVIOUS
<1>0. ASSUME open PROVE elems \in Seq(Cell)
  BY <1>0 DEF TypeOK, Cell
<1>1. ASSUME NEW n \in Counts, nc_array_create(n) PROVE TypeOK'
  <2>1. n \in Nat
    BY ArrayAssumption
  <2>2. CASE open' = TRUE /\ elems' = Cells(n) /\ nelem' = 0 /\ nalloc' = n /\ ret' = OK
    <3>1. elems' \in Seq(Cell)
      BY <2>1, <2>2, CellsType
    <3> QED
      BY <1>1, <2>1, <2>2, <3>1 DEF nc_array_create, TypeOK, Cell
  <2>3. CASE ret' = FAILED /\ UNCHANGED <<open, elems, nelem, nalloc>>
    BY <1>1, <2>3 DEF nc_array_create, TypeOK
  <2> QED
    BY <1>1, <2>2, <2>3 DEF nc_array_create
<1>2. CASE nc_array_destroy
  <2>1. open' = FALSE /\ elems' = NULL
    BY <1>2 DEF nc_array_destroy
  <2>2. nelem' \in Int /\ nalloc' \in Int /\ given' \subseteq Int /\ ret' \in {OK, FAILED}
    BY <1>2 DEF nc_array_destroy
  <2> QED
    BY <2>1, <2>2 DEF TypeOK
<1>3. CASE nc_array_push
  <2>0. open /\ elems \in Seq(Cell)
    BY <1>0, <1>3 DEF nc_array_push
  <2>1. CASE nelem # nalloc /\ TakeElements(1) /\ UNCHANGED <<elems, nalloc, open>>
    BY <2>1, TakeType DEF TypeOK
  <2>2. CASE Available(2 * nalloc) /\ elems' = Resize(2 * nalloc) /\
             nalloc' = Wrap(2 * nalloc) /\ TakeElements(1) /\ UNCHANGED open
    <3>1. 2 * nalloc \in Nat
      BY <2>2 DEF Available, TypeOK
    <3>2. elems' \in Seq(Cell) /\ nalloc' \in Int
      BY <2>0, <2>2, <3>1, ResizeType, WrapType DEF TypeOK
    <3> QED
      BY <2>0, <2>2, <3>2, TakeType DEF TypeOK, Cell
  <2>3. CASE Fail
    BY <2>3 DEF Fail, TypeOK
  <2> QED
    BY <1>3, <2>1, <2>2, <2>3 DEF nc_array_push
<1>4. ASSUME NEW n \in Counts, nc_array_push_n(n) PROVE TypeOK'
  <2>0. n \in Int /\ open /\ elems \in Seq(Cell)
    BY <1>0, <1>4, ArrayAssumption DEF nc_array_push_n
  <2>1. CASE TakeElements(n) /\ UNCHANGED <<elems, nalloc, open>>
    BY <2>0, <2>1, TakeType DEF TypeOK
  <2>2. CASE Available(Doubled(n)) /\ elems' = Resize(Doubled(n)) /\
             nalloc' = Doubled(n) /\ TakeElements(n) /\ UNCHANGED open
    <3>1. Doubled(n) \in Int
      BY <2>0, WrapType DEF Doubled, TypeOK
    <3>2. Doubled(n) \in Nat
      BY <2>2, <3>1 DEF Available
    <3>3. elems' \in Seq(Cell) /\ nalloc' \in Int
      BY <2>0, <2>2, <3>1, <3>2, ResizeType
    <3> QED
      BY <2>0, <2>2, <3>3, TakeType DEF TypeOK, Cell
  <2>3. CASE Fail
    BY <2>3 DEF Fail, TypeOK
  <2> QED
    BY <1>4, <2>1, <2>2, <2>3 DEF nc_array_push_n
<1>5. ASSUME NEW i \in given, NEW v \in Values, Write(i, v) PROVE TypeOK'
  <2>0. open /\ elems \in Seq(Cell)
    BY <1>0, <1>5 DEF Write
  <2>1. [elems EXCEPT ![i] = v] \in Seq(Cell)
    <3>1. v \in Cell
      BY DEF Cell
    <3>2. CASE i \in 1 .. Len(elems)
      BY <2>0, <3>1, <3>2, ExceptSeq
    <3>3. CASE i \notin 1 .. Len(elems)
      <4>1. [elems EXCEPT ![i] = v] = elems
        BY <2>0, <3>3
      <4> QED
        BY <2>0, <4>1
    <3> QED
      BY <3>2, <3>3
  <2> QED
    BY <1>5, <2>0, <2>1 DEF Write, TypeOK, Cell
<1>6. CASE UNCHANGED vars
  BY <1>6 DEF vars, TypeOK
<1> QED
  BY <1>1, <1>2, <1>3, <1>4, <1>5, <1>6 DEF Next

\* Every reachable state of an array is well typed, wrapped ints included.
THEOREM ArrayTypeCorrect == Spec => []TypeOK
BY InitTypeOK, NextTypeOK, PTL DEF Spec

-----------------------------------------------------------------------------
(* Capacity, as long as no int wraps                                       *)

LEMMA WrapNone == \A x \in 0 .. IntMax : Wrap(x) = x
<1> TAKE x \in 0 .. IntMax
<1>1. x + IntMax + 1 \in 0 .. 2 * (IntMax + 1) - 1
  BY ArrayAssumption
<1>2. (x + IntMax + 1) % (2 * (IntMax + 1)) = x + IntMax + 1
  BY <1>1, ArrayAssumption
<1> QED
  BY <1>2, ArrayAssumption DEF Wrap

\* Twice an int that wraps is negative: no allocation of that size succeeds.
LEMMA WrapTwice ==
  ASSUME NEW x \in 0 .. IntMax, 2 * x > IntMax
  PROVE  Wrap(2 * x) < 0
<1> DEFINE w == 2 * (IntMax + 1)
           y == 2 * x + IntMax + 1
<1>1. y - w \in 0 .. w - 1 /\ w \in Nat \ {0} /\ y = (y - w) + w * 1
  BY ArrayAssumption
<1>2. y % w = y - w
  BY <1>1
<1> QED
  BY <1>2, ArrayAssumption DEF Wrap

CapacityInv == TypeOK /\ Capacity /\ nalloc <= MaxCells

LEMMA InitCapacity == Init => CapacityInv
<1> SUFFICES ASSUME Init PROVE CapacityInv
  OBVIOUS
<1>1. TypeOK
  BY InitTypeOK
<1>2. Capacity /\ nalloc <= MaxCells
  BY ArrayAssumption DEF Init, Capacity
<1> QED
  BY <1>1, <1>2 DEF CapacityInv

\* What both pushes do to the array, seen without the ints: n elements are
\* added, in a buffer that is the old one or at least twice as long.
LEMMA PushOutcome ==
  ASSUME CapacityInv, NoWrap,
         \/ nc_array_push
         \/ \E n \in Counts : nc_array_push_n(n)
  PROVE  \/ Fail
         \/ \E n \in Nat :
              /\ nelem' = nelem + n /\ given' = nelem + 1 .. nelem + n
              /\ ret' = OK /\ UNCHANGED open
              /\ \/ nelem + n <= nalloc /\ UNCHANGED <<elems, nalloc>>
                 \/ /\ nelem + n <= nalloc' /\ 2 * nalloc <= nalloc'
                    /\ nalloc' <= MaxCells /\ elems' = Resize(nalloc')
<1>0. nelem \in Nat /\ nalloc \in Nat /\ nelem <= nalloc /\ nalloc <= MaxCells
  BY DEF CapacityInv, TypeOK, Capacity
<1>m. MaxCells \in Nat /\ IntMax \in Nat /\ MaxCells <= IntMax
  BY ArrayAssumption DEF NoWrap
<1>1. CASE nc_array_push
  <2>1. CASE nelem # nalloc /\ TakeElements(1) /\ UNCHANGED <<elems, nalloc, open>>
    <3>1. nelem + 1 <= nalloc /\ Wrap(nelem + 1) = nelem + 1
      BY <1>0, <1>m, <2>1, WrapNone
    <3> QED
      BY <2>1, <3>1 DEF TakeElements
  <2>2. CASE nelem = nalloc /\ Available(2 * nalloc) /\ elems' = Resize(2 * nalloc) /\
             nalloc' = Wrap(2 * nalloc) /\ TakeElements(1) /\ UNCHANGED open
    <3>1. 0 < 2 * nalloc /\ 2 * nalloc <= MaxCells
      BY <2>2 DEF Available
    <3>2. Wrap(2 * nalloc) = 2 * nalloc /\ Wrap(nelem + 1) = nelem + 1
      BY <1>0, <1>m, <2>2, <3>1, WrapNone
    <3>3. nelem + 1 <= 2 * nalloc
      BY <1>0, <2>2, <3>1
    <3>4. nalloc' = 2 * nalloc
      BY <2>2, <3>2
    <3> QED
      BY <1>0, <2>2, <3>1, <3>2, <3>3, <3>4 DEF TakeElements
  <2> QED
    BY <1>1, <2>1, <2>2 DEF nc_array_push
<1>2. ASSUME NEW n \in Counts, nc_array_push_n(n)
      PROVE  \/ Fail
             \/ /\ nelem' = nelem + n /\ given' = nelem + 1 .. nelem + n
                /\ ret' = OK /\ UNCHANGED open
                /\ \/ nelem + n <= nalloc /\ UNCHANGED <<elems, nalloc>>
                   \/ /\ nelem + n <= nalloc' /\ 2 * nalloc <= nalloc'
                      /\ nalloc' <= MaxCells /\ elems' = Resize(nalloc')
  <2>0. n \in Nat /\ n <= IntMax /\ n + MaxCells <= IntMax
    BY ArrayAssumption DEF NoWrap
  <2>1. Wrap(nelem + n) = nelem + n
    BY <1>0, <1>m, <2>0, WrapNone
  <2>2. CASE Wrap(nelem + n) <= nalloc /\ TakeElements(n) /\ UNCHANGED <<elems, nalloc, open>>
    BY <2>1, <2>2 DEF TakeElements
  <2>3. CASE Wrap(nelem + n) > nalloc /\ Available(Doubled(n)) /\
             elems' = Resize(Doubled(n)) /\ nalloc' = Doubled(n) /\
             TakeElements(n) /\ UNCHANGED open
    <3> DEFINE m == IF n >= nalloc THEN n ELSE nalloc
    <3>1. m \in 0 .. IntMax /\ n <= m /\ nalloc <= m
      BY <1>0, <1>m, <2>0
    <3>2. Doubled(n) = Wrap(2 * m)
      BY DEF Doubled
    <3> HIDE DEF m
    <3>3. 2 * m <= IntMax
      <4>1. 0 < Wrap(2 * m)
        BY <2>3, <3>2 DEF Available
      <4>2. Wrap(2 * m) \in Int
        BY <3>1, <1>m, WrapType
      <4>3. ASSUME 2 * m > IntMax PROVE FALSE
        BY <3>1, <4>1, <4>2, <4>3, WrapTwice
      <4> QED
        BY <3>1, <1>m, <4>3
    <3>4. Doubled(n) = 2 * m
      BY <1>m, <3>1, <3>2, <3>3, WrapNone
    <3>5. nalloc' = 2 * m /\ 2 * m <= MaxCells /\ elems' = Resize(nalloc')
      BY <2>3, <3>4 DEF Available
    <3>6. nelem + n <= 2 * m /\ 2 * nalloc <= 2 * m
      BY <1>0, <2>0, <3>1
    <3> QED
      BY <2>1, <2>3, <3>5, <3>6 DEF TakeElements
  <2> QED
    BY <1>2, <2>2, <2>3 DEF nc_array_push_n
<1>3. Counts \subseteq Nat
  BY ArrayAssumption
<1> QED
  BY <1>1, <1>2, <1>3

LEMMA NextCapacity == NoWrap /\ CapacityInv /\ [Next]_vars => CapacityInv'
<1> SUFFICES ASSUME NoWrap, CapacityInv, [Next]_vars PROVE CapacityInv'
  OBVIOUS
<1>0. TypeOK' /\ TypeOK
  BY NextTypeOK DEF CapacityInv
<1>i. /\ nelem \in Nat /\ nalloc \in Nat /\ nelem <= nalloc /\ nalloc <= MaxCells
      /\ given \subseteq 1 .. nelem /\ MaxCells \in Nat
  BY <1>0, ArrayAssumption DEF CapacityInv, TypeOK, Capacity
<1>s. IF open THEN elems \in Seq(Cell) /\ nalloc = Len(elems) ELSE nalloc = 0
  BY DEF CapacityInv, TypeOK, Capacity, Cell
<1> SUFFICES Capacity' /\ nalloc' <= MaxCells
  BY <1>0 DEF CapacityInv
<1>1. ASSUME NEW n \in Counts, nc_array_create(n) PROVE Capacity' /\ nalloc' <= MaxCells
  <2>1. n \in Nat
    BY ArrayAssumption
  <2>2. CASE Available(n) /\ open' = TRUE /\ elems' = Cells(n) /\ nelem' = 0 /\ nalloc' = n
    BY <1>1, <2>1, <2>2, CellsType DEF nc_array_create, Available, Capacity
  <2>3. CASE UNCHANGED <<open, elems, nelem, nalloc>>
    BY <1>1, <1>i, <1>s, <2>3 DEF nc_array_create, Capacity
  <2> QED
    BY <1>1, <2>2, <2>3 DEF nc_array_create
<1>2. CASE nc_array_destroy
  BY <1>2, <1>i DEF nc_array_destroy, Capacity
<1>3. CASE nc_array_push \/ \E n \in Counts : nc_array_push_n(n)
  <2>0. open /\ elems \in Seq(Cell) /\ nalloc = Len(elems)
    BY <1>3, <1>s DEF nc_array_push, nc_array_push_n
  <2>1. CASE Fail
    BY <1>i, <2>0, <2>1 DEF Fail, Capacity
  <2>2. ASSUME NEW n \in Nat, nelem' = nelem + n, given' = nelem + 1 .. nelem + n,
               UNCHANGED open, nelem + n <= nalloc, UNCHANGED <<elems, nalloc>>
        PROVE  Capacity' /\ nalloc' <= MaxCells
    BY <1>i, <2>0, <2>2 DEF Capacity
  <2>3. ASSUME NEW n \in Nat, nelem' = nelem + n, given' = nelem + 1 .. nelem + n,
               nelem + n <= nalloc', 2 * nalloc <= nalloc', nalloc' <= MaxCells,
               elems' = Resize(nalloc'), UNCHANGED open
        PROVE  Capacity' /\ nalloc' <= MaxCells
    <3>1. nalloc' \in Nat
      BY <1>0, <1>i, <2>3 DEF TypeOK
    <3>2. Len(elems') = nalloc'
      BY <2>0, <2>3, <3>1, ResizeType
    <3> QED
      BY <1>i, <2>0, <2>3, <3>1, <3>2 DEF Capacity
  <2> QED
    BY <1>3, <2>1, <2>2, <2>3, PushOutcome
<1>4. ASSUME NEW i \in given, NEW v \in Values, Write(i, v)
      PROVE  Capacity' /\ nalloc' <= MaxCells
  <2>0. open /\ elems \in Seq(Cell) /\ nalloc = Len(elems)
    BY <1>4, <1>s DEF Write
  <2>1. Len([elems EXCEPT ![i] = v]) = Len(elems)
    BY <2>0
  <2> QED
    BY <1>4, <1>i, <2>0, <2>1 DEF Write, Capacity
<1>5. CASE UNCHANGED vars
  BY <1>5, <1>i, <1>s DEF vars, Capacity
<1> QED
  BY <1>1, <1>2, <1>3, <1>4, <1>5 DEF Next

\* As long as no int wraps, a push's pointer leads to as many elements as were
\* asked for, all inside the buffer.
THEOREM ArrayCapacity ==
  ASSUME NoWrap
  PROVE  Spec => []Capacity
<1>1. CapacityInv => Capacity
  BY DEF CapacityInv
<1> QED
  BY <1>1, InitCapacity, NextCapacity, PTL DEF Spec

-----------------------------------------------------------------------------
(* The array implements the list                                           *)

Elements == [i \in 1 .. nelem |-> elems[i]]

LEMMA InitList == Init => List!Init
BY DEF Init, List!Init

LEMMA StepList ==
  ASSUME NoWrap, CapacityInv, [Next]_vars
  PROVE  [List!Next]_(List!vars)
<1>0. CapacityInv' /\ TypeOK'
  BY NextCapacity DEF CapacityInv
<1>i. /\ nelem \in Nat /\ nalloc \in Nat /\ nelem <= nalloc /\ given \subseteq 1 .. nelem
      /\ open => elems \in Seq(Cell) /\ nalloc = Len(elems)
  <2>1. nalloc \in Nat /\ nelem <= nalloc
    BY DEF CapacityInv, TypeOK, Capacity
  <2>2. nelem \in Nat /\ given \subseteq 1 .. nelem
    BY DEF CapacityInv, TypeOK, Capacity
  <2>3. open => elems \in Seq(Cell) /\ nalloc = Len(elems)
    BY DEF CapacityInv, TypeOK, Capacity, Cell
  <2> QED
    BY <2>1, <2>2, <2>3
<1>e. ASSUME nelem' = 0 PROVE Elements' = [i \in 1 .. 0 |-> Undef]
  BY <1>e DEF Elements
<1>f. ASSUME UNCHANGED <<elems, nelem>>, ret' = FAILED PROVE List!Next
  BY <1>f DEF List!Next, List!Fail
<1>1. ASSUME NEW n \in Counts, nc_array_create(n) PROVE List!Next
  <2>1. CASE nelem' = 0 /\ ret' = OK
    BY <1>e, <2>1 DEF List!Next, List!Empty, Elements
  <2>2. CASE ret' = FAILED /\ UNCHANGED <<open, elems, nelem, nalloc>>
    BY <1>f, <2>2
  <2> QED
    BY <1>1, <2>1, <2>2 DEF nc_array_create
<1>2. CASE nc_array_destroy
  BY <1>2, <1>e DEF nc_array_destroy, List!Next, List!Empty, Elements
<1>3. CASE nc_array_push \/ \E n \in Counts : nc_array_push_n(n)
  <2>0. elems \in Seq(Cell) /\ nalloc = Len(elems)
    BY <1>3, <1>i DEF nc_array_push, nc_array_push_n
  <2>1. CASE Fail
    BY <1>f, <2>1 DEF Fail
  <2>2. ASSUME NEW n \in Nat, nelem' = nelem + n, ret' = OK,
               \A i \in 1 .. nelem : elems'[i] = elems[i]
        PROVE  List!Next
    <3>1. DOMAIN Elements' = 1 .. nelem'
      BY DEF Elements
    <3>2. \A i \in 1 .. nelem : Elements'[i] = Elements[i]
      BY <1>i, <2>2 DEF Elements
    <3>3. nelem' >= nelem
      BY <1>i, <2>2
    <3> QED
      BY <2>2, <3>1, <3>2, <3>3 DEF List!Next, List!Extend, Elements
  <2>3. ASSUME NEW n \in Nat, elems' = Resize(nalloc'), 2 * nalloc <= nalloc'
        PROVE  \A i \in 1 .. nelem : elems'[i] = elems[i]
    <3>1. nalloc' \in Nat /\ nelem <= nalloc'
      BY <1>0, <1>i, <2>3 DEF CapacityInv, TypeOK, Capacity
    <3> QED
      BY <1>i, <2>0, <2>3, <3>1 DEF Resize
  <2> QED
    BY <1>3, <2>1, <2>2, <2>3, PushOutcome
<1>4. ASSUME NEW i \in given, NEW v \in Values, Write(i, v) PROVE List!Next
  <2>1. Elements' = [Elements EXCEPT ![i] = v]
    <3>1. \A j \in 1 .. nelem : elems'[j] = IF j = i THEN v ELSE elems[j]
      BY <1>4, <1>i DEF Write
    <3>2. nelem' = nelem
      BY <1>4 DEF Write
    <3> QED
      BY <1>4, <1>i, <3>1, <3>2 DEF Elements
  <2> QED
    BY <1>4, <1>i, <2>1 DEF Write, List!Next, List!Write, Elements
<1>5. CASE UNCHANGED vars
  BY <1>5 DEF vars, List!vars
<1> QED
  BY <1>1, <1>2, <1>3, <1>4, <1>5 DEF Next

\* As long as no int wraps, the array is a list that growing leaves alone.
THEOREM ArrayRefinesList ==
  ASSUME NoWrap
  PROVE  Spec => RefinesList
<1>1. CapacityInv /\ [Next]_vars => [List!Next]_(List!vars)
  BY StepList
<1> QED
  BY <1>1, InitList, InitCapacity, NextCapacity, PTL DEF Spec, RefinesList, List!Spec
=============================================================================
