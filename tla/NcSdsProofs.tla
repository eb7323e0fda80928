---------------------------- MODULE NcSdsProofs ----------------------------
(***************************************************************************)
(* As long as no int wraps, the header of a string accounts for every byte *)
(* of its buffer, and each call has the result its arguments ask for: for  *)
(* all texts, lengths and indexes.                                         *)
(***************************************************************************)
EXTENDS NcSds, NatSets, SequenceTheorems, TLAPS

Cell == Bytes \cup {Junk}

\* The invariant: what HeaderExact says, the types, and that the heap gave the buffer.
Good(s) ==
  /\ DOMAIN s = {"len", "free", "buf"}
  /\ s.len \in Nat /\ s.free \in Nat
  /\ s.buf \in Seq(Cell)
  /\ Len(s.buf) = s.len + s.free + 1 /\ Len(s.buf) <= MaxBytes
  /\ s.buf[s.len + 1] = 0
  /\ \A i \in 1 .. s.len : s.buf[i] \in Bytes

Inv == str # NULL => Good(str)

-----------------------------------------------------------------------------
(* Numbers and sequences                                                   *)

LEMMA WrapId ==
  ASSUME NEW x \in 0 .. IntMax
  PROVE  Wrap(x) = x
<1>1. IntMax \in Nat
  BY SdsAssumption
<1>2. x + IntMax + 1 \in 0 .. 2 * (IntMax + 1) - 1
  BY <1>1
<1>3. ((x + IntMax + 1) % (2 * (IntMax + 1))) = x + IntMax + 1
  BY <1>1, <1>2
<1> QED
  BY <1>1, <1>3 DEF Wrap

\* strlen stops at the first NUL or at the end.
LEMMA StrLenFirst ==
  ASSUME NEW S, NEW t \in Seq(S)
  PROVE  /\ StrLen(t) \in 0 .. Len(t)
         /\ \A i \in 1 .. StrLen(t) : t[i] # 0
         /\ StrLen(t) < Len(t) => t[StrLen(t) + 1] = 0
<1> DEFINE End(n) == /\ \A i \in 1 .. n : t[i] # 0
                     /\ n < Len(t) => t[n + 1] = 0
<1>1. \E n \in 0 .. Len(t) : End(n)
  <2> DEFINE Z == {i \in 1 .. Len(t) : t[i] = 0}
  <2>1. CASE Z = {}
    <3>1. \A i \in 1 .. Len(t) : t[i] # 0
      BY <2>1
    <3>2. End(Len(t))
      BY <3>1
    <3> QED
      BY <3>2
  <2>2. CASE Z # {}
    <3>0. Z \in SUBSET Nat
      OBVIOUS
    <3>1. PICK z \in Z : \A y \in Z : z <= y
      <4> HIDE DEF Z
      <4> QED
        BY <2>2, <3>0, LeastNumber
    <3>2. z \in 1 .. Len(t) /\ t[z] = 0
      BY <3>1
    <3>3. \A i \in 1 .. z - 1 : t[i] # 0
      BY <3>1, <3>2
    <3>4. End(z - 1) /\ z - 1 \in 0 .. Len(t)
      BY <3>2, <3>3
    <3> QED
      BY <3>4
  <2> QED
    BY <2>1, <2>2
<1>2. StrLen(t) = CHOOSE n \in 0 .. Len(t) : End(n)
  BY DEF StrLen
<1>3. StrLen(t) \in 0 .. Len(t) /\ End(StrLen(t))
  BY <1>1, <1>2
<1> QED
  BY <1>3

LEMMA CStringType ==
  ASSUME NEW S, NEW t \in Seq(S)
  PROVE  CString(t) \in Seq(S)
BY StrLenFirst, SubSeqProperties DEF CString

LEMMA WriteProperties ==
  ASSUME NEW buf \in Seq(Cell), NEW at \in Nat, NEW t \in Seq(Cell),
         at + Len(t) <= Len(buf)
  PROVE  /\ Write(buf, at, t) \in Seq(Cell)
         /\ Len(Write(buf, at, t)) = Len(buf)
         /\ \A i \in 1 .. Len(buf) :
              Write(buf, at, t)[i] =
                IF at < i /\ i <= at + Len(t) THEN t[i - at] ELSE buf[i]
<1>1. Len(buf) \in Nat /\ Len(t) \in Nat
  OBVIOUS
<1>2. Write(buf, at, t) = [i \in 1 .. Len(buf) |->
                             IF at < i /\ i <= at + Len(t) THEN t[i - at] ELSE buf[i]]
  BY <1>1 DEF Write
<1>3. \A i \in 1 .. Len(buf) :
        (IF at < i /\ i <= at + Len(t) THEN t[i - at] ELSE buf[i]) \in Cell
  <2> TAKE i \in 1 .. Len(buf)
  <2>1. CASE at < i /\ i <= at + Len(t)
    <3>1. i - at \in 1 .. Len(t)
      BY <1>1, <2>1
    <3> QED
      BY <2>1, <3>1
  <2>2. CASE ~(at < i /\ i <= at + Len(t))
    BY <2>2
  <2> QED
    BY <2>1, <2>2
<1> QED
  BY <1>1, <1>2, <1>3

\* The terminator put after a text.
LEMMA Terminated ==
  ASSUME NEW S, NEW t \in Seq(S), 0 \in S
  PROVE  /\ t \o <<0>> \in Seq(S) /\ Len(t \o <<0>>) = Len(t) + 1
         /\ \A i \in 1 .. Len(t) : (t \o <<0>>)[i] = t[i]
         /\ (t \o <<0>>)[Len(t) + 1] = 0
<1>1. <<0>> \in Seq(S) /\ Len(<<0>>) = 1 /\ <<0>>[1] = 0
  OBVIOUS
<1> QED
  BY <1>1, ConcatProperties

LEMMA ResizeProperties ==
  ASSUME NEW buf \in Seq(Cell), NEW n \in Nat
  PROVE  /\ Resize(buf, n) \in Seq(Cell) /\ Len(Resize(buf, n)) = n
         /\ \A i \in 1 .. n : i <= Len(buf) => Resize(buf, n)[i] = buf[i]
<1>1. \A i \in 1 .. n : (IF i <= Len(buf) THEN buf[i] ELSE Junk) \in Cell
  BY DEF Cell
<1> QED
  BY <1>1 DEF Resize

-----------------------------------------------------------------------------
(* What a call gives                                                       *)

LEMMA ConstantTypes ==
  /\ Bytes \subseteq Int /\ 0 \in Bytes /\ 0 \in Cell /\ Bytes \subseteq Cell /\ Junk \in Cell
  /\ Texts \subseteq Seq(Bytes) /\ Sizes \subseteq Nat /\ Indexes \subseteq Int
  /\ MaxBytes \in Nat /\ IntMax \in Nat /\ MaxPrealloc \in Nat
BY SdsAssumption DEF Cell

LEMMA CellTexts ==
  ASSUME NEW t \in Seq(Bytes)
  PROVE  t \in Seq(Cell) /\ Len(t) \in Nat
<1>1. Len(t) \in Nat /\ t \in [1 .. Len(t) -> Bytes]
  BY LenProperties
<1>2. t \in [1 .. Len(t) -> Cell]
  BY <1>1, ConstantTypes
<1> QED
  BY <1>1, <1>2

\* No field wraps in a string that the heap can give.
LEMMA StringGood ==
  ASSUME NoWrap, NEW l \in Nat, NEW f \in Nat, NEW b \in Seq(Cell),
         Len(b) = l + f + 1, Len(b) <= MaxBytes, b[l + 1] = 0,
         \A i \in 1 .. l : b[i] \in Bytes
  PROVE  /\ Good(String(l, f, b))
         /\ String(l, f, b) = [len |-> l, free |-> f, buf |-> b]
<1>1. l \in 0 .. IntMax /\ f \in 0 .. IntMax
  BY ConstantTypes DEF NoWrap
<1>2. String(l, f, b) = [len |-> l, free |-> f, buf |-> b]
  BY <1>1, WrapId DEF String
<1> QED
  BY <1>2 DEF Good

LEMMA GivenGood ==
  ASSUME NoWrap, NEW l \in Nat, NEW f \in Nat, NEW b \in Seq(Cell),
         Len(b) = l + f + 1, b[l + 1] = 0,
         \A i \in 1 .. l : b[i] \in Bytes,
         NEW r \in Given(String(l, f, b)), r # NULL
  PROVE  Good(r) /\ r.len = l /\ r.free = f /\ r.buf = b
<1>1. String(l, f, b).buf = b
  BY DEF String
<1>2. Len(b) <= MaxBytes /\ r = String(l, f, b)
  BY <1>1 DEF Given
<1> QED
  BY <1>2, StringGood

\* A text put at position at of the buffer and terminated, the length set to its end.
LEMMA WrittenGood ==
  ASSUME NoWrap, NEW s, Good(s), NEW at \in 0 .. s.len, NEW t \in Seq(Bytes),
         NEW l \in Nat, NEW f \in Nat, l = at + Len(t), l + f = s.len + s.free
  PROVE  Good(String(l, f, Write(s.buf, at, t \o <<0>>)))
<1> DEFINE b == Write(s.buf, at, t \o <<0>>)
<1>1. /\ s.len \in Nat /\ s.free \in Nat /\ s.buf \in Seq(Cell)
      /\ Len(s.buf) = s.len + s.free + 1 /\ Len(s.buf) <= MaxBytes
      /\ \A i \in 1 .. s.len : s.buf[i] \in Bytes
  BY DEF Good
<1>2. t \in Seq(Cell) /\ Len(t) \in Nat
  BY CellTexts
<1>3. /\ t \o <<0>> \in Seq(Cell) /\ Len(t \o <<0>>) = Len(t) + 1
      /\ \A i \in 1 .. Len(t) : (t \o <<0>>)[i] = t[i]
      /\ (t \o <<0>>)[Len(t) + 1] = 0
  BY <1>2, ConstantTypes, Terminated
<1>4. at + Len(t \o <<0>>) <= Len(s.buf) /\ at \in Nat
  BY <1>1, <1>2, <1>3
<1>5. /\ b \in Seq(Cell) /\ Len(b) = Len(s.buf)
      /\ \A i \in 1 .. Len(s.buf) :
           b[i] = IF at < i /\ i <= at + Len(t \o <<0>>) THEN (t \o <<0>>)[i - at] ELSE s.buf[i]
  <2>1. /\ s.buf \in Seq(Cell) /\ at \in Nat /\ t \o <<0>> \in Seq(Cell)
        /\ at + Len(t \o <<0>>) <= Len(s.buf)
    BY <1>1, <1>3, <1>4
  <2> QED
    BY <2>1, WriteProperties, Zenon
<1> HIDE DEF b
<1>6. b[l + 1] = 0
  <2>1. l + 1 \in 1 .. Len(s.buf) /\ at < l + 1 /\ l + 1 <= at + Len(t \o <<0>>)
        /\ l + 1 - at = Len(t) + 1
    BY <1>1, <1>2, <1>3, <1>4
  <2>2. b[l + 1] = (t \o <<0>>)[l + 1 - at]
    BY <1>5, <2>1
  <2> QED
    BY <1>3, <2>1, <2>2
<1>7. \A i \in 1 .. l : b[i] \in Bytes
  <2> SUFFICES ASSUME NEW i \in 1 .. l PROVE b[i] \in Bytes
    OBVIOUS
  <2>1. i \in 1 .. Len(s.buf)
    BY <1>1
  <2>2. CASE i <= at
    <3>1. b[i] = s.buf[i]
      BY <1>5, <2>1, <2>2, <1>4
    <3> QED
      BY <1>1, <2>2, <3>1
  <2>3. CASE at < i
    <3>1. i - at \in 1 .. Len(t) /\ i <= at + Len(t \o <<0>>)
      BY <1>2, <1>3, <1>4, <2>3
    <3>2. b[i] = t[i - at]
      BY <1>3, <1>5, <2>1, <2>3, <3>1
    <3> QED
      BY <3>1, <3>2
  <2> QED
    BY <2>2, <2>3, <1>4
<1>8. Good(String(l, f, b))
  BY <1>1, <1>5, <1>6, <1>7, StringGood
<1> QED
  BY <1>8 DEF b

\* Room is asked for what is needed, and more.
LEMMA PreallocatedEnough ==
  ASSUME NEW k \in Nat
  PROVE  Preallocated(k) \in Nat /\ Preallocated(k) >= k
<1>1. MaxPrealloc \in Nat
  BY ConstantTypes
<1>2. CASE k < MaxPrealloc
  BY <1>2 DEF Preallocated
<1>3. CASE ~(k < MaxPrealloc)
  BY <1>1, <1>3 DEF Preallocated
<1> QED
  BY <1>2, <1>3

\* The room asked for is there, and the string is as long as it was.
LEMMA MakeRoomGood ==
  ASSUME NoWrap, NEW s, Good(s), NEW n \in Nat,
         NEW r \in sdsMakeRoomFor(s, n), r # NULL
  PROVE  Good(r) /\ r.len = s.len /\ r.free >= n
<1>1. /\ s.len \in Nat /\ s.free \in Nat /\ s.buf \in Seq(Cell)
      /\ Len(s.buf) = s.len + s.free + 1 /\ s.buf[s.len + 1] = 0
      /\ \A i \in 1 .. s.len : s.buf[i] \in Bytes
  BY DEF Good
<1>2. CASE Avail(s, n)
  BY <1>1, <1>2 DEF sdsMakeRoomFor, Avail
<1>3. CASE ~Avail(s, n)
  <2> DEFINE m == Preallocated(s.len + n)
             b == Resize(s.buf, m + 1)
  <2>1. m \in Nat /\ m >= s.len + n
    <3>1. s.len \in Nat /\ s.len + n \in Nat
      BY <1>1
    <3> QED
      BY <3>1, PreallocatedEnough
  <2>2. r \in Given(String(s.len, m - s.len, b))
    BY <1>3 DEF sdsMakeRoomFor
  <2>3. /\ b \in Seq(Cell) /\ Len(b) = m + 1
        /\ \A i \in 1 .. m + 1 : i <= Len(s.buf) => b[i] = s.buf[i]
    <3> HIDE DEF m
    <3>1. m + 1 \in Nat
      BY <2>1
    <3> QED
      BY <1>1, <3>1, ResizeProperties
  <2> HIDE DEF b, m
  <2>9. s.len + 1 \in 1 .. m + 1 /\ s.len + 1 <= Len(s.buf)
    BY <1>1, <2>1
  <2>4. m - s.len \in Nat /\ m - s.len >= n /\ Len(b) = s.len + (m - s.len) + 1
    BY <1>1, <2>1, <2>3, SMTT(20)
  <2>5. b[s.len + 1] = 0
    BY <1>1, <2>3, <2>9
  <2>6. \A i \in 1 .. s.len : b[i] \in Bytes
    <3> SUFFICES ASSUME NEW i \in 1 .. s.len PROVE b[i] \in Bytes
      OBVIOUS
    <3>1. i \in 1 .. m + 1 /\ i <= Len(s.buf)
      BY <1>1, <2>1
    <3>2. b[i] = s.buf[i]
      BY <2>3, <3>1
    <3> QED
      BY <1>1, <3>2
  <2>7. Good(r) /\ r.len = s.len /\ r.free = m - s.len
    <3> DEFINE f == m - s.len
    <3>1. f \in Nat /\ Len(b) = s.len + f + 1 /\ r \in Given(String(s.len, f, b))
      BY <2>2, <2>4
    <3> HIDE DEF f
    <3> DEFINE l == s.len
    <3>4. /\ l \in Nat /\ b \in Seq(Cell) /\ Len(b) = l + f + 1 /\ b[l + 1] = 0
          /\ \A i \in 1 .. l : b[i] \in Bytes
          /\ r \in Given(String(l, f, b))
      BY <1>1, <2>3, <2>5, <2>6, <3>1
    <3> HIDE DEF l
    <3>5. Good(r) /\ r.len = l /\ r.free = f
      BY <3>1, <3>4, GivenGood
    <3>2. Good(r) /\ r.len = s.len /\ r.free = f
      BY <3>5 DEF l
    <3> QED
      BY <3>2 DEF f
  <2> QED
    BY <2>4, <2>7
<1> QED
  BY <1>2, <1>3

LEMMA AppendedGood ==
  ASSUME NoWrap, NEW s, Good(s), NEW t \in Seq(Bytes), s.free >= Len(t)
  PROVE  Good(Appended(s, t))
<1>1. /\ s.len \in Nat /\ s.free \in Nat /\ Len(t) \in Nat
  BY CellTexts DEF Good
<1>2. /\ s.len \in 0 .. s.len /\ s.len + Len(t) \in Nat /\ s.free - Len(t) \in Nat
      /\ (s.len + Len(t)) + (s.free - Len(t)) = s.len + s.free
  BY <1>1
<1> QED
  BY <1>2, WrittenGood DEF Appended

LEMMA CopiedGood ==
  ASSUME NoWrap, NEW s, Good(s), NEW t \in Seq(Bytes), s.len + s.free >= Len(t)
  PROVE  Good(Copied(s, t))
<1>1. /\ s.len \in Nat /\ s.free \in Nat /\ Len(t) \in Nat
  BY CellTexts DEF Good
<1>2. /\ 0 \in 0 .. s.len /\ s.len + s.free - Len(t) \in Nat /\ Len(t) = 0 + Len(t)
      /\ Len(t) + (s.len + s.free - Len(t)) = s.len + s.free
  BY <1>1
<1> QED
  BY <1>1, <1>2, WrittenGood DEF Copied

LEMMA GrownZeroGood ==
  ASSUME NoWrap, NEW s, Good(s), NEW n \in Nat, n > s.len, s.len + s.free >= n
  PROVE  Good(GrownZero(s, n))
<1> DEFINE t == Cells(n - s.len, 0)
<1>1. s.len \in Nat /\ s.free \in Nat
  BY DEF Good
<1>2. n - s.len \in Nat
  BY <1>1
<1>3. t \in Seq(Bytes) /\ Len(t) = n - s.len /\ \A i \in 1 .. n - s.len : t[i] = 0
  BY <1>2, ConstantTypes DEF Cells
<1>4. Cells(n - s.len + 1, 0) = t \o <<0>>
  <2>1. /\ Cells(n - s.len + 1, 0) \in Seq(Bytes) /\ Len(Cells(n - s.len + 1, 0)) = n - s.len + 1
        /\ \A i \in 1 .. n - s.len + 1 : Cells(n - s.len + 1, 0)[i] = 0
    BY <1>2, ConstantTypes DEF Cells
  <2> HIDE DEF t
  <2>2. /\ t \o <<0>> \in Seq(Bytes) /\ Len(t \o <<0>>) = n - s.len + 1
        /\ \A i \in 1 .. n - s.len : (t \o <<0>>)[i] = 0
        /\ (t \o <<0>>)[n - s.len + 1] = 0
    BY <1>3, ConstantTypes, Terminated
  <2>3. \A i \in 1 .. n - s.len + 1 : (t \o <<0>>)[i] = 0
    BY <1>2, <2>2
  <2> QED
    BY <2>1, <2>2, <2>3, SeqEqual
<1> HIDE DEF t
<1>5. /\ s.len \in 0 .. s.len /\ n = s.len + Len(t)
      /\ s.len + s.free - n \in Nat /\ n + (s.len + s.free - n) = s.len + s.free
  BY <1>1, <1>3, SMTT(20)
<1> QED
  BY <1>3, <1>4, <1>5, WrittenGood DEF GrownZero

LEMMA CutGood ==
  ASSUME NoWrap, NEW s, Good(s), NEW from \in Nat \ {0}, NEW n \in Nat,
         n # 0 => from + n - 1 <= s.len
  PROVE  Good(Cut(s, from, n))
<1> DEFINE t == SubSeq(s.buf, from, from + n - 1)
<1>1. /\ s.len \in Nat /\ s.free \in Nat /\ \A i \in 1 .. s.len : s.buf[i] \in Bytes
  BY DEF Good
<1>2. from + n - 1 \in Int /\ \A i \in from .. from + n - 1 : s.buf[i] \in Bytes
  <2>1. CASE n = 0
    BY <2>1
  <2>2. CASE n # 0
    BY <1>1, <2>2
  <2> QED
    BY <2>1, <2>2
<1>3. t \in Seq(Bytes) /\ Len(t) = (IF from <= from + n - 1 THEN (from + n - 1) - from + 1 ELSE 0)
  BY <1>2, SubSeqProperties
<1> HIDE DEF t
<1>4. Len(t) = n
  BY <1>3
<1>5. n <= s.len
  BY <1>1
<1>6. /\ 0 \in 0 .. s.len /\ n = 0 + Len(t)
      /\ s.free + (s.len - n) \in Nat /\ n + (s.free + (s.len - n)) = s.len + s.free
  BY <1>1, <1>4, <1>5
<1> QED
  BY <1>3, <1>6, WrittenGood DEF Cut, t

LEMMA ClearGood ==
  ASSUME NoWrap, NEW s, Good(s)
  PROVE  Good(sdsclear(s))
<1>1. s.len \in Nat /\ s.free \in Nat
  BY DEF Good
<1>2. <<>> \in Seq(Bytes) /\ Len(<<>>) = 0 /\ <<>> \o <<0>> = <<0>>
  OBVIOUS
<1>3. 0 \in 0 .. s.len /\ s.free + s.len \in Nat /\ 0 + (s.free + s.len) = s.len + s.free
  BY <1>1
<1>4. Good(String(0, s.free + s.len, Write(s.buf, 0, <<>> \o <<0>>)))
  <2> DEFINE t == <<>>
             f == s.free + s.len
  <2>1. t \in Seq(Bytes) /\ f \in Nat /\ 0 = 0 + Len(t) /\ 0 + f = s.len + s.free
    BY <1>2, <1>3
  <2> HIDE DEF t, f
  <2>2. Good(String(0, f, Write(s.buf, 0, t \o <<0>>)))
    BY <1>3, <2>1, WrittenGood
  <2> QED
    BY <2>2 DEF t, f
<1> QED
  BY <1>2, <1>4 DEF sdsclear

LEMMA NewGood ==
  ASSUME NoWrap, NEW n \in Nat, NEW t,
         t = NULL \/ (t \in Seq(Cell) /\ n <= Len(t) /\ \A i \in 1 .. n : t[i] \in Bytes),
         NEW r \in sdsnewlen(t, n), r # NULL
  PROVE  Good(r)
<1> DEFINE b == IF t = NULL THEN Cells(n + 1, 0)
                ELSE Write(Cells(n + 1, Junk), 0, SubSeq(t, 1, n) \o <<0>>)
<1>1. /\ b \in Seq(Cell) /\ Len(b) = n + 1 /\ b[n + 1] = 0
      /\ \A i \in 1 .. n : b[i] \in Bytes
  <2>1. CASE t = NULL
    BY <2>1, ConstantTypes DEF Cells
  <2>2. CASE t # NULL
    <3> DEFINE c == Cells(n + 1, Junk)
               u == SubSeq(t, 1, n)
    <3>1. c \in Seq(Cell) /\ Len(c) = n + 1
      BY ConstantTypes DEF Cells
    <3>2. u \in Seq(Bytes) /\ Len(u) = n
      <4>1. /\ u \in Seq(Bytes) /\ Len(u) = IF 1 <= n THEN n - 1 + 1 ELSE 0
        BY <2>2, SubSeqProperties
      <4> QED
        BY <4>1
    <3> HIDE DEF c, u
    <3>3. u \in Seq(Cell)
      BY <3>2, CellTexts
    <3>4. /\ u \o <<0>> \in Seq(Cell) /\ Len(u \o <<0>>) = n + 1
          /\ \A i \in 1 .. n : (u \o <<0>>)[i] = u[i]
          /\ (u \o <<0>>)[n + 1] = 0
      BY <3>2, <3>3, ConstantTypes, Terminated
    <3> DEFINE w == u \o <<0>>
    <3>5. /\ Write(c, 0, w) \in Seq(Cell) /\ Len(Write(c, 0, w)) = Len(c)
          /\ \A i \in 1 .. Len(c) : Write(c, 0, w)[i] =
               IF 0 < i /\ i <= 0 + Len(w) THEN w[i - 0] ELSE c[i]
      <4>1. w \in Seq(Cell) /\ 0 \in Nat /\ 0 + Len(w) <= Len(c)
        BY <3>1, <3>4
      <4> HIDE DEF w
      <4> QED
        BY <3>1, <4>1, WriteProperties
    <3>6. \A i \in 1 .. n + 1 : Write(c, 0, w)[i] = w[i]
      <4>1. Len(w) = n + 1
        BY <3>4
      <4> HIDE DEF w
      <4> QED
        BY <3>1, <3>5, <4>1
    <3>7. \A i \in 1 .. n : u[i] \in Bytes
      BY <3>2
    <3>8. b = Write(c, 0, u \o <<0>>)
      BY <2>2 DEF c, u
    <3>9. /\ w[n + 1] = 0
          /\ \A i \in 1 .. n : w[i] \in Bytes
      BY <3>4, <3>7
    <3> HIDE DEF w, b
    <3>10. b \in Seq(Cell) /\ Len(b) = n + 1
      BY <3>1, <3>5, <3>8 DEF w
    <3>11. \A i \in 1 .. n + 1 : b[i] = w[i]
      BY <3>6, <3>8 DEF w
    <3> QED
      BY <3>9, <3>10, <3>11
  <2> QED
    BY <2>1, <2>2
<1>2. r \in Given(String(n, 0, b))
  BY DEF sdsnewlen
<1> HIDE DEF b
<1>3. 0 \in Nat /\ Len(b) = n + 0 + 1
  BY <1>1
<1> QED
  BY <1>1, <1>2, <1>3, GivenGood

LEMMA NewTextGood ==
  ASSUME NoWrap, NEW t \in Seq(Bytes), NEW n \in 0 .. Len(t),
         NEW r \in sdsnewlen(t, n), r # NULL
  PROVE  Good(r)
<1>1. t \in Seq(Cell) /\ Len(t) \in Nat /\ n \in Nat /\ n <= Len(t)
  BY CellTexts
<1>2. \A i \in 1 .. n : t[i] \in Bytes
  BY <1>1
<1> QED
  BY <1>1, <1>2, NewGood

LEMMA NewZerosGood ==
  ASSUME NoWrap, NEW n \in Nat, NEW r \in sdsnewlen(NULL, n), r # NULL
  PROVE  Good(r)
BY NewGood

LEMMA DupGood ==
  ASSUME NoWrap, NEW s, Good(s), NEW r \in sdsdup(s), r # NULL
  PROVE  Good(r)
<1>1. /\ s.len \in Nat /\ s.buf \in Seq(Cell) /\ s.len <= Len(s.buf)
      /\ \A i \in 1 .. s.len : s.buf[i] \in Bytes
  BY DEF Good
<1> QED
  BY <1>1, NewGood DEF sdsdup

LEMMA CatLenGood ==
  ASSUME NoWrap, NEW s, Good(s), NEW t \in Seq(Bytes), NEW r \in sdscatlen(s, t), r # NULL
  PROVE  Good(r)
<1>1. PICK q \in sdsMakeRoomFor(s, Len(t)) : r = IF q = NULL THEN NULL ELSE Appended(q, t)
  BY DEF sdscatlen
<1>2. q # NULL /\ r = Appended(q, t)
  BY <1>1
<1>3. Good(q) /\ q.free >= Len(t)
  BY <1>1, <1>2, CellTexts, MakeRoomGood
<1> QED
  BY <1>2, <1>3, AppendedGood

LEMMA GrowZeroGood ==
  ASSUME NoWrap, NEW s, Good(s), NEW n \in Nat, NEW r \in sdsgrowzero(s, n), r # NULL
  PROVE  Good(r)
<1>1. CASE n <= s.len
  BY <1>1 DEF sdsgrowzero
<1>2. CASE ~(n <= s.len)
  <2>1. s.len \in Nat
    BY DEF Good
  <2>2. n - s.len \in Nat /\ n > s.len
    BY <1>2, <2>1
  <2>3. PICK q \in sdsMakeRoomFor(s, n - s.len) : r = IF q = NULL THEN NULL ELSE GrownZero(q, n)
    BY <1>2 DEF sdsgrowzero
  <2>4. q # NULL /\ r = GrownZero(q, n)
    BY <2>3
  <2>5. Good(q) /\ q.len = s.len /\ q.free >= n - s.len
    BY <2>2, <2>3, <2>4, MakeRoomGood
  <2>6. n > q.len /\ q.len + q.free >= n
    <3>1. q.free \in Nat
      BY <2>5 DEF Good
    <3> QED
      BY <2>1, <2>2, <2>5, <3>1
  <2> QED
    BY <2>4, <2>5, <2>6, GrownZeroGood
<1> QED
  BY <1>1, <1>2

LEMMA CpyLenGood ==
  ASSUME NoWrap, NEW s, Good(s), NEW t \in Seq(Bytes), NEW r \in sdscpylen(s, t), r # NULL
  PROVE  Good(r)
<1>1. s.len \in Nat /\ s.free \in Nat /\ Len(t) \in Nat
  BY CellTexts DEF Good
<1>2. CASE s.free + s.len >= Len(t)
  <2>1. r = Copied(s, t) /\ s.len + s.free >= Len(t)
    BY <1>1, <1>2 DEF sdscpylen
  <2> QED
    BY <2>1, CopiedGood
<1>3. CASE ~(s.free + s.len >= Len(t))
  <2>1. Len(t) - s.len \in Nat
    BY <1>1, <1>3
  <2>2. PICK q \in sdsMakeRoomFor(s, Len(t) - s.len) : r = IF q = NULL THEN NULL ELSE Copied(q, t)
    BY <1>3 DEF sdscpylen
  <2>3. q # NULL /\ r = Copied(q, t)
    BY <2>2
  <2>4. Good(q) /\ q.len = s.len /\ q.free >= Len(t) - s.len
    BY <2>1, <2>2, <2>3, MakeRoomGood
  <2>5. q.len + q.free >= Len(t)
    <3>1. q.free \in Nat
      BY <2>4 DEF Good
    <3> QED
      BY <1>1, <2>4, <3>1
  <2> QED
    BY <2>3, <2>4, <2>5, CopiedGood
<1> QED
  BY <1>2, <1>3

LEMMA PrintfGood ==
  ASSUME NoWrap, NEW s, Good(s), NEW t \in Seq(Bytes), NEW r \in sdscatvprintf(s, t), r # NULL
  PROVE  Good(r)
<1>1. PICK n \in Buffer(t) : r \in sdscat(s, Printed(t, n))
  <2> DEFINE D == UNION {sdscat(s, Printed(t, n)) : n \in Buffer(t)}
  <2>1. sdscatvprintf(s, t) = {NULL} \cup D
    BY DEF sdscatvprintf
  <2>2. r \in D
    <3> HIDE DEF D
    <3> QED
      BY <2>1
  <2> QED
    BY <2>2, Zenon
<1>2. n \in Nat /\ Len(t) \in Nat
  BY <1>1, CellTexts, SdsAssumption DEF Buffer, BufferSizes
<1>3. Printed(t, n) \in Seq(Bytes)
  <2> DEFINE m == IF Len(t) < n THEN Len(t) ELSE n - 1
  <2>1. m \in Int /\ \A i \in 1 .. m : t[i] \in Bytes
    BY <1>2
  <2> HIDE DEF m
  <2>2. SubSeq(t, 1, m) \in Seq(Bytes)
    BY <2>1, SubSeqProperties
  <2> QED
    BY <2>2 DEF Printed, m
<1>4. CString(Printed(t, n)) \in Seq(Bytes)
  BY <1>3, CStringType
<1> QED
  BY <1>1, <1>4, CatLenGood DEF sdscat

LEMMA RemoveFreeSpaceGood ==
  ASSUME NoWrap, NEW s, Good(s)
  PROVE  Good(sdsRemoveFreeSpace(s))
<1> DEFINE b == Resize(s.buf, s.len + 1)
<1>1. /\ s.len \in Nat /\ s.free \in Nat /\ s.buf \in Seq(Cell)
      /\ Len(s.buf) = s.len + s.free + 1 /\ Len(s.buf) <= MaxBytes /\ s.buf[s.len + 1] = 0
      /\ \A i \in 1 .. s.len : s.buf[i] \in Bytes
  BY DEF Good
<1>2. s.len + 1 \in Nat
  BY <1>1
<1>3. /\ b \in Seq(Cell) /\ Len(b) = s.len + 1
      /\ \A i \in 1 .. s.len + 1 : i <= Len(s.buf) => b[i] = s.buf[i]
  BY <1>1, <1>2, ResizeProperties
<1> HIDE DEF b
<1>4. \A i \in 1 .. s.len + 1 : b[i] = s.buf[i]
  BY <1>1, <1>3
<1>5. b[s.len + 1] = 0 /\ \A i \in 1 .. s.len : b[i] \in Bytes
  <2>1. s.len + 1 \in 1 .. s.len + 1 /\ \A i \in 1 .. s.len : i \in 1 .. s.len + 1
    BY <1>1
  <2> QED
    BY <1>1, <1>4, <2>1
<1>6. 0 \in Nat /\ Len(b) = s.len + 0 + 1 /\ Len(b) <= MaxBytes
  BY <1>1, <1>3, ConstantTypes
<1>7. Good(String(s.len, 0, b))
  BY <1>1, <1>3, <1>5, <1>6, StringGood
<1> QED
  BY <1>7 DEF sdsRemoveFreeSpace, b

\* What the client writes into the room is counted and terminated.
LEMMA ReadIntoGood ==
  ASSUME NoWrap, NEW s, Good(s), NEW t \in Seq(Bytes), s.free >= Len(t)
  PROVE  Good(sdsIncrLen([s EXCEPT !.buf = Write(@, s.len, t)], Len(t)))
<1> DEFINE c == Write(s.buf, s.len, t)
           l == s.len + Len(t)
           f == s.free - Len(t)
           b == Write(c, l, <<0>>)
<1>1. /\ DOMAIN s = {"len", "free", "buf"}
      /\ s.len \in Nat /\ s.free \in Nat /\ s.buf \in Seq(Cell)
      /\ Len(s.buf) = s.len + s.free + 1 /\ Len(s.buf) <= MaxBytes
      /\ \A i \in 1 .. s.len : s.buf[i] \in Bytes
  BY DEF Good
<1>2. t \in Seq(Cell) /\ Len(t) \in Nat
  BY CellTexts
<1>3. l \in Nat /\ f \in Nat /\ Len(s.buf) = l + f + 1 /\ s.len + Len(t) <= Len(s.buf)
  BY <1>1, <1>2
<1>4. /\ c \in Seq(Cell) /\ Len(c) = Len(s.buf)
      /\ \A i \in 1 .. Len(s.buf) :
           c[i] = IF s.len < i /\ i <= s.len + Len(t) THEN t[i - s.len] ELSE s.buf[i]
  BY <1>1, <1>2, <1>3, WriteProperties
<1> HIDE DEF c
<1>5. \A i \in 1 .. l : c[i] \in Bytes
  <2> SUFFICES ASSUME NEW i \in 1 .. l PROVE c[i] \in Bytes
    OBVIOUS
  <2>1. i \in 1 .. Len(s.buf) /\ i <= s.len + Len(t)
    BY <1>1, <1>3
  <2>2. CASE i <= s.len
    <3>1. c[i] = s.buf[i]
      BY <1>1, <1>4, <2>1, <2>2
    <3> QED
      BY <1>1, <2>2, <3>1
  <2>3. CASE s.len < i
    <3>1. i - s.len \in 1 .. Len(t)
      BY <1>1, <1>2, <2>1, <2>3
    <3>2. c[i] = t[i - s.len]
      BY <1>4, <2>1, <2>3
    <3> QED
      BY <3>1, <3>2
  <2> QED
    BY <1>1, <2>2, <2>3
<1>6. <<0>> \in Seq(Cell) /\ Len(<<0>>) = 1 /\ <<0>>[1] = 0
  BY ConstantTypes
<1>7. /\ b \in Seq(Cell) /\ Len(b) = Len(c)
      /\ \A i \in 1 .. Len(c) : b[i] = IF l < i /\ i <= l + Len(<<0>>) THEN <<0>>[i - l] ELSE c[i]
  <2>1. l + Len(<<0>>) <= Len(c)
    BY <1>3, <1>4, <1>6
  <2> HIDE DEF l
  <2> QED
    BY <1>3, <1>4, <1>6, <2>1, WriteProperties
<1> HIDE DEF b, l, f
<1>8. b[l + 1] = 0
  <2> DEFINE j == l + 1
  <2>1. j \in 1 .. Len(c) /\ l < j /\ j <= l + Len(<<0>>) /\ j - l = 1
    BY <1>3, <1>4, <1>6
  <2> HIDE DEF j
  <2>2. b[j] = <<0>>[1]
    BY <1>7, <2>1
  <2> QED
    BY <1>6, <2>2 DEF j
<1>9. \A i \in 1 .. l : b[i] \in Bytes
  <2> SUFFICES ASSUME NEW i \in 1 .. l PROVE b[i] \in Bytes
    OBVIOUS
  <2>1. i \in 1 .. Len(c) /\ ~(l < i)
    BY <1>3, <1>4
  <2>2. b[i] = c[i]
    BY <1>7, <2>1
  <2> QED
    BY <1>5, <2>2
<1>10. Len(b) = l + f + 1 /\ Len(b) <= MaxBytes
  BY <1>1, <1>3, <1>4, <1>7
<1>11. Good(String(l, f, b))
  BY <1>3, <1>7, <1>8, <1>9, <1>10, StringGood
<1> DEFINE q == [s EXCEPT !.buf = Write(@, s.len, t)]
<1>12. q.len = s.len /\ q.free = s.free /\ q.buf = c
  BY <1>1 DEF c
<1> HIDE DEF q
<1>13. Good(sdsIncrLen(q, Len(t)))
  BY <1>11, <1>12 DEF sdsIncrLen, b, l, f
<1> QED
  BY <1>13 DEF q

LEMMA TrimRightGood ==
  ASSUME NoWrap, NEW s, Good(s), NEW n \in 0 .. s.len
  PROVE  Good(sdsIncrLen(s, -n))
<1> DEFINE l == s.len + (-n)
           f == s.free - (-n)
           t == <<>>
<1>1. s.len \in Nat /\ s.free \in Nat
  BY DEF Good
<1>2. t \in Seq(Bytes) /\ Len(t) = 0 /\ t \o <<0>> = <<0>>
  OBVIOUS
<1>3. l \in 0 .. s.len /\ f \in Nat /\ l \in Nat /\ l = l + Len(t) /\ l + f = s.len + s.free
  BY <1>1, <1>2
<1> HIDE DEF l, f, t
<1>4. Good(String(l, f, Write(s.buf, l, t \o <<0>>)))
  BY <1>2, <1>3, WrittenGood
<1> QED
  BY <1>2, <1>4 DEF sdsIncrLen, l, f

LEMMA PokeGood ==
  ASSUME NEW s, Good(s), NEW i \in 1 .. s.len
  PROVE  Good([s EXCEPT !.buf[i] = 0])
<1>1. /\ DOMAIN s = {"len", "free", "buf"}
      /\ s.len \in Nat /\ s.free \in Nat /\ s.buf \in Seq(Cell)
      /\ Len(s.buf) = s.len + s.free + 1
      /\ \A j \in 1 .. s.len : s.buf[j] \in Bytes
  BY DEF Good
<1> DEFINE b == [s.buf EXCEPT ![i] = 0]
           q == [s EXCEPT !.buf = b]
<1>2. i \in 1 .. Len(s.buf) /\ s.len + 1 \in 1 .. Len(s.buf) /\ i # s.len + 1
  BY <1>1
<1>3. b \in Seq(Cell) /\ Len(b) = Len(s.buf) /\ b[i] = 0
      /\ \A j \in 1 .. Len(s.buf) : j # i => b[j] = s.buf[j]
  BY <1>1, <1>2, ConstantTypes
<1> HIDE DEF b
<1>4. DOMAIN q = {"len", "free", "buf"} /\ q.len = s.len /\ q.free = s.free /\ q.buf = b
  BY <1>1
<1> HIDE DEF q
<1>5. b[s.len + 1] = s.buf[s.len + 1]
  BY <1>2, <1>3
<1>6. \A j \in 1 .. s.len : b[j] \in Bytes
  <2> SUFFICES ASSUME NEW j \in 1 .. s.len PROVE b[j] \in Bytes
    OBVIOUS
  <2>1. j \in 1 .. Len(s.buf)
    BY <1>1
  <2> QED
    BY <1>1, <1>3, <2>1, ConstantTypes
<1>7. Good(q)
  BY <1>1, <1>3, <1>4, <1>5, <1>6 DEF Good
<1> QED
  BY <1>7 DEF q, b

\* The bytes of the string itself mapped, the rest of the buffer left alone.
LEMMA MappedGood ==
  ASSUME NEW s, Good(s), NEW f \in [Bytes -> Bytes]
  PROVE  Good(Mapped(s, f))
<1> DEFINE b == [i \in DOMAIN s.buf |-> IF i <= s.len THEN f[s.buf[i]] ELSE s.buf[i]]
           q == [s EXCEPT !.buf = b]
<1>1. /\ DOMAIN s = {"len", "free", "buf"}
      /\ s.len \in Nat /\ s.free \in Nat /\ s.buf \in Seq(Cell)
      /\ Len(s.buf) = s.len + s.free + 1
      /\ \A j \in 1 .. s.len : s.buf[j] \in Bytes
  BY DEF Good
<1>2. DOMAIN s.buf = 1 .. Len(s.buf) /\ Len(s.buf) \in Nat
  BY <1>1
<1>3. \A i \in 1 .. Len(s.buf) : (IF i <= s.len THEN f[s.buf[i]] ELSE s.buf[i]) \in Cell
  <2> TAKE i \in 1 .. Len(s.buf)
  <2>1. CASE i <= s.len
    <3>1. f[s.buf[i]] \in Bytes
      BY <1>1, <2>1
    <3> QED
      BY <2>1, <3>1, ConstantTypes
  <2>2. CASE ~(i <= s.len)
    BY <1>1, <2>2
  <2> QED
    BY <2>1, <2>2
<1>4. /\ b \in Seq(Cell) /\ Len(b) = Len(s.buf)
      /\ \A i \in 1 .. Len(s.buf) : b[i] = IF i <= s.len THEN f[s.buf[i]] ELSE s.buf[i]
  <2> DEFINE g(i) == IF i <= s.len THEN f[s.buf[i]] ELSE s.buf[i]
             n == Len(s.buf)
  <2>1. b = [i \in 1 .. n |-> g(i)]
    BY <1>2
  <2>2. \A i \in 1 .. n : g(i) \in Cell
    BY <1>3
  <2> HIDE DEF g, b, n
  <2>3. b \in [1 .. n -> Cell] /\ \A i \in 1 .. n : b[i] = g(i)
    BY <2>1, <2>2
  <2>4. n \in Nat
    BY <1>2 DEF n
  <2>5. b \in Seq(Cell) /\ Len(b) = n
    BY <2>3, <2>4
  <2> QED
    BY <2>3, <2>5 DEF g, n
<1> HIDE DEF b
<1>5. DOMAIN q = {"len", "free", "buf"} /\ q.len = s.len /\ q.free = s.free /\ q.buf = b
  BY <1>1
<1>6. Mapped(s, f) = q
  BY DEF Mapped, b
<1> HIDE DEF q
<1>7. b[s.len + 1] = s.buf[s.len + 1]
  <2>1. s.len + 1 \in 1 .. Len(s.buf) /\ ~(s.len + 1 <= s.len)
    BY <1>1
  <2> QED
    BY <1>4, <2>1
<1>8. \A j \in 1 .. s.len : b[j] \in Bytes
  <2> SUFFICES ASSUME NEW j \in 1 .. s.len PROVE b[j] \in Bytes
    OBVIOUS
  <2>1. j \in 1 .. Len(s.buf) /\ j <= s.len
    BY <1>1
  <2>2. b[j] = f[s.buf[j]]
    BY <1>4, <2>1
  <2> QED
    BY <1>1, <2>2
<1>9. Good(q)
  BY <1>1, <1>4, <1>5, <1>7, <1>8 DEF Good
<1> QED
  BY <1>6, <1>9

LEMMA LowerGood ==
  ASSUME NEW s, Good(s)
  PROVE  Good(sdstolower(s))
<1>1. [b \in Bytes |-> IF b \in 65 .. 90 THEN b + 32 ELSE b] \in [Bytes -> Bytes]
  BY SdsAssumption
<1> QED
  BY <1>1, MappedGood DEF sdstolower

LEMMA UpperGood ==
  ASSUME NEW s, Good(s)
  PROVE  Good(sdstoupper(s))
<1>1. [b \in Bytes |-> IF b \in 97 .. 122 THEN b - 32 ELSE b] \in [Bytes -> Bytes]
  BY SdsAssumption
<1> QED
  BY <1>1, MappedGood DEF sdstoupper

LEMMA TranslatedType ==
  ASSUME NEW m \in CharMaps, NEW b \in Bytes
  PROVE  Translated(m, b) \in Bytes
<1>1. m.from \in Seq(Bytes) /\ m.to \in Seq(Bytes) /\ Len(m.from) = Len(m.to)
  BY SdsAssumption
<1>2. DOMAIN m.from = 1 .. Len(m.from) /\ Len(m.from) \in Nat
  BY <1>1
<1>3. CASE b \notin {m.from[i] : i \in DOMAIN m.from}
  BY <1>3 DEF Translated
<1>4. CASE b \in {m.from[i] : i \in DOMAIN m.from}
  <2> DEFINE S == {i \in DOMAIN m.from : m.from[i] = b}
             First(i) == m.from[i] = b /\ \A j \in 1 .. i - 1 : m.from[j] # b
  <2>1. S # {} /\ S \in SUBSET Nat
    BY <1>2, <1>4
  <2>2. PICK i \in S : \A j \in S : i <= j
    <3> HIDE DEF S
    <3> QED
      BY <2>1, LeastNumber
  <2>3. i \in DOMAIN m.from /\ First(i)
    <3>1. i \in 1 .. Len(m.from) /\ m.from[i] = b
      BY <1>2, <2>2
    <3>2. \A j \in 1 .. i - 1 : m.from[j] # b
      <4> SUFFICES ASSUME NEW j \in 1 .. i - 1, m.from[j] = b PROVE FALSE
        OBVIOUS
      <4>1. j \in S
        BY <1>2, <3>1
      <4> QED
        BY <2>2, <3>1, <4>1
    <3> QED
      BY <1>2, <3>1, <3>2
  <2>4. (CHOOSE k \in DOMAIN m.from : First(k)) \in DOMAIN m.from
    <3> HIDE DEF First
    <3> QED
      BY <2>3
  <2>5. Translated(m, b) = m.to[CHOOSE k \in DOMAIN m.from : First(k)]
    BY <1>4 DEF Translated
  <2> DEFINE k == CHOOSE k \in DOMAIN m.from : First(k)
  <2> HIDE DEF k
  <2>6. k \in 1 .. Len(m.to) /\ Translated(m, b) = m.to[k]
    BY <1>1, <1>2, <2>4, <2>5 DEF k
  <2> QED
    BY <1>1, <2>6
<1> QED
  BY <1>3, <1>4

LEMMA MapCharsGood ==
  ASSUME NEW s, Good(s), NEW m \in CharMaps
  PROVE  Good(sdsmapchars(s, m))
<1>1. [b \in Bytes |-> Translated(m, b)] \in [Bytes -> Bytes]
  BY TranslatedType
<1> QED
  BY <1>1, MappedGood DEF sdsmapchars

\* strlen finds a terminator at the end of the string at the latest.
LEMMA UpdateLenGood ==
  ASSUME NoWrap, NEW s, Good(s)
  PROVE  Good(sdsupdatelen(s))
<1> DEFINE l == StrLen(s.buf)
           f == s.free + (s.len - l)
<1>1. /\ s.len \in Nat /\ s.free \in Nat /\ s.buf \in Seq(Cell)
      /\ Len(s.buf) = s.len + s.free + 1 /\ Len(s.buf) <= MaxBytes /\ s.buf[s.len + 1] = 0
      /\ \A i \in 1 .. s.len : s.buf[i] \in Bytes
  BY DEF Good
<1>2. /\ l \in 0 .. Len(s.buf)
      /\ \A i \in 1 .. l : s.buf[i] # 0
      /\ l < Len(s.buf) => s.buf[l + 1] = 0
  BY <1>1, StrLenFirst
<1> HIDE DEF l
<1>3. l <= s.len
  <2>1. s.len + 1 \notin 1 .. l
    BY <1>1, <1>2
  <2>2. s.len + 1 \in Nat /\ 1 <= s.len + 1 /\ l \in Nat
    BY <1>1, <1>2
  <2> QED
    BY <1>1, <2>1, <2>2
<1>4. l \in Nat /\ f \in Nat /\ Len(s.buf) = l + f + 1 /\ l < Len(s.buf)
  <2>1. l \in Nat /\ s.len - l \in Nat
    BY <1>1, <1>2, <1>3
  <2> QED
    BY <1>1, <1>3, <2>1
<1>5. \A i \in 1 .. l : s.buf[i] \in Bytes
  <2>1. \A i \in 1 .. l : i \in 1 .. s.len
    BY <1>1, <1>2, <1>3
  <2> QED
    BY <1>1, <2>1
<1> HIDE DEF f
<1>6. Good(String(l, f, s.buf))
  BY <1>1, <1>2, <1>4, <1>5, StringGood
<1> QED
  BY <1>6 DEF sdsupdatelen, f, l

LEMMA TrimGood ==
  ASSUME NoWrap, NEW s, Good(s), NEW cset, NEW r \in sdstrim(s, cset)
  PROVE  Good(r)
<1>1. PICK e \in TrimEnds(s, cset) : r = Cut(s, e[1], IF e[1] > e[2] THEN 0 ELSE e[2] - e[1] + 1)
  BY DEF sdstrim
<1> DEFINE n == IF e[1] > e[2] THEN 0 ELSE e[2] - e[1] + 1
<1>2. s.len \in Nat
  BY DEF Good
<1>3. e[1] \in 1 .. s.len + 1 /\ e[2] \in 0 .. s.len
  BY <1>1 DEF TrimEnds
<1>4. e[1] \in Nat \ {0} /\ n \in Nat /\ (n # 0 => e[1] + n - 1 <= s.len)
  BY <1>2, <1>3
<1> HIDE DEF n
<1>5. Good(Cut(s, e[1], n))
  BY <1>4, CutGood
<1> QED
  BY <1>1, <1>5 DEF n

LEMMA RangeGood ==
  ASSUME NoWrap, NEW s, Good(s), NEW i \in Int, NEW j \in Int
  PROVE  Good(sdsrange(s, i, j))
<1> DEFINE first == FromEnd(s, i)
           last == FromEnd(s, j)
           n == RangeLen(s, first, last)
<1>1. s.len \in Nat
  BY DEF Good
<1>2. first \in Nat /\ last \in Nat
  BY <1>1 DEF FromEnd
<1> HIDE DEF first, last
<1>3. n \in Nat /\ (n # 0 => (first + 1) + n - 1 <= s.len) /\ first + 1 \in Nat \ {0}
  BY <1>1, <1>2 DEF RangeLen
<1> HIDE DEF n
<1>4. Good(Cut(s, first + 1, n))
  BY <1>3, CutGood
<1>5. sdsrange(s, i, j) = IF s.len = 0 THEN s ELSE Cut(s, first + 1, n)
  BY DEF sdsrange, first, last, n
<1> QED
  BY <1>4, <1>5

-----------------------------------------------------------------------------
(* The bytes that a call gives                                             *)

LEMMA ContentProperties ==
  ASSUME NEW s, Good(s)
  PROVE  /\ Content(s) \in Seq(Bytes) /\ Len(Content(s)) = s.len /\ s.len \in Nat
         /\ \A i \in 1 .. s.len : Content(s)[i] = s.buf[i]
<1>1. s.len \in Nat /\ \A i \in 1 .. s.len : s.buf[i] \in Bytes
  BY DEF Good
<1>2. s.len \in Int /\ (s.len = 0 => ~(1 <= s.len))
  BY <1>1
<1> QED
  BY <1>1, <1>2, SubSeqProperties DEF Content

\* Two strings of the same bytes have the same content, whatever else their buffers hold.
LEMMA SameContent ==
  ASSUME NEW s, Good(s), NEW c \in Seq(Bytes), Len(c) = s.len,
         \A i \in 1 .. s.len : s.buf[i] = c[i]
  PROVE  Content(s) = c
<1>1. /\ Content(s) \in Seq(Bytes) /\ Len(Content(s)) = Len(c)
      /\ \A i \in 1 .. Len(c) : Content(s)[i] = c[i]
  BY ContentProperties
<1> QED
  BY <1>1, SeqEqual

\* What stands before position at is kept, the text follows it.
LEMMA WrittenContent ==
  ASSUME NoWrap, NEW s, Good(s), NEW at \in 0 .. s.len, NEW t \in Seq(Bytes),
         NEW l \in Nat, NEW f \in Nat, l = at + Len(t), l + f = s.len + s.free
  PROVE  Content(String(l, f, Write(s.buf, at, t \o <<0>>))) = SubSeq(Content(s), 1, at) \o t
<1> DEFINE b == Write(s.buf, at, t \o <<0>>)
           q == String(l, f, b)
           h == SubSeq(Content(s), 1, at)
           c == h \o t
<1>1. /\ s.len \in Nat /\ s.free \in Nat /\ s.buf \in Seq(Cell)
      /\ Len(s.buf) = s.len + s.free + 1 /\ Len(s.buf) <= MaxBytes
  BY DEF Good
<1>2. t \in Seq(Cell) /\ Len(t) \in Nat
  BY CellTexts
<1>3. /\ t \o <<0>> \in Seq(Cell) /\ Len(t \o <<0>>) = Len(t) + 1
      /\ \A i \in 1 .. Len(t) : (t \o <<0>>)[i] = t[i]
  BY <1>2, ConstantTypes, Terminated
<1>4. at + Len(t \o <<0>>) <= Len(s.buf) /\ at \in Nat
  BY <1>1, <1>2, <1>3
<1>5. /\ b \in Seq(Cell) /\ Len(b) = Len(s.buf)
      /\ \A i \in 1 .. Len(s.buf) :
           b[i] = IF at < i /\ i <= at + Len(t \o <<0>>) THEN (t \o <<0>>)[i - at] ELSE s.buf[i]
  <2>1. /\ s.buf \in Seq(Cell) /\ at \in Nat /\ t \o <<0>> \in Seq(Cell)
        /\ at + Len(t \o <<0>>) <= Len(s.buf)
    BY <1>1, <1>3, <1>4
  <2> QED
    BY <2>1, WriteProperties, Zenon
<1>6. Good(q)
  BY WrittenGood
<1> HIDE DEF b
<1>7. q.len = l /\ q.buf = b
  <2>1. l \in 0 .. IntMax
    BY <1>1, ConstantTypes DEF NoWrap
  <2> QED
    BY <2>1, WrapId DEF String
<1>8. /\ h \in Seq(Bytes) /\ Len(h) = at
      /\ \A i \in 1 .. at : h[i] = s.buf[i]
  <2>1. /\ Content(s) \in Seq(Bytes) /\ Len(Content(s)) = s.len
        /\ \A i \in 1 .. s.len : Content(s)[i] = s.buf[i]
    BY ContentProperties
  <2>2. at \in Int /\ \A i \in 1 .. at : Content(s)[i] \in Bytes
    BY <1>1, <2>1
  <2>3. /\ h \in Seq(Bytes) /\ Len(h) = IF 1 <= at THEN at - 1 + 1 ELSE 0
        /\ \A i \in 1 .. at - 1 + 1 : h[i] = Content(s)[1 + i - 1]
    BY <2>2, SubSeqProperties
  <2> HIDE DEF h
  <2>4. \A i \in 1 .. at : i \in 1 .. at - 1 + 1 /\ 1 + i - 1 = i /\ i \in 1 .. s.len
    BY <1>1, <1>4
  <2> QED
    BY <1>4, <2>1, <2>3, <2>4
<1> HIDE DEF q, h
<1>9. /\ c \in Seq(Bytes) /\ Len(c) = at + Len(t)
      /\ \A i \in 1 .. at : c[i] = h[i]
      /\ \A i \in 1 .. Len(t) : c[at + i] = t[i]
  <2>1. /\ c \in Seq(Bytes) /\ Len(c) = Len(h) + Len(t)
        /\ \A i \in 1 .. Len(h) + Len(t) :
             c[i] = IF i <= Len(h) THEN h[i] ELSE t[i - Len(h)]
    BY <1>8, ConcatProperties
  <2> HIDE DEF c
  <2>2. /\ \A i \in 1 .. at : i \in 1 .. at + Len(t) /\ i <= at
        /\ \A i \in 1 .. Len(t) : at + i \in 1 .. at + Len(t) /\ ~(at + i <= at) /\ (at + i) - at = i
    BY <1>2, <1>4
  <2> QED
    BY <1>8, <2>1, <2>2
<1> HIDE DEF c
<1>10. \A i \in 1 .. l : b[i] = c[i]
  <2> SUFFICES ASSUME NEW i \in 1 .. l PROVE b[i] = c[i]
    OBVIOUS
  <2>1. i \in 1 .. Len(s.buf)
    BY <1>1
  <2>2. CASE i <= at
    <3>1. i \in 1 .. at /\ ~(at < i)
      BY <1>4, <2>2
    <3>2. b[i] = s.buf[i]
      BY <1>5, <2>1, <3>1
    <3> QED
      BY <1>8, <1>9, <3>1, <3>2
  <2>3. CASE at < i
    <3> DEFINE j == i - at
    <3>1. j \in 1 .. Len(t) /\ at + j = i /\ i <= at + Len(t \o <<0>>)
      BY <1>2, <1>3, <1>4, <2>3
    <3>2. b[i] = (t \o <<0>>)[j]
      BY <1>5, <2>1, <2>3, <3>1
    <3> HIDE DEF j
    <3>3. (t \o <<0>>)[j] = t[j] /\ c[at + j] = t[j]
      BY <1>3, <1>9, <3>1
    <3> QED
      BY <3>1, <3>2, <3>3
  <2> QED
    BY <2>2, <2>3, <1>4
<1>11. Content(q) = c
  BY <1>6, <1>7, <1>9, <1>10, SameContent
<1> QED
  BY <1>11 DEF q, b, c, h

\* The beginning of a sequence that is the whole of it, and the one that is empty.
LEMMA WholeAndNone ==
  ASSUME NEW S, NEW c \in Seq(S)
  PROVE  /\ SubSeq(c, 1, Len(c)) = c /\ SubSeq(c, 1, 0) = <<>>
         /\ c \o <<>> = c /\ <<>> \o c = c
<1>1. SubSeq(c, 1, Len(c)) = c
  <2>1. Len(c) \in Nat /\ \A i \in 1 .. Len(c) : c[i] \in S
    OBVIOUS
  <2>2. /\ SubSeq(c, 1, Len(c)) \in Seq(S)
        /\ Len(SubSeq(c, 1, Len(c))) = IF 1 <= Len(c) THEN Len(c) - 1 + 1 ELSE 0
        /\ \A i \in 1 .. Len(c) - 1 + 1 : SubSeq(c, 1, Len(c))[i] = c[1 + i - 1]
    BY <2>1, SubSeqProperties
  <2>3. Len(SubSeq(c, 1, Len(c))) = Len(c) /\ \A i \in 1 .. Len(c) : SubSeq(c, 1, Len(c))[i] = c[i]
    BY <2>1, <2>2
  <2> QED
    BY <2>2, <2>3, SeqEqual
<1>2. SubSeq(c, 1, 0) = <<>>
  BY SubSeqEmpty
<1> QED
  BY <1>1, <1>2, ConcatEmptySeq

LEMMA MakeRoomContent ==
  ASSUME NoWrap, NEW s, Good(s), NEW n \in Nat,
         NEW r \in sdsMakeRoomFor(s, n), r # NULL
  PROVE  Content(r) = Content(s)
<1>1. s.len \in Nat /\ s.buf \in Seq(Cell) /\ Len(s.buf) = s.len + s.free + 1 /\ s.free \in Nat
  BY DEF Good
<1>2. CASE Avail(s, n)
  BY <1>2 DEF sdsMakeRoomFor
<1>3. CASE ~Avail(s, n)
  <2> DEFINE m == Preallocated(s.len + n)
             b == Resize(s.buf, m + 1)
  <2>1. m \in Nat /\ m >= s.len + n
    <3>1. s.len \in Nat /\ s.len + n \in Nat
      BY <1>1
    <3> QED
      BY <3>1, PreallocatedEnough
  <2>2. r \in Given(String(s.len, m - s.len, b))
    BY <1>3 DEF sdsMakeRoomFor
  <2>3. r.buf = b
    <3> HIDE DEF m, b
    <3> QED
      BY <2>2 DEF Given, String
  <2>4. \A i \in 1 .. m + 1 : i <= Len(s.buf) => b[i] = s.buf[i]
    <3> HIDE DEF m
    <3>1. m + 1 \in Nat
      BY <2>1
    <3> QED
      BY <1>1, <3>1, ResizeProperties
  <2> HIDE DEF m, b
  <2>5. \A i \in 1 .. s.len : r.buf[i] = s.buf[i]
    <3>1. \A i \in 1 .. s.len : i \in 1 .. m + 1 /\ i <= Len(s.buf)
      BY <1>1, <2>1
    <3> QED
      BY <2>3, <2>4, <3>1
  <2>6. Good(r) /\ r.len = s.len
    BY MakeRoomGood
  <2>7. /\ Content(s) \in Seq(Bytes) /\ Len(Content(s)) = s.len
        /\ \A i \in 1 .. s.len : Content(s)[i] = s.buf[i]
    BY ContentProperties
  <2> QED
    BY <2>5, <2>6, <2>7, SameContent
<1> QED
  BY <1>2, <1>3

LEMMA AppendedContent ==
  ASSUME NoWrap, NEW s, Good(s), NEW t \in Seq(Bytes), s.free >= Len(t)
  PROVE  Content(Appended(s, t)) = Content(s) \o t
<1>1. /\ s.len \in Nat /\ s.free \in Nat /\ Len(t) \in Nat
  BY CellTexts DEF Good
<1>2. /\ s.len \in 0 .. s.len /\ s.len + Len(t) \in Nat /\ s.free - Len(t) \in Nat
      /\ (s.len + Len(t)) + (s.free - Len(t)) = s.len + s.free
  BY <1>1
<1>3. Content(Appended(s, t)) = SubSeq(Content(s), 1, s.len) \o t
  BY <1>2, WrittenContent DEF Appended
<1>4. SubSeq(Content(s), 1, s.len) = Content(s)
  BY ContentProperties, WholeAndNone
<1> QED
  BY <1>3, <1>4

LEMMA CatLenContent ==
  ASSUME NoWrap, NEW s, Good(s), NEW t \in Seq(Bytes), NEW r \in sdscatlen(s, t), r # NULL
  PROVE  Content(r) = Content(s) \o t
<1>1. PICK q \in sdsMakeRoomFor(s, Len(t)) : r = IF q = NULL THEN NULL ELSE Appended(q, t)
  BY DEF sdscatlen
<1>2. q # NULL /\ r = Appended(q, t)
  BY <1>1
<1>3. Good(q) /\ q.free >= Len(t) /\ Content(q) = Content(s)
  BY <1>1, <1>2, CellTexts, MakeRoomGood, MakeRoomContent
<1>4. Content(r) = Content(q) \o t
  BY <1>2, <1>3, AppendedContent
<1> QED
  BY <1>3, <1>4

LEMMA CopiedContent ==
  ASSUME NoWrap, NEW s, Good(s), NEW t \in Seq(Bytes), s.len + s.free >= Len(t)
  PROVE  Content(Copied(s, t)) = t
<1>1. /\ s.len \in Nat /\ s.free \in Nat /\ Len(t) \in Nat
  BY CellTexts DEF Good
<1>2. /\ 0 \in 0 .. s.len /\ s.len + s.free - Len(t) \in Nat /\ Len(t) = 0 + Len(t)
      /\ Len(t) + (s.len + s.free - Len(t)) = s.len + s.free
  BY <1>1
<1>3. Content(Copied(s, t)) = SubSeq(Content(s), 1, 0) \o t
  BY <1>1, <1>2, WrittenContent DEF Copied
<1>4. SubSeq(Content(s), 1, 0) = <<>> /\ <<>> \o t = t
  BY ContentProperties, WholeAndNone
<1> QED
  BY <1>3, <1>4

LEMMA CpyLenContent ==
  ASSUME NoWrap, NEW s, Good(s), NEW t \in Seq(Bytes), NEW r \in sdscpylen(s, t), r # NULL
  PROVE  Content(r) = t
<1>1. s.len \in Nat /\ s.free \in Nat /\ Len(t) \in Nat
  BY CellTexts DEF Good
<1>2. CASE s.free + s.len >= Len(t)
  <2>1. r = Copied(s, t) /\ s.len + s.free >= Len(t)
    BY <1>1, <1>2 DEF sdscpylen
  <2> QED
    BY <2>1, CopiedContent
<1>3. CASE ~(s.free + s.len >= Len(t))
  <2>1. Len(t) - s.len \in Nat
    BY <1>1, <1>3
  <2>2. PICK q \in sdsMakeRoomFor(s, Len(t) - s.len) : r = IF q = NULL THEN NULL ELSE Copied(q, t)
    BY <1>3 DEF sdscpylen
  <2>3. q # NULL /\ r = Copied(q, t)
    BY <2>2
  <2>4. Good(q) /\ q.len = s.len /\ q.free >= Len(t) - s.len
    BY <2>1, <2>2, <2>3, MakeRoomGood
  <2>5. q.len + q.free >= Len(t)
    <3>1. q.free \in Nat
      BY <2>4 DEF Good
    <3> QED
      BY <1>1, <2>4, <3>1
  <2> QED
    BY <2>3, <2>4, <2>5, CopiedContent
<1> QED
  BY <1>2, <1>3

LEMMA PieceProperties ==
  ASSUME NEW S, NEW c \in Seq(S), NEW from \in Nat \ {0}, NEW n \in Nat,
         n # 0 => from + n - 1 <= Len(c)
  PROVE  /\ SubSeq(c, from, from + n - 1) \in Seq(S)
         /\ Len(SubSeq(c, from, from + n - 1)) = n
         /\ \A i \in 1 .. n : SubSeq(c, from, from + n - 1)[i] = c[from + i - 1]
<1> DEFINE to == from + n - 1
<1>1. Len(c) \in Nat /\ \A i \in 1 .. Len(c) : c[i] \in S
  OBVIOUS
<1>2. to \in Int /\ to - from + 1 = n /\ (from <= to <=> n # 0)
  OBVIOUS
<1>3. \A i \in from .. to : c[i] \in S
  BY <1>1, <1>2
<1> HIDE DEF to
<1>4. /\ SubSeq(c, from, to) \in Seq(S)
      /\ Len(SubSeq(c, from, to)) = IF from <= to THEN to - from + 1 ELSE 0
      /\ \A i \in 1 .. to - from + 1 : SubSeq(c, from, to)[i] = c[from + i - 1]
  BY <1>2, <1>3, SubSeqProperties
<1>5. Len(SubSeq(c, from, to)) = n
  BY <1>2, <1>4
<1> QED
  BY <1>2, <1>4, <1>5 DEF to

LEMMA FrontProperties ==
  ASSUME NEW S, NEW c \in Seq(S), NEW n \in 0 .. Len(c)
  PROVE  /\ SubSeq(c, 1, n) \in Seq(S) /\ Len(SubSeq(c, 1, n)) = n
         /\ \A i \in 1 .. n : SubSeq(c, 1, n)[i] = c[i]
<1>1. Len(c) \in Nat /\ 1 + n - 1 = n /\ \A i \in 1 .. n : 1 + i - 1 = i
  OBVIOUS
<1>2. /\ SubSeq(c, 1, 1 + n - 1) \in Seq(S) /\ Len(SubSeq(c, 1, 1 + n - 1)) = n
      /\ \A i \in 1 .. n : SubSeq(c, 1, 1 + n - 1)[i] = c[1 + i - 1]
  BY <1>1, PieceProperties
<1> QED
  BY <1>1, <1>2

LEMMA ZerosProperties ==
  ASSUME NEW n \in Nat
  PROVE  /\ Cells(n, 0) \in Seq(Bytes) /\ Len(Cells(n, 0)) = n
         /\ \A i \in 1 .. n : Cells(n, 0)[i] = 0
         /\ Cells(n, 0) = Abstract!Zeros(n)
BY ConstantTypes DEF Cells, Abstract!Zeros

LEMMA GrownZeroContent ==
  ASSUME NoWrap, NEW s, Good(s), NEW n \in Nat, n > s.len, s.len + s.free >= n
  PROVE  Content(GrownZero(s, n)) = Content(s) \o Abstract!Zeros(n - s.len)
<1> DEFINE t == Cells(n - s.len, 0)
<1>1. s.len \in Nat /\ s.free \in Nat
  BY DEF Good
<1>2. n - s.len \in Nat /\ n - s.len + 1 \in Nat
  BY <1>1
<1>3. /\ t \in Seq(Bytes) /\ Len(t) = n - s.len /\ \A i \in 1 .. n - s.len : t[i] = 0
      /\ t = Abstract!Zeros(n - s.len)
  BY <1>2, ZerosProperties
<1>4. Cells(n - s.len + 1, 0) = t \o <<0>>
  <2>1. /\ Cells(n - s.len + 1, 0) \in Seq(Bytes) /\ Len(Cells(n - s.len + 1, 0)) = n - s.len + 1
        /\ \A i \in 1 .. n - s.len + 1 : Cells(n - s.len + 1, 0)[i] = 0
    BY <1>2, ZerosProperties
  <2> HIDE DEF t
  <2>2. /\ t \o <<0>> \in Seq(Bytes) /\ Len(t \o <<0>>) = n - s.len + 1
        /\ \A i \in 1 .. n - s.len : (t \o <<0>>)[i] = 0
        /\ (t \o <<0>>)[n - s.len + 1] = 0
    BY <1>3, ConstantTypes, Terminated
  <2>3. \A i \in 1 .. n - s.len + 1 : (t \o <<0>>)[i] = 0
    BY <1>2, <2>2
  <2> QED
    BY <2>1, <2>2, <2>3, SeqEqual
<1> HIDE DEF t
<1>5. /\ s.len \in 0 .. s.len /\ n = s.len + Len(t)
      /\ s.len + s.free - n \in Nat /\ n + (s.len + s.free - n) = s.len + s.free
  BY <1>1, <1>3
<1>6. Content(GrownZero(s, n)) = SubSeq(Content(s), 1, s.len) \o t
  <2> DEFINE f == s.len + s.free - n
  <2>1. GrownZero(s, n) = String(n, f, Write(s.buf, s.len, t \o <<0>>))
    BY <1>4 DEF GrownZero
  <2>2. f \in Nat /\ n + f = s.len + s.free
    BY <1>5
  <2> DEFINE at == s.len
  <2>4. at \in 0 .. s.len /\ n = at + Len(t) /\ f \in Nat /\ n + f = s.len + s.free
    BY <1>5, <2>2
  <2> HIDE DEF f, at
  <2>3. Content(String(n, f, Write(s.buf, at, t \o <<0>>))) = SubSeq(Content(s), 1, at) \o t
    BY <1>3, <2>4, WrittenContent, Zenon
  <2> QED
    BY <2>1, <2>3 DEF at
<1>7. SubSeq(Content(s), 1, s.len) = Content(s)
  BY ContentProperties, WholeAndNone
<1> QED
  BY <1>3, <1>6, <1>7

LEMMA GrowZeroContent ==
  ASSUME NoWrap, NEW s, Good(s), NEW n \in Nat, NEW r \in sdsgrowzero(s, n), r # NULL
  PROVE  Content(r) = Content(s) \o Abstract!Zeros(n - s.len)
<1>0. s.len \in Nat
  BY DEF Good
<1>1. CASE n <= s.len
  <2>1. 1 .. n - s.len = {}
    BY <1>0, <1>1
  <2>2. Abstract!Zeros(n - s.len) = <<>>
    BY <2>1 DEF Abstract!Zeros
  <2>3. r = s
    BY <1>1 DEF sdsgrowzero
  <2> QED
    BY <2>2, <2>3, ContentProperties, WholeAndNone
<1>2. CASE ~(n <= s.len)
  <2>2. n - s.len \in Nat /\ n > s.len
    BY <1>0, <1>2
  <2>3. PICK q \in sdsMakeRoomFor(s, n - s.len) : r = IF q = NULL THEN NULL ELSE GrownZero(q, n)
    BY <1>2 DEF sdsgrowzero
  <2>4. q # NULL /\ r = GrownZero(q, n)
    BY <2>3
  <2>5. Good(q) /\ q.len = s.len /\ q.free >= n - s.len /\ Content(q) = Content(s)
    BY <2>2, <2>3, <2>4, MakeRoomGood, MakeRoomContent
  <2>6. n > q.len /\ q.len + q.free >= n
    <3>1. q.free \in Nat
      BY <2>5 DEF Good
    <3> QED
      BY <1>0, <2>2, <2>5, <3>1
  <2>7. Content(GrownZero(q, n)) = Content(q) \o Abstract!Zeros(n - q.len)
    BY <2>5, <2>6, GrownZeroContent
  <2> QED
    BY <2>4, <2>5, <2>7
<1> QED
  BY <1>1, <1>2

\* What is moved to the front is a piece of the content.
LEMMA CutContent ==
  ASSUME NoWrap, NEW s, Good(s), NEW from \in Nat \ {0}, NEW n \in Nat,
         n # 0 => from + n - 1 <= s.len
  PROVE  Content(Cut(s, from, n)) = SubSeq(Content(s), from, from + n - 1)
<1> DEFINE t == SubSeq(s.buf, from, from + n - 1)
           u == SubSeq(Content(s), from, from + n - 1)
<1>1. /\ s.len \in Nat /\ s.free \in Nat /\ s.buf \in Seq(Cell)
      /\ Len(s.buf) = s.len + s.free + 1
  BY DEF Good
<1>2. /\ Content(s) \in Seq(Bytes) /\ Len(Content(s)) = s.len
      /\ \A i \in 1 .. s.len : Content(s)[i] = s.buf[i]
  BY ContentProperties
<1>3. /\ u \in Seq(Bytes) /\ Len(u) = n
      /\ \A i \in 1 .. n : u[i] = Content(s)[from + i - 1]
  BY <1>2, PieceProperties
<1>4. /\ t \in Seq(Cell) /\ Len(t) = n
      /\ \A i \in 1 .. n : t[i] = s.buf[from + i - 1]
  <2>1. n # 0 => from + n - 1 <= Len(s.buf)
    BY <1>1
  <2> QED
    BY <1>1, <2>1, PieceProperties
<1> HIDE DEF t, u
<1>5. t = u
  <2>1. \A i \in 1 .. n : from + i - 1 \in 1 .. s.len
    BY <1>1
  <2>2. \A i \in 1 .. n : t[i] = u[i]
    BY <1>2, <1>3, <1>4, <2>1
  <2>3. u \in Seq(Cell)
    BY <1>3, CellTexts
  <2> QED
    BY <1>3, <1>4, <2>2, <2>3, SeqEqual
<1>6. n <= s.len
  BY <1>1
<1>7. /\ 0 \in 0 .. s.len /\ n = 0 + Len(u)
      /\ s.free + (s.len - n) \in Nat /\ n + (s.free + (s.len - n)) = s.len + s.free
  BY <1>1, <1>3, <1>6, SMTT(20)
<1>8. Content(Cut(s, from, n)) = SubSeq(Content(s), 1, 0) \o u
  <2>1. Cut(s, from, n) = String(n, s.free + (s.len - n), Write(s.buf, 0, u \o <<0>>))
    BY <1>5 DEF Cut, t
  <2> QED
    BY <1>3, <1>7, <2>1, WrittenContent
<1>9. SubSeq(Content(s), 1, 0) = <<>> /\ <<>> \o u = u
  BY <1>2, <1>3, WholeAndNone
<1> QED
  BY <1>8, <1>9 DEF u

LEMMA ClearContent ==
  ASSUME NoWrap, NEW s, Good(s)
  PROVE  Content(sdsclear(s)) = <<>>
<1>1. s.len \in Nat /\ s.free \in Nat
  BY DEF Good
<1>2. Good(sdsclear(s)) /\ sdsclear(s).len = 0
  <2>1. 0 \in 0 .. IntMax
    BY ConstantTypes
  <2> QED
    BY <2>1, ClearGood, WrapId DEF sdsclear, String
<1>3. Content(sdsclear(s)) \in Seq(Bytes) /\ Len(Content(sdsclear(s))) = 0
  BY <1>2, ContentProperties
<1> QED
  BY <1>3, EmptySeq

LEMMA RemoveFreeSpaceContent ==
  ASSUME NoWrap, NEW s, Good(s)
  PROVE  Content(sdsRemoveFreeSpace(s)) = Content(s)
<1> DEFINE b == Resize(s.buf, s.len + 1)
           q == sdsRemoveFreeSpace(s)
<1>1. /\ s.len \in Nat /\ s.free \in Nat /\ s.buf \in Seq(Cell)
      /\ Len(s.buf) = s.len + s.free + 1 /\ Len(s.buf) <= MaxBytes
  BY DEF Good
<1>2. s.len + 1 \in Nat /\ s.len \in 0 .. IntMax
  BY <1>1, ConstantTypes DEF NoWrap
<1>3. \A i \in 1 .. s.len + 1 : i <= Len(s.buf) => b[i] = s.buf[i]
  BY <1>1, <1>2, ResizeProperties
<1>4. q.len = s.len /\ q.buf = b
  BY <1>2, WrapId DEF sdsRemoveFreeSpace, String
<1>5. Good(q)
  BY RemoveFreeSpaceGood
<1> HIDE DEF b, q
<1>6. \A i \in 1 .. s.len : b[i] = s.buf[i]
  BY <1>1, <1>3
<1>7. /\ Content(s) \in Seq(Bytes) /\ Len(Content(s)) = s.len
      /\ \A i \in 1 .. s.len : Content(s)[i] = s.buf[i]
  BY ContentProperties
<1>8. Content(q) = Content(s)
  BY <1>4, <1>5, <1>6, <1>7, SameContent
<1> QED
  BY <1>8 DEF q

\* A call that makes a string copies the bytes it was given.
LEMMA NewContent ==
  ASSUME NoWrap, NEW n \in Nat, NEW t \in Seq(Cell), t # NULL, n <= Len(t),
         \A i \in 1 .. n : t[i] \in Bytes,
         NEW r \in sdsnewlen(t, n), r # NULL
  PROVE  Content(r) = SubSeq(t, 1, n)
<1> DEFINE c == Cells(n + 1, Junk)
           u == SubSeq(t, 1, n)
           w == u \o <<0>>
           b == Write(c, 0, w)
<1>1. c \in Seq(Cell) /\ Len(c) = n + 1
  BY ConstantTypes DEF Cells
<1>2. n \in 0 .. Len(t) /\ Len(t) \in Nat
  OBVIOUS
<1>3. u \in Seq(Cell) /\ Len(u) = n /\ \A i \in 1 .. n : u[i] = t[i]
  BY <1>2, FrontProperties
<1>4. r.buf = b /\ r = String(n, 0, b)
  <2>1. r \in Given(String(n, 0, b))
    BY DEF sdsnewlen
  <2> HIDE DEF b
  <2>2. r = String(n, 0, b)
    BY <2>1 DEF Given
  <2> QED
    BY <2>2 DEF String
<1> HIDE DEF c, u
<1>5. /\ w \in Seq(Cell) /\ Len(w) = n + 1
      /\ \A i \in 1 .. n : w[i] = u[i]
  BY <1>3, ConstantTypes, Terminated
<1> HIDE DEF w
<1>6. \A i \in 1 .. n : b[i] = u[i]
  <2>1. 0 \in Nat /\ 0 + Len(w) <= Len(c)
    BY <1>1, <1>5
  <2>2. \A i \in 1 .. Len(c) : b[i] = IF 0 < i /\ i <= 0 + Len(w) THEN w[i - 0] ELSE c[i]
    BY <1>1, <1>5, <2>1, WriteProperties
  <2> HIDE DEF b
  <2>3. \A i \in 1 .. n : i \in 1 .. Len(c) /\ 0 < i /\ i <= 0 + Len(w) /\ i - 0 = i
    BY <1>1, <1>5
  <2> QED
    BY <1>5, <2>2, <2>3
<1> HIDE DEF b
<1>7. Good(r)
  BY NewGood
<1>8. r.len = n
  <2>1. Good(r) /\ r.free \in Nat /\ r.len \in Nat /\ Len(r.buf) = r.len + r.free + 1 /\ Len(r.buf) <= MaxBytes
    BY <1>7 DEF Good
  <2>2. Len(b) = n + 1
    <3>1. 0 \in Nat /\ 0 + Len(w) <= Len(c)
      BY <1>1, <1>5
    <3> QED
      BY <1>1, <1>5, <3>1, WriteProperties DEF b
  <2>3. n \in 0 .. IntMax
    BY <1>4, <2>1, <2>2, ConstantTypes DEF NoWrap
  <2> QED
    BY <1>4, <2>3, WrapId DEF String
<1>9. u \in Seq(Bytes)
  <2>1. u \in [1 .. n -> Bytes]
    <3>1. u \in [1 .. Len(u) -> Cell]
      BY <1>3, LenProperties
    <3> QED
      BY <1>3, <3>1
  <2> QED
    BY <2>1
<1>10. Content(r) = u
  BY <1>3, <1>4, <1>6, <1>7, <1>8, <1>9, SameContent
<1> QED
  BY <1>10 DEF u

LEMMA NewTextContent ==
  ASSUME NoWrap, NEW t \in Seq(Bytes), t # NULL, NEW n \in 0 .. Len(t),
         NEW r \in sdsnewlen(t, n), r # NULL
  PROVE  Content(r) = SubSeq(t, 1, n)
<1>1. t \in Seq(Cell) /\ Len(t) \in Nat /\ n \in Nat /\ n <= Len(t)
  BY CellTexts
<1>2. \A i \in 1 .. n : t[i] \in Bytes
  BY <1>1
<1> QED
  BY <1>1, <1>2, NewContent

LEMMA DupContent ==
  ASSUME NoWrap, NEW s, Good(s), NEW r \in sdsdup(s), r # NULL
  PROVE  Content(r) = Content(s)
<1>1. /\ s.len \in Nat /\ s.buf \in Seq(Cell) /\ s.len <= Len(s.buf) /\ s.buf # NULL
      /\ \A i \in 1 .. s.len : s.buf[i] \in Bytes
  BY SdsAssumption DEF Good, Cell
<1>2. r \in sdsnewlen(s.buf, s.len)
  BY DEF sdsdup
<1> QED
  BY <1>1, <1>2, NewContent DEF Content

-----------------------------------------------------------------------------
(* C strings                                                               *)

\* There is one place where a C string can end.
LEMMA EndsAtNul ==
  ASSUME NEW S, NEW t \in Seq(S), NEW n \in 0 .. Len(t),
         \A i \in 1 .. n : t[i] # 0, n < Len(t) => t[n + 1] = 0
  PROVE  Abstract!UpToNul(t) = SubSeq(t, 1, n)
<1> DEFINE P == {SubSeq(t, 1, k) : k \in 0 .. Len(t)}
           Ends(u) == /\ \A i \in DOMAIN u : u[i] # 0
                      /\ u # t => t[Len(u) + 1] = 0
           v == SubSeq(t, 1, n)
<1>1. \A k \in 0 .. Len(t) : /\ SubSeq(t, 1, k) \in Seq(S) /\ Len(SubSeq(t, 1, k)) = k
                             /\ DOMAIN SubSeq(t, 1, k) = 1 .. k
                             /\ \A i \in 1 .. k : SubSeq(t, 1, k)[i] = t[i]
  BY FrontProperties
<1>2. Len(t) \in Nat /\ SubSeq(t, 1, Len(t)) = t
  BY WholeAndNone
<1>7. \A k \in 0 .. Len(t) : /\ k # Len(t) => k < Len(t)
                             /\ k < n => k # Len(t) /\ k + 1 \in 1 .. n
  <2> DEFINE m == Len(t)
  <2>1. m \in Nat /\ n \in 0 .. m
    BY <1>2
  <2> HIDE DEF m
  <2>2. \A k \in 0 .. m : /\ k # m => k < m
                          /\ k < n => k # m /\ k + 1 \in 1 .. n
    BY <2>1
  <2> QED
    BY <2>2 DEF m
<1>3. v \in P /\ Ends(v)
  <2>1. v # t => n < Len(t)
    <3>1. n = Len(t) => v = t
      BY <1>2
    <3>2. n # Len(t) => n < Len(t)
      BY <1>7
    <3> HIDE DEF v
    <3> QED
      BY <3>1, <3>2
  <2> QED
    BY <1>1, <2>1
<1>4. ASSUME NEW u \in P, Ends(u) PROVE u = v
  <2>1. PICK k \in 0 .. Len(t) : u = SubSeq(t, 1, k)
    BY <1>4
  <2>2. Len(u) = k /\ DOMAIN u = 1 .. k /\ \A i \in 1 .. k : u[i] = t[i]
    BY <1>1, <2>1
  <2>3. ~(k < n)
    <3> SUFFICES ASSUME k < n PROVE FALSE
      OBVIOUS
    <3>1. k # Len(t) /\ k + 1 \in 1 .. n
      BY <1>7
    <3>3. u # t
      BY <2>2, <3>1
    <3>2. t[k + 1] = 0
      BY <1>4, <2>2, <3>3
    <3> QED
      BY <3>1, <3>2
  <2>4. ~(n < k)
    <3> SUFFICES ASSUME n < k PROVE FALSE
      OBVIOUS
    <3>1. n < Len(t) /\ n + 1 \in 1 .. k
      BY <1>2
    <3>2. t[n + 1] = 0 /\ u[n + 1] # 0
      BY <1>4, <2>2, <3>1
    <3> QED
      BY <2>2, <3>1, <3>2
  <2>5. k = n
    BY <1>2, <2>3, <2>4
  <2> QED
    BY <2>1, <2>5
<1>5. (CHOOSE u \in P : Ends(u)) = v
  <2> HIDE DEF P, Ends, v
  <2> QED
    BY <1>3, <1>4
<1>6. Abstract!UpToNul(t) = CHOOSE u \in P : Ends(u)
  BY DEF Abstract!UpToNul
<1> QED
  BY <1>5, <1>6

LEMMA CStringUpToNul ==
  ASSUME NEW S, NEW t \in Seq(S)
  PROVE  CString(t) = Abstract!UpToNul(t)
BY StrLenFirst, EndsAtNul DEF CString

LEMMA UpdateLenContent ==
  ASSUME NoWrap, NEW s, Good(s)
  PROVE  Content(sdsupdatelen(s)) = Abstract!UpToNul(Content(s))
<1> DEFINE l == StrLen(s.buf)
           q == sdsupdatelen(s)
           c == Content(s)
<1>1. /\ s.len \in Nat /\ s.free \in Nat /\ s.buf \in Seq(Cell)
      /\ Len(s.buf) = s.len + s.free + 1 /\ Len(s.buf) <= MaxBytes /\ s.buf[s.len + 1] = 0
  BY DEF Good
<1>2. /\ l \in 0 .. Len(s.buf)
      /\ \A i \in 1 .. l : s.buf[i] # 0
      /\ l < Len(s.buf) => s.buf[l + 1] = 0
  BY <1>1, StrLenFirst
<1>3. Good(q) /\ q.buf = s.buf /\ q.len = Wrap(l)
  BY UpdateLenGood DEF sdsupdatelen, String
<1> HIDE DEF l, q, c
<1>4. l <= s.len
  <2>1. s.len + 1 \notin 1 .. l
    BY <1>1, <1>2
  <2> QED
    BY <1>1, <1>2, <2>1
<1>5. l \in 0 .. s.len /\ l \in 0 .. IntMax
  BY <1>1, <1>2, <1>4, ConstantTypes DEF NoWrap
<1>6. q.len = l
  BY <1>3, <1>5, WrapId
<1>7. /\ c \in Seq(Bytes) /\ Len(c) = s.len
      /\ \A i \in 1 .. s.len : c[i] = s.buf[i]
  BY ContentProperties DEF c
<1>8. Abstract!UpToNul(c) = SubSeq(c, 1, l)
  <2>1. \A i \in 1 .. l : c[i] # 0
    <3>1. \A i \in 1 .. l : i \in 1 .. s.len
      BY <1>1, <1>5
    <3> QED
      BY <1>2, <1>7, <3>1
  <2>2. l < Len(c) => c[l + 1] = 0
    <3> SUFFICES ASSUME l < s.len PROVE c[l + 1] = 0
      BY <1>7
    <3>1. l < Len(s.buf) /\ l + 1 \in 1 .. s.len
      BY <1>1, <1>5
    <3> QED
      BY <1>2, <1>7, <3>1
  <2> QED
    BY <1>5, <1>7, <2>1, <2>2, EndsAtNul
<1>9. /\ SubSeq(c, 1, l) \in Seq(Bytes) /\ Len(SubSeq(c, 1, l)) = l
      /\ \A i \in 1 .. l : SubSeq(c, 1, l)[i] = c[i]
  BY <1>5, <1>7, FrontProperties
<1>10. ASSUME NEW i \in 1 .. l PROVE q.buf[i] = SubSeq(c, 1, l)[i]
  <2>1. i \in 1 .. s.len
    BY <1>1, <1>5
  <2>2. SubSeq(c, 1, l)[i] = c[i]
    BY <1>9
  <2>3. c[i] = s.buf[i]
    BY <1>7, <2>1
  <2> QED
    BY <1>3, <2>2, <2>3
<1>11. Content(q) = SubSeq(c, 1, l)
  BY <1>3, <1>6, <1>9, <1>10, SameContent
<1> QED
  BY <1>8, <1>11 DEF q, c

\* A buffer that vsnprintf has filled to the end ends no C string early.
LEMMA PrintedCString ==
  ASSUME NEW t \in Seq(Bytes), NEW n \in Buffer(t)
  PROVE  /\ Printed(t, n) \in Seq(Bytes)
         /\ CString(Printed(t, n)) = Abstract!UpToNul(t)
<1>1. Len(t) \in Nat /\ n \in Nat /\ n >= 2 /\ (Len(t) < n - 1 \/ t[n - 1] = 0)
  <2>1. FirstBuffer \in Nat /\ FirstBuffer >= 2
    BY SdsAssumption
  <2>2. Len(t) \in Nat /\ n \in FirstBuffer .. FirstBuffer + 2 * Len(t) + 2
    BY DEF Buffer, BufferSizes
  <2> QED
    BY <2>1, <2>2 DEF Buffer, Fits
<1>2. CASE Len(t) < n
  <2>1. Printed(t, n) = t
    BY <1>2, WholeAndNone DEF Printed
  <2> QED
    BY <2>1, CStringUpToNul
<1>3. CASE ~(Len(t) < n)
  <2> DEFINE m == n - 1
             u == SubSeq(t, 1, m)
             k == StrLen(t)
  <2>1. m \in 0 .. Len(t) /\ m \in 1 .. Len(t) /\ t[m] = 0 /\ Printed(t, n) = u
    BY <1>1, <1>3 DEF Printed
  <2>2. u \in Seq(Bytes) /\ Len(u) = m /\ \A i \in 1 .. m : u[i] = t[i]
    BY <2>1, FrontProperties
  <2>3. /\ k \in 0 .. Len(t) /\ \A i \in 1 .. k : t[i] # 0
        /\ k < Len(t) => t[k + 1] = 0
    BY StrLenFirst
  <2> HIDE DEF k
  <2>4. k < m
    <3>1. m \notin 1 .. k
      BY <2>1, <2>3
    <3> QED
      BY <1>1, <2>1, <2>3, <3>1
  <2>5. Abstract!UpToNul(t) = SubSeq(t, 1, k)
    BY <2>3, EndsAtNul
  <2> HIDE DEF u, m
  <2>6. k \in 0 .. Len(u) /\ Abstract!UpToNul(u) = SubSeq(u, 1, k)
    <3>1. k \in 0 .. Len(u) /\ k + 1 \in 1 .. m /\ k < Len(t) /\ \A i \in 1 .. k : i \in 1 .. m
      BY <1>1, <2>1, <2>2, <2>3, <2>4
    <3>2. /\ \A i \in 1 .. k : u[i] # 0
          /\ u[k + 1] = 0
      BY <2>2, <2>3, <3>1
    <3> QED
      BY <2>2, <3>1, <3>2, EndsAtNul
  <2>7. SubSeq(u, 1, k) = SubSeq(t, 1, k)
    <3>1. /\ SubSeq(u, 1, k) \in Seq(Bytes) /\ Len(SubSeq(u, 1, k)) = k
          /\ \A i \in 1 .. k : SubSeq(u, 1, k)[i] = u[i]
      BY <2>2, <2>6, FrontProperties
    <3>2. /\ SubSeq(t, 1, k) \in Seq(Bytes) /\ Len(SubSeq(t, 1, k)) = k
          /\ \A i \in 1 .. k : SubSeq(t, 1, k)[i] = t[i]
      BY <2>3, FrontProperties
    <3>3. \A i \in 1 .. k : i \in 1 .. m
      BY <2>1, <2>3, <2>4
    <3>4. \A i \in 1 .. k : SubSeq(u, 1, k)[i] = SubSeq(t, 1, k)[i]
      BY <2>2, <3>1, <3>2, <3>3
    <3> QED
      BY <3>1, <3>2, <3>4, SeqEqual
  <2> QED
    BY <2>1, <2>2, <2>5, <2>6, <2>7, CStringUpToNul
<1> QED
  BY <1>2, <1>3

LEMMA PrintfContent ==
  ASSUME NoWrap, NEW s, Good(s), NEW t \in Seq(Bytes), NEW r \in sdscatvprintf(s, t), r # NULL
  PROVE  Content(r) = Content(s) \o Abstract!UpToNul(t)
<1>1. PICK n \in Buffer(t) : r \in sdscat(s, Printed(t, n))
  <2> DEFINE D == UNION {sdscat(s, Printed(t, n)) : n \in Buffer(t)}
  <2>1. sdscatvprintf(s, t) = {NULL} \cup D
    BY DEF sdscatvprintf
  <2>2. r \in D
    <3> HIDE DEF D
    <3> QED
      BY <2>1
  <2> QED
    BY <2>2, Zenon
<1>2. /\ CString(Printed(t, n)) \in Seq(Bytes)
      /\ CString(Printed(t, n)) = Abstract!UpToNul(t)
  BY PrintedCString, CStringType
<1> QED
  BY <1>1, <1>2, CatLenContent DEF sdscat

-----------------------------------------------------------------------------
(* Cutting and changing in place                                           *)

LEMMA RangeContent ==
  ASSUME NoWrap, NEW s, Good(s), NEW i \in Int, NEW j \in Int
  PROVE  Content(sdsrange(s, i, j)) = Abstract!Slice(Content(s), i, j)
<1> DEFINE first == FromEnd(s, i)
           last == FromEnd(s, j)
           n == RangeLen(s, first, last)
           c == Content(s)
           p == Abstract!Place(c, i)
           q == Abstract!Least(Abstract!Place(c, j), Len(c))
<1>1. s.len \in Nat /\ c \in Seq(Bytes) /\ Len(c) = s.len
  BY ContentProperties
<1>2. first \in Nat /\ last \in Nat
  BY <1>1 DEF FromEnd
<1>3. p = first + 1 /\ Abstract!Place(c, j) = last + 1
  <2> HIDE DEF c
  <2> QED
    BY <1>1 DEF Abstract!Place, FromEnd
<1>4. q = IF last + 1 < s.len THEN last + 1 ELSE s.len
  BY <1>1, <1>3 DEF Abstract!Least
<1>5. Abstract!Slice(c, i, j) = SubSeq(c, p, q)
  BY DEF Abstract!Slice
<1>6. sdsrange(s, i, j) = IF s.len = 0 THEN s ELSE Cut(s, first + 1, n)
  BY DEF sdsrange
<1> HIDE DEF first, last, c, p, q
<1>7. n \in Nat /\ (n # 0 => (first + 1) + n - 1 <= s.len) /\ first + 1 \in Nat \ {0}
  BY <1>1, <1>2 DEF RangeLen
<1>8. q \in Int /\ p \in Int /\ (IF n = 0 THEN q < p ELSE q = (first + 1) + n - 1)
  BY <1>1, <1>2, <1>3, <1>4 DEF RangeLen
<1> HIDE DEF n
<1>9. Content(Cut(s, first + 1, n)) = SubSeq(c, p, q)
  <2>1. Content(Cut(s, first + 1, n)) = SubSeq(c, first + 1, (first + 1) + n - 1)
    <3> DEFINE from == first + 1
    <3>1. from \in Nat \ {0} /\ (n # 0 => from + n - 1 <= s.len)
      BY <1>7
    <3> HIDE DEF from
    <3>2. Content(Cut(s, from, n)) = SubSeq(Content(s), from, from + n - 1)
      BY <1>7, <3>1, CutContent
    <3> QED
      BY <3>2 DEF from, c
  <2>2. CASE n = 0
    <3>1. (first + 1) + n - 1 < first + 1 /\ (first + 1) + n - 1 \in Int
      BY <1>2, <2>2
    <3>2. SubSeq(c, first + 1, (first + 1) + n - 1) = <<>>
      BY <1>7, <3>1, SubSeqEmpty
    <3>3. SubSeq(c, p, q) = <<>>
      BY <1>8, <2>2, SubSeqEmpty
    <3> QED
      BY <2>1, <3>2, <3>3
  <2>3. CASE n # 0
    <3>1. q = (first + 1) + n - 1
      BY <1>8, <2>3
    <3> QED
      BY <1>3, <2>1, <3>1
  <2> QED
    BY <2>2, <2>3
<1>10. s.len = 0 => c = SubSeq(c, p, q)
  <2> SUFFICES ASSUME s.len = 0 PROVE c = SubSeq(c, p, q)
    OBVIOUS
  <2>1. q < p
    BY <1>2, <1>3, <1>4
  <2>2. SubSeq(c, p, q) = <<>>
    BY <1>8, <2>1, SubSeqEmpty
  <2>3. c = <<>>
    BY <1>1, EmptySeq
  <2> QED
    BY <2>2, <2>3
<1> QED
  BY <1>5, <1>6, <1>9, <1>10 DEF c

\* The two loops of sdstrim stop, each at one place.
LEMMA TrimEndsOne ==
  ASSUME NEW s, Good(s), NEW cset
  PROVE  \E e \in TrimEnds(s, cset) : TrimEnds(s, cset) = {e}
<1> DEFINE n == s.len
           Out(i) == InSet(s.buf[i], cset)
           Left(a) == /\ \A i \in 1 .. a - 1 : Out(i)
                      /\ a <= n => ~Out(a)
           Right(z) == /\ \A i \in z + 1 .. n : Out(i)
                       /\ IF z > 1 THEN ~Out(z) ELSE z = 1 \/ n = 0
<1>0. n \in Nat
  BY DEF Good
<1>1. TrimEnds(s, cset) = {e \in (1 .. n + 1) \X (0 .. n) : Left(e[1]) /\ Right(e[2])}
  BY DEF TrimEnds
<1> DEFINE In == {i \in 1 .. n : ~Out(i)}
<1> HIDE DEF Out, n
<1>2. \E a \in 1 .. n + 1 : Left(a)
  <2>1. CASE In = {}
    <3>1. \A i \in 1 .. n : Out(i)
      BY <2>1
    <3>2. n + 1 \in 1 .. n + 1 /\ Left(n + 1)
      BY <1>0, <3>1
    <3> QED
      BY <3>2
  <2>2. CASE In # {}
    <3>1. In \in SUBSET Nat
      BY <1>0
    <3>2. PICK a \in In : \A b \in In : a <= b
      <4> HIDE DEF In
      <4> QED
        BY <2>2, <3>1, LeastNumber
    <3>3. a \in 1 .. n + 1 /\ Left(a)
      <4>1. a \in 1 .. n /\ ~Out(a)
        BY <3>2
      <4>2. \A i \in 1 .. a - 1 : Out(i)
        <5> SUFFICES ASSUME NEW i \in 1 .. a - 1, ~Out(i) PROVE FALSE
          OBVIOUS
        <5>1. i \in In
          BY <1>0, <4>1
        <5> QED
          BY <1>0, <3>2, <4>1, <5>1
      <4> QED
        BY <1>0, <4>1, <4>2
    <3> QED
      BY <3>3
  <2> QED
    BY <2>1, <2>2
<1>3. \E z \in 0 .. n : Right(z)
  <2>1. CASE n = 0
    <3>1. 0 \in 0 .. n /\ Right(0)
      BY <2>1
    <3> QED
      BY <3>1
  <2>2. CASE n # 0 /\ In = {}
    <3>1. 1 \in 0 .. n /\ Right(1)
      BY <1>0, <2>2
    <3> QED
      BY <3>1
  <2>3. CASE In # {}
    <3> DEFINE Up == {k \in 0 .. n : n - k \in In}
    <3>1. Up \in SUBSET Nat
      BY <1>0
    <3>2. Up # {}
      <4>1. PICK i \in In : TRUE
        BY <2>3
      <4>2. n - i \in 0 .. n /\ n - (n - i) = i
        BY <1>0
      <4>3. n - i \in Up
        BY <4>1, <4>2
      <4> QED
        BY <4>3
    <3>3. PICK k \in Up : \A l \in Up : k <= l
      <4> HIDE DEF Up
      <4> QED
        BY <3>1, <3>2, LeastNumber
    <3> DEFINE z == n - k
    <3>4. z \in 1 .. n /\ ~Out(z) /\ k = n - z
      BY <1>0, <3>3
    <3>5. \A i \in z + 1 .. n : Out(i)
      <4> SUFFICES ASSUME NEW i \in z + 1 .. n, ~Out(i) PROVE FALSE
        OBVIOUS
      <4>1. i \in 1 .. n /\ i > z
        BY <1>0, <3>4
      <4>2. n - i \in 0 .. n /\ n - (n - i) = i /\ n - i < n - z
        BY <1>0, <3>4, <4>1
      <4>3. n - i \in Up
        BY <4>1, <4>2
      <4>4. k <= n - i
        BY <3>3, <4>3
      <4> QED
        BY <1>0, <3>4, <4>1, <4>2, <4>4
    <3> HIDE DEF z
    <3>6. z \in 0 .. n /\ Right(z)
      BY <1>0, <3>4, <3>5
    <3> QED
      BY <3>6
  <2> QED
    BY <2>1, <2>2, <2>3
<1>4. ASSUME NEW a \in 1 .. n + 1, NEW b \in 1 .. n + 1, Left(a), Left(b) PROVE a = b
  <2>1. ASSUME NEW x \in 1 .. n + 1, NEW y \in 1 .. n + 1, Left(x), Left(y), x < y PROVE FALSE
    <3>1. x <= n /\ x \in 1 .. y - 1
      BY <1>0, <2>1
    <3> QED
      BY <2>1, <3>1
  <2>2. ~(a < b) /\ ~(b < a)
    BY <1>4, <2>1
  <2> QED
    BY <1>0, <2>2
<1>5. ASSUME NEW a \in 0 .. n, NEW b \in 0 .. n, Right(a), Right(b) PROVE a = b
  <2>1. ASSUME NEW x \in 0 .. n, NEW y \in 0 .. n, Right(x), Right(y), x < y PROVE FALSE
    <3>1. y \in x + 1 .. n /\ (y > 1 \/ y = 1)
      BY <1>0, <2>1
    <3>2. Out(y)
      BY <2>1, <3>1
    <3>3. y = 1 /\ n # 0 /\ x = 0
      BY <1>0, <2>1, <3>1, <3>2
    <3> QED
      BY <2>1, <3>3
  <2>2. ~(a < b) /\ ~(b < a)
    BY <1>5, <2>1
  <2> QED
    BY <1>0, <2>2
<1>6. PICK a \in 1 .. n + 1 : Left(a)
  BY <1>2
<1>7. PICK z \in 0 .. n : Right(z)
  BY <1>3
<1>8. <<a, z>> \in TrimEnds(s, cset)
  <2> HIDE DEF Left, Right
  <2> QED
    BY <1>1, <1>6, <1>7
<1>9. \A e \in TrimEnds(s, cset) : e = <<a, z>>
  <2> SUFFICES ASSUME NEW e \in TrimEnds(s, cset) PROVE e = <<a, z>>
    OBVIOUS
  <2> HIDE DEF Left, Right
  <2>1. e \in (1 .. n + 1) \X (0 .. n) /\ Left(e[1]) /\ Right(e[2])
    BY <1>1
  <2>2. e[1] = a /\ e[2] = z
    BY <1>4, <1>5, <1>6, <1>7, <2>1
  <2> QED
    BY <2>1, <2>2
<1> QED
  BY <1>8, <1>9

LEMMA TrimContent ==
  ASSUME NoWrap, NEW s, Good(s), NEW cset, NEW r \in sdstrim(s, cset)
  PROVE  Abstract!IsTrimmed(Content(r), Content(s), cset \cup {0})
<1> DEFINE c == Content(s)
           Out(b) == b \in cset \cup {0}
<1>1. PICK e \in TrimEnds(s, cset) : r = Cut(s, e[1], IF e[1] > e[2] THEN 0 ELSE e[2] - e[1] + 1)
  BY DEF sdstrim
<1> DEFINE a == e[1]
           z == e[2]
           n == IF a > z THEN 0 ELSE z - a + 1
           u == SubSeq(c, a, a + n - 1)
<1>2. /\ s.len \in Nat /\ c \in Seq(Bytes) /\ Len(c) = s.len /\ DOMAIN c = 1 .. s.len
      /\ \A i \in 1 .. s.len : c[i] = s.buf[i]
  BY ContentProperties
<1>3. a \in 1 .. s.len + 1 /\ z \in 0 .. s.len
  BY <1>1 DEF TrimEnds
<1>4. /\ \A i \in 1 .. a - 1 : Out(s.buf[i])
      /\ a <= s.len => ~Out(s.buf[a])
      /\ \A i \in z + 1 .. s.len : Out(s.buf[i])
      /\ IF z > 1 THEN ~Out(s.buf[z]) ELSE z = 1 \/ s.len = 0
  BY <1>1 DEF TrimEnds, InSet
<1> HIDE DEF a, z, c, Out
<1>5. a \in Nat \ {0} /\ n \in Nat /\ (n # 0 => a + n - 1 <= s.len)
  BY <1>2, <1>3
<1>6. r = Cut(s, a, n)
  BY <1>1 DEF a, z
<1>7. /\ u \in Seq(Bytes) /\ Len(u) = n /\ DOMAIN u = 1 .. n
      /\ \A i \in 1 .. n : u[i] = c[a + i - 1]
  <2> HIDE DEF n
  <2> QED
    BY <1>2, <1>5, PieceProperties
<1>8. Content(r) = u
  <2> HIDE DEF n
  <2> QED
    BY <1>5, <1>6, CutContent DEF c
<1>9. \E l \in 0 .. Len(c) - Len(u) :
        /\ u = SubSeq(c, l + 1, l + Len(u))
        /\ \A i \in DOMAIN c : ~(l < i /\ i <= l + Len(u)) => Out(c[i])
        /\ u # <<>> => ~Out(u[1]) /\ ~Out(u[Len(u)])
  <2>1. CASE a > z
    <3>1. n = 0 /\ Len(u) = 0 /\ u = <<>>
      BY <1>7, <2>1, EmptySeq
    <3>2. SubSeq(c, 0 + 1, 0 + 0) = <<>>
      BY <1>2, WholeAndNone
    <3>3. \A i \in DOMAIN c : Out(c[i])
      <4> SUFFICES ASSUME NEW i \in 1 .. s.len PROVE Out(c[i])
        BY <1>2
      <4>1. i \in 1 .. a - 1 \/ i \in z + 1 .. s.len
        BY <1>2, <1>3, <2>1
      <4> QED
        BY <1>2, <1>4, <4>1
    <3> HIDE DEF u, n
    <3>4. 0 \in 0 .. Len(c) - Len(u)
      BY <1>2, <3>1
    <3> QED
      BY <3>1, <3>2, <3>3, <3>4
  <2>2. CASE ~(a > z)
    <3> DEFINE l == a - 1
    <3>1. n = z - a + 1 /\ n # 0 /\ a <= s.len /\ l + 1 = a /\ l + n = z /\ a + n - 1 = z
      BY <1>2, <1>3, <2>2
    <3>2. l \in 0 .. Len(c) - n
      BY <1>2, <1>3, <2>2, <3>1
    <3>3. u = SubSeq(c, l + 1, l + n)
      BY <3>1
    <3>4. \A i \in 1 .. s.len : ~(l < i /\ i <= l + n) => Out(c[i])
      <4> SUFFICES ASSUME NEW i \in 1 .. s.len, ~(l < i /\ i <= l + n) PROVE Out(c[i])
        OBVIOUS
      <4>1. i \in 1 .. a - 1 \/ i \in z + 1 .. s.len
        BY <1>2, <1>3, <2>2, <3>1
      <4> QED
        BY <1>2, <1>4, <4>1
    <3>5. u[1] = c[a] /\ u[n] = c[z]
      <4>1. 1 \in 1 .. n /\ n \in 1 .. n /\ a + 1 - 1 = a
        BY <1>3, <1>5, <3>1
      <4> HIDE DEF u, n
      <4> QED
        BY <1>7, <3>1, <4>1
    <3>6. ~Out(c[a]) /\ ~Out(c[z])
      <4>1. a \in 1 .. s.len /\ z \in 1 .. s.len /\ (z > 1 \/ z = a)
        BY <1>2, <1>3, <2>2
      <4>2. ~Out(s.buf[a]) /\ ~Out(s.buf[z])
        BY <1>4, <3>1, <4>1
      <4> QED
        BY <1>2, <4>1, <4>2
    <3> HIDE DEF u, n, l
    <3> QED
      BY <1>2, <1>7, <3>2, <3>3, <3>4, <3>5, <3>6
  <2> QED
    BY <2>1, <2>2
<1> HIDE DEF u
<1>10. Abstract!IsTrimmed(u, c, cset \cup {0})
  BY <1>9 DEF Abstract!IsTrimmed, Out
<1> QED
  BY <1>8, <1>10 DEF c

LEMMA MappedContent ==
  ASSUME NEW s, Good(s), NEW f \in [Bytes -> Bytes], NEW map,
         \A b \in Bytes : f[b] = IF b \in DOMAIN map THEN map[b] ELSE b
  PROVE  Content(Mapped(s, f)) = Abstract!Replaced(Content(s), map)
<1> DEFINE q == Mapped(s, f)
           c == Content(s)
           u == Abstract!Replaced(c, map)
<1>1. /\ DOMAIN s = {"len", "free", "buf"} /\ s.len \in Nat /\ s.buf \in Seq(Cell)
      /\ s.len <= Len(s.buf) /\ \A i \in 1 .. s.len : s.buf[i] \in Bytes
  BY DEF Good
<1>2. /\ c \in Seq(Bytes) /\ Len(c) = s.len /\ DOMAIN c = 1 .. s.len
      /\ \A i \in 1 .. s.len : c[i] = s.buf[i]
  BY ContentProperties
<1>3. Good(q)
  BY MappedGood
<1>4. q.len = s.len /\ \A i \in 1 .. s.len : q.buf[i] = f[s.buf[i]]
  <2> DEFINE b == [i \in DOMAIN s.buf |-> IF i <= s.len THEN f[s.buf[i]] ELSE s.buf[i]]
  <2>1. q.len = s.len /\ q.buf = b
    BY <1>1 DEF Mapped
  <2>2. \A i \in 1 .. s.len : i \in DOMAIN s.buf /\ i <= s.len
    BY <1>1
  <2> HIDE DEF q
  <2> QED
    BY <2>1, <2>2
<1> HIDE DEF q, c
<1>5. u = [i \in 1 .. s.len |-> f[c[i]]]
  <2>1. u = [i \in 1 .. s.len |-> IF c[i] \in DOMAIN map THEN map[c[i]] ELSE c[i]]
    BY <1>2 DEF Abstract!Replaced
  <2>2. \A i \in 1 .. s.len : (IF c[i] \in DOMAIN map THEN map[c[i]] ELSE c[i]) = f[c[i]]
    BY <1>1, <1>2
  <2> QED
    BY <2>1, <2>2
<1> HIDE DEF u
<1>6. u \in Seq(Bytes) /\ Len(u) = s.len /\ \A i \in 1 .. s.len : u[i] = q.buf[i]
  <2>1. \A i \in 1 .. s.len : f[c[i]] \in Bytes /\ f[c[i]] = q.buf[i]
    BY <1>1, <1>2, <1>4
  <2>2. u \in [1 .. s.len -> Bytes] /\ \A i \in 1 .. s.len : u[i] = q.buf[i]
    BY <1>5, <2>1
  <2> QED
    BY <1>1, <2>2
<1>7. Content(q) = u
  BY <1>3, <1>4, <1>6, SameContent
<1> QED
  BY <1>7 DEF q, u, c

LEMMA LowerContent ==
  ASSUME NEW s, Good(s)
  PROVE  Content(sdstolower(s)) = Abstract!Replaced(Content(s), Lower)
<1> DEFINE f == [b \in Bytes |-> IF b \in 65 .. 90 THEN b + 32 ELSE b]
<1>1. f \in [Bytes -> Bytes]
  BY SdsAssumption
<1>2. \A b \in Bytes : f[b] = IF b \in DOMAIN Lower THEN Lower[b] ELSE b
  BY DEF Lower
<1> HIDE DEF f
<1>3. Content(Mapped(s, f)) = Abstract!Replaced(Content(s), Lower)
  BY <1>1, <1>2, MappedContent
<1> QED
  BY <1>3 DEF sdstolower, f

LEMMA UpperContent ==
  ASSUME NEW s, Good(s)
  PROVE  Content(sdstoupper(s)) = Abstract!Replaced(Content(s), Upper)
<1> DEFINE f == [b \in Bytes |-> IF b \in 97 .. 122 THEN b - 32 ELSE b]
<1>1. f \in [Bytes -> Bytes]
  BY SdsAssumption
<1>2. \A b \in Bytes : f[b] = IF b \in DOMAIN Upper THEN Upper[b] ELSE b
  BY DEF Upper
<1> HIDE DEF f
<1>3. Content(Mapped(s, f)) = Abstract!Replaced(Content(s), Upper)
  BY <1>1, <1>2, MappedContent
<1> QED
  BY <1>3 DEF sdstoupper, f

\* The inner loop of sdsmapchars stops at the entry that counts.
LEMMA TranslatedEntry ==
  ASSUME NEW m \in CharMaps, NEW b
  PROVE  Translated(m, b) = IF b \in DOMAIN AsMap(m) THEN AsMap(m)[b] ELSE b
<1> DEFINE Found == {m.from[i] : i \in DOMAIN m.from}
           First(i) == m.from[i] = b /\ \A j \in 1 .. i - 1 : m.from[j] # b
           Earliest(i) == m.from[i] = b /\ \A j \in DOMAIN m.from : m.from[j] = b => i <= j
<1>1. DOMAIN m.from = 1 .. Len(m.from) /\ Len(m.from) \in Nat
  BY SdsAssumption
<1>2. \A i \in DOMAIN m.from : First(i) <=> Earliest(i)
  <2> SUFFICES ASSUME NEW i \in 1 .. Len(m.from), m.from[i] = b
               PROVE (\A j \in 1 .. i - 1 : m.from[j] # b) <=>
                     (\A j \in 1 .. Len(m.from) : m.from[j] = b => i <= j)
    BY <1>1
  <2>1. ASSUME \A j \in 1 .. i - 1 : m.from[j] # b, NEW j \in 1 .. Len(m.from), m.from[j] = b
        PROVE  i <= j
    <3>1. j \notin 1 .. i - 1
      BY <2>1
    <3> QED
      BY <1>1, <3>1
  <2>2. ASSUME \A j \in 1 .. Len(m.from) : m.from[j] = b => i <= j, NEW j \in 1 .. i - 1
        PROVE  m.from[j] # b
    <3>1. j \in 1 .. Len(m.from) /\ ~(i <= j)
      BY <1>1
    <3> QED
      BY <2>2, <3>1
  <2> QED
    BY <2>1, <2>2
<1>3. (CHOOSE i \in DOMAIN m.from : First(i)) = CHOOSE i \in DOMAIN m.from : Earliest(i)
  <2> HIDE DEF First, Earliest
  <2> QED
    BY <1>2
<1>4. Translated(m, b) = IF b \notin Found THEN b ELSE m.to[CHOOSE i \in DOMAIN m.from : First(i)]
  BY DEF Translated
<1>5. /\ DOMAIN AsMap(m) = Found
      /\ b \in Found => AsMap(m)[b] = m.to[CHOOSE i \in DOMAIN m.from : Earliest(i)]
  BY DEF AsMap, Entry
<1> HIDE DEF First, Earliest, Found
<1> QED
  BY <1>3, <1>4, <1>5

LEMMA MapCharsContent ==
  ASSUME NEW s, Good(s), NEW m \in CharMaps
  PROVE  Content(sdsmapchars(s, m)) = Abstract!Replaced(Content(s), AsMap(m))
<1> DEFINE f == [b \in Bytes |-> Translated(m, b)]
           map == AsMap(m)
<1>1. f \in [Bytes -> Bytes]
  BY TranslatedType
<1>2. \A b \in Bytes : f[b] = IF b \in DOMAIN map THEN map[b] ELSE b
  BY TranslatedEntry
<1> HIDE DEF f, map
<1>3. Content(Mapped(s, f)) = Abstract!Replaced(Content(s), map)
  BY <1>1, <1>2, MappedContent
<1> QED
  BY <1>3 DEF sdsmapchars, f, map

-----------------------------------------------------------------------------
(* What every call does with a good string                                 *)

LEMMA TextCalls ==
  ASSUME NoWrap, NEW s, Good(s), NEW t \in Texts
  PROVE  LET c == Content(s)
             z == Abstract!UpToNul(t)
         IN  /\ Gives(sdscatlen(s, t), c \o t)
             /\ Gives(sdscat(s, t) \cup sdscatvprintf(s, t), c \o z)
             /\ Gives(sdscpylen(s, t), t) /\ Gives(sdscpy(s, t), z)
<1>1. t \in Seq(Bytes) /\ CString(t) \in Seq(Bytes) /\ CString(t) = Abstract!UpToNul(t)
  BY ConstantTypes, CStringType, CStringUpToNul
<1>2. Gives(sdscatlen(s, t), Content(s) \o t)
  BY <1>1, CatLenContent DEF Gives
<1>3. Gives(sdscat(s, t) \cup sdscatvprintf(s, t), Content(s) \o Abstract!UpToNul(t))
  BY <1>1, CatLenContent, PrintfContent DEF Gives, sdscat
<1>4. Gives(sdscpylen(s, t), t)
  BY <1>1, CpyLenContent DEF Gives
<1>5. Gives(sdscpy(s, t), Abstract!UpToNul(t))
  BY <1>1, CpyLenContent DEF Gives, sdscpy
<1> QED
  BY <1>2, <1>3, <1>4, <1>5

LEMMA TrimCalls ==
  ASSUME NoWrap, NEW s, Good(s), NEW cset
  PROVE  \E o \in sdstrim(s, cset) :
           /\ sdstrim(s, cset) = {o}
           /\ Abstract!IsTrimmed(Content(o), Content(s), cset \cup {0})
<1> DEFINE R(e) == Cut(s, e[1], IF e[1] > e[2] THEN 0 ELSE e[2] - e[1] + 1)
<1>1. sdstrim(s, cset) = {R(e) : e \in TrimEnds(s, cset)}
  BY DEF sdstrim
<1>2. PICK e \in TrimEnds(s, cset) : TrimEnds(s, cset) = {e}
  BY TrimEndsOne
<1> HIDE DEF R
<1>3. R(e) \in sdstrim(s, cset) /\ sdstrim(s, cset) = {R(e)}
  BY <1>1, <1>2
<1>4. Abstract!IsTrimmed(Content(R(e)), Content(s), cset \cup {0})
  BY <1>3, TrimContent
<1> QED
  BY <1>3, <1>4

-----------------------------------------------------------------------------
(* Every step                                                              *)

LEMMA UpdateKeeps ==
  ASSUME Inv, NEW O, \A o \in O : o # NULL => Good(o), Update(O)
  PROVE  Inv'
<1>1. str # NULL /\ Good(str)
  BY DEF Inv, Update
<1>2. PICK o \in O : str' = IF o = NULL THEN str ELSE o
  BY DEF Update
<1>3. Good(str')
  BY <1>1, <1>2
<1> QED
  BY <1>3 DEF Inv

LEMMA HeldGood ==
  ASSUME Inv, NEW O, Update(O)
  PROVE  Good(str)
BY DEF Inv, Update

LEMMA TextStep ==
  ASSUME NoWrap, Inv, NEW t \in Texts, CallWithText(t)
  PROVE  Inv'
<1>1. t \in Seq(Bytes) /\ Len(t) \in Nat /\ Len(t) \in 0 .. Len(t)
  BY ConstantTypes, CellTexts
<1>2. StrLen(t) \in 0 .. Len(t) /\ CString(t) \in Seq(Bytes)
  BY <1>1, StrLenFirst, CStringType
<1>3. CASE New(t)
  <2>1. str' \in sdsnewlen(t, Len(t))
    BY <1>3 DEF New
  <2> QED
    BY <1>1, <2>1, NewTextGood DEF Inv
<1>4. CASE NewC(t)
  <2>1. str' \in sdsnew(t)
    BY <1>4 DEF NewC
  <2>2. CASE t = NULL
    BY <2>1, <2>2, NewZerosGood DEF sdsnew, Inv
  <2>3. CASE t # NULL
    <3>1. str' \in sdsnewlen(t, StrLen(t))
      BY <2>1, <2>3 DEF sdsnew
    <3> QED
      BY <1>1, <1>2, <3>1, NewTextGood DEF Inv
  <2> QED
    BY <2>2, <2>3
<1>5. CASE CatLen(t)
  <2>1. Good(str)
    BY <1>5, HeldGood DEF CatLen
  <2>2. \A o \in sdscatlen(str, t) : o # NULL => Good(o)
    BY <1>1, <2>1, CatLenGood
  <2> QED
    BY <1>5, <2>2, UpdateKeeps DEF CatLen
<1>6. CASE Cat(t)
  <2>1. Good(str)
    BY <1>6, HeldGood DEF Cat
  <2>2. \A o \in sdscat(str, t) : o # NULL => Good(o)
    BY <1>2, <2>1, CatLenGood DEF sdscat
  <2> QED
    BY <1>6, <2>2, UpdateKeeps DEF Cat
<1>7. CASE CatPrintf(t)
  <2>1. Good(str)
    BY <1>7, HeldGood DEF CatPrintf
  <2>2. \A o \in sdscatvprintf(str, t) : o # NULL => Good(o)
    BY <1>1, <2>1, PrintfGood
  <2> QED
    BY <1>7, <2>2, UpdateKeeps DEF CatPrintf
<1>8. CASE CpyLen(t)
  <2>1. Good(str)
    BY <1>8, HeldGood DEF CpyLen
  <2>2. \A o \in sdscpylen(str, t) : o # NULL => Good(o)
    BY <1>1, <2>1, CpyLenGood
  <2> QED
    BY <1>8, <2>2, UpdateKeeps DEF CpyLen
<1>9. CASE Cpy(t)
  <2>1. Good(str)
    BY <1>9, HeldGood DEF Cpy
  <2>2. \A o \in sdscpy(str, t) : o # NULL => Good(o)
    BY <1>2, <2>1, CpyLenGood DEF sdscpy
  <2> QED
    BY <1>9, <2>2, UpdateKeeps DEF Cpy
<1>10. CASE ReadInto(t)
  <2>1. Good(str) /\ str.free >= Len(t)
        /\ str' = sdsIncrLen([str EXCEPT !.buf = Write(@, str.len, t)], Len(t))
    BY <1>10 DEF ReadInto, Inv
  <2>2. Good(str')
    BY <1>1, <2>1, ReadIntoGood
  <2> QED
    BY <2>2 DEF Inv
<1> QED
  BY <1>3, <1>4, <1>5, <1>6, <1>7, <1>8, <1>9, <1>10 DEF CallWithText

LEMMA SizeStep ==
  ASSUME NoWrap, Inv, NEW n \in Sizes,
         NewZeros(n) \/ MakeRoom(n) \/ GrowZero(n) \/ TrimRight(n) \/ Poke(n)
  PROVE  Inv'
<1>1. n \in Nat
  BY ConstantTypes
<1>2. CASE NewZeros(n)
  BY <1>1, <1>2, NewZerosGood DEF NewZeros, Inv
<1>3. CASE MakeRoom(n)
  <2>1. Good(str)
    BY <1>3, HeldGood DEF MakeRoom
  <2>2. \A o \in sdsMakeRoomFor(str, n) : o # NULL => Good(o)
    BY <1>1, <2>1, MakeRoomGood
  <2> QED
    BY <1>3, <2>2, UpdateKeeps DEF MakeRoom
<1>4. CASE GrowZero(n)
  <2>1. Good(str)
    BY <1>4, HeldGood DEF GrowZero
  <2>2. \A o \in sdsgrowzero(str, n) : o # NULL => Good(o)
    BY <1>1, <2>1, GrowZeroGood
  <2> QED
    BY <1>4, <2>2, UpdateKeeps DEF GrowZero
<1>5. CASE TrimRight(n)
  <2>1. Good(str) /\ n <= str.len /\ str' = sdsIncrLen(str, -n)
    BY <1>5 DEF TrimRight, Inv
  <2>2. n \in 0 .. str.len
    BY <1>1, <2>1 DEF Good
  <2>3. Good(str')
    BY <2>1, <2>2, TrimRightGood
  <2> QED
    BY <2>3 DEF Inv
<1>6. CASE Poke(n)
  <2>1. Good(str) /\ n \in 1 .. str.len /\ str' = [str EXCEPT !.buf[n] = 0]
    BY <1>6 DEF Poke, Inv
  <2>2. Good(str')
    BY <2>1, PokeGood
  <2> QED
    BY <2>2 DEF Inv
<1> QED
  BY <1>2, <1>3, <1>4, <1>5, <1>6

LEMMA PlainStep ==
  ASSUME NoWrap, Inv,
         \/ NewEmpty \/ Duplicate \/ sdsfree \/ RemoveFreeSpace \/ CatSelf
         \/ Clear \/ UpdateLen \/ ToLower \/ ToUpper
  PROVE  Inv'
<1>1. CASE NewEmpty
  <2>1. str' \in sdsempty \cup sdsnew(NULL)
    BY <1>1 DEF NewEmpty
  <2>2. CASE str' \in sdsnew(NULL)
    BY <2>2, NewZerosGood DEF sdsnew, Inv
  <2>3. CASE str' \in sdsempty
    <3> DEFINE t == <<>>
    <3>1. t \in Seq(Bytes) /\ 0 \in 0 .. Len(t) /\ str' \in sdsnewlen(t, 0)
      BY <2>3 DEF sdsempty
    <3> HIDE DEF t
    <3> QED
      BY <3>1, NewTextGood DEF Inv
  <2> QED
    BY <2>1, <2>2, <2>3
<1>2. CASE Duplicate
  <2>1. \A o \in sdsdup(str) : o # NULL => Good(o)
    BY <1>2, HeldGood, DupGood DEF Duplicate
  <2> QED
    BY <1>2, <2>1, UpdateKeeps DEF Duplicate
<1>3. CASE sdsfree
  BY <1>3 DEF sdsfree, Inv
<1>4. CASE RemoveFreeSpace
  <2>1. \A o \in {sdsRemoveFreeSpace(str)} : o # NULL => Good(o)
    BY <1>4, HeldGood, RemoveFreeSpaceGood DEF RemoveFreeSpace
  <2> QED
    BY <1>4, <2>1, UpdateKeeps DEF RemoveFreeSpace
<1>5. CASE CatSelf
  <2>1. Good(str)
    BY <1>5 DEF CatSelf, Inv
  <2>2. Content(str) \in Seq(Bytes)
    <3>1. str.len \in Int /\ \A i \in 1 .. str.len : str.buf[i] \in Bytes
      BY <2>1 DEF Good
    <3> QED
      BY <3>1, SubSeqProperties DEF Content
  <2>3. \A o \in sdscatsds(str, str) : o # NULL => Good(o)
    BY <2>1, <2>2, CatLenGood DEF sdscatsds
  <2> QED
    BY <1>5, <2>3, UpdateKeeps DEF CatSelf
<1>6. CASE Clear
  <2>1. \A o \in {sdsclear(str)} : o # NULL => Good(o)
    BY <1>6, HeldGood, ClearGood DEF Clear
  <2> QED
    BY <1>6, <2>1, UpdateKeeps DEF Clear
<1>7. CASE UpdateLen
  <2>1. \A o \in {sdsupdatelen(str)} : o # NULL => Good(o)
    BY <1>7, HeldGood, UpdateLenGood DEF UpdateLen
  <2> QED
    BY <1>7, <2>1, UpdateKeeps DEF UpdateLen
<1>8. CASE ToLower
  <2>1. \A o \in {sdstolower(str)} : o # NULL => Good(o)
    BY <1>8, HeldGood, LowerGood DEF ToLower
  <2> QED
    BY <1>8, <2>1, UpdateKeeps DEF ToLower
<1>9. CASE ToUpper
  <2>1. \A o \in {sdstoupper(str)} : o # NULL => Good(o)
    BY <1>9, HeldGood, UpperGood DEF ToUpper
  <2> QED
    BY <1>9, <2>1, UpdateKeeps DEF ToUpper
<1> QED
  BY <1>1, <1>2, <1>3, <1>4, <1>5, <1>6, <1>7, <1>8, <1>9

LEMMA InvStep ==
  ASSUME NoWrap, Inv, [Next]_str
  PROVE  Inv'
<1>1. CASE UNCHANGED str
  BY <1>1 DEF Inv
<1>2. ASSUME NEW cset \in CharSets, Trim(cset) PROVE Inv'
  <2>1. Good(str)
    BY <1>2, HeldGood DEF Trim
  <2>2. \A o \in sdstrim(str, cset) : o # NULL => Good(o)
    BY <2>1, TrimGood
  <2> QED
    BY <1>2, <2>2, UpdateKeeps DEF Trim
<1>3. ASSUME NEW i \in Indexes, NEW j \in Indexes, KeepRange(i, j) PROVE Inv'
  <2>1. i \in Int /\ j \in Int
    BY ConstantTypes
  <2>2. Good(str)
    BY <1>3, HeldGood DEF KeepRange
  <2>3. \A o \in {sdsrange(str, i, j)} : o # NULL => Good(o)
    BY <2>1, <2>2, RangeGood
  <2> QED
    BY <1>3, <2>3, UpdateKeeps DEF KeepRange
<1>4. ASSUME NEW m \in CharMaps, MapChars(m) PROVE Inv'
  <2>1. Good(str)
    BY <1>4, HeldGood DEF MapChars
  <2>2. \A o \in {sdsmapchars(str, m)} : o # NULL => Good(o)
    BY <2>1, MapCharsGood
  <2> QED
    BY <1>4, <2>2, UpdateKeeps DEF MapChars
<1> QED
  BY <1>1, <1>2, <1>3, <1>4, TextStep, SizeStep, PlainStep DEF Next

LEMMA Invariant == NoWrap => (Spec => []Inv)
<1>1. Init => Inv
  BY DEF Init, Inv
<1>2. NoWrap /\ Inv /\ [Next]_str => Inv'
  BY InvStep
<1>3. ASSUME NoWrap PROVE Spec => []Inv
  <2>1. Inv /\ [Next]_str => Inv'
    BY <1>2, <1>3
  <2> QED
    BY <1>1, <2>1, PTL DEF Spec
<1> QED
  BY <1>3

-----------------------------------------------------------------------------
(* The step that the abstract string takes                                 *)

AbstractText == IF str = NULL THEN NULL ELSE Content(str)

Moves == Abstract!Next \/ AbstractText' = AbstractText

LEMMA HeldText ==
  ASSUME Inv, str # NULL
  PROVE  /\ AbstractText = Content(str) /\ AbstractText \in Seq(Bytes) /\ AbstractText # NULL
         /\ Len(AbstractText) = str.len /\ str.len \in Nat /\ DOMAIN AbstractText = 1 .. str.len
<1>1. Good(str)
  BY DEF Inv
<1>2. Content(str) \in Seq(Bytes) /\ Len(Content(str)) = str.len /\ str.len \in Nat
  BY <1>1, ContentProperties
<1>3. Content(str) # NULL
  BY <1>2, CellTexts, SdsAssumption DEF Cell
<1> QED
  BY <1>2, <1>3 DEF AbstractText

\* A call on the string leaves what it gives, or what was there.
LEMMA UpdateBecomes ==
  ASSUME Inv, NEW O, NEW t, Gives(O, t), Update(O)
  PROVE  str # NULL /\ AbstractText' \in {t, AbstractText}
<1>1. str # NULL
  BY DEF Update
<1>2. PICK o \in O : str' = IF o = NULL THEN str ELSE o
  BY DEF Update
<1>3. CASE o = NULL
  BY <1>1, <1>2, <1>3 DEF AbstractText
<1>4. CASE o # NULL
  <2>1. Content(o) = t
    BY <1>4 DEF Gives
  <2> QED
    BY <1>1, <1>2, <1>4, <2>1 DEF AbstractText
<1> QED
  BY <1>3, <1>4

LEMMA UpdateKeepsText ==
  ASSUME Inv, NEW O, Gives(O, Content(str)), Update(O)
  PROVE  Moves
<1>1. str # NULL /\ AbstractText' \in {Content(str), AbstractText}
  BY UpdateBecomes
<1> QED
  BY <1>1, HeldText DEF Moves

LEMMA CreateMoves ==
  ASSUME AbstractText = NULL, NEW u, AbstractText' \in {u, AbstractText},
         u = <<>> \/ (\E t \in Texts : u \in {t, Abstract!UpToNul(t)})
                  \/ (\E n \in Sizes : u = Abstract!Zeros(n))
  PROVE  Moves
BY DEF Moves, Abstract!Next, Abstract!Create, Abstract!CreateZeros, Abstract!Become, AbstractText

LEMMA ExtendMoves ==
  ASSUME AbstractText # NULL, NEW u, AbstractText' \in {AbstractText \o u, AbstractText},
         u = AbstractText \/ (\E t \in Texts : u \in {t, Abstract!UpToNul(t)})
                          \/ (\E n \in Sizes : u = Abstract!Zeros(n - Len(AbstractText)))
  PROVE  Moves
<1>1. Abstract!Extend
  BY DEF Abstract!Extend, Abstract!Become, AbstractText
<1> QED
  BY <1>1 DEF Moves, Abstract!Next, AbstractText

LEMMA AssignMoves ==
  ASSUME AbstractText # NULL, NEW t \in Texts, NEW u \in {t, Abstract!UpToNul(t)},
         AbstractText' \in {u, AbstractText}
  PROVE  Moves
<1>1. Abstract!Assign
  BY DEF Abstract!Assign, Abstract!Become, AbstractText
<1> QED
  BY <1>1 DEF Moves, Abstract!Next, AbstractText

LEMMA ShortenMoves ==
  ASSUME AbstractText # NULL, NEW l \in 1 .. Len(AbstractText) + 1, NEW n \in 0 .. Len(AbstractText),
         AbstractText' = SubSeq(AbstractText, l, n)
  PROVE  Moves
<1>1. Abstract!Shorten
  BY DEF Abstract!Shorten, AbstractText
<1> QED
  BY <1>1 DEF Moves, Abstract!Next, AbstractText

LEMMA ReplaceMoves ==
  ASSUME AbstractText # NULL, NEW map \in {AsMap(m) : m \in CharMaps} \cup {Lower, Upper},
         AbstractText' \in {Abstract!Replaced(AbstractText, map), AbstractText}
  PROVE  Moves
<1>1. CASE AbstractText' = Abstract!Replaced(AbstractText, map)
  <2>1. Abstract!Change
    BY <1>1, Zenon DEF Abstract!Change, AbstractText
  <2> QED
    BY <2>1 DEF Moves, Abstract!Next, AbstractText
<1>2. CASE AbstractText' = AbstractText
  BY <1>2 DEF Moves
<1> QED
  BY <1>1, <1>2

-----------------------------------------------------------------------------
(* What the client does without a call                                     *)

LEMMA ReadIntoContent ==
  ASSUME NoWrap, NEW s, Good(s), NEW t \in Seq(Bytes), s.free >= Len(t)
  PROVE  Content(sdsIncrLen([s EXCEPT !.buf = Write(@, s.len, t)], Len(t))) = Content(s) \o t
<1> DEFINE c == Write(s.buf, s.len, t)
           l == s.len + Len(t)
           q == [s EXCEPT !.buf = Write(@, s.len, t)]
           r == sdsIncrLen(q, Len(t))
           b == Write(c, l, <<0>>)
           u == Content(s) \o t
<1>1. /\ DOMAIN s = {"len", "free", "buf"}
      /\ s.len \in Nat /\ s.free \in Nat /\ s.buf \in Seq(Cell)
      /\ Len(s.buf) = s.len + s.free + 1 /\ Len(s.buf) <= MaxBytes
  BY DEF Good
<1>2. t \in Seq(Cell) /\ Len(t) \in Nat
  BY CellTexts
<1>3. l \in Nat /\ s.len + Len(t) <= Len(s.buf) /\ l + 1 <= Len(s.buf) /\ l \in 0 .. IntMax
  BY <1>1, <1>2, ConstantTypes DEF NoWrap
<1>4. /\ c \in Seq(Cell) /\ Len(c) = Len(s.buf)
      /\ \A i \in 1 .. Len(s.buf) :
           c[i] = IF s.len < i /\ i <= s.len + Len(t) THEN t[i - s.len] ELSE s.buf[i]
  BY <1>1, <1>2, <1>3, WriteProperties
<1>5. q.len = s.len /\ q.free = s.free /\ q.buf = c
  BY <1>1
<1>6. Good(r)
  BY ReadIntoGood
<1> HIDE DEF q
<1>7. r.len = l /\ r.buf = b
  BY <1>3, <1>5, WrapId DEF sdsIncrLen, String
<1> HIDE DEF c, r
<1>8. \A i \in 1 .. l : b[i] = c[i]
  <2>1. <<0>> \in Seq(Cell) /\ Len(<<0>>) = 1
    BY ConstantTypes
  <2>2. l + Len(<<0>>) <= Len(c)
    BY <1>3, <1>4, <2>1
  <2> HIDE DEF l
  <2>3. \A i \in 1 .. Len(c) : b[i] = IF l < i /\ i <= l + Len(<<0>>) THEN <<0>>[i - l] ELSE c[i]
    BY <1>3, <1>4, <2>1, <2>2, WriteProperties
  <2>4. \A i \in 1 .. l : i \in 1 .. Len(c) /\ ~(l < i)
    BY <1>3, <1>4
  <2> HIDE DEF b
  <2> QED
    BY <2>3, <2>4
<1> HIDE DEF b
<1>9. /\ Content(s) \in Seq(Bytes) /\ Len(Content(s)) = s.len
      /\ \A i \in 1 .. s.len : Content(s)[i] = s.buf[i]
  BY ContentProperties
<1>10. /\ u \in Seq(Bytes) /\ Len(u) = s.len + Len(t)
       /\ \A i \in 1 .. s.len + Len(t) :
            u[i] = IF i <= s.len THEN Content(s)[i] ELSE t[i - s.len]
  <2> DEFINE h == Content(s)
  <2>1. h \in Seq(Bytes) /\ Len(h) = s.len
    BY <1>9
  <2> HIDE DEF h
  <2>2. /\ h \o t \in Seq(Bytes) /\ Len(h \o t) = Len(h) + Len(t)
        /\ \A i \in 1 .. Len(h) + Len(t) :
             (h \o t)[i] = IF i <= Len(h) THEN h[i] ELSE t[i - Len(h)]
    BY <2>1, ConcatProperties
  <2> QED
    BY <2>1, <2>2 DEF h
<1> HIDE DEF u
<1>11. \A i \in 1 .. l : r.buf[i] = u[i]
  <2> SUFFICES ASSUME NEW i \in 1 .. l PROVE r.buf[i] = u[i]
    OBVIOUS
  <2>1. i \in 1 .. Len(s.buf) /\ i \in 1 .. s.len + Len(t) /\ r.buf[i] = c[i]
    BY <1>1, <1>3, <1>7, <1>8
  <2>2. CASE i <= s.len
    <3>1. i \in 1 .. s.len /\ ~(s.len < i)
      BY <1>1, <2>2
    <3> QED
      BY <1>4, <1>9, <1>10, <2>1, <2>2, <3>1
  <2>3. CASE ~(i <= s.len)
    <3>1. s.len < i /\ i <= s.len + Len(t)
      BY <1>1, <2>3
    <3> QED
      BY <1>4, <1>10, <2>1, <2>3, <3>1
  <2> QED
    BY <2>2, <2>3
<1>12. Content(r) = u
  BY <1>6, <1>7, <1>10, <1>11, SameContent
<1> QED
  BY <1>12 DEF r, q, u

LEMMA TrimRightContent ==
  ASSUME NoWrap, NEW s, Good(s), NEW n \in 0 .. s.len
  PROVE  /\ s.len - n \in 0 .. s.len
         /\ Content(sdsIncrLen(s, -n)) = SubSeq(Content(s), 1, s.len - n)
<1> DEFINE l == s.len + (-n)
           f == s.free - (-n)
           t == <<>>
<1>1. s.len \in Nat /\ s.free \in Nat
  BY DEF Good
<1>2. t \in Seq(Bytes) /\ Len(t) = 0 /\ t \o <<0>> = <<0>>
  OBVIOUS
<1>3. /\ l \in 0 .. s.len /\ f \in Nat /\ l \in Nat /\ l = l + Len(t) /\ l + f = s.len + s.free
      /\ l = s.len - n
  BY <1>1, <1>2
<1> HIDE DEF l, f, t
<1>4. Content(String(l, f, Write(s.buf, l, t \o <<0>>))) = SubSeq(Content(s), 1, l) \o t
  <2>1. t \in Seq(Bytes) /\ l \in 0 .. s.len /\ l \in Nat /\ f \in Nat
    BY <1>2, <1>3
  <2>2. l = l + Len(t) /\ l + f = s.len + s.free
    BY <1>3
  <2> QED
    BY <2>1, <2>2, WrittenContent
<1>5. SubSeq(Content(s), 1, l) \in Seq(Bytes)
  <2>1. l \in 0 .. Len(Content(s)) /\ Content(s) \in Seq(Bytes)
    BY <1>3, ContentProperties
  <2> QED
    BY <2>1, FrontProperties
<1>6. SubSeq(Content(s), 1, l) \o t = SubSeq(Content(s), 1, l)
  BY <1>5, WholeAndNone DEF t
<1> QED
  BY <1>2, <1>3, <1>4, <1>6 DEF sdsIncrLen, l, f

LEMMA PokeContent ==
  ASSUME NEW s, Good(s), NEW i \in 1 .. s.len
  PROVE  Content([s EXCEPT !.buf[i] = 0]) = [Content(s) EXCEPT ![i] = 0]
<1> DEFINE q == [s EXCEPT !.buf[i] = 0]
           u == [Content(s) EXCEPT ![i] = 0]
<1>1. /\ DOMAIN s = {"len", "free", "buf"} /\ s.len \in Nat /\ s.buf \in Seq(Cell)
      /\ s.len <= Len(s.buf)
  BY DEF Good
<1>2. Good(q)
  BY PokeGood
<1>3. q.len = s.len /\ q.buf = [s.buf EXCEPT ![i] = 0]
  BY <1>1
<1>4. /\ Content(s) \in Seq(Bytes) /\ Len(Content(s)) = s.len
      /\ \A j \in 1 .. s.len : Content(s)[j] = s.buf[j]
  BY ContentProperties
<1>5. u \in Seq(Bytes) /\ Len(u) = s.len /\ u[i] = 0 /\ \A j \in 1 .. s.len : j # i => u[j] = s.buf[j]
  BY <1>4, ConstantTypes
<1> HIDE DEF q, u
<1>6. \A j \in 1 .. s.len : q.buf[j] = u[j]
  <2>1. \A j \in 1 .. s.len : j \in DOMAIN s.buf
    BY <1>1
  <2> QED
    BY <1>3, <1>5, <2>1
<1>7. Content(q) = u
  BY <1>2, <1>3, <1>5, <1>6, SameContent
<1> QED
  BY <1>7 DEF q, u

LEMMA NewZerosContent ==
  ASSUME NoWrap, NEW n \in Nat, NEW r \in sdsnewlen(NULL, n), r # NULL
  PROVE  Content(r) = Abstract!Zeros(n)
<1> DEFINE b == Cells(n + 1, 0)
<1>1. /\ b \in Seq(Bytes) /\ Len(b) = n + 1 /\ \A i \in 1 .. n + 1 : b[i] = 0
  BY ZerosProperties
<1>2. /\ Cells(n, 0) \in Seq(Bytes) /\ Len(Cells(n, 0)) = n /\ \A i \in 1 .. n : Cells(n, 0)[i] = 0
      /\ Cells(n, 0) = Abstract!Zeros(n)
  BY ZerosProperties
<1> HIDE DEF b
<1>3. r = String(n, 0, b) /\ r.buf = b
  BY DEF sdsnewlen, Given, String, b
<1>4. Good(r)
  BY NewZerosGood
<1>5. r.len = n
  <2>1. r.free \in Nat /\ r.len \in Nat /\ Len(r.buf) <= MaxBytes
    BY <1>4 DEF Good
  <2>2. n \in 0 .. IntMax
    BY <1>1, <1>3, <2>1, ConstantTypes DEF NoWrap
  <2> QED
    BY <1>3, <2>2, WrapId DEF String
<1>6. Content(r) = Cells(n, 0)
  BY <1>1, <1>2, <1>3, <1>4, <1>5, SameContent
<1> QED
  BY <1>2, <1>6

LEMMA NewEmptyContent ==
  ASSUME NoWrap, NEW r \in sdsempty \cup sdsnew(NULL), r # NULL
  PROVE  Content(r) = <<>>
<1>1. CASE r \in sdsnew(NULL)
  <2>1. r \in sdsnewlen(NULL, 0) /\ 0 \in Nat
    BY <1>1 DEF sdsnew
  <2>2. Content(r) = Abstract!Zeros(0)
    BY <2>1, NewZerosContent
  <2> QED
    BY <2>2 DEF Abstract!Zeros
<1>2. CASE r \in sdsempty
  <2> DEFINE t == <<>>
  <2>1. t \in Seq(Bytes) /\ 0 \in 0 .. Len(t) /\ r \in sdsnewlen(t, 0) /\ SubSeq(t, 1, 0) = t
    BY <1>2, SubSeqEmpty DEF sdsempty
  <2>2. t # NULL
    BY <2>1, CellTexts, SdsAssumption DEF Cell
  <2> HIDE DEF t
  <2>3. Content(r) = t
    BY <2>1, <2>2, NewTextContent
  <2> QED
    BY <2>3 DEF t
<1> QED
  BY <1>1, <1>2

-----------------------------------------------------------------------------
(* Each call has the right result                                          *)

LEMMA Creates == NoWrap => CreatesRight
<1> SUFFICES ASSUME NoWrap PROVE CreatesRight
  OBVIOUS
<1>1. ASSUME NEW t \in Texts
      PROVE  /\ Gives(sdsnewlen(t, Len(t)), t)
             /\ Gives(sdsnew(t), Abstract!UpToNul(t))
  <2>1. /\ t \in Seq(Bytes) /\ Len(t) \in 0 .. Len(t) /\ t # NULL
        /\ StrLen(t) \in 0 .. Len(t) /\ SubSeq(t, 1, Len(t)) = t
        /\ SubSeq(t, 1, StrLen(t)) = Abstract!UpToNul(t)
    BY ConstantTypes, CellTexts, SdsAssumption, StrLenFirst, CStringUpToNul, WholeAndNone
       DEF Cell, CString
  <2>2. Gives(sdsnewlen(t, Len(t)), t)
    BY <2>1, NewTextContent DEF Gives
  <2>3. sdsnew(t) = sdsnewlen(t, StrLen(t))
    BY <2>1 DEF sdsnew
  <2>4. Gives(sdsnewlen(t, StrLen(t)), Abstract!UpToNul(t))
    BY <2>1, NewTextContent DEF Gives
  <2> QED
    BY <2>2, <2>3, <2>4
<1>2. \A n \in Sizes : Gives(sdsnewlen(NULL, n), Abstract!Zeros(n))
  BY ConstantTypes, NewZerosContent DEF Gives
<1>3. Gives(sdsempty \cup sdsnew(NULL), <<>>)
  BY NewEmptyContent DEF Gives
<1> QED
  BY <1>1, <1>2, <1>3 DEF CreatesRight

LEMMA Appends ==
  ASSUME NoWrap, Good(str)
  PROVE  AppendsRight(Content(str))
<1> DEFINE c == Content(str)
<1>0. str.len \in Nat /\ c \in Seq(Bytes)
  BY ContentProperties DEF Good
<1>1. ASSUME NEW t \in Texts
      PROVE  LET z == Abstract!UpToNul(t)
                 filled == [str EXCEPT !.buf = Write(@, str.len, t)]
             IN  /\ Gives(sdscatlen(str, t), c \o t)
                 /\ Gives(sdscat(str, t) \cup sdscatvprintf(str, t), c \o z)
                 /\ \A o \in sdsnewlen(t, Len(t)) \ {NULL} : Gives(sdscatsds(str, o), c \o t)
                 /\ Gives(sdscpylen(str, t), t) /\ Gives(sdscpy(str, t), z)
                 /\ str.free >= Len(t) => Gives({sdsIncrLen(filled, Len(t))}, c \o t)
  <2>1. /\ Gives(sdscatlen(str, t), c \o t)
        /\ Gives(sdscat(str, t) \cup sdscatvprintf(str, t), c \o Abstract!UpToNul(t))
        /\ Gives(sdscpylen(str, t), t) /\ Gives(sdscpy(str, t), Abstract!UpToNul(t))
    BY TextCalls
  <2>2. ASSUME NEW o \in sdsnewlen(t, Len(t)) \ {NULL}
        PROVE  Gives(sdscatsds(str, o), c \o t)
    <3>1. Gives(sdsnewlen(t, Len(t)), t)
      BY Creates DEF CreatesRight
    <3>2. Content(o) = t
      BY <3>1 DEF Gives
    <3> QED
      BY <2>1, <3>2 DEF sdscatsds
  <2>3. t \in Seq(Bytes)
    BY ConstantTypes
  <2>4. ASSUME str.free >= Len(t)
        PROVE  Gives({sdsIncrLen([str EXCEPT !.buf = Write(@, str.len, t)], Len(t))}, c \o t)
    BY <2>3, <2>4, ReadIntoContent DEF Gives
  <2> HIDE DEF c
  <2> QED
    BY <2>1, <2>2, <2>4
<1>2. Gives(sdscatsds(str, str), c \o c)
  BY <1>0, CatLenContent DEF sdscatsds, Gives
<1> QED
  BY <1>1, <1>2, Zenon DEF AppendsRight

LEMMA Rooms ==
  ASSUME NoWrap, Good(str)
  PROVE  RoomRight(Content(str))
<1>1. \A n \in Sizes : /\ Gives(sdsMakeRoomFor(str, n), Content(str))
                       /\ Gives(sdsgrowzero(str, n), Content(str) \o Abstract!Zeros(n - str.len))
  BY ConstantTypes, MakeRoomContent, GrowZeroContent DEF Gives
<1>2. \A n \in Sizes : \A o \in sdsMakeRoomFor(str, n) \ {NULL} : o.free >= n
  BY ConstantTypes, MakeRoomGood
<1>3. Gives({sdsRemoveFreeSpace(str)} \cup sdsdup(str), Content(str))
  BY RemoveFreeSpaceContent, DupContent DEF Gives
<1> QED
  BY <1>1, <1>2, <1>3, Zenon DEF RoomRight

LEMMA Cuts ==
  ASSUME NoWrap, Good(str)
  PROVE  CutsRight(Content(str))
<1>1. Gives({sdsclear(str)}, <<>>) /\ Gives({sdsupdatelen(str)}, Abstract!UpToNul(Content(str)))
  BY ClearContent, UpdateLenContent DEF Gives
<1>2. ASSUME NEW n \in Sizes, n <= str.len
      PROVE  Gives({sdsIncrLen(str, -n)}, SubSeq(Content(str), 1, str.len - n))
  <2>1. n \in 0 .. str.len
    BY <1>2, ConstantTypes DEF Good
  <2> QED
    BY <2>1, TrimRightContent DEF Gives
<1>3. \A i, j \in Indexes : Gives({sdsrange(str, i, j)}, Abstract!Slice(Content(str), i, j))
  BY ConstantTypes, RangeContent DEF Gives
<1>4. \A cset \in CharSets :
        \E o \in sdstrim(str, cset) :
          /\ sdstrim(str, cset) = {o}
          /\ Abstract!IsTrimmed(Content(o), Content(str), cset \cup {0})
  BY TrimCalls
<1> QED
  BY <1>1, <1>2, <1>3, <1>4, Zenon DEF CutsRight

LEMMA Changes ==
  ASSUME NoWrap, Good(str)
  PROVE  ChangesRight(Content(str))
<1>1. \A m \in CharMaps : Gives({sdsmapchars(str, m)}, Abstract!Replaced(Content(str), AsMap(m)))
  BY MapCharsContent DEF Gives
<1>2. /\ Gives({sdstolower(str)}, Abstract!Replaced(Content(str), Lower))
      /\ Gives({sdstoupper(str)}, Abstract!Replaced(Content(str), Upper))
  BY LowerContent, UpperContent DEF Gives
<1> QED
  BY <1>1, <1>2 DEF ChangesRight

LEMMA InvCallsRight == NoWrap /\ Inv => CallsRight
<1> SUFFICES ASSUME NoWrap, Inv PROVE CallsRight
  OBVIOUS
<1>1. CreatesRight
  BY Creates
<1>2. ASSUME str # NULL
      PROVE  /\ AppendsRight(Content(str)) /\ RoomRight(Content(str))
             /\ CutsRight(Content(str)) /\ ChangesRight(Content(str))
  BY <1>2, Appends, Rooms, Cuts, Changes DEF Inv
<1> QED
  BY <1>1, <1>2 DEF CallsRight

-----------------------------------------------------------------------------
(* Every step is one of the abstract string                                *)

LEMMA CreatedText ==
  ASSUME str = NULL, NEW u, str' # NULL => Content(str') = u,
         u = <<>> \/ (\E t \in Texts : u \in {t, Abstract!UpToNul(t)})
                  \/ (\E n \in Sizes : u = Abstract!Zeros(n))
  PROVE  Moves
<1>1. AbstractText = NULL /\ AbstractText' \in {u, AbstractText}
  BY DEF AbstractText
<1> QED
  BY <1>1, CreateMoves

LEMMA TextMoves ==
  ASSUME NoWrap, Inv, NEW t \in Texts, CallWithText(t)
  PROVE  Moves
<1> DEFINE z == Abstract!UpToNul(t)
<1>1. /\ t \in Seq(Bytes) /\ Len(t) \in 0 .. Len(t) /\ t # NULL
      /\ StrLen(t) \in 0 .. Len(t) /\ CString(t) = z /\ SubSeq(t, 1, Len(t)) = t
  BY ConstantTypes, CellTexts, SdsAssumption, StrLenFirst, CStringUpToNul, WholeAndNone DEF Cell
<1>2. str # NULL =>
        /\ Gives(sdscatlen(str, t), Content(str) \o t)
        /\ Gives(sdscat(str, t), Content(str) \o z) /\ Gives(sdscatvprintf(str, t), Content(str) \o z)
        /\ Gives(sdscpylen(str, t), t) /\ Gives(sdscpy(str, t), z)
  BY TextCalls DEF Inv, Gives
<1> HIDE DEF z
<1>u. z = Abstract!UpToNul(t)
  BY DEF z
<1>3. CASE New(t)
  <2>1. str = NULL /\ str' \in sdsnewlen(t, Len(t))
    BY <1>3 DEF New
  <2>2. str' # NULL => Content(str') = t
    BY <1>1, <2>1, NewTextContent
  <2> QED
    BY <2>1, <2>2, CreatedText
<1>4. CASE NewC(t)
  <2>1. str = NULL /\ str' \in sdsnewlen(t, StrLen(t))
    BY <1>1, <1>4 DEF NewC, sdsnew
  <2>2. str' # NULL => Content(str') = z
    BY <1>1, <2>1, NewTextContent DEF CString
  <2> QED
    BY <1>u, <2>1, <2>2, CreatedText
<1>5. ASSUME NEW O, NEW u \in {t, z}, Update(O), Gives(O, Content(str) \o u)
      PROVE  Moves
  <2>1. str # NULL /\ AbstractText' \in {Content(str) \o u, AbstractText}
    BY <1>5, UpdateBecomes
  <2>2. AbstractText # NULL /\ AbstractText' \in {AbstractText \o u, AbstractText}
    BY <2>1, HeldText
  <2> QED
    BY <1>u, <2>2, ExtendMoves, SMTT(20)
<1>6. ASSUME NEW O, NEW u \in {t, z}, Update(O), Gives(O, u)
      PROVE  Moves
  <2>1. str # NULL /\ AbstractText' \in {u, AbstractText}
    BY <1>6, UpdateBecomes
  <2>2. AbstractText # NULL
    BY <2>1, HeldText
  <2> QED
    BY <1>u, <2>1, <2>2, AssignMoves
<1>7. CASE CatLen(t)
  BY <1>2, <1>5, <1>7 DEF CatLen, Update
<1>8. CASE Cat(t)
  BY <1>2, <1>5, <1>8 DEF Cat, Update
<1>9. CASE CatPrintf(t)
  BY <1>2, <1>5, <1>9 DEF CatPrintf, Update
<1>10. CASE CpyLen(t)
  BY <1>2, <1>6, <1>10 DEF CpyLen, Update
<1>11. CASE Cpy(t)
  BY <1>2, <1>6, <1>11 DEF Cpy, Update
<1>12. CASE ReadInto(t)
  <2>1. Good(str) /\ str # NULL /\ str.free >= Len(t)
        /\ str' = sdsIncrLen([str EXCEPT !.buf = Write(@, str.len, t)], Len(t))
    BY <1>12 DEF ReadInto, Inv
  <2>2. Content(str') = Content(str) \o t
    BY <1>1, <2>1, ReadIntoContent
  <2>3. CASE str' = NULL
    BY <2>1, <2>3 DEF Moves, AbstractText, Abstract!Next, Abstract!Free
  <2>4. CASE str' # NULL
    <3>1. AbstractText' = Content(str) \o t
      BY <2>2, <2>4 DEF AbstractText
    <3>2. AbstractText # NULL /\ AbstractText' \in {AbstractText \o t, AbstractText}
      BY <2>1, <3>1, HeldText
    <3> QED
      BY <3>2, ExtendMoves
  <2> QED
    BY <2>3, <2>4
<1> QED
  BY <1>3, <1>4, <1>7, <1>8, <1>9, <1>10, <1>11, <1>12 DEF CallWithText

\* A piece of the string, from its first byte to the end at most.
IsPiece(u, c) == \E l \in 1 .. Len(c) + 1, n \in 0 .. Len(c) : u = SubSeq(c, l, n)

LEMMA PieceMoves ==
  ASSUME Inv, str # NULL, NEW u, IsPiece(u, Content(str)), str' # NULL => Content(str') = u
  PROVE  Moves
<1>1. AbstractText # NULL /\ AbstractText = Content(str)
  BY HeldText
<1>2. CASE str' = NULL
  BY <1>1, <1>2 DEF Moves, AbstractText, Abstract!Next, Abstract!Free
<1>3. CASE str' # NULL
  <2>1. AbstractText' = u
    BY <1>3 DEF AbstractText
  <2> QED
    BY <1>1, <2>1, ShortenMoves DEF IsPiece
<1> QED
  BY <1>2, <1>3

LEMMA UpdatePieceMoves ==
  ASSUME Inv, NEW O, NEW u, Gives(O, u), Update(O), IsPiece(u, Content(str))
  PROVE  Moves
<1>1. str # NULL /\ AbstractText' \in {u, AbstractText}
  BY UpdateBecomes
<1>2. AbstractText # NULL /\ AbstractText = Content(str)
  BY <1>1, HeldText
<1>3. CASE AbstractText' = u
  BY <1>2, <1>3, ShortenMoves DEF IsPiece
<1>4. CASE AbstractText' = AbstractText
  BY <1>4 DEF Moves
<1> QED
  BY <1>1, <1>3, <1>4

LEMMA SlicePiece ==
  ASSUME NEW c \in Seq(Bytes), NEW i \in Int, NEW j \in Int
  PROVE  IsPiece(Abstract!Slice(c, i, j), c)
<1> DEFINE p == Abstract!Place(c, i)
           q == Abstract!Least(Abstract!Place(c, j), Len(c))
           n == Len(c)
<1>1. n \in Nat
  OBVIOUS
<1>2. p \in Nat \ {0} /\ q \in 0 .. n
  <2> HIDE DEF n
  <2>1. Abstract!Place(c, i) \in Nat \ {0} /\ Abstract!Place(c, j) \in Nat \ {0}
    BY <1>1 DEF Abstract!Place, n
  <2> QED
    BY <1>1, <2>1 DEF Abstract!Least, n
<1>3. Abstract!Slice(c, i, j) = SubSeq(c, p, q)
  BY DEF Abstract!Slice
<1> HIDE DEF p, q
<1>4. CASE p <= n + 1
  <2>1. p \in 1 .. n + 1
    BY <1>1, <1>2, <1>4
  <2> QED
    BY <1>2, <1>3, <2>1 DEF IsPiece
<1>5. CASE ~(p <= n + 1)
  <2>1. q < p /\ q \in Int /\ p \in Int /\ 1 \in 1 .. n + 1 /\ 0 \in 0 .. n
    BY <1>1, <1>2, <1>5
  <2>2. SubSeq(c, p, q) = <<>> /\ SubSeq(c, 1, 0) = <<>>
    BY <2>1, SubSeqEmpty
  <2> QED
    BY <1>3, <2>1, <2>2 DEF IsPiece
<1> QED
  BY <1>4, <1>5

LEMMA FrontPiece ==
  ASSUME NEW c \in Seq(Bytes)
  PROVE  /\ IsPiece(<<>>, c) /\ IsPiece(Abstract!UpToNul(c), c)
         /\ \A n \in 0 .. Len(c) : IsPiece(SubSeq(c, 1, n), c)
<1>1. Len(c) \in Nat /\ 1 \in 1 .. Len(c) + 1 /\ 0 \in 0 .. Len(c)
  OBVIOUS
<1>2. \A n \in 0 .. Len(c) : IsPiece(SubSeq(c, 1, n), c)
  BY <1>1 DEF IsPiece
<1>3. SubSeq(c, 1, 0) = <<>>
  BY WholeAndNone
<1>4. Abstract!UpToNul(c) = SubSeq(c, 1, StrLen(c)) /\ StrLen(c) \in 0 .. Len(c)
  BY StrLenFirst, CStringUpToNul DEF CString
<1>5. IsPiece(<<>>, c) /\ IsPiece(Abstract!UpToNul(c), c)
  BY <1>1, <1>2, <1>3, <1>4
<1> QED
  BY <1>2, <1>5

LEMMA TrimmedPiece ==
  ASSUME NEW c \in Seq(Bytes), NEW u \in Seq(Bytes), NEW set, Abstract!IsTrimmed(u, c, set)
  PROVE  IsPiece(u, c)
<1>1. PICK l \in 0 .. Len(c) - Len(u) : u = SubSeq(c, l + 1, l + Len(u))
  BY DEF Abstract!IsTrimmed
<1>2. l + 1 \in 1 .. Len(c) + 1 /\ l + Len(u) \in 0 .. Len(c)
  <2> DEFINE n == Len(c)
             k == Len(u)
  <2>1. n \in Nat /\ k \in Nat /\ l \in 0 .. n - k
    OBVIOUS
  <2> HIDE DEF n, k
  <2>2. l + 1 \in 1 .. n + 1 /\ l + k \in 0 .. n
    BY <2>1
  <2> QED
    BY <2>2 DEF n, k
<1> QED
  BY <1>1, <1>2 DEF IsPiece

LEMMA SizeMoves ==
  ASSUME NoWrap, Inv, NEW n \in Sizes,
         NewZeros(n) \/ MakeRoom(n) \/ GrowZero(n) \/ TrimRight(n) \/ Poke(n)
  PROVE  Moves
<1>1. n \in Nat
  BY ConstantTypes
<1>2. CASE NewZeros(n)
  <2>1. str = NULL /\ (str' # NULL => Content(str') = Abstract!Zeros(n))
    BY <1>1, <1>2, NewZerosContent DEF NewZeros
  <2> QED
    BY <2>1, CreatedText
<1>3. CASE MakeRoom(n)
  <2>1. Gives(sdsMakeRoomFor(str, n), Content(str))
    BY <1>1, <1>3, HeldGood, MakeRoomContent DEF Gives, MakeRoom
  <2> QED
    BY <1>3, <2>1, UpdateKeepsText DEF MakeRoom
<1>4. CASE GrowZero(n)
  <2>1. Gives(sdsgrowzero(str, n), Content(str) \o Abstract!Zeros(n - str.len))
    BY <1>1, <1>4, HeldGood, GrowZeroContent DEF Gives, GrowZero
  <2>2. str # NULL /\ AbstractText' \in {Content(str) \o Abstract!Zeros(n - str.len), AbstractText}
    BY <1>4, <2>1, UpdateBecomes DEF GrowZero
  <2>3. AbstractText # NULL /\ AbstractText = Content(str) /\ Len(AbstractText) = str.len
    BY <2>2, HeldText
  <2> DEFINE u == Abstract!Zeros(n - Len(AbstractText))
  <2>4. AbstractText' \in {AbstractText \o u, AbstractText}
    BY <2>2, <2>3
  <2> QED
    BY <2>3, <2>4, ExtendMoves
<1>5. CASE TrimRight(n)
  <2>1. Good(str) /\ str # NULL /\ n <= str.len /\ str' = sdsIncrLen(str, -n)
    BY <1>5 DEF TrimRight, Inv
  <2>2. n \in 0 .. str.len
    BY <1>1, <2>1 DEF Good
  <2>3. str.len - n \in 0 .. str.len /\ Content(str') = SubSeq(Content(str), 1, str.len - n)
    BY <2>1, <2>2, TrimRightContent
  <2>4. IsPiece(SubSeq(Content(str), 1, str.len - n), Content(str))
    BY <2>1, <2>3, ContentProperties, FrontPiece
  <2> QED
    BY <2>1, <2>3, <2>4, PieceMoves
<1>6. CASE Poke(n)
  <2>1. Good(str) /\ str # NULL /\ n \in 1 .. str.len /\ str' = [str EXCEPT !.buf[n] = 0]
    BY <1>6 DEF Poke, Inv
  <2>2. Content(str') = [Content(str) EXCEPT ![n] = 0]
    BY <2>1, PokeContent
  <2>3. AbstractText # NULL /\ AbstractText = Content(str) /\ DOMAIN AbstractText = 1 .. str.len
    BY <2>1, HeldText
  <2>4. CASE str' = NULL
    BY <2>3, <2>4 DEF Moves, AbstractText, Abstract!Next, Abstract!Free
  <2>5. CASE str' # NULL
    <3>1. AbstractText' = [AbstractText EXCEPT ![n] = 0] /\ n \in DOMAIN AbstractText
      BY <2>1, <2>2, <2>3, <2>5 DEF AbstractText
    <3>2. Abstract!Change
      BY <3>1 DEF Abstract!Change, AbstractText
    <3> QED
      BY <2>3, <3>2 DEF Moves, Abstract!Next, AbstractText
  <2> QED
    BY <2>4, <2>5
<1> QED
  BY <1>2, <1>3, <1>4, <1>5, <1>6

LEMMA ReplacedMoves ==
  ASSUME Inv, NEW O, NEW map \in {AsMap(m) : m \in CharMaps} \cup {Lower, Upper},
         Update(O), Gives(O, Abstract!Replaced(Content(str), map))
  PROVE  Moves
<1>1. str # NULL /\ AbstractText' \in {Abstract!Replaced(Content(str), map), AbstractText}
  BY UpdateBecomes
<1>2. AbstractText # NULL /\ AbstractText = Content(str)
  BY <1>1, HeldText
<1> QED
  BY <1>1, <1>2, ReplaceMoves

LEMMA PlainMoves ==
  ASSUME NoWrap, Inv,
         \/ NewEmpty \/ Duplicate \/ sdsfree \/ RemoveFreeSpace \/ CatSelf
         \/ Clear \/ UpdateLen \/ ToLower \/ ToUpper
  PROVE  Moves
<1>0. str # NULL => Good(str) /\ Content(str) \in Seq(Bytes)
  BY ContentProperties DEF Inv
<1>1. CASE NewEmpty
  <2>1. str = NULL /\ str' \in sdsempty \cup sdsnew(NULL)
    BY <1>1 DEF NewEmpty
  <2>2. str' # NULL => Content(str') = <<>>
    BY <2>1, NewEmptyContent
  <2> QED
    BY <2>1, <2>2, CreatedText
<1>2. CASE Duplicate
  <2>1. Gives(sdsdup(str), Content(str))
    BY <1>2, HeldGood, DupContent DEF Duplicate, Gives
  <2> QED
    BY <1>2, <2>1, UpdateKeepsText DEF Duplicate
<1>3. CASE sdsfree
  <2>1. str # NULL /\ str' = NULL
    BY <1>3 DEF sdsfree
  <2>2. AbstractText # NULL
    BY <2>1, HeldText
  <2> QED
    BY <2>1, <2>2 DEF Moves, AbstractText, Abstract!Next, Abstract!Free
<1>4. CASE RemoveFreeSpace
  <2>1. Gives({sdsRemoveFreeSpace(str)}, Content(str))
    BY <1>4, HeldGood, RemoveFreeSpaceContent DEF RemoveFreeSpace, Gives
  <2> QED
    BY <1>4, <2>1, UpdateKeepsText DEF RemoveFreeSpace
<1>5. CASE CatSelf
  <2>1. Gives(sdscatsds(str, str), Content(str) \o Content(str))
    BY <1>0, <1>5, CatLenContent DEF CatSelf, sdscatsds, Gives
  <2>2. str # NULL /\ AbstractText' \in {Content(str) \o Content(str), AbstractText}
    BY <1>5, <2>1, UpdateBecomes DEF CatSelf
  <2>3. AbstractText # NULL /\ AbstractText' \in {AbstractText \o AbstractText, AbstractText}
    BY <2>2, HeldText
  <2> QED
    BY <2>3, ExtendMoves
<1>6. CASE Clear
  <2>1. Gives({sdsclear(str)}, <<>>) /\ IsPiece(<<>>, Content(str))
    BY <1>0, <1>6, ClearContent, FrontPiece DEF Clear, Update, Gives
  <2> QED
    BY <1>6, <2>1, UpdatePieceMoves DEF Clear
<1>7. CASE UpdateLen
  <2> DEFINE u == Abstract!UpToNul(Content(str))
  <2>1. Gives({sdsupdatelen(str)}, u) /\ IsPiece(u, Content(str))
    BY <1>0, <1>7, UpdateLenContent, FrontPiece DEF UpdateLen, Update, Gives
  <2> HIDE DEF u
  <2> QED
    BY <1>7, <2>1, UpdatePieceMoves DEF UpdateLen
<1>8. CASE ToLower
  <2>1. Gives({sdstolower(str)}, Abstract!Replaced(Content(str), Lower))
    BY <1>8, HeldGood, LowerContent DEF ToLower, Gives
  <2> QED
    BY <1>8, <2>1, ReplacedMoves DEF ToLower
<1>9. CASE ToUpper
  <2>1. Gives({sdstoupper(str)}, Abstract!Replaced(Content(str), Upper))
    BY <1>9, HeldGood, UpperContent DEF ToUpper, Gives
  <2> QED
    BY <1>9, <2>1, ReplacedMoves DEF ToUpper
<1> QED
  BY <1>1, <1>2, <1>3, <1>4, <1>5, <1>6, <1>7, <1>8, <1>9

LEMMA StringMoves ==
  ASSUME NoWrap, Inv, Next
  PROVE  Moves
<1>1. ASSUME NEW cset \in CharSets, Trim(cset) PROVE Moves
  <2>1. Good(str)
    BY <1>1, HeldGood DEF Trim
  <2>2. PICK o \in sdstrim(str, cset) :
          sdstrim(str, cset) = {o} /\ Abstract!IsTrimmed(Content(o), Content(str), cset \cup {0})
    BY <2>1, TrimCalls
  <2>3. Content(o) \in Seq(Bytes) /\ Content(str) \in Seq(Bytes)
    BY <2>1, <2>2, TrimGood, ContentProperties
  <2>4. IsPiece(Content(o), Content(str)) /\ Gives(sdstrim(str, cset), Content(o))
    BY <2>2, <2>3, TrimmedPiece DEF Gives
  <2> QED
    BY <1>1, <2>4, UpdatePieceMoves DEF Trim
<1>2. ASSUME NEW i \in Indexes, NEW j \in Indexes, KeepRange(i, j) PROVE Moves
  <2> DEFINE u == Abstract!Slice(Content(str), i, j)
  <2>1. i \in Int /\ j \in Int
    BY ConstantTypes
  <2>2. Good(str) /\ Content(str) \in Seq(Bytes)
    BY <1>2, HeldGood, ContentProperties DEF KeepRange
  <2>3. Gives({sdsrange(str, i, j)}, u) /\ IsPiece(u, Content(str))
    BY <2>1, <2>2, RangeContent, SlicePiece DEF Gives
  <2> HIDE DEF u
  <2> QED
    BY <1>2, <2>3, UpdatePieceMoves DEF KeepRange
<1>3. ASSUME NEW m \in CharMaps, MapChars(m) PROVE Moves
  <2>1. Gives({sdsmapchars(str, m)}, Abstract!Replaced(Content(str), AsMap(m)))
    BY <1>3, HeldGood, MapCharsContent DEF MapChars, Gives
  <2> QED
    BY <1>3, <2>1, ReplacedMoves DEF MapChars
<1> QED
  BY <1>1, <1>2, <1>3, TextMoves, SizeMoves, PlainMoves DEF Next

-----------------------------------------------------------------------------
(* Results                                                                 *)

\* As long as no int wraps, len and free count every byte of the buffer and the
\* terminator follows the content, through every series of calls of nc_sds.c.
THEOREM SdsHeaderExact == NoWrap => (Spec => []HeaderExact)
<1>1. Inv => HeaderExact
  BY ConstantTypes DEF Inv, Good, HeaderExact, sdsAllocSize
<1>2. ASSUME NoWrap PROVE Spec => []HeaderExact
  BY <1>1, <1>2, Invariant, PTL
<1> QED
  BY <1>2

\* Nor is a byte that nobody has written ever part of the string.
THEOREM SdsTypeCorrect == NoWrap => (Spec => []TypeOK)
<1>1. Inv => TypeOK
  BY ConstantTypes DEF Inv, Good, TypeOK, Cell
<1>2. ASSUME NoWrap PROVE Spec => []TypeOK
  BY <1>1, <1>2, Invariant, PTL
<1> QED
  BY <1>2

\* Every call on one string has the result its name and arguments ask for, of every
\* string a series of calls can have left: what older calls wrote behind the terminator
\* never comes back.  sdstrim has the NUL in its set, as strchr has it.
THEOREM SdsCallsRight == NoWrap => (Spec => []CallsRight)
<1>1. ASSUME NoWrap PROVE Spec => []CallsRight
  <2>1. Inv => CallsRight
    BY <1>1, InvCallsRight
  <2> QED
    BY <1>1, <2>1, Invariant, PTL
<1> QED
  BY <1>1

\* The client's string is the abstract one: no call does more to the bytes than
\* the abstract string allows, and a call that fails does nothing, wherever realloc moves the buffer.
THEOREM SdsRefinesBytes == NoWrap => (Spec => RefinesBytes)
<1>1. Init => AbstractText = NULL
  BY DEF Init, AbstractText
<1>2. ASSUME NoWrap, Inv, [Next]_str PROVE Moves
  BY <1>2, StringMoves DEF Moves, AbstractText
<1>3. ASSUME NoWrap PROVE Spec => RefinesBytes
  <2>1. Init => Abstract!Init
    BY <1>1 DEF Abstract!Init, AbstractText
  <2>2. Inv /\ [Next]_str => [Abstract!Next]_(IF str = NULL THEN NULL ELSE Content(str))
    BY <1>2, <1>3 DEF Moves, AbstractText
  <2> QED
    BY <1>3, <2>1, <2>2, Invariant, PTL DEF Spec, RefinesBytes, Abstract!Spec
<1> QED
  BY <1>3
=============================================================================
