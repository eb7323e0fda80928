--------------------------- MODULE NcStringsProofs ---------------------------
(***************************************************************************)
(* What the calls that take strings apart do, for every line, separator,   *)
(* text and number: no array overflows, no failure leaks, the tokens are   *)
(* the line, and what was quoted is read back.                             *)
(***************************************************************************)
EXTENDS NcStrings, NcSdsProofs

Byte == 0 .. 255
Line == Seq(Byte)

-----------------------------------------------------------------------------
(* The invariant                                                           *)

\* The tokens so far, each with the separator that ended it.
Consumed(toks, sep) == T!FlattenSeq([i \in 1 .. Len(toks) |-> toks[i] \o sep])

\* Between two rounds of sdssplitlen's loop: the tokens and their separators are
\* the line up to the current one, which has no separator up to the scan.
SplitRunning ==
  /\ call.line \in Line /\ call.sep \in Line /\ call.sep # <<>>
  /\ tokens \in Seq(Line) /\ result = NULL /\ cur = NULL /\ quote = "none"
  /\ slots \in Nat /\ slots >= 2 /\ Len(tokens) + 1 <= slots
  /\ array = TRUE /\ strings = Len(tokens)
  /\ start \in Nat /\ pos \in Nat /\ start <= pos /\ pos <= Len(call.line)
  /\ Consumed(tokens, call.sep) = SubSeq(call.line, 1, start)
  /\ \A i \in 1 .. Len(tokens) : ~T!HasSeparator(tokens[i], call.sep)
  /\ \A k \in start .. pos - 1 : SubSeq(call.line, k + 1, k + Len(call.sep)) # call.sep

\* The line up to where k bytes of the text are represented.
Quoted(text, k) == <<34>> \o T!FlattenSeq([i \in 1 .. k |-> T!Escaped(text[i])])

\* Where sdssplitargs is in the representation of a text.
ReadingQuoted(text) ==
  /\ text \in Line /\ call.line = T!sdscatrepr(<<>>, text)
  /\ \/ pos = 0 /\ tokens = <<>> /\ cur \in {NULL, <<>>} /\ quote = "none"
     \/ /\ tokens = <<>> /\ quote = "double" /\ cur # NULL
        /\ \E k \in 0 .. Len(text) : cur = SubSeq(text, 1, k) /\ pos = Len(Quoted(text, k))
     \/ tokens = <<text>> /\ cur = NULL /\ quote = "none" /\ pos = Len(call.line)

\* Wherever it is in a line, it has made the tokens and the one it is at.
Parsed ==
  /\ call.line \in Line /\ tokens \in Seq(Line) /\ result = NULL /\ cur \in Line \cup {NULL}
  /\ quote \in {"none", "double", "single"} /\ (cur = NULL => quote = "none")
  /\ start = 0 /\ slots = 0 /\ array \in BOOLEAN
  /\ strings = Len(tokens) + (IF cur = NULL THEN 0 ELSE 1)
  /\ pos \in Nat /\ pos <= Len(call.line)

ArgsRunning == Parsed /\ (call.text # NULL => ReadingQuoted(call.text))

Idle ==
  /\ call = T!NoCall /\ pos = 0 /\ start = 0 /\ tokens = <<>> /\ slots = 0
  /\ cur = NULL /\ quote = "none" /\ strings = 0 /\ array = FALSE /\ result = NULL

Done ==
  /\ call.fn \in {"split", "args", "number"} /\ cur = NULL /\ quote = "none"
  /\ result = NULL => strings = 0 /\ array = FALSE
  /\ call.fn # "number" /\ result # NULL =>
       result \in Seq(Line) /\ array = TRUE /\ strings = Len(result)
  /\ call.fn = "number" /\ result # NULL => array = FALSE /\ strings = 1
  /\ InBounds /\ ResultsRight /\ QuotedAgain

TokensInv ==
  \/ phase = "idle" /\ Idle
  \/ phase = "running" /\ call.fn = "split" /\ SplitRunning
  \/ phase = "running" /\ call.fn = "args" /\ ArgsRunning
  \/ phase = "done" /\ Done

\* While the client has a string and a call on bytes is under way, it splits it.
OwnLine ==
  str # NULL /\ phase # "idle" =>
    /\ call.fn = "split" /\ call.line = Content(str)
    /\ phase = "done" /\ result # NULL =>
         \A i \in 1 .. Len(result) : IsPiece(result[i], Content(str))
    /\ phase = "running" => \A i \in 1 .. Len(tokens) : IsPiece(tokens[i], Content(str))

SInv == Inv /\ TokensInv /\ OwnLine

-----------------------------------------------------------------------------
(* Sequences put one after the other                                       *)

\* FlattenSeq is what its definition says: the first sequence, then one more at a time.
LEMMA FlattenStepwise ==
  ASSUME NEW s, Len(s) \in Nat, Len(s) # 0
  PROVE  \E f : /\ f[1] = s[1]
                /\ \A i \in 2 .. Len(s) : f[i] = f[i - 1] \o s[i]
                /\ T!FlattenSeq(s) = f[Len(s)]
<1> DEFINE Step(f, i) == IF i = 1 THEN s[i] ELSE f[i - 1] \o s[i]
           Flat(f, k) == f = [i \in 1 .. k |-> Step(f, i)]
           S == {k \in 1 .. Len(s) : \E f : Flat(f, k)}
<1>1. 1 \in S
  <2> DEFINE f == [i \in 1 .. 1 |-> s[1]]
  <2>1. \A i \in 1 .. 1 : f[i] = Step(f, i)
    OBVIOUS
  <2>2. f = [i \in 1 .. 1 |-> f[i]]
    OBVIOUS
  <2>3. Flat(f, 1)
    <3> HIDE DEF f, Step
    <3> QED
      BY <2>1, <2>2
  <2> HIDE DEF f, Flat
  <2> QED
    BY <2>3
<1>2. ASSUME NEW k \in 1 .. Len(s) - 1, k \in S PROVE k + 1 \in S
  <2>1. PICK f : Flat(f, k)
    BY <1>2
  <2> DEFINE g == [i \in 1 .. k + 1 |-> IF i <= k THEN f[i] ELSE f[k] \o s[k + 1]]
  <2>2. \A i \in 1 .. k : f[i] = Step(f, i)
    BY <2>1
  <2>3. \A i \in 1 .. k : g[i] = f[i]
    OBVIOUS
  <2>4. ASSUME NEW i \in 1 .. k + 1 PROVE g[i] = Step(g, i)
    <3>1. CASE i = 1
      <4>1. 1 \in 1 .. k
        OBVIOUS
      <4>2. g[1] = f[1] /\ f[1] = s[1]
        BY <2>2, <2>3, <4>1
      <4> HIDE DEF g
      <4> QED
        BY <3>1, <4>2
    <3>2. CASE i \in 2 .. k
      <4>1. i - 1 \in 1 .. k /\ i \in 1 .. k /\ i # 1
        BY <3>2
      <4>2. g[i - 1] = f[i - 1] /\ g[i] = f[i] /\ f[i] = Step(f, i)
        BY <2>2, <2>3, <4>1
      <4> HIDE DEF g
      <4> QED
        BY <4>1, <4>2
    <3>3. CASE i = k + 1
      <4>0. i - 1 = k /\ i # 1 /\ k \in 1 .. k /\ ~(i <= k)
        BY <3>3
      <4>1. g[i] = f[k] \o s[i]
        BY <3>3, <4>0
      <4>2. g[i - 1] = f[k]
        BY <2>3, <4>0
      <4> HIDE DEF g
      <4> QED
        BY <4>0, <4>1, <4>2
    <3> QED
      BY <3>1, <3>2, <3>3
  <2>5. Flat(g, k + 1)
    <3>1. g = [i \in 1 .. k + 1 |-> g[i]]
      OBVIOUS
    <3> HIDE DEF g, Step
    <3> QED
      BY <2>4, <3>1
  <2>6. k + 1 \in 1 .. Len(s)
    OBVIOUS
  <2> HIDE DEF Flat, g
  <2> QED
    BY <2>5, <2>6
<1>3. Len(s) \in S
  <2> HIDE DEF S
  <2>1. \A k \in 1 .. Len(s) : k \in S
    BY <1>1, <1>2, IntervalInduction
  <2> QED
    BY <2>1
<1> DEFINE flat == CHOOSE f : Flat(f, Len(s))
<1>4. Flat(flat, Len(s))
  <2>1. \E f : Flat(f, Len(s))
    BY <1>3
  <2> HIDE DEF Flat
  <2> QED
    BY <2>1
<1>5. T!FlattenSeq(s) = flat[Len(s)]
  BY DEF T!FlattenSeq
<1> HIDE DEF flat
<1>6. \A i \in 1 .. Len(s) : flat[i] = Step(flat, i)
  BY <1>4
<1>7. flat[1] = s[1]
  BY <1>6
<1>8. ASSUME NEW i \in 2 .. Len(s) PROVE flat[i] = flat[i - 1] \o s[i]
  <2>1. i \in 1 .. Len(s) /\ i # 1
    OBVIOUS
  <2> QED
    BY <1>6, <2>1
<1> QED
  BY <1>5, <1>7, <1>8

LEMMA FlattenEmpty == T!FlattenSeq(<<>>) = <<>>
BY DEF T!FlattenSeq

LEMMA FlattenType ==
  ASSUME NEW A, NEW s \in Seq(Seq(A))
  PROVE  T!FlattenSeq(s) \in Seq(A)
<1>1. CASE s = <<>>
  <2>1. T!FlattenSeq(s) = <<>>
    BY <1>1, FlattenEmpty
  <2>2. <<>> \in Seq(A)
    BY EmptySeq
  <2> QED
    BY <2>1, <2>2
<1>2. CASE s # <<>>
  <2>1. Len(s) \in Nat /\ Len(s) # 0
    BY <1>2
  <2>2. PICK f : /\ f[1] = s[1] /\ \A i \in 2 .. Len(s) : f[i] = f[i - 1] \o s[i]
                 /\ T!FlattenSeq(s) = f[Len(s)]
    BY <2>1, FlattenStepwise
  <2> DEFINE G == {i \in 1 .. Len(s) : f[i] \in Seq(A)}
  <2>3. \A i \in 1 .. Len(s) : s[i] \in Seq(A)
    OBVIOUS
  <2>4. 1 \in G
    BY <2>1, <2>2, <2>3
  <2>5. ASSUME NEW k \in 1 .. Len(s) - 1, k \in G PROVE k + 1 \in G
    <3>1. k + 1 \in 2 .. Len(s) /\ k + 1 \in 1 .. Len(s) /\ (k + 1) - 1 = k
      BY <2>1
    <3>2. f[k + 1] = f[k] \o s[k + 1] /\ s[k + 1] \in Seq(A) /\ f[k] \in Seq(A)
      BY <2>2, <2>3, <2>5, <3>1
    <3>3. f[k + 1] \in Seq(A)
      BY <3>2, ConcatProperties
    <3> QED
      BY <3>1, <3>3
  <2>6. \A k \in 1 .. Len(s) : k \in G
    <3> HIDE DEF G
    <3> QED
      BY <2>1, <2>4, <2>5, IntervalInduction
  <2> QED
    BY <2>1, <2>2, <2>6
<1> QED
  BY <1>1, <1>2

LEMMA FlattenAppend ==
  ASSUME NEW A, NEW s \in Seq(Seq(A)), NEW x \in Seq(A)
  PROVE  T!FlattenSeq(Append(s, x)) = T!FlattenSeq(s) \o x
<1> DEFINE t == Append(s, x)
<1>1. /\ Len(s) \in Nat /\ Len(t) = Len(s) + 1 /\ t[Len(s) + 1] = x
      /\ \A i \in 1 .. Len(s) : t[i] = s[i]
  BY AppendProperties
<1> HIDE DEF t
<1>2. PICK g : /\ g[1] = t[1] /\ \A i \in 2 .. Len(t) : g[i] = g[i - 1] \o t[i]
               /\ T!FlattenSeq(t) = g[Len(t)]
  <2>1. Len(t) \in Nat /\ Len(t) # 0
    BY <1>1
  <2> QED
    BY <2>1, FlattenStepwise
<1>3. CASE s = <<>>
  <2>1. T!FlattenSeq(t) = x
    BY <1>1, <1>2, <1>3
  <2>2. T!FlattenSeq(s) \o x = x
    BY <1>3, FlattenEmpty, ConcatEmptySeq
  <2> QED
    BY <2>1, <2>2 DEF t
<1>4. CASE s # <<>>
  <2>1. Len(s) # 0
    BY <1>4
  <2>2. PICK f : /\ f[1] = s[1] /\ \A i \in 2 .. Len(s) : f[i] = f[i - 1] \o s[i]
                 /\ T!FlattenSeq(s) = f[Len(s)]
    BY <1>1, <2>1, FlattenStepwise
  <2> DEFINE G == {i \in 1 .. Len(s) : f[i] = g[i]}
  <2>3. 1 \in G
    BY <1>1, <1>2, <2>1, <2>2
  <2>4. ASSUME NEW k \in 1 .. Len(s) - 1, k \in G PROVE k + 1 \in G
    <3>1. /\ k + 1 \in 2 .. Len(s) /\ k + 1 \in 1 .. Len(s) /\ (k + 1) - 1 = k
          /\ k + 1 \in 2 .. Len(t)
      BY <1>1
    <3>2. f[k + 1] = f[k] \o s[k + 1] /\ g[k + 1] = g[k] \o t[k + 1] /\ f[k] = g[k]
      BY <1>2, <2>2, <2>4, <3>1
    <3>3. f[k + 1] = g[k + 1]
      BY <1>1, <3>1, <3>2
    <3> QED
      BY <3>1, <3>3
  <2>5. \A k \in 1 .. Len(s) : k \in G
    <3> HIDE DEF G
    <3> QED
      BY <1>1, <2>1, <2>3, <2>4, IntervalInduction
  <2>6. f[Len(s)] = g[Len(s)] /\ Len(t) \in 2 .. Len(t) /\ Len(t) - 1 = Len(s)
    BY <1>1, <2>1, <2>5
  <2>7. g[Len(t)] = g[Len(s)] \o x
    BY <1>1, <1>2, <2>6
  <2> QED
    BY <1>2, <2>2, <2>6, <2>7 DEF t
<1> QED
  BY <1>3, <1>4

-----------------------------------------------------------------------------
(* What sdssplitlen has cut off                                            *)

\* l is a function on the first n places.
HasPlaces(l, n) == l = [i \in 1 .. n |-> l[i]]

\* A sequence that is another one and one element more.
LEMMA OneElementMore ==
  ASSUME NEW A, NEW p \in Seq(A), NEW x \in A, NEW n \in Nat, n = Len(p),
         NEW l, HasPlaces(l, n + 1),
         l[n + 1] = x, \A i \in 1 .. n : l[i] = p[i]
  PROVE  l = Append(p, x)
<1>1. /\ Append(p, x) \in Seq(A) /\ Len(Append(p, x)) = n + 1 /\ Append(p, x)[n + 1] = x
      /\ \A i \in 1 .. n : Append(p, x)[i] = p[i]
  BY AppendProperties
<1>2. \A i \in 1 .. n + 1 : l[i] = Append(p, x)[i]
  BY <1>1
<1>3. \A i \in 1 .. n + 1 : l[i] \in A
  BY <1>1, <1>2
<1>4. l \in Seq(A) /\ Len(l) = n + 1
  <2>1. l \in [1 .. n + 1 -> A] /\ n + 1 \in Nat
    BY <1>3 DEF HasPlaces
  <2> QED
    BY <2>1
<1> QED
  BY <1>1, <1>2, <1>4, SeqEqual

\* A piece of a line is a line.
LEMMA PieceType ==
  ASSUME NEW line \in Line, NEW m \in Nat, NEW n \in Nat, n <= Len(line)
  PROVE  /\ SubSeq(line, m + 1, n) \in Line
         /\ m <= n => Len(SubSeq(line, m + 1, n)) = n - m
<1>1. m + 1 \in Int /\ n \in Int /\ \A i \in m + 1 .. n : line[i] \in Byte
  BY DEF Line
<1>2. SubSeq(line, m + 1, n) \in Seq(Byte)
      /\ Len(SubSeq(line, m + 1, n)) = IF m + 1 <= n THEN n - (m + 1) + 1 ELSE 0
  BY <1>1, SubSeqProperties
<1> QED
  BY <1>2 DEF Line

LEMMA PiecesType ==
  ASSUME NEW toks \in Seq(Line), NEW sep \in Line
  PROVE  /\ [i \in 1 .. Len(toks) |-> toks[i] \o sep] \in Seq(Line)
         /\ Consumed(toks, sep) \in Line
<1> DEFINE p == [i \in 1 .. Len(toks) |-> toks[i] \o sep]
<1>1. Len(toks) \in Nat /\ \A i \in 1 .. Len(toks) : toks[i] \in Line
  OBVIOUS
<1>2. \A i \in 1 .. Len(toks) : toks[i] \o sep \in Line
  BY <1>1, ConcatProperties DEF Line
<1>3. p \in Seq(Line)
  BY <1>1, <1>2
<1>4. T!FlattenSeq(p) \in Seq(Byte)
  <2> HIDE DEF p
  <2> QED
    BY <1>3, FlattenType DEF Line
<1> QED
  BY <1>3, <1>4 DEF Consumed, Line

LEMMA ConsumedAppend ==
  ASSUME NEW toks \in Seq(Line), NEW t \in Line, NEW sep \in Line
  PROVE  /\ Consumed(Append(toks, t), sep) = Consumed(toks, sep) \o (t \o sep)
         /\ T!sdsjoinsds(Append(toks, t), sep) = Consumed(toks, sep) \o t
<1> DEFINE n == Len(toks)
           p == [i \in 1 .. n |-> toks[i] \o sep]
           a == Append(toks, t)
           l == [i \in 1 .. n + 1 |-> a[i] \o sep]
           m == [i \in 1 .. n + 1 |-> IF i = n + 1 THEN a[i] ELSE a[i] \o sep]
<1>1. /\ n \in Nat /\ Len(a) = n + 1 /\ a[n + 1] = t /\ DOMAIN a = 1 .. n + 1
      /\ \A i \in 1 .. n : a[i] = toks[i]
  <2>1. /\ a \in Seq(Line) /\ Len(a) = n + 1 /\ a[n + 1] = t
        /\ \A i \in 1 .. n : a[i] = toks[i]
    BY AppendProperties
  <2>2. DOMAIN a = 1 .. Len(a)
    <3> HIDE DEF a
    <3> QED
      BY <2>1
  <2> QED
    BY <2>1, <2>2
<1>2. p \in Seq(Line) /\ Len(p) = n
  <2>1. p \in Seq(Line)
    BY PiecesType
  <2>2. Len(p) = n
    <3>1. n \in Nat
      BY <1>1
    <3> HIDE DEF n
    <3> QED
      BY <3>1
  <2> QED
    BY <2>1, <2>2
<1>3. t \o sep \in Line
  BY ConcatProperties DEF Line
<1>4. n + 1 \in 1 .. n + 1 /\ \A i \in 1 .. n : i \in 1 .. n + 1 /\ i # n + 1 /\ p[i] = a[i] \o sep
  BY <1>1
<1>5. l[n + 1] = t \o sep /\ \A i \in 1 .. n : l[i] = p[i]
  <2> HIDE DEF a, n, p
  <2> QED
    BY <1>1, <1>4
<1>6. m[n + 1] = t /\ \A i \in 1 .. n : m[i] = p[i]
  <2> HIDE DEF a, n, p
  <2> QED
    BY <1>1, <1>4
<1>7. HasPlaces(l, n + 1) /\ HasPlaces(m, n + 1)
  BY DEF HasPlaces
<1>8. l = Append(p, t \o sep) /\ m = Append(p, t)
  <2> HIDE DEF l, m, a, n, p
  <2>1. l = Append(p, t \o sep)
    <3> DEFINE x == t \o sep
    <3>1. x \in Line /\ l[n + 1] = x
      BY <1>3, <1>5
    <3> HIDE DEF x
    <3>2. l = Append(p, x)
      BY <1>1, <1>2, <1>5, <1>7, <3>1, OneElementMore
    <3> QED
      BY <3>2 DEF x
  <2>2. m = Append(p, t)
    BY <1>1, <1>2, <1>6, <1>7, OneElementMore
  <2> QED
    BY <2>1, <2>2
<1>9. /\ Consumed(a, sep) = T!FlattenSeq(l) /\ T!sdsjoinsds(a, sep) = T!FlattenSeq(m)
      /\ Consumed(toks, sep) = T!FlattenSeq(p)
  <2> HIDE DEF a
  <2> QED
    BY <1>1 DEF Consumed, T!sdsjoinsds
<1>10. /\ T!FlattenSeq(Append(p, t \o sep)) = T!FlattenSeq(p) \o (t \o sep)
       /\ T!FlattenSeq(Append(p, t)) = T!FlattenSeq(p) \o t
  <2> HIDE DEF p
  <2> QED
    BY <1>2, <1>3, FlattenAppend DEF Line
<1> HIDE DEF l, m, a, n, p
<1> QED
  BY <1>8, <1>9, <1>10 DEF a

\* One token more, and the line up to the end of the separator is consumed.
LEMMA CutAtSeparator ==
  ASSUME NEW line \in Line, NEW sep \in Line, NEW toks \in Seq(Line),
         NEW b \in Nat, NEW j \in Nat, b <= j, j + Len(sep) <= Len(line),
         SubSeq(line, j + 1, j + Len(sep)) = sep,
         Consumed(toks, sep) = SubSeq(line, 1, b)
  PROVE  Consumed(Append(toks, SubSeq(line, b + 1, j)), sep) = SubSeq(line, 1, j + Len(sep))
<1> DEFINE t == SubSeq(line, b + 1, j)
           n == j + Len(sep)
<1>1. Len(sep) \in Nat /\ n \in Nat /\ Len(line) \in Nat
  BY DEF Line
<1>2. t \in Line
  BY <1>1, PieceType
<1>3. Consumed(Append(toks, t), sep) = SubSeq(line, 1, b) \o (t \o sep)
  <2> HIDE DEF t
  <2>1. Consumed(Append(toks, t), sep) = Consumed(toks, sep) \o (t \o sep)
    BY <1>2, ConsumedAppend
  <2> QED
    BY <2>1, Zenon
<1>4. t \o sep = SubSeq(line, b + 1, n)
  <2>1. b + 1 \in 1 .. Len(line) + 1 /\ j \in (b + 1) - 1 .. Len(line) /\ n \in j .. Len(line)
    BY <1>1
  <2>2. SubSeq(line, b + 1, j) \o SubSeq(line, j + 1, n) = SubSeq(line, b + 1, n)
    BY <2>1, ConcatAdjacentSubSeq DEF Line
  <2> QED
    BY <2>2
<1>5. SubSeq(line, 1, b) \o SubSeq(line, b + 1, n) = SubSeq(line, 1, n)
  <2>1. 1 \in 1 .. Len(line) + 1 /\ b \in 1 - 1 .. Len(line) /\ n \in b .. Len(line)
    BY <1>1
  <2> HIDE DEF n
  <2> QED
    BY <2>1, ConcatAdjacentSubSeq DEF Line
<1> QED
  BY <1>3, <1>4, <1>5

\* With the rest of the line, the tokens joined are the line.
LEMMA LastPiece ==
  ASSUME NEW line \in Line, NEW sep \in Line, NEW toks \in Seq(Line),
         NEW b \in Nat, b <= Len(line),
         Consumed(toks, sep) = SubSeq(line, 1, b)
  PROVE  T!sdsjoinsds(Append(toks, SubSeq(line, b + 1, Len(line))), sep) = line
<1> DEFINE t == SubSeq(line, b + 1, Len(line))
<1>1. Len(line) \in Nat
  BY DEF Line
<1>2. t \in Line
  BY <1>1, PieceType
<1>3. T!sdsjoinsds(Append(toks, t), sep) = SubSeq(line, 1, b) \o t
  <2> HIDE DEF t
  <2>1. T!sdsjoinsds(Append(toks, t), sep) = Consumed(toks, sep) \o t
    BY <1>2, ConsumedAppend
  <2> QED
    BY <2>1, Zenon
<1>4. SubSeq(line, 1, b) \o t = SubSeq(line, 1, Len(line))
  <2>1. 1 \in 1 .. Len(line) + 1 /\ b \in 1 - 1 .. Len(line) /\ Len(line) \in b .. Len(line)
    BY <1>1
  <2> QED
    BY <2>1, ConcatAdjacentSubSeq DEF Line
<1>5. SubSeq(line, 1, Len(line)) = line
  BY SubSeqFull DEF Line
<1> QED
  BY <1>3, <1>4, <1>5

\* What lies between two places has no separator when none begins there.
LEMMA CleanPiece ==
  ASSUME NEW line \in Line, NEW sep \in Line, sep # <<>>,
         NEW b \in Nat, NEW e \in Nat, b <= e, e <= Len(line),
         \A k \in b .. e - Len(sep) : SubSeq(line, k + 1, k + Len(sep)) # sep
  PROVE  ~T!HasSeparator(SubSeq(line, b + 1, e), sep)
<1> DEFINE t == SubSeq(line, b + 1, e)
<1>1. Len(sep) \in Nat /\ Len(sep) > 0 /\ Len(line) \in Nat
  BY EmptySeq DEF Line
<1>2. t \in Line /\ Len(t) = e - b
  BY PieceType
<1>3. ASSUME NEW i \in 0 .. Len(t) - Len(sep)
      PROVE  SubSeq(t, i + 1, i + Len(sep)) # sep
  <2>1. b + i \in b .. e - Len(sep)
    BY <1>1, <1>2
  <2>2. /\ b + 1 \in 1 .. Len(line) /\ e \in 1 .. Len(line)
        /\ i + 1 \in 1 .. e - (b + 1) + 1 /\ i + Len(sep) \in 1 .. e - (b + 1) + 1
    BY <1>1, <1>2
  <2>3. SubSeq(t, i + 1, i + Len(sep)) = SubSeq(line, (b + 1) + (i + 1) - 1, (b + 1) + (i + Len(sep)) - 1)
    <3> DEFINE m == i + 1
               n == i + Len(sep)
    <3> HIDE DEF m, n
    <3>1. m \in 1 .. e - (b + 1) + 1 /\ n \in 1 .. e - (b + 1) + 1
      BY <2>2 DEF m, n
    <3>2. SubSeq(SubSeq(line, b + 1, e), m, n) = SubSeq(line, (b + 1) + m - 1, (b + 1) + n - 1)
      BY <2>2, <3>1, SubSeqOfSubSeq DEF Line
    <3> QED
      BY <3>2 DEF m, n
  <2>4. (b + 1) + (i + 1) - 1 = (b + i) + 1 /\ (b + 1) + (i + Len(sep)) - 1 = (b + i) + Len(sep)
    BY <1>1
  <2>5. SubSeq(t, i + 1, i + Len(sep)) = SubSeq(line, (b + i) + 1, (b + i) + Len(sep))
    BY <2>3, <2>4
  <2>6. SubSeq(line, (b + i) + 1, (b + i) + Len(sep)) # sep
    BY <2>1
  <2> HIDE DEF t
  <2> QED
    BY <2>5, <2>6
<1> HIDE DEF t
<1>4. ~T!HasSeparator(t, sep)
  BY <1>3 DEF T!HasSeparator
<1> QED
  BY <1>4 DEF t

-----------------------------------------------------------------------------
(* sdssplitlen                                                             *)

\* A call that returns NULL with nothing on the heap.
LEMMA ReturnedNull ==
  ASSUME T!Return(NULL), call'.fn \in {"split", "args", "number"},
         strings' = 0, array' = FALSE,
         call'.fn = "args" => call'.line \in Line /\ call'.text = NULL
  PROVE  TokensInv'
<1>1. /\ phase' = "done" /\ result' = NULL /\ pos' = 0 /\ tokens' = <<>> /\ slots' = 0
      /\ cur' = NULL /\ quote' = "none"
  BY DEF T!Return
<1>2. InBounds'
  BY <1>1 DEF InBounds, T!InBounds, Line
<1>3. ResultsRight'
  BY <1>1 DEF ResultsRight, T!SplitRight, T!NumberRight
<1>4. QuotedAgain'
  BY <1>1 DEF QuotedAgain, T!QuotedAgain
<1> QED
  BY <1>1, <1>2, <1>3, <1>4 DEF TokensInv, Done

\* The loop's condition leaves room for a separator.
LEMMA RoomForSeparator ==
  \A j, n, k \in Nat : k > 0 /\ j < n - (k - 1) => j + k <= n /\ j + 1 <= n /\ j + k \in Nat
OBVIOUS

LEMMA IdleState == TokensInv /\ phase = "idle" => Idle
BY DEF TokensInv

LEMMA SplitState == TokensInv /\ T!Splitting => SplitRunning
BY DEF TokensInv, T!Splitting

LEMMA NullNotLine ==
  /\ NULL \notin Line /\ NULL \notin Seq(Line) /\ NULL # <<>>
  /\ FirstSlots \in Nat /\ FirstSlots >= 2 /\ MaxLong \in Nat
<1>1. NULL \notin Line /\ NULL \notin Seq(Line) /\ FirstSlots \in Nat /\ FirstSlots # 0
      /\ FirstSlots # 1 /\ MaxLong \in Nat
  BY StringsAssumption DEF T!TokensAssumption, Line, Byte
<1>2. <<>> \in Line
  BY EmptySeq DEF Line
<1> QED
  BY <1>1, <1>2

LEMMA SplitStart ==
  ASSUME NEW line \in Line, NEW sep \in Line, TokensInv, T!sdssplitlen(line, sep)
  PROVE  TokensInv'
<1>1. Idle
  BY IdleState DEF T!sdssplitlen
<1>2. call' = [fn |-> "split", line |-> line, sep |-> sep] /\ strings' = strings
  BY DEF T!sdssplitlen
<1>3. call'.fn = "split" /\ call'.line = line /\ call'.sep = sep
  BY <1>2
<1>4. CASE T!Return(NULL) /\ UNCHANGED array
  BY <1>1, <1>2, <1>3, <1>4, ReturnedNull DEF Idle
<1>5. CASE sep # <<>> /\ line = <<>> /\ T!Return(<<>>) /\ array' = TRUE
  <2>1. /\ phase' = "done" /\ result' = <<>> /\ tokens' = <<>> /\ slots' = 0
        /\ cur' = NULL /\ quote' = "none"
    BY <1>5 DEF T!Return
  <2>2. InBounds' /\ QuotedAgain'
    BY <1>3, <2>1 DEF InBounds, T!InBounds, QuotedAgain, T!QuotedAgain
  <2>3. ResultsRight'
    <3>1. T!sdsjoinsds(<<>>, sep) = <<>>
      BY FlattenEmpty DEF T!sdsjoinsds
    <3> QED
      BY <1>3, <1>5, <2>1, <3>1 DEF ResultsRight, T!SplitRight, T!NumberRight
  <2>4. <<>> \in Seq(Line) /\ strings' = Len(result')
    BY <1>1, <1>2, <2>1 DEF Idle
  <2> QED
    <3>1. /\ phase' = "done" /\ call'.fn = "split" /\ cur' = NULL /\ quote' = "none"
          /\ result' \in Seq(Line) /\ result' # NULL /\ array' = TRUE
          /\ strings' = Len(result')
      BY <1>3, <1>5, <2>1, <2>4, NullNotLine
    <3>2. Done'
      BY <2>2, <2>3, <3>1 DEF Done
    <3> QED
      BY <3>1, <3>2 DEF TokensInv
<1>6. CASE /\ sep # <<>> /\ line # <<>>
           /\ phase' = "running" /\ slots' = FirstSlots /\ array' = TRUE
           /\ UNCHANGED <<pos, start, tokens, cur, quote, result>>
  <2>1. /\ tokens' = <<>> /\ result' = NULL /\ cur' = NULL /\ quote' = "none"
        /\ start' = 0 /\ pos' = 0 /\ strings' = 0
    BY <1>1, <1>2, <1>6 DEF Idle
  <2>2. Consumed(<<>>, sep) = SubSeq(line, 1, 0)
    <3>1. [i \in 1 .. Len(<<>>) |-> <<>>[i] \o sep] = <<>>
      OBVIOUS
    <3>2. Consumed(<<>>, sep) = <<>>
      BY <3>1, FlattenEmpty DEF Consumed
    <3>3. SubSeq(line, 1, 0) = <<>>
      BY SubSeqEmpty
    <3> QED
      BY <3>2, <3>3
  <2>3. 0 <= Len(line)
    BY DEF Line
  <2>4. SplitRunning'
    BY <1>3, <1>6, <2>1, <2>2, <2>3, NullNotLine DEF SplitRunning
  <2> QED
    BY <1>3, <1>6, <2>4 DEF TokensInv
<1> QED
  BY <1>4, <1>5, <1>6 DEF T!sdssplitlen

LEMMA SplitFailed ==
  ASSUME SplitRunning, call.fn = "split", T!SplitFails
  PROVE  TokensInv'
<1>1. strings' = 0
  BY DEF SplitRunning, T!SplitFails
<1> QED
  BY <1>1, ReturnedNull DEF T!SplitFails

LEMMA SplitStepKeeps ==
  ASSUME TokensInv, T!SplitStep
  PROVE  TokensInv'
<1>1. SplitRunning /\ call.fn = "split" /\ T!Left /\ phase = "running"
  BY SplitState DEF T!SplitStep, T!Splitting
<1>2. CASE T!SplitFails
  BY <1>1, <1>2, SplitFailed
<1>3. ASSUME slots' = T!Grown, T!AtSeparator,
             tokens' = Append(tokens, SubSeq(call.line, start + 1, pos)),
             strings' = strings + 1, start' = pos + Len(call.sep), pos' = T!AfterSeparator,
             UNCHANGED <<phase, call, cur, quote, array, result>>
      PROVE  TokensInv'
  <2> DEFINE t == SubSeq(call.line, start + 1, pos)
             n == pos + Len(call.sep)
  <2>1. /\ call.line \in Line /\ call.sep \in Line /\ call.sep # <<>>
        /\ tokens \in Seq(Line) /\ start \in Nat /\ pos \in Nat
        /\ start <= pos /\ pos <= Len(call.line)
        /\ Consumed(tokens, call.sep) = SubSeq(call.line, 1, start)
    BY <1>1 DEF SplitRunning
  <2>2. Len(call.sep) \in Nat /\ Len(call.sep) > 0 /\ Len(call.line) \in Nat
    BY <2>1, EmptySeq DEF Line
  <2>3. n \in Nat /\ n <= Len(call.line)
    <3>1. pos < Len(call.line) - (Len(call.sep) - 1)
      BY <1>1 DEF T!Left
    <3> QED
      BY <2>1, <2>2, <3>1, RoomForSeparator, Zenon
  <2>4. t \in Line
    BY <2>1, PieceType
  <2>5. SubSeq(call.line, pos + 1, pos + Len(call.sep)) = call.sep
    BY <1>3 DEF T!AtSeparator
  <2>6. Consumed(Append(tokens, t), call.sep) = SubSeq(call.line, 1, n)
    BY <2>1, <2>3, <2>5, CutAtSeparator, ZenonT(30)
  <2>7. ~T!HasSeparator(t, call.sep)
    <3>1. \A k \in start .. pos - Len(call.sep) : k \in start .. pos - 1
      BY <2>1, <2>2
    <3>2. \A k \in start .. pos - Len(call.sep) :
            SubSeq(call.line, k + 1, k + Len(call.sep)) # call.sep
      BY <1>1, <3>1 DEF SplitRunning
    <3> QED
      BY <2>1, <3>2, CleanPiece
  <2>8. /\ tokens' \in Seq(Line) /\ Len(tokens') = Len(tokens) + 1 /\ Len(tokens) \in Nat
        /\ \A i \in 1 .. Len(tokens') : ~T!HasSeparator(tokens'[i], call.sep)
    <3> HIDE DEF t
    <3>1. /\ tokens' \in Seq(Line) /\ Len(tokens') = Len(tokens) + 1 /\ Len(tokens) \in Nat
          /\ \A i \in 1 .. Len(tokens) : tokens'[i] = tokens[i]
          /\ tokens'[Len(tokens) + 1] = t
      BY <1>3, <2>1, <2>4, AppendProperties DEF t
    <3>2. \A i \in 1 .. Len(tokens) : ~T!HasSeparator(tokens[i], call.sep)
      BY <1>1 DEF SplitRunning
    <3>3. ASSUME NEW i \in 1 .. Len(tokens') PROVE ~T!HasSeparator(tokens'[i], call.sep)
      <4>1. CASE i \in 1 .. Len(tokens)
        BY <3>1, <3>2, <4>1
      <4>2. CASE i = Len(tokens) + 1
        BY <2>7, <3>1, <4>2
      <4> QED
        BY <3>1, <4>1, <4>2
    <3> QED
      BY <3>1, <3>3
  <2>9. slots' \in Nat /\ slots' >= 2 /\ Len(tokens') + 1 <= slots'
    <3>1. slots \in Nat /\ slots >= 2 /\ Len(tokens) + 1 <= slots
      BY <1>1 DEF SplitRunning
    <3> QED
      BY <1>3, <2>8, <3>1 DEF T!Grown
  <2>10. /\ start' = n /\ pos' = n /\ call' = call /\ phase' = "running" /\ array' = TRUE
         /\ result' = NULL /\ cur' = NULL /\ quote' = "none" /\ strings' = Len(tokens')
    BY <1>1, <1>3, <2>8 DEF SplitRunning, T!AfterSeparator
  <2>11. Consumed(tokens', call.sep) = SubSeq(call.line, 1, n)
    BY <1>3, <2>6
  <2>12. SplitRunning'
    <3> HIDE DEF n, t
    <3>1. start' <= pos' /\ \A k \in start' .. pos' - 1 : FALSE
      BY <2>3, <2>10
    <3> QED
      BY <2>1, <2>3, <2>8, <2>9, <2>10, <2>11, <3>1 DEF SplitRunning
  <2> QED
    BY <1>1, <2>10, <2>12 DEF TokensInv
<1>4. ASSUME slots' = T!Grown, ~T!AtSeparator, pos' = pos + 1,
             UNCHANGED <<tokens, strings, start>>,
             UNCHANGED <<phase, call, cur, quote, array, result>>
      PROVE  TokensInv'
  <2>1. slots' \in Nat /\ slots' >= 2 /\ Len(tokens') + 1 <= slots'
    BY <1>1, <1>4 DEF SplitRunning, T!Grown
  <2>2. pos' \in Nat /\ start' <= pos' /\ pos' <= Len(call'.line)
    <3>1. Len(call.sep) \in Nat /\ Len(call.sep) > 0 /\ Len(call.line) \in Nat
      BY <1>1, EmptySeq DEF SplitRunning, Line
    <3>2. pos < Len(call.line) - (Len(call.sep) - 1)
      BY <1>1 DEF T!Left
    <3>3. start \in Nat /\ pos \in Nat /\ start <= pos
      BY <1>1 DEF SplitRunning
    <3>4. pos' = pos + 1 /\ start' = start /\ call' = call
      BY <1>4
    <3>5. pos + 1 <= Len(call.line)
      BY <3>1, <3>2, <3>3, RoomForSeparator, Zenon
    <3> QED
      BY <3>3, <3>4, <3>5
  <2>3. \A k \in start .. pos' - 1 : SubSeq(call.line, k + 1, k + Len(call.sep)) # call.sep
    <3>1. start \in Nat /\ pos \in Nat
      BY <1>1 DEF SplitRunning
    <3>2. SubSeq(call.line, pos + 1, pos + Len(call.sep)) # call.sep
      BY <1>4 DEF T!AtSeparator
    <3>3. \A k \in start .. pos - 1 : SubSeq(call.line, k + 1, k + Len(call.sep)) # call.sep
      BY <1>1 DEF SplitRunning
    <3>4. \A k \in start .. pos' - 1 : k = pos \/ k \in start .. pos - 1
      BY <1>4, <3>1
    <3> QED
      BY <3>2, <3>3, <3>4
  <2>4. SplitRunning'
    BY <1>1, <1>4, <2>1, <2>2, <2>3 DEF SplitRunning
  <2> QED
    BY <1>1, <1>4, <2>4 DEF TokensInv
<1> QED
  BY <1>2, <1>3, <1>4 DEF T!SplitStep

LEMMA SplitEndKeeps ==
  ASSUME TokensInv, T!SplitEnd
  PROVE  TokensInv'
<1>1. SplitRunning /\ call.fn = "split" /\ ~T!Left /\ phase = "running"
  BY SplitState DEF T!SplitEnd, T!Splitting
<1>2. CASE T!SplitFails
  BY <1>1, <1>2, SplitFailed
<1>3. ASSUME tokens' = Append(tokens, SubSeq(call.line, start + 1, Len(call.line))),
             strings' = strings + 1, phase' = "done", result' = tokens',
             UNCHANGED <<call, pos, start, slots, cur, quote, array>>
      PROVE  TokensInv'
  <2> DEFINE t == SubSeq(call.line, start + 1, Len(call.line))
  <2>1. /\ call.line \in Line /\ call.sep \in Line /\ call.sep # <<>>
        /\ tokens \in Seq(Line) /\ start \in Nat /\ pos \in Nat
        /\ start <= pos /\ pos <= Len(call.line)
        /\ Consumed(tokens, call.sep) = SubSeq(call.line, 1, start)
        /\ slots \in Nat /\ Len(tokens) + 1 <= slots
    BY <1>1 DEF SplitRunning
  <2>2. Len(call.sep) \in Nat /\ Len(call.sep) > 0 /\ Len(call.line) \in Nat
    BY <2>1, EmptySeq DEF Line
  <2>3. start <= Len(call.line)
    BY <2>1, <2>2
  <2>4. t \in Line
    BY <2>1, <2>2, PieceType
  <2>5. T!sdsjoinsds(Append(tokens, t), call.sep) = call.line
    BY <2>1, <2>3, LastPiece
  <2>6. ~T!HasSeparator(t, call.sep)
    <3>1. ~(pos < Len(call.line) - (Len(call.sep) - 1))
      BY <1>1 DEF T!Left
    <3>2. \A k \in start .. Len(call.line) - Len(call.sep) : k \in start .. pos - 1
      <4>1. \A j, n, l, m, k \in Nat : l > 0 /\ ~(j < n - (l - 1)) /\ k \in m .. n - l => k \in m .. j - 1
        OBVIOUS
      <4>2. \A k \in start .. Len(call.line) - Len(call.sep) : k \in Nat
        BY <2>1
      <4> QED
        BY <2>1, <2>2, <3>1, <4>1, <4>2, Zenon
    <3>3. \A k \in start .. Len(call.line) - Len(call.sep) :
            SubSeq(call.line, k + 1, k + Len(call.sep)) # call.sep
      BY <1>1, <3>2 DEF SplitRunning
    <3>4. Len(call.line) <= Len(call.line)
      BY <2>2
    <3> QED
      BY <2>1, <2>2, <2>3, <3>3, <3>4, CleanPiece
  <2>7. /\ tokens' \in Seq(Line) /\ Len(tokens') = Len(tokens) + 1 /\ Len(tokens) \in Nat
        /\ DOMAIN tokens' = 1 .. Len(tokens')
        /\ \A i \in 1 .. Len(tokens') : ~T!HasSeparator(tokens'[i], call.sep)
    <3> HIDE DEF t
    <3>1. /\ tokens' \in Seq(Line) /\ Len(tokens') = Len(tokens) + 1 /\ Len(tokens) \in Nat
          /\ \A i \in 1 .. Len(tokens) : tokens'[i] = tokens[i]
          /\ tokens'[Len(tokens) + 1] = t
      BY <1>3, <2>1, <2>4, AppendProperties, SMTT(20) DEF t
    <3>2. \A i \in 1 .. Len(tokens) : ~T!HasSeparator(tokens[i], call.sep)
      BY <1>1 DEF SplitRunning
    <3>3. ASSUME NEW i \in 1 .. Len(tokens') PROVE ~T!HasSeparator(tokens'[i], call.sep)
      <4>1. CASE i \in 1 .. Len(tokens)
        BY <3>1, <3>2, <4>1
      <4>2. CASE i = Len(tokens) + 1
        BY <2>6, <3>1, <4>2
      <4> QED
        BY <3>1, <4>1, <4>2
    <3>4. DOMAIN tokens' = 1 .. Len(tokens')
      BY <3>1
    <3> QED
      BY <3>1, <3>3, <3>4
  <2>8. /\ phase' = "done" /\ call' = call /\ cur' = NULL /\ quote' = "none" /\ array' = TRUE
        /\ strings' = Len(result') /\ result' = tokens' /\ result' # NULL /\ slots' = slots
    BY <1>1, <1>3, <2>7, NullNotLine DEF SplitRunning
  <2>9. InBounds'
    BY <1>1, <2>1, <2>7, <2>8 DEF InBounds, T!InBounds
  <2>10. QuotedAgain'
    BY <1>1, <2>8 DEF QuotedAgain, T!QuotedAgain
  <2>11. ResultsRight'
    <3>1. T!sdsjoinsds(tokens', call.sep) = call.line
      BY <1>3, <2>5
    <3>2. \A i \in DOMAIN tokens' : ~T!HasSeparator(tokens'[i], call.sep)
      BY <2>7
    <3> QED
      BY <1>1, <2>8, <3>1, <3>2 DEF ResultsRight, T!SplitRight, T!NumberRight
  <2>12. Done'
    BY <1>1, <2>7, <2>8, <2>9, <2>10, <2>11 DEF Done
  <2> QED
    BY <2>8, <2>12 DEF TokensInv
<1> QED
  BY <1>2, <1>3 DEF T!SplitEnd

-----------------------------------------------------------------------------
(* sdssplitargs                                                            *)

LEMMA ArgsState == TokensInv /\ T!Parsing => ArgsRunning /\ phase = "running" /\ call.fn = "args"
BY DEF TokensInv, T!Parsing

\* A byte that is not the NUL at the end is within the line.
LEMMA AtByte ==
  ASSUME Parsed, NEW k \in Nat
  PROVE  /\ T!At(k) \in Byte
         /\ pos + k < Len(call.line) => T!At(k) = call.line[pos + k + 1]
         /\ T!At(k) # 0 => pos + k + 1 <= Len(call.line)
<1>1. pos \in Nat /\ call.line \in Line /\ Len(call.line) \in Nat
  BY DEF Parsed, Line
<1>2. CASE pos + k < Len(call.line)
  <2>1. pos + k + 1 \in 1 .. Len(call.line)
    BY <1>1, <1>2
  <2>2. call.line[pos + k + 1] \in Byte
    BY <1>1, <2>1 DEF Line
  <2> QED
    BY <1>2, <2>1, <2>2 DEF T!At
<1>3. CASE ~(pos + k < Len(call.line))
  BY <1>3 DEF T!At, Byte
<1> QED
  BY <1>2, <1>3

\* Going on within the line keeps what has been parsed.
LEMMA TakeKeeps ==
  ASSUME Parsed, cur # NULL, NEW b \in Byte, NEW n \in Nat,
         pos + n <= Len(call.line), T!Take(b, n)
  PROVE  Parsed'
<1>1. cur \in Line /\ cur' = Append(cur, b) /\ pos' = pos + n
  BY DEF Parsed, T!Take, T!Goto
<1>2. cur' \in Line
  BY <1>1, AppendProperties DEF Line
<1>3. cur' # NULL
  BY <1>2, NullNotLine
<1>4. UNCHANGED <<call, start, tokens, slots, array, result, quote, strings>>
  BY DEF T!Take, T!Goto
<1>5. pos' \in Nat /\ pos' <= Len(call'.line)
  BY <1>1, <1>4 DEF Parsed
<1> QED
  BY <1>2, <1>3, <1>4, <1>5 DEF Parsed

LEMMA EnterKeeps ==
  ASSUME Parsed, cur # NULL, T!At(0) # 0, NEW q \in {"double", "single"}, T!Enter(q)
  PROVE  Parsed'
<1>1. pos + 0 + 1 <= Len(call.line)
  BY AtByte
<1>2. pos \in Nat /\ pos' = pos + 1
  BY DEF Parsed, T!Enter, T!Goto
<1>3. pos' \in Nat /\ pos' <= Len(call.line)
  BY <1>1, <1>2
<1> QED
  BY <1>3 DEF Parsed, T!Enter, T!Goto

\* The token is complete: it is one string before and after.
LEMMA TokenEndsKeeps ==
  ASSUME Parsed, cur # NULL, T!TokenEnds
  PROVE  Parsed'
<1>1. cur \in Line /\ tokens \in Seq(Line) /\ tokens' = Append(tokens, cur)
  BY DEF Parsed, T!TokenEnds
<1>2. tokens' \in Seq(Line) /\ Len(tokens') = Len(tokens) + 1 /\ Len(tokens) \in Nat
  BY <1>1, AppendProperties
<1>3. pos' \in Nat /\ pos' <= Len(call.line)
  <2>1. pos \in Nat /\ pos <= Len(call.line)
    BY DEF Parsed
  <2>2. T!At(0) # 0 => pos + 0 + 1 <= Len(call.line)
    BY AtByte
  <2>3. pos' = IF T!At(0) = 0 THEN pos ELSE pos + 1
    BY DEF T!TokenEnds
  <2> QED
    BY <2>1, <2>2, <2>3
<1>4. cur' = NULL /\ quote' = "none" /\ array' = TRUE /\ UNCHANGED <<call, start, slots, strings, result>>
  BY DEF T!TokenEnds
<1> QED
  BY <1>2, <1>3, <1>4 DEF Parsed

LEMMA ArgsFailed ==
  ASSUME Parsed, call.fn = "args", call.text = NULL, cur # NULL, T!ArgsFail
  PROVE  TokensInv'
<1>1. strings' = 0 /\ array' = FALSE /\ call' = call /\ T!Return(NULL)
  BY DEF Parsed, T!ArgsFail
<1> QED
  BY <1>1, ReturnedNull DEF Parsed

\* Each letter after a backslash stands for one byte.
LEMMA UnescapedBytes ==
  /\ T!Unescaped(110) = 10 /\ T!Unescaped(114) = 13 /\ T!Unescaped(116) = 9
  /\ T!Unescaped(97) = 7 /\ T!Unescaped(98) = 8
  /\ \A b : b \notin {110, 114, 116, 97, 98} => T!Unescaped(b) = b
<1> DEFINE L(b) == CHOOSE l \in T!Letters : l[1] = b
<1>1. ASSUME NEW b, \E l \in T!Letters : l[1] = b
      PROVE  L(b) \in T!Letters /\ L(b)[1] = b
  BY <1>1
<1>2. \A l \in T!Letters : l \in {<<110, 10>>, <<114, 13>>, <<116, 9>>, <<97, 7>>, <<98, 8>>}
  BY DEF T!Letters
<1>3. ASSUME NEW b, NEW c, <<b, c>> \in T!Letters,
             \A l \in T!Letters : l[1] = b => l[2] = c
      PROVE  T!Unescaped(b) = c
  <2>1. <<b, c>>[1] = b
    OBVIOUS
  <2>2. \E l \in T!Letters : l[1] = b
    BY <1>3, <2>1
  <2>3. L(b)[2] = c
    BY <1>1, <1>3, <2>2
  <2> QED
    BY <2>2, <2>3 DEF T!Unescaped
<1> HIDE DEF L
<1>4. T!Unescaped(110) = 10
  BY <1>3 DEF T!Letters
<1>5. T!Unescaped(114) = 13
  BY <1>3 DEF T!Letters
<1>6. T!Unescaped(116) = 9
  BY <1>3 DEF T!Letters
<1>7. T!Unescaped(97) = 7
  BY <1>3 DEF T!Letters
<1>8. T!Unescaped(98) = 8
  BY <1>3 DEF T!Letters
<1>9. ASSUME NEW b, b \notin {110, 114, 116, 97, 98} PROVE T!Unescaped(b) = b
  <2>1. ~\E l \in T!Letters : l[1] = b
    BY <1>9 DEF T!Letters
  <2> QED
    BY <2>1 DEF T!Unescaped
<1> QED
  BY <1>4, <1>5, <1>6, <1>7, <1>8, <1>9

LEMMA UnescapedType ==
  ASSUME NEW b \in Byte
  PROVE  T!Unescaped(b) \in Byte
BY UnescapedBytes DEF Byte

LEMMA HexType ==
  ASSUME NEW h \in Byte, NEW l \in Byte, T!is_hex_digit(h), T!is_hex_digit(l)
  PROVE  T!hex_digit_to_int(h) * 16 + T!hex_digit_to_int(l) \in Byte
<1>1. ASSUME NEW d \in Byte, T!is_hex_digit(d) PROVE T!hex_digit_to_int(d) \in 0 .. 15
  BY <1>1 DEF T!is_hex_digit, T!hex_digit_to_int, Byte
<1>2. T!hex_digit_to_int(h) \in 0 .. 15 /\ T!hex_digit_to_int(l) \in 0 .. 15
  BY <1>1
<1>3. \A x, y \in 0 .. 15 : x * 16 + y \in 0 .. 255
  OBVIOUS
<1> QED
  BY <1>2, <1>3 DEF Byte

\* Still the same call, and what it has made so far.
Onward == Parsed' /\ phase' = phase /\ call' = call

LEMMA CloseQuoteOutcome ==
  ASSUME Parsed, cur # NULL, T!CloseQuote
  PROVE  T!ArgsFail \/ Onward
<1>1. CASE T!ArgsFail
  BY <1>1
<1>2. CASE T!TokenEnds
  BY <1>2, TokenEndsKeeps DEF Onward, T!TokenEnds
<1> QED
  BY <1>1, <1>2 DEF T!CloseQuote

LEMMA TakeOutcome ==
  ASSUME Parsed, cur # NULL, NEW b \in Byte, NEW n \in Nat,
         pos + n <= Len(call.line), T!Take(b, n)
  PROVE  Onward
<1>1. Parsed'
  BY TakeKeeps
<1>2. phase' = phase /\ call' = call
  BY DEF T!Take, T!Goto
<1> QED
  BY <1>1, <1>2 DEF Onward

LEMMA EnterOutcome ==
  ASSUME Parsed, cur # NULL, T!At(0) # 0, NEW q \in {"double", "single"}, T!Enter(q)
  PROVE  Onward
<1>1. Parsed'
  BY EnterKeeps
<1>2. phase' = phase /\ call' = call
  BY DEF T!Enter, T!Goto
<1> QED
  BY <1>1, <1>2 DEF Onward

\* Which of its branches is taken, with the bytes they need.
LEMMA InDoubleOutcome ==
  ASSUME Parsed, T!InDouble
  PROVE  T!ArgsFail \/ Onward
<1>1. cur # NULL /\ pos \in Nat /\ Len(call.line) \in Nat
  BY DEF T!InDouble, Parsed, Line
<1>2. /\ T!At(0) \in Byte /\ T!At(1) \in Byte /\ T!At(2) \in Byte /\ T!At(3) \in Byte
      /\ T!At(0) # 0 => pos + 1 <= Len(call.line)
      /\ T!At(1) # 0 => pos + 2 <= Len(call.line)
      /\ T!At(3) # 0 => pos + 4 <= Len(call.line)
  <2>1. \A k \in Nat : T!At(k) \in Byte /\ (T!At(k) # 0 => pos + k + 1 <= Len(call.line))
    BY AtByte
  <2>2. T!At(0) \in Byte /\ T!At(1) \in Byte /\ T!At(2) \in Byte /\ T!At(3) \in Byte
    BY <2>1
  <2>3. T!At(0) # 0 => pos + 1 <= Len(call.line)
    BY <1>1, <2>1
  <2>4. T!At(1) # 0 => pos + 2 <= Len(call.line)
    BY <1>1, <2>1
  <2>5. T!At(3) # 0 => pos + 4 <= Len(call.line)
    BY <1>1, <2>1
  <2> QED
    BY <2>2, <2>3, <2>4, <2>5
<1>3. CASE T!HexAt
  <2> DEFINE b == T!hex_digit_to_int(T!At(2)) * 16 + T!hex_digit_to_int(T!At(3))
  <2>1. T!Take(b, 4)
    BY <1>3 DEF T!InDouble, T!HexAt
  <2>2. T!is_hex_digit(T!At(2)) /\ T!is_hex_digit(T!At(3)) /\ T!At(3) # 0
    BY <1>3 DEF T!HexAt, T!is_hex_digit
  <2>3. b \in Byte
    BY <1>2, <2>2, HexType
  <2> HIDE DEF b
  <2> QED
    BY <1>1, <1>2, <2>1, <2>2, <2>3, TakeOutcome
<1>4. CASE ~T!HexAt /\ T!At(0) = 92 /\ T!At(1) # 0
  <2>1. T!Take(T!Unescaped(T!At(1)), 2)
    BY <1>4 DEF T!InDouble
  <2>2. T!Unescaped(T!At(1)) \in Byte
    BY <1>2, UnescapedType
  <2> QED
    BY <1>1, <1>2, <1>4, <2>1, <2>2, TakeOutcome
<1>5. CASE T!At(0) = 34
  <2>1. T!CloseQuote
    BY <1>5 DEF T!InDouble, T!HexAt
  <2> QED
    BY <1>1, <2>1, CloseQuoteOutcome
<1>6. CASE T!At(0) = 0
  BY <1>6 DEF T!InDouble, T!HexAt
<1>7. CASE /\ ~T!HexAt /\ ~(~T!HexAt /\ T!At(0) = 92 /\ T!At(1) # 0)
           /\ T!At(0) # 34 /\ T!At(0) # 0
  <2>1. T!Take(T!At(0), 1)
    BY <1>7 DEF T!InDouble
  <2> QED
    BY <1>1, <1>2, <1>7, <2>1, TakeOutcome
<1> QED
  BY <1>3, <1>4, <1>5, <1>6, <1>7

LEMMA InSingleOutcome ==
  ASSUME Parsed, T!InSingle
  PROVE  T!ArgsFail \/ Onward
<1>1. cur # NULL /\ pos \in Nat /\ Len(call.line) \in Nat
  BY DEF T!InSingle, Parsed, Line
<1>2. /\ T!At(0) \in Byte /\ T!At(1) \in Byte
      /\ T!At(0) # 0 => pos + 1 <= Len(call.line)
      /\ T!At(1) # 0 => pos + 2 <= Len(call.line)
  <2>1. \A k \in Nat : T!At(k) \in Byte /\ (T!At(k) # 0 => pos + k + 1 <= Len(call.line))
    BY AtByte
  <2>2. T!At(0) \in Byte /\ T!At(1) \in Byte
    BY <2>1
  <2>3. T!At(0) # 0 => pos + 1 <= Len(call.line)
    BY <1>1, <2>1
  <2>4. T!At(1) # 0 => pos + 2 <= Len(call.line)
    BY <1>1, <2>1
  <2> QED
    BY <2>2, <2>3, <2>4
<1>3. CASE T!At(0) = 92 /\ T!At(1) = 39
  <2>1. T!Take(39, 2) /\ 39 \in Byte
    BY <1>3 DEF T!InSingle, Byte
  <2> QED
    BY <1>1, <1>2, <1>3, <2>1, TakeOutcome
<1>4. CASE T!At(0) = 39
  <2>1. T!CloseQuote
    BY <1>4 DEF T!InSingle
  <2> QED
    BY <1>1, <2>1, CloseQuoteOutcome
<1>5. CASE T!At(0) = 0
  BY <1>5 DEF T!InSingle
<1>6. CASE ~(T!At(0) = 92 /\ T!At(1) = 39) /\ T!At(0) # 39 /\ T!At(0) # 0
  <2>1. T!Take(T!At(0), 1)
    BY <1>6 DEF T!InSingle
  <2> QED
    BY <1>1, <1>2, <1>6, <2>1, TakeOutcome
<1> QED
  BY <1>3, <1>4, <1>5, <1>6

LEMMA InBareOutcome ==
  ASSUME Parsed, T!InBare
  PROVE  Onward
<1>1. cur # NULL /\ pos \in Nat /\ Len(call.line) \in Nat
  BY DEF T!InBare, Parsed, Line
<1>2. T!At(0) \in Byte /\ (T!At(0) # 0 => pos + 1 <= Len(call.line))
  <2>1. T!At(0) \in Byte /\ (T!At(0) # 0 => pos + 0 + 1 <= Len(call.line))
    BY AtByte
  <2> QED
    BY <1>1, <2>1
<1>3. CASE T!At(0) \in {0, 9, 10, 13, 32}
  <2>1. T!TokenEnds
    BY <1>3 DEF T!InBare
  <2> QED
    BY <1>1, <2>1, TokenEndsKeeps DEF Onward, T!TokenEnds
<1>4. CASE T!At(0) = 34
  <2>1. T!Enter("double")
    BY <1>4 DEF T!InBare
  <2> QED
    BY <1>1, <1>4, <2>1, EnterOutcome
<1>5. CASE T!At(0) = 39
  <2>1. T!Enter("single")
    BY <1>5 DEF T!InBare
  <2> QED
    BY <1>1, <1>5, <2>1, EnterOutcome
<1>6. CASE T!At(0) \notin {0, 9, 10, 13, 32, 34, 39}
  <2>1. T!Take(T!At(0), 1)
    BY <1>6 DEF T!InBare
  <2> QED
    BY <1>1, <1>2, <1>6, <2>1, TakeOutcome
<1> QED
  BY <1>3, <1>4, <1>5, <1>6

LEMMA BetweenOutcome ==
  ASSUME Parsed, T!SkipBlank \/ T!TokenBegins
  PROVE  Onward
<1>1. pos \in Nat /\ Len(call.line) \in Nat /\ pos <= Len(call.line)
  BY DEF Parsed, Line
<1>2. CASE T!SkipBlank
  <2>1. T!At(0) # 0 /\ pos' = pos + 1
    BY <1>2 DEF T!SkipBlank, T!Goto, T!isspace
  <2>2. pos + 0 + 1 <= Len(call.line)
    BY <2>1, AtByte
  <2>3. pos' \in Nat /\ pos' <= Len(call.line)
    BY <1>1, <2>1, <2>2
  <2> QED
    BY <1>2, <2>3 DEF Onward, Parsed, T!SkipBlank, T!Goto
<1>3. CASE T!TokenBegins
  <2>1. <<>> \in Line /\ <<>> # NULL
    BY NullNotLine, EmptySeq DEF Line
  <2>2. pos' = pos
    BY <1>1, <1>3 DEF T!TokenBegins, T!Goto
  <2>3. strings' = Len(tokens) + 1
    BY <1>3 DEF Parsed, T!TokenBegins
  <2> QED
    BY <1>1, <1>3, <2>1, <2>2, <2>3 DEF Onward, Parsed, T!TokenBegins, T!Goto
<1> QED
  BY <1>2, <1>3

-----------------------------------------------------------------------------
(* What sdscatrepr writes for a byte                                       *)

LEMMA HexDigitValue ==
  ASSUME NEW d \in 0 .. 15
  PROVE  /\ T!HexDigits[d + 1] = IF d < 10 THEN 48 + d ELSE 87 + d
         /\ T!HexDigits[d + 1] \in Byte /\ T!is_hex_digit(T!HexDigits[d + 1])
         /\ T!hex_digit_to_int(T!HexDigits[d + 1]) = d
<1>1. T!HexDigits[d + 1] = IF d < 10 THEN 48 + d ELSE 87 + d
  <2>1. d \in {0, 1, 2, 3, 4, 5, 6, 7} \/ d \in {8, 9, 10, 11, 12, 13, 14, 15}
    OBVIOUS
  <2>2. CASE d \in {0, 1, 2, 3, 4, 5, 6, 7}
    BY <2>2 DEF T!HexDigits
  <2>3. CASE d \in {8, 9, 10, 11, 12, 13, 14, 15}
    BY <2>3 DEF T!HexDigits
  <2> QED
    BY <2>1, <2>2, <2>3
<1> QED
  BY <1>1 DEF Byte, T!is_hex_digit, T!hex_digit_to_int

\* The letter for a byte that has one.
LEMMA LetterFor ==
  ASSUME NEW b, NEW c, <<c, b>> \in T!Letters, b \notin {34, 92},
         \A l \in T!Letters : l[2] = b => l[1] = c
  PROVE  T!Escaped(b) = <<92, c>>
<1> DEFINE L == CHOOSE l \in T!Letters : l[2] = b
<1>1. <<c, b>>[2] = b
  OBVIOUS
<1>2. \E l \in T!Letters : l[2] = b
  BY <1>1
<1>3. L \in T!Letters /\ L[2] = b
  BY <1>2
<1>4. L[1] = c
  BY <1>3
<1> QED
  BY <1>2, <1>4 DEF T!Escaped

Plain(e, b) == Len(e) = 1 /\ e[1] = b /\ b \notin {0, 34, 92}
Backslashed(e, b) == Len(e) = 2 /\ e[1] = 92 /\ e[2] \notin {0, 120} /\ T!Unescaped(e[2]) = b
Hexadecimal(e, b) ==
  /\ Len(e) = 4 /\ e[1] = 92 /\ e[2] = 120 /\ T!is_hex_digit(e[3]) /\ T!is_hex_digit(e[4])
  /\ T!hex_digit_to_int(e[3]) * 16 + T!hex_digit_to_int(e[4]) = b

\* Three forms, of which the reader can tell which one it has before it.
LEMMA EscapedForms ==
  ASSUME NEW b \in Byte
  PROVE  /\ T!Escaped(b) \in Line
         /\ Plain(T!Escaped(b), b) \/ Backslashed(T!Escaped(b), b) \/ Hexadecimal(T!Escaped(b), b)
<1>1. ASSUME NEW c \in Byte, c \notin {0, 120}, T!Escaped(b) = <<92, c>>, T!Unescaped(c) = b
      PROVE  T!Escaped(b) \in Line /\ Backslashed(T!Escaped(b), b)
  <2>1. <<92, c>> \in Line
    BY DEF Line, Byte
  <2>2. Backslashed(<<92, c>>, b)
    BY <1>1 DEF Backslashed
  <2> QED
    BY <1>1, <2>1, <2>2
<1>2. CASE b \in {34, 92}
  <2>1. T!Escaped(b) = <<92, b>>
    BY <1>2 DEF T!Escaped
  <2>2. T!Unescaped(b) = b
    BY <1>2, UnescapedBytes
  <2> QED
    BY <1>1, <1>2, <2>1, <2>2
<1>3. CASE b \in {10, 13, 9, 7, 8}
  <2>1. \A l \in T!Letters : l \in {<<110, 10>>, <<114, 13>>, <<116, 9>>, <<97, 7>>, <<98, 8>>}
    BY DEF T!Letters
  <2>2. CASE b = 10
    <3>1. T!Escaped(b) = <<92, 110>>
      BY <2>1, <2>2, LetterFor DEF T!Letters
    <3> QED
      BY <1>1, <2>2, <3>1, UnescapedBytes DEF Byte
  <2>3. CASE b = 13
    <3>1. T!Escaped(b) = <<92, 114>>
      BY <2>1, <2>3, LetterFor DEF T!Letters
    <3> QED
      BY <1>1, <2>3, <3>1, UnescapedBytes DEF Byte
  <2>4. CASE b = 9
    <3>1. T!Escaped(b) = <<92, 116>>
      BY <2>1, <2>4, LetterFor DEF T!Letters
    <3> QED
      BY <1>1, <2>4, <3>1, UnescapedBytes DEF Byte
  <2>5. CASE b = 7
    <3>1. T!Escaped(b) = <<92, 97>>
      BY <2>1, <2>5, LetterFor DEF T!Letters
    <3> QED
      BY <1>1, <2>5, <3>1, UnescapedBytes DEF Byte
  <2>6. CASE b = 8
    <3>1. T!Escaped(b) = <<92, 98>>
      BY <2>1, <2>6, LetterFor DEF T!Letters
    <3> QED
      BY <1>1, <2>6, <3>1, UnescapedBytes DEF Byte
  <2> QED
    BY <1>3, <2>2, <2>3, <2>4, <2>5, <2>6
<1>4. CASE b \notin {34, 92} \cup {10, 13, 9, 7, 8}
  <2>1. ~\E l \in T!Letters : l[2] = b
    BY <1>4 DEF T!Letters
  <2>2. CASE T!isprint(b)
    <3>1. T!Escaped(b) = <<b>>
      BY <1>4, <2>1, <2>2 DEF T!Escaped
    <3>2. <<b>> \in Line /\ Plain(<<b>>, b)
      BY <1>4, <2>2 DEF Line, Plain, T!isprint
    <3> QED
      BY <3>1, <3>2
  <2>3. CASE ~T!isprint(b)
    <3> DEFINE h == T!HexDigits[b \div 16 + 1]
               l == T!HexDigits[(b % 16) + 1]
    <3>1. T!Escaped(b) = <<92, 120, h, l>>
      BY <1>4, <2>1, <2>3 DEF T!Escaped
    <3>2. b \div 16 \in 0 .. 15 /\ b % 16 \in 0 .. 15 /\ (b \div 16) * 16 + (b % 16) = b
      BY DEF Byte
    <3>3. h \in Byte /\ T!is_hex_digit(h) /\ T!hex_digit_to_int(h) = b \div 16
      BY <3>2, HexDigitValue
    <3>4. l \in Byte /\ T!is_hex_digit(l) /\ T!hex_digit_to_int(l) = b % 16
      BY <3>2, HexDigitValue
    <3> HIDE DEF h, l
    <3>5. <<92, 120, h, l>> \in Line
      BY <3>3, <3>4 DEF Line, Byte
    <3>6. Hexadecimal(<<92, 120, h, l>>, b)
      BY <3>2, <3>3, <3>4 DEF Hexadecimal
    <3> QED
      BY <3>1, <3>5, <3>6
  <2> QED
    BY <2>2, <2>3
<1> QED
  BY <1>2, <1>3, <1>4

-----------------------------------------------------------------------------
(* What sdscatrepr writes for a text                                       *)

LEMMA QuoteIsLine == <<34>> \in Line /\ Len(<<34>>) = 1 /\ <<34>>[1] = 34
BY DEF Line, Byte

\* The bytes of k escaped ones, and of one more.
LEMMA QuotedAppend ==
  ASSUME NEW text \in Line
  PROVE  /\ Quoted(text, 0) = <<34>>
         /\ \A k \in 0 .. Len(text) : Quoted(text, k) \in Line
         /\ \A k \in 0 .. Len(text) - 1 :
              Quoted(text, k + 1) = Quoted(text, k) \o T!Escaped(text[k + 1])
<1> DEFINE p(k) == [i \in 1 .. k |-> T!Escaped(text[i])]
<1>1. Len(text) \in Nat /\ \A i \in 1 .. Len(text) : text[i] \in Byte
  BY DEF Line
<1>2. \A i \in 1 .. Len(text) : T!Escaped(text[i]) \in Line
  BY <1>1, EscapedForms
<1>3. ASSUME NEW k \in 0 .. Len(text) PROVE p(k) \in Seq(Line) /\ Len(p(k)) = k
  <2>1. k \in Nat /\ \A i \in 1 .. k : T!Escaped(text[i]) \in Line
    BY <1>1, <1>2
  <2> QED
    BY <2>1
<1>4. ASSUME NEW k \in 0 .. Len(text) PROVE T!FlattenSeq(p(k)) \in Line
  <2>1. p(k) \in Seq(Line)
    BY <1>3
  <2> HIDE DEF p
  <2> QED
    BY <2>1, FlattenType DEF Line
<1>5. ASSUME NEW k \in 0 .. Len(text) PROVE Quoted(text, k) \in Line
  <2> DEFINE f == T!FlattenSeq(p(k))
  <2>1. f \in Line
    BY <1>4
  <2>2. Quoted(text, k) = <<34>> \o f
    BY DEF Quoted
  <2> HIDE DEF f
  <2> QED
    BY <2>1, <2>2, QuoteIsLine, ConcatProperties DEF Line
<1>6. Quoted(text, 0) = <<34>>
  <2>1. p(0) = <<>>
    OBVIOUS
  <2>2. Quoted(text, 0) = <<34>> \o T!FlattenSeq(p(0))
    BY DEF Quoted
  <2>3. T!FlattenSeq(p(0)) = <<>>
    BY <2>1, FlattenEmpty
  <2>4. <<34>> \o <<>> = <<34>>
    BY QuoteIsLine, ConcatEmptySeq DEF Line
  <2> QED
    BY <2>2, <2>3, <2>4
<1>7. ASSUME NEW k \in 0 .. Len(text) - 1
      PROVE  Quoted(text, k + 1) = Quoted(text, k) \o T!Escaped(text[k + 1])
  <2> DEFINE q == p(k)
             e == T!Escaped(text[k + 1])
             l == p(k + 1)
             f == T!FlattenSeq(q)
  <2>1. k \in 0 .. Len(text) /\ k + 1 \in 1 .. Len(text) /\ k \in Nat
    BY <1>1
  <2>2. e \in Line /\ q \in Seq(Line) /\ Len(q) = k
    BY <1>2, <1>3, <2>1
  <2>3. HasPlaces(l, k + 1)
    BY DEF HasPlaces
  <2>4. l[k + 1] = e /\ \A i \in 1 .. k : l[i] = q[i]
    BY <2>1
  <2>5. l = Append(q, e)
    <3> HIDE DEF l, q, e
    <3> QED
      BY <2>1, <2>2, <2>3, <2>4, OneElementMore
  <2>6. T!FlattenSeq(Append(q, e)) = f \o e
    <3> HIDE DEF q, e
    <3> QED
      BY <2>2, FlattenAppend DEF Line, f
  <2>7. Quoted(text, k + 1) = <<34>> \o T!FlattenSeq(l) /\ Quoted(text, k) = <<34>> \o f
    BY DEF Quoted
  <2>8. f \in Line
    BY <1>4, <2>1
  <2> HIDE DEF l, q, e, f
  <2>9. (<<34>> \o f) \o e = <<34>> \o (f \o e)
    BY <2>2, <2>8, QuoteIsLine, ConcatAssociative DEF Line
  <2>10. Quoted(text, k + 1) = Quoted(text, k) \o e
    BY <2>5, <2>6, <2>7, <2>9, Zenon
  <2> QED
    BY <2>10 DEF e
<1> HIDE DEF p
<1> QED
  BY <1>5, <1>6, <1>7

LEMMA RepresentedLine ==
  ASSUME NEW text \in Line
  PROVE  T!sdscatrepr(<<>>, text) = Quoted(text, Len(text)) \o <<34>>
<1> DEFINE f == T!FlattenSeq([i \in 1 .. Len(text) |-> T!Escaped(text[i])])
<1>1. DOMAIN text = 1 .. Len(text)
  BY DEF Line
<1>2. T!sdscatrepr(<<>>, text) = ((<<>> \o <<34>>) \o f) \o <<34>>
  BY <1>1 DEF T!sdscatrepr
<1>3. Quoted(text, Len(text)) = <<34>> \o f
  BY DEF Quoted
<1>4. <<>> \o <<34>> = <<34>>
  BY QuoteIsLine, ConcatEmptySeq DEF Line
<1> HIDE DEF f
<1> QED
  BY <1>2, <1>3, <1>4, Zenon

Prefix(p, s) == Len(p) <= Len(s) /\ \A i \in 1 .. Len(p) : s[i] = p[i]

LEMMA PrefixConcat ==
  ASSUME NEW p \in Line, NEW s \in Line, NEW e \in Line, Prefix(p, s)
  PROVE  /\ Prefix(p, s \o e) /\ s \o e \in Line /\ Len(s \o e) = Len(s) + Len(e)
         /\ \A j \in 1 .. Len(e) : (s \o e)[Len(s) + j] = e[j]
<1>1. /\ s \o e \in Line /\ Len(s \o e) = Len(s) + Len(e)
      /\ \A i \in 1 .. Len(s) + Len(e) : (s \o e)[i] = IF i <= Len(s) THEN s[i] ELSE e[i - Len(s)]
  BY ConcatProperties DEF Line
<1>2. Len(s) \in Nat /\ Len(e) \in Nat /\ Len(p) \in Nat
  BY DEF Line
<1> DEFINE c == s \o e
<1> HIDE DEF c
<1>3. \A i \in 1 .. Len(s) : c[i] = s[i]
  BY <1>1, <1>2 DEF c
<1>4. \A j \in 1 .. Len(e) : c[Len(s) + j] = e[j]
  <2> TAKE j \in 1 .. Len(e)
  <2>1. Len(s) + j \in 1 .. Len(s) + Len(e) /\ ~(Len(s) + j <= Len(s)) /\ (Len(s) + j) - Len(s) = j
    BY <1>2
  <2> QED
    BY <1>1, <2>1 DEF c
<1>5. Prefix(p, c)
  <2>1. Len(p) <= Len(c) /\ \A i \in 1 .. Len(p) : i \in 1 .. Len(s)
    BY <1>1, <1>2 DEF Prefix, c
  <2> QED
    BY <1>3, <2>1 DEF Prefix
<1> QED
  BY <1>1, <1>4, <1>5 DEF c

LEMMA QuotedPrefix ==
  ASSUME NEW text \in Line, NEW k \in 0 .. Len(text)
  PROVE  \A n \in k .. Len(text) : Prefix(Quoted(text, k), Quoted(text, n))
<1> DEFINE S == {n \in k .. Len(text) : Prefix(Quoted(text, k), Quoted(text, n))}
<1>1. Len(text) \in Nat /\ k \in Nat
  BY DEF Line
<1>2. Quoted(text, k) \in Line
  BY QuotedAppend
<1>3. k \in S
  BY <1>1, <1>2 DEF Prefix, Line
<1>4. ASSUME NEW n \in k .. Len(text) - 1, n \in S PROVE n + 1 \in S
  <2>1. n \in 0 .. Len(text) /\ n \in 0 .. Len(text) - 1 /\ n + 1 \in 1 .. Len(text) /\ n + 1 \in k .. Len(text)
    BY <1>1
  <2>2. Quoted(text, n) \in Line /\ Quoted(text, n + 1) = Quoted(text, n) \o T!Escaped(text[n + 1])
    BY <2>1, QuotedAppend
  <2>3. T!Escaped(text[n + 1]) \in Line
    BY <2>1, EscapedForms DEF Line
  <2>4. Prefix(Quoted(text, k), Quoted(text, n))
    BY <1>4
  <2>5. Prefix(Quoted(text, k), Quoted(text, n) \o T!Escaped(text[n + 1]))
    BY <1>2, <2>2, <2>3, <2>4, PrefixConcat
  <2> QED
    BY <2>1, <2>2, <2>5
<1> HIDE DEF S
<1>5. \A n \in k .. Len(text) : n \in S
  BY <1>1, <1>3, <1>4, IntervalInduction
<1> QED
  BY <1>5 DEF S

\* The line begins with a quote, has the escaped bytes of the text one after the
\* other, and ends with a quote.
LEMMA RepresentedBytes ==
  ASSUME NEW text \in Line, NEW line, line = T!sdscatrepr(<<>>, text)
  PROVE  /\ line \in Line /\ Len(line) = Len(Quoted(text, Len(text))) + 1
         /\ Len(Quoted(text, 0)) = 1 /\ line[1] = 34 /\ line[Len(line)] = 34
         /\ \A k \in 0 .. Len(text) - 1 :
              LET e == T!Escaped(text[k + 1])
                  n == Len(Quoted(text, k))
              IN  /\ n \in Nat /\ Len(e) \in Nat /\ Len(Quoted(text, k + 1)) = n + Len(e)
                  /\ n + Len(e) < Len(line) /\ \A j \in 1 .. Len(e) : line[n + j] = e[j]
<1> DEFINE m == Len(text)
           q == Quoted(text, m)
<1>1. m \in Nat /\ m \in 0 .. m /\ 0 \in 0 .. m
  BY DEF Line
<1>2. q \in Line /\ line = q \o <<34>>
  BY <1>1, QuotedAppend, RepresentedLine
<1>3. Len(q) \in Nat
  BY <1>2 DEF Line
<1>4. ASSUME NEW k \in 0 .. m
      PROVE  Quoted(text, k) \in Line /\ Prefix(Quoted(text, k), q) /\ Prefix(Quoted(text, k), line)
  <2>1. Quoted(text, k) \in Line
    BY <1>4, QuotedAppend
  <2>2. m \in k .. m
    BY <1>1
  <2>3. Prefix(Quoted(text, k), q)
    BY <1>4, <2>2, QuotedPrefix
  <2> HIDE DEF q
  <2>4. Prefix(Quoted(text, k), q \o <<34>>)
    BY <1>2, <2>1, <2>3, QuoteIsLine, PrefixConcat
  <2> QED
    BY <1>2, <2>1, <2>3, <2>4
<1>5. line \in Line /\ Len(line) = Len(q) + 1 /\ line[Len(q) + 1] = 34
  <2> HIDE DEF q
  <2>1. /\ q \o <<34>> \in Line /\ Len(q \o <<34>>) = Len(q) + Len(<<34>>)
        /\ \A j \in 1 .. Len(<<34>>) : (q \o <<34>>)[Len(q) + j] = <<34>>[j]
    <3>1. Prefix(q, q)
      BY <1>3 DEF Prefix
    <3> QED
      BY <1>2, <3>1, QuoteIsLine, PrefixConcat
  <2>2. 1 \in 1 .. Len(<<34>>)
    BY QuoteIsLine
  <2> QED
    BY <1>2, <2>1, <2>2, QuoteIsLine
<1>6. Len(Quoted(text, 0)) = 1 /\ line[1] = 34
  <2>1. Quoted(text, 0) = <<34>> /\ Prefix(Quoted(text, 0), line)
    BY <1>1, <1>4, QuotedAppend
  <2> QED
    BY <2>1, QuoteIsLine DEF Prefix
<1>7. ASSUME NEW k \in 0 .. m - 1
      PROVE  LET e == T!Escaped(text[k + 1])
                 n == Len(Quoted(text, k))
             IN  /\ n \in Nat /\ Len(e) \in Nat /\ Len(Quoted(text, k + 1)) = n + Len(e)
                 /\ n + Len(e) < Len(line) /\ \A j \in 1 .. Len(e) : line[n + j] = e[j]
  <2> DEFINE e == T!Escaped(text[k + 1])
             p == Quoted(text, k)
             n == Len(p)
             r == Quoted(text, k + 1)
  <2>1. k \in 0 .. m /\ k + 1 \in 0 .. m /\ k + 1 \in 1 .. m
    BY <1>1
  <2>2. e \in Line /\ Len(e) \in Nat
    BY <2>1, EscapedForms DEF Line
  <2>3. p \in Line /\ n \in Nat /\ r = p \o e /\ Prefix(r, q) /\ Prefix(r, line)
    <3>1. p \in Line
      BY <1>4, <2>1
    <3>2. Prefix(r, q) /\ Prefix(r, line)
      BY <1>4, <2>1
    <3>3. r = p \o e
      BY QuotedAppend
    <3>4. n \in Nat
      <4> HIDE DEF p
      <4> QED
        BY <3>1 DEF Line
    <3> QED
      BY <3>1, <3>2, <3>3, <3>4
  <2> HIDE DEF e, p, r, q, m
  <2>4. Len(r) = n + Len(e) /\ \A j \in 1 .. Len(e) : r[n + j] = e[j]
    <3>1. Prefix(p, p)
      BY <2>3 DEF Prefix
    <3>2. Len(p \o e) = Len(p) + Len(e) /\ \A j \in 1 .. Len(e) : (p \o e)[Len(p) + j] = e[j]
      BY <2>2, <2>3, <3>1, PrefixConcat
    <3> QED
      BY <2>3, <3>2
  <2>5. n + Len(e) < Len(line)
    BY <1>3, <1>5, <2>2, <2>3, <2>4 DEF Prefix
  <2>6. ASSUME NEW j \in 1 .. Len(e) PROVE line[n + j] = e[j]
    <3>1. n + j \in 1 .. Len(r)
      BY <2>2, <2>3, <2>4
    <3> QED
      BY <2>3, <2>4, <3>1 DEF Prefix
  <2>7. n \in Nat
    BY <2>3
  <2> QED
    BY <2>2, <2>4, <2>5, <2>6, <2>7 DEF e, p, r
<1> QED
  BY <1>5, <1>6, <1>7

-----------------------------------------------------------------------------
(* sdssplitargs in what sdscatrepr wrote                                   *)

\* Where it can be: before the text, in it, behind it.
BeforeText == pos = 0 /\ tokens = <<>> /\ cur \in {NULL, <<>>} /\ quote = "none"
InText(text) ==
  /\ tokens = <<>> /\ quote = "double" /\ cur # NULL
  /\ \E k \in 0 .. Len(text) : cur = SubSeq(text, 1, k) /\ pos = Len(Quoted(text, k))
BehindText(text) == tokens = <<text>> /\ cur = NULL /\ quote = "none" /\ pos = Len(call.line)

LEMMA ReadingPlaces ==
  ASSUME NEW text
  PROVE  ReadingQuoted(text) <=>
           /\ text \in Line /\ call.line = T!sdscatrepr(<<>>, text)
           /\ BeforeText \/ InText(text) \/ BehindText(text)
BY DEF ReadingQuoted, BeforeText, InText, BehindText

LEMMA FirstByte ==
  ASSUME ReadingQuoted(call.text), BeforeText
  PROVE  T!At(0) = 34
<1>1. Len(call.line) = Len(Quoted(call.text, Len(call.text))) + 1 /\ call.line \in Line /\ call.line[1] = 34
  BY RepresentedBytes DEF ReadingQuoted
<1>2. Quoted(call.text, Len(call.text)) \in Line
  <2>1. call.text \in Line /\ Len(call.text) \in 0 .. Len(call.text)
    BY DEF ReadingQuoted, Line
  <2> QED
    BY <2>1, QuotedAppend
<1>3. Len(call.line) > 0
  BY <1>1, <1>2 DEF Line
<1>4. pos = 0
  BY DEF BeforeText
<1> QED
  BY <1>1, <1>3, <1>4 DEF T!At

LEMMA NextOfText ==
  ASSUME NEW text \in Line, NEW k \in 0 .. Len(text) - 1
  PROVE  Append(SubSeq(text, 1, k), text[k + 1]) = SubSeq(text, 1, k + 1)
<1>1. Len(text) \in Nat /\ text[k + 1] \in Byte
  BY DEF Line
<1>2. SubSeq(text, 1, k) \in Line
  <2>1. 0 \in Nat /\ k \in Nat /\ k <= Len(text)
    BY <1>1
  <2>2. SubSeq(text, 0 + 1, k) \in Line
    BY <2>1, PieceType
  <2> QED
    BY <2>2
<1>3. Append(SubSeq(text, 1, k), text[k + 1]) = SubSeq(text, 1, k) \o <<text[k + 1]>>
  BY <1>1, <1>2, AppendIsConcat DEF Line
<1>4. SubSeq(text, 1, k + 1) = SubSeq(text, 1, (k + 1) - 1) \o <<text[k + 1]>>
  <2>1. 1 \in 1 .. Len(text) /\ k + 1 \in 1 .. Len(text)
    BY <1>1
  <2> QED
    BY <2>1, SubSeqRecursiveSecond DEF Line
<1>5. (k + 1) - 1 = k
  OBVIOUS
<1> QED
  BY <1>3, <1>4, <1>5

\* The bytes that stand for one byte of the text are taken together.
LEMMA InTextByte ==
  ASSUME Parsed, T!InDouble, NEW text \in Line, call.line = T!sdscatrepr(<<>>, text),
         NEW k \in 0 .. Len(text) - 1, pos = Len(Quoted(text, k))
  PROVE  \E n \in Nat : T!Take(text[k + 1], n) /\ pos + n = Len(Quoted(text, k + 1))
<1> DEFINE e == T!Escaped(text[k + 1])
           b == text[k + 1]
<1>1. /\ pos \in Nat /\ Len(e) \in Nat /\ Len(Quoted(text, k + 1)) = pos + Len(e)
      /\ pos + Len(e) < Len(call.line) /\ \A j \in 1 .. Len(e) : call.line[pos + j] = e[j]
  BY RepresentedBytes
<1>2. b \in Byte
  BY DEF Line
<1>3. Plain(e, b) \/ Backslashed(e, b) \/ Hexadecimal(e, b)
  BY <1>2, EscapedForms
<1> HIDE DEF e, b
<1>4. call.line \in Line /\ Len(call.line) \in Nat
  BY DEF Parsed, Line
<1>5. ASSUME NEW i \in Nat, i < Len(e) PROVE T!At(i) = e[i + 1]
  <2>1. i + 1 \in 1 .. Len(e) /\ pos + i < Len(call.line) /\ pos + (i + 1) = pos + i + 1
    BY <1>1, <1>4, <1>5
  <2>2. call.line[pos + (i + 1)] = e[i + 1]
    BY <1>1, <2>1
  <2> QED
    BY <2>1, <2>2 DEF T!At
<1>6. CASE Plain(e, b)
  <2>1. T!At(0) = b /\ b \notin {0, 34, 92} /\ Len(e) = 1
    <3>1. 0 \in Nat /\ 0 < Len(e) /\ e[0 + 1] = b
      BY <1>6 DEF Plain
    <3>2. T!At(0) = b
      BY <1>5, <3>1
    <3> QED
      BY <1>6, <3>2 DEF Plain
  <2>2. T!Take(b, 1)
    BY <2>1 DEF T!InDouble, T!HexAt
  <2> QED
    BY <1>1, <2>1, <2>2 DEF b
<1>7. CASE Backslashed(e, b)
  <2>1. T!At(0) = 92 /\ T!At(1) = e[2] /\ e[2] \notin {0, 120} /\ T!Unescaped(e[2]) = b /\ Len(e) = 2
    <3>1. Len(e) = 2 /\ e[0 + 1] = 92 /\ e[1 + 1] = e[2]
      BY <1>7 DEF Backslashed
    <3>2. T!At(0) = 92 /\ T!At(1) = e[2]
      BY <1>5, <3>1
    <3> QED
      BY <1>7, <3>1, <3>2 DEF Backslashed
  <2>2. T!Take(b, 2)
    BY <2>1 DEF T!InDouble, T!HexAt
  <2> QED
    BY <1>1, <2>1, <2>2 DEF b
<1>8. CASE Hexadecimal(e, b)
  <2>1. /\ Len(e) = 4 /\ T!At(0) = 92 /\ T!At(1) = 120 /\ T!At(2) = e[3] /\ T!At(3) = e[4]
        /\ T!is_hex_digit(e[3]) /\ T!is_hex_digit(e[4])
        /\ T!hex_digit_to_int(e[3]) * 16 + T!hex_digit_to_int(e[4]) = b
    <3>1. Len(e) = 4 /\ e[0 + 1] = 92 /\ e[1 + 1] = 120 /\ e[2 + 1] = e[3] /\ e[3 + 1] = e[4]
      BY <1>8 DEF Hexadecimal
    <3>2. T!At(0) = 92 /\ T!At(1) = 120 /\ T!At(2) = e[3] /\ T!At(3) = e[4]
      BY <1>5, <3>1
    <3> QED
      BY <1>8, <3>1, <3>2 DEF Hexadecimal
  <2>2. T!HexAt
    BY <2>1 DEF T!HexAt
  <2>3. T!Take(T!hex_digit_to_int(T!At(2)) * 16 + T!hex_digit_to_int(T!At(3)), 4)
    BY <2>1, <2>2 DEF T!InDouble
  <2>4. T!Take(b, 4)
    BY <2>1, <2>3
  <2> QED
    BY <1>1, <2>1, <2>4 DEF b
<1> QED
  BY <1>3, <1>6, <1>7, <1>8

\* Behind the last byte are the quote and the end of the line.
LEMMA InTextEnd ==
  ASSUME Parsed, T!InDouble, NEW text \in Line, call.line = T!sdscatrepr(<<>>, text),
         pos = Len(Quoted(text, Len(text)))
  PROVE  T!TokenEnds /\ pos' = Len(call.line)
<1>1. call.line \in Line /\ Len(call.line) = pos + 1 /\ call.line[Len(call.line)] = 34 /\ pos \in Nat
  BY RepresentedBytes DEF Parsed
<1>2. T!At(0) = 34 /\ T!At(1) = 0
  BY <1>1 DEF T!At
<1>3. T!CloseQuote
  BY <1>2 DEF T!InDouble, T!HexAt
<1>4. T!TokenEnds
  BY <1>2, <1>3 DEF T!CloseQuote
<1>5. pos' = pos + 1
  BY <1>2, <1>4 DEF T!TokenEnds
<1> QED
  BY <1>1, <1>4, <1>5

LEMMA StartsReading ==
  ASSUME Parsed, ReadingQuoted(call.text), BeforeText,
         T!SkipBlank \/ T!TokenBegins \/ T!InDouble \/ T!InSingle \/ T!InBare
  PROVE  Onward /\ ReadingQuoted(call.text)'
<1>1. T!At(0) = 34
  BY FirstByte
<1>2. ~T!SkipBlank /\ ~T!InDouble /\ ~T!InSingle
  BY <1>1 DEF T!SkipBlank, T!InDouble, T!InSingle, T!isspace, BeforeText
<1>3. CASE T!TokenBegins
  <2>1. Onward
    BY <1>3, BetweenOutcome
  <2>2. pos' = 0 /\ tokens' = <<>> /\ cur' \in {NULL, <<>>} /\ quote' = "none"
    BY <1>3 DEF T!TokenBegins, T!Goto, BeforeText
  <2>3. call.text \in Line /\ call.line = T!sdscatrepr(<<>>, call.text) /\ call' = call
    BY <2>1 DEF Onward, ReadingQuoted
  <2> QED
    BY <2>1, <2>2, <2>3 DEF ReadingQuoted
<1>4. CASE T!InBare
  <2>1. Onward
    BY <1>4, InBareOutcome
  <2>2. cur = <<>> /\ T!Enter("double")
    BY <1>1, <1>4 DEF T!InBare, BeforeText
  <2>3. call.text \in Line /\ Len(Quoted(call.text, 0)) = 1 /\ 0 \in 0 .. Len(call.text)
    BY RepresentedBytes DEF ReadingQuoted, Line
  <2>4. cur' = <<>> /\ tokens' = <<>> /\ quote' = "double" /\ pos' = 1 /\ call' = call
    BY <2>2 DEF T!Enter, T!Goto, BeforeText
  <2>5. SubSeq(call.text, 1, 0) = <<>>
    BY SubSeqEmpty
  <2>6. InText(call.text)'
    BY <2>3, <2>4, <2>5, NullNotLine DEF InText
  <2> QED
    BY <2>1, <2>4, <2>6 DEF ReadingQuoted, InText
<1> QED
  BY <1>2, <1>3, <1>4

LEMMA GoesOnReading ==
  ASSUME Parsed, ReadingQuoted(call.text), InText(call.text),
         T!SkipBlank \/ T!TokenBegins \/ T!InDouble \/ T!InSingle \/ T!InBare
  PROVE  Onward /\ ReadingQuoted(call.text)'
<1> DEFINE text == call.text
<1>1. T!InDouble /\ tokens = <<>> /\ cur # NULL
  BY DEF InText, T!SkipBlank, T!TokenBegins, T!InSingle, T!InBare
<1>2. text \in Line /\ call.line = T!sdscatrepr(<<>>, text) /\ Len(text) \in Nat
  BY DEF ReadingQuoted, Line
<1>3. PICK k \in 0 .. Len(text) : cur = SubSeq(text, 1, k) /\ pos = Len(Quoted(text, k))
  BY DEF InText
<1> HIDE DEF text
<1>4. CASE k \in 0 .. Len(text) - 1
  <2>1. PICK n \in Nat : T!Take(text[k + 1], n) /\ pos + n = Len(Quoted(text, k + 1))
    BY <1>1, <1>2, <1>3, <1>4, InTextByte
  <2>2. pos + n <= Len(call.line)
    <3>1. /\ pos \in Nat /\ Len(T!Escaped(text[k + 1])) \in Nat /\ Len(call.line) \in Nat
          /\ Len(Quoted(text, k + 1)) = pos + Len(T!Escaped(text[k + 1]))
          /\ pos + Len(T!Escaped(text[k + 1])) < Len(call.line)
      BY <1>2, <1>3, <1>4, RepresentedBytes DEF Line
    <3> QED
      BY <2>1, <3>1
  <2>3. text[k + 1] \in Byte
    BY <1>2, <1>4 DEF Line
  <2>4. Onward
    BY <1>1, <2>1, <2>2, <2>3, TakeOutcome
  <2>5. /\ cur' = Append(cur, text[k + 1]) /\ pos' = pos + n /\ tokens' = <<>> /\ quote' = quote
        /\ call' = call
    BY <1>1, <2>1 DEF T!Take, T!Goto
  <2>6. cur' = SubSeq(text, 1, k + 1) /\ pos' = Len(Quoted(text, k + 1)) /\ k + 1 \in 0 .. Len(text)
    BY <1>2, <1>3, <1>4, <2>1, <2>5, NextOfText
  <2>7. quote' = "double" /\ cur' # NULL
    <3>1. cur' \in Line
      <4>1. cur \in Line
        BY <1>1 DEF Parsed
      <4> QED
        BY <2>3, <2>5, <4>1, AppendProperties DEF Line
    <3> QED
      BY <2>5, <3>1, NullNotLine DEF InText
  <2>8. call'.text = text /\ call'.line = call.line
    BY <2>5 DEF text
  <2>9. tokens' = <<>> /\ quote' = "double" /\ cur' # NULL
        /\ \E i \in 0 .. Len(text) : cur' = SubSeq(text, 1, i) /\ pos' = Len(Quoted(text, i))
    BY <2>5, <2>6, <2>7
  <2> QED
    BY <1>2, <2>4, <2>8, <2>9 DEF ReadingQuoted
<1>5. CASE k = Len(text)
  <2>1. T!TokenEnds /\ pos' = Len(call.line)
    BY <1>1, <1>2, <1>3, <1>5, InTextEnd
  <2>2. Onward
    BY <1>1, <2>1, TokenEndsKeeps DEF Onward, T!TokenEnds
  <2>3. cur = text
    BY <1>2, <1>3, <1>5, SubSeqFull DEF Line
  <2>4. tokens' = <<text>> /\ cur' = NULL /\ quote' = "none" /\ call' = call
    <3>1. Append(<<>>, text) = <<text>>
      OBVIOUS
    <3> QED
      BY <1>1, <2>1, <2>3, <3>1 DEF T!TokenEnds
  <2>5. call'.text = text /\ call'.line = call.line
    BY <2>4 DEF text
  <2> QED
    BY <1>2, <2>1, <2>2, <2>4, <2>5 DEF ReadingQuoted
<1> QED
  BY <1>2, <1>4, <1>5

LEMMA ReadingEnds ==
  ASSUME Parsed, ReadingQuoted(call.text), BehindText(call.text)
  PROVE  T!At(0) = 0 /\ ~(T!SkipBlank \/ T!TokenBegins \/ T!InDouble \/ T!InSingle \/ T!InBare)
<1>1. T!At(0) = 0
  <2>1. pos = Len(call.line) /\ Len(call.line) \in Nat
    BY DEF BehindText, Parsed, Line
  <2> QED
    BY <2>1 DEF T!At
<1> QED
  BY <1>1 DEF BehindText, T!SkipBlank, T!TokenBegins, T!InDouble, T!InSingle, T!InBare, T!isspace

LEMMA ArgsStepKeeps ==
  ASSUME TokensInv, T!SkipBlank \/ T!TokenBegins \/ T!InDouble \/ T!InSingle \/ T!InBare
  PROVE  TokensInv'
<1>1. ArgsRunning /\ phase = "running" /\ call.fn = "args" /\ Parsed
  <2>1. T!Parsing
    BY DEF T!SkipBlank, T!TokenBegins, T!InDouble, T!InSingle, T!InBare
  <2> QED
    BY <2>1, ArgsState DEF ArgsRunning
<1>2. CASE call.text = NULL
  <2>1. CASE Onward
    BY <1>1, <1>2, <2>1 DEF Onward, ArgsRunning, TokensInv
  <2>2. CASE T!InDouble /\ T!ArgsFail
    BY <1>1, <1>2, <2>2, ArgsFailed DEF T!InDouble
  <2>3. CASE T!InSingle /\ T!ArgsFail
    BY <1>1, <1>2, <2>3, ArgsFailed DEF T!InSingle
  <2> QED
    BY <1>1, <2>1, <2>2, <2>3, BetweenOutcome, InDoubleOutcome, InSingleOutcome, InBareOutcome
<1>3. CASE call.text # NULL
  <2>1. ReadingQuoted(call.text)
    BY <1>1, <1>3 DEF ArgsRunning
  <2>2. BeforeText \/ InText(call.text) \/ BehindText(call.text)
    BY <2>1, ReadingPlaces
  <2>3. Onward /\ ReadingQuoted(call.text)'
    BY <1>1, <2>1, <2>2, StartsReading, GoesOnReading, ReadingEnds
  <2> QED
    BY <1>1, <2>3 DEF Onward, ArgsRunning, TokensInv
<1> QED
  BY <1>2, <1>3

LEMMA ArgsEndKeeps ==
  ASSUME TokensInv, T!ArgsEnd
  PROVE  TokensInv'
<1>1. ArgsRunning /\ call.fn = "args" /\ Parsed
  BY ArgsState DEF T!ArgsEnd, ArgsRunning
<1>2. cur = NULL /\ T!At(0) = 0 /\ T!Return(tokens) /\ array' = TRUE /\ UNCHANGED <<call, strings>>
  BY DEF T!ArgsEnd
<1>3. /\ phase' = "done" /\ result' = tokens /\ pos' = 0 /\ cur' = NULL /\ quote' = "none"
  BY <1>2 DEF T!Return
<1>4. tokens \in Seq(Line) /\ strings = Len(tokens) /\ tokens # NULL /\ call.line \in Line
  <2>1. tokens \in Seq(Line) /\ strings = Len(tokens) + 0 /\ call.line \in Line
    BY <1>1, <1>2 DEF Parsed
  <2>2. Len(tokens) \in Nat
    BY <2>1
  <2> QED
    BY <2>1, <2>2, NullNotLine
<1>5. call.text # NULL => tokens = <<call.text>>
  <2>1. ASSUME call.text # NULL PROVE tokens = <<call.text>>
    <3>1. ReadingQuoted(call.text)
      BY <1>1, <2>1 DEF ArgsRunning
    <3>2. ~BeforeText
      BY <1>2, <3>1, FirstByte
    <3>3. ~InText(call.text)
      BY <1>2 DEF InText
    <3> QED
      BY <3>1, <3>2, <3>3, ReadingPlaces DEF BehindText
  <2> QED
    BY <2>1
<1>6. InBounds' /\ QuotedAgain' /\ ResultsRight'
  BY <1>1, <1>2, <1>3, <1>4, <1>5
     DEF InBounds, T!InBounds, QuotedAgain, T!QuotedAgain, ResultsRight, T!SplitRight, T!NumberRight, Line
<1>7. Done'
  BY <1>1, <1>2, <1>3, <1>4, <1>6 DEF Done
<1> QED
  BY <1>3, <1>7 DEF TokensInv

LEMMA ArgsStart ==
  ASSUME TokensInv, NEW line \in Line, NEW text,
         text # NULL => text \in Line /\ line = T!sdscatrepr(<<>>, text),
         T!sdssplitargs(line, text)
  PROVE  TokensInv'
<1>1. Idle
  BY IdleState DEF T!sdssplitargs
<1>2. call' = [fn |-> "args", line |-> line, text |-> text] /\ phase' = "running"
      /\ UNCHANGED <<pos, start, tokens, slots, cur, quote, strings, array, result>>
  BY DEF T!sdssplitargs
<1>3. call'.fn = "args" /\ call'.line = line /\ call'.text = text
  BY <1>2
<1>4. Parsed'
  <2>1. /\ pos' = 0 /\ start' = 0 /\ tokens' = <<>> /\ slots' = 0 /\ cur' = NULL
        /\ quote' = "none" /\ strings' = 0 /\ array' = FALSE /\ result' = NULL
    BY <1>1, <1>2 DEF Idle
  <2>2. <<>> \in Seq(Line) /\ Len(<<>>) = 0
    OBVIOUS
  <2>3. 0 <= Len(line)
    BY DEF Line
  <2>4. strings' = Len(tokens') + (IF cur' = NULL THEN 0 ELSE 1)
    BY <2>1, <2>2
  <2>5. pos' \in Nat /\ pos' <= Len(line)
    BY <2>1, <2>3
  <2>6. tokens' \in Seq(Line)
    BY <2>1, <2>2
  <2> QED
    BY <1>3, <2>1, <2>4, <2>5, <2>6 DEF Parsed
<1>5. text # NULL => ReadingQuoted(call.text)'
  BY <1>1, <1>2, <1>3 DEF ReadingQuoted, Idle
<1> QED
  BY <1>2, <1>3, <1>4, <1>5 DEF TokensInv, ArgsRunning

-----------------------------------------------------------------------------
(* Numbers                                                                 *)

\* What a sequence of digits says.
Read(digits) ==
  LET read[i \in 0 .. Len(digits)] == IF i = 0 THEN 0 ELSE 10 * read[i - 1] + digits[i] - 48
  IN  read[Len(digits)]

Digit == 48 .. 57

LEMMA ReadStepwise ==
  ASSUME NEW s, Len(s) \in Nat
  PROVE  \E f : /\ f[0] = 0
                /\ \A i \in 1 .. Len(s) : f[i] = 10 * f[i - 1] + s[i] - 48
                /\ Read(s) = f[Len(s)]
<1> DEFINE Step(f, i) == IF i = 0 THEN 0 ELSE 10 * f[i - 1] + s[i] - 48
           Reads(f, k) == f = [i \in 0 .. k |-> Step(f, i)]
           S == {k \in 0 .. Len(s) : \E f : Reads(f, k)}
<1>1. 0 \in S
  <2> DEFINE f == [i \in 0 .. 0 |-> 0]
  <2>1. \A i \in 0 .. 0 : f[i] = Step(f, i)
    OBVIOUS
  <2>2. f = [i \in 0 .. 0 |-> f[i]]
    OBVIOUS
  <2>3. Reads(f, 0)
    <3> HIDE DEF f, Step
    <3> QED
      BY <2>1, <2>2
  <2> HIDE DEF f, Reads
  <2> QED
    BY <2>3
<1>2. ASSUME NEW k \in 0 .. Len(s) - 1, k \in S PROVE k + 1 \in S
  <2>1. PICK f : Reads(f, k)
    BY <1>2
  <2> DEFINE g == [i \in 0 .. k + 1 |-> IF i <= k THEN f[i] ELSE 10 * f[k] + s[k + 1] - 48]
  <2>2. \A i \in 0 .. k : f[i] = Step(f, i)
    BY <2>1
  <2>3. \A i \in 0 .. k : g[i] = f[i]
    OBVIOUS
  <2>4. ASSUME NEW i \in 0 .. k + 1 PROVE g[i] = Step(g, i)
    <3>1. CASE i = 0
      BY <2>2, <2>3, <3>1
    <3>2. CASE i \in 1 .. k
      <4>1. i - 1 \in 0 .. k /\ i \in 0 .. k /\ i # 0
        BY <3>2
      <4>2. g[i - 1] = f[i - 1] /\ g[i] = f[i] /\ f[i] = Step(f, i)
        BY <2>2, <2>3, <4>1
      <4> HIDE DEF g
      <4> QED
        BY <4>1, <4>2
    <3>3. CASE i = k + 1
      <4>0. i - 1 = k /\ i # 0 /\ k \in 0 .. k /\ ~(i <= k)
        BY <3>3
      <4>1. g[i] = 10 * f[k] + s[i] - 48
        BY <3>3, <4>0
      <4>2. g[i - 1] = f[k]
        BY <2>3, <4>0
      <4> HIDE DEF g
      <4> QED
        BY <4>0, <4>1, <4>2
    <3> QED
      BY <3>1, <3>2, <3>3
  <2>5. Reads(g, k + 1)
    <3>1. g = [i \in 0 .. k + 1 |-> g[i]]
      OBVIOUS
    <3> HIDE DEF g, Step
    <3> QED
      BY <2>4, <3>1
  <2>6. k + 1 \in 0 .. Len(s)
    OBVIOUS
  <2> HIDE DEF Reads, g
  <2> QED
    BY <2>5, <2>6
<1>3. Len(s) \in S
  <2> HIDE DEF S
  <2>1. \A k \in 0 .. Len(s) : k \in S
    BY <1>1, <1>2, IntervalInduction
  <2> QED
    BY <2>1
<1> DEFINE read == CHOOSE f : Reads(f, Len(s))
<1>4. Reads(read, Len(s))
  <2>1. \E f : Reads(f, Len(s))
    BY <1>3
  <2> HIDE DEF Reads
  <2> QED
    BY <2>1
<1>5. Read(s) = read[Len(s)]
  BY DEF Read
<1> HIDE DEF read
<1>6. \A i \in 0 .. Len(s) : read[i] = Step(read, i)
  BY <1>4
<1>7. read[0] = 0
  BY <1>6
<1>8. ASSUME NEW i \in 1 .. Len(s) PROVE read[i] = 10 * read[i - 1] + s[i] - 48
  <2>1. i \in 0 .. Len(s) /\ i # 0
    OBVIOUS
  <2> QED
    BY <1>6, <2>1
<1> QED
  BY <1>5, <1>7, <1>8

LEMMA ReadEmpty == Read(<<>>) = 0
<1>1. Len(<<>>) \in Nat /\ Len(<<>>) = 0
  OBVIOUS
<1> QED
  BY <1>1, ReadStepwise

\* One digit more.
LEMMA ReadAppend ==
  ASSUME NEW s \in Seq(Digit), NEW c \in Digit
  PROVE  Read(Append(s, c)) = 10 * Read(s) + c - 48
<1> DEFINE t == Append(s, c)
<1>1. /\ Len(s) \in Nat /\ Len(t) = Len(s) + 1 /\ t[Len(s) + 1] = c
      /\ \A i \in 1 .. Len(s) : t[i] = s[i]
  BY AppendProperties
<1> HIDE DEF t
<1>2. PICK g : /\ g[0] = 0 /\ \A i \in 1 .. Len(t) : g[i] = 10 * g[i - 1] + t[i] - 48
               /\ Read(t) = g[Len(t)]
  <2>1. Len(t) \in Nat
    BY <1>1
  <2> QED
    BY <2>1, ReadStepwise
<1>3. PICK f : /\ f[0] = 0 /\ \A i \in 1 .. Len(s) : f[i] = 10 * f[i - 1] + s[i] - 48
               /\ Read(s) = f[Len(s)]
  BY <1>1, ReadStepwise
<1> DEFINE G == {i \in 0 .. Len(s) : f[i] = g[i]}
<1>4. 0 \in G
  BY <1>1, <1>2, <1>3
<1>5. ASSUME NEW k \in 0 .. Len(s) - 1, k \in G PROVE k + 1 \in G
  <2>1. k + 1 \in 1 .. Len(s) /\ k + 1 \in 0 .. Len(s) /\ (k + 1) - 1 = k /\ k + 1 \in 1 .. Len(t)
    BY <1>1
  <2>2. /\ f[k + 1] = 10 * f[k] + s[k + 1] - 48 /\ g[k + 1] = 10 * g[k] + t[k + 1] - 48
        /\ f[k] = g[k]
    BY <1>2, <1>3, <1>5, <2>1
  <2>3. f[k + 1] = g[k + 1]
    BY <1>1, <2>1, <2>2
  <2> QED
    BY <2>1, <2>3
<1>6. \A k \in 0 .. Len(s) : k \in G
  <2> HIDE DEF G
  <2> QED
    BY <1>1, <1>4, <1>5, IntervalInduction
<1>7. f[Len(s)] = g[Len(s)] /\ Len(t) \in 1 .. Len(t) /\ Len(t) - 1 = Len(s)
  BY <1>1, <1>6
<1>8. g[Len(t)] = 10 * g[Len(s)] + c - 48
  BY <1>1, <1>2, <1>7
<1> QED
  BY <1>2, <1>3, <1>7, <1>8 DEF t

\* Each number's digits are those of a tenth of it, and one more.
LEMMA DigitsStepwise ==
  ASSUME NEW v \in Nat
  PROVE  \E d : /\ \A n \in 0 .. v :
                     d[n] = IF n < 10 THEN <<48 + n>> ELSE Append(d[n \div 10], 48 + (n % 10))
                /\ T!Digits(v) = d[v]
<1> DEFINE Step(d, n) == IF n < 10 THEN <<48 + n>> ELSE Append(d[n \div 10], 48 + (n % 10))
           Prints(d, k) == d = [n \in 0 .. k |-> Step(d, n)]
           S == {k \in 0 .. v : \E d : Prints(d, k)}
<1>1. 0 \in S
  <2> DEFINE d == [n \in 0 .. 0 |-> <<48 + n>>]
  <2>1. \A n \in 0 .. 0 : d[n] = Step(d, n)
    OBVIOUS
  <2>2. d = [n \in 0 .. 0 |-> d[n]]
    OBVIOUS
  <2>3. Prints(d, 0)
    <3> HIDE DEF d, Step
    <3> QED
      BY <2>1, <2>2
  <2> HIDE DEF d, Prints
  <2> QED
    BY <2>3
<1>2. ASSUME NEW k \in 0 .. v - 1, k \in S PROVE k + 1 \in S
  <2>1. PICK d : Prints(d, k)
    BY <1>2
  <2> DEFINE g == [n \in 0 .. k + 1 |-> IF n <= k THEN d[n] ELSE Step(d, n)]
  <2>2. \A n \in 0 .. k : d[n] = Step(d, n)
    BY <2>1
  <2>3. \A n \in 0 .. k : g[n] = d[n]
    OBVIOUS
  <2>4. ASSUME NEW n \in 0 .. k + 1 PROVE g[n] = Step(d, n)
    <3>1. CASE n <= k
      <4>1. n \in 0 .. k
        BY <3>1
      <4> HIDE DEF g, Step
      <4> QED
        BY <2>2, <2>3, <4>1
    <3>2. CASE ~(n <= k)
      <4> HIDE DEF Step
      <4> QED
        BY <3>2
    <3> QED
      BY <3>1, <3>2
  <2>5. ASSUME NEW n \in 0 .. k + 1 PROVE Step(g, n) = Step(d, n)
    <3>1. CASE n < 10
      BY <3>1
    <3>2. CASE ~(n < 10)
      <4>1. n \div 10 \in 0 .. k
        BY <3>2
      <4>2. g[n \div 10] = d[n \div 10]
        <5> HIDE DEF g
        <5> QED
          BY <2>3, <4>1
      <4> HIDE DEF g
      <4> QED
        BY <3>2, <4>2
    <3> QED
      BY <3>1, <3>2
  <2>6. Prints(g, k + 1)
    <3>1. g = [n \in 0 .. k + 1 |-> g[n]]
      OBVIOUS
    <3> HIDE DEF g, Step
    <3> QED
      BY <2>4, <2>5, <3>1
  <2>7. k + 1 \in 0 .. v
    OBVIOUS
  <2> HIDE DEF Prints, g
  <2> QED
    BY <2>6, <2>7
<1>3. v \in S
  <2> HIDE DEF S
  <2>1. \A k \in 0 .. v : k \in S
    BY <1>1, <1>2, IntervalInduction
  <2> QED
    BY <2>1
<1> DEFINE dd == CHOOSE d : Prints(d, v)
<1>4. Prints(dd, v)
  <2>1. \E d : Prints(d, v)
    BY <1>3
  <2> HIDE DEF Prints
  <2> QED
    BY <2>1
<1>5. T!Digits(v) = dd[v]
  BY DEF T!Digits
<1> HIDE DEF dd
<1>6. \A n \in 0 .. v : dd[n] = Step(dd, n)
  BY <1>4
<1> QED
  BY <1>5, <1>6

\* The digits of v, without a leading zero.
Prints(s, v) ==
  /\ s \in Seq(Digit) /\ s # <<>> /\ Read(s) = v
  /\ v > 0 => s[1] # 48
  /\ v = 0 => Len(s) = 1

LEMMA DigitsRight ==
  ASSUME NEW v \in Nat
  PROVE  Prints(T!Digits(v), v)
<1>1. PICK d : /\ \A n \in 0 .. v :
                    d[n] = IF n < 10 THEN <<48 + n>> ELSE Append(d[n \div 10], 48 + (n % 10))
               /\ T!Digits(v) = d[v]
  BY DigitsStepwise
<1>2. ASSUME NEW n \in 0 .. v, n < 10 PROVE Prints(d[n], n)
  <2>1. d[n] = <<48 + n>> /\ 48 + n \in Digit
    <3>1. d[n] = <<48 + n>>
      BY <1>1, <1>2
    <3>2. 48 + n \in Digit
      BY <1>2 DEF Digit
    <3> QED
      BY <3>1, <3>2
  <2>2. <<48 + n>> = Append(<<>>, 48 + n) /\ <<>> \in Seq(Digit)
    OBVIOUS
  <2>3. Read(d[n]) = 10 * 0 + (48 + n) - 48
    BY <2>1, <2>2, ReadAppend, ReadEmpty, ZenonT(30)
  <2>4. Read(d[n]) = n
    BY <2>3
  <2>5. d[n] \in Seq(Digit) /\ d[n] # <<>> /\ d[n][1] = 48 + n /\ Len(d[n]) = 1
    BY <2>1
  <2> QED
    BY <2>4, <2>5 DEF Prints
<1>3. ASSUME NEW n \in 0 .. v, ~(n < 10), Prints(d[n \div 10], n \div 10) PROVE Prints(d[n], n)
  <2> DEFINE t == n \div 10
             c == 48 + (n % 10)
  <2>1. t \in Nat /\ t > 0 /\ c \in Digit /\ 10 * t + c - 48 = n
    BY <1>3 DEF Digit
  <2>2. d[n] = Append(d[t], c)
    BY <1>1, <1>3
  <2>3. d[t] \in Seq(Digit) /\ d[t] # <<>> /\ Read(d[t]) = t /\ d[t][1] # 48
    BY <1>3, <2>1 DEF Prints
  <2> HIDE DEF t, c
  <2>4. Read(d[n]) = n
    <3>1. Read(Append(d[t], c)) = 10 * Read(d[t]) + c - 48
      BY <2>1, <2>3, ReadAppend
    <3> QED
      BY <2>1, <2>2, <2>3, <3>1
  <2>5. d[n] \in Seq(Digit) /\ d[n] # <<>> /\ d[n][1] = d[t][1]
    <3>1. Len(d[t]) \in Nat /\ Len(d[t]) # 0
      BY <2>3, EmptySeq
    <3>2. 1 \in 1 .. Len(d[t])
      BY <3>1
    <3> QED
      BY <2>1, <2>2, <2>3, <3>2, AppendProperties
  <2> QED
    BY <1>3, <2>3, <2>4, <2>5 DEF Prints
<1> DEFINE S == {k \in 0 .. v : \A n \in 0 .. k : Prints(d[n], n)}
<1>4. 0 \in S
  BY <1>2
<1>5. ASSUME NEW k \in 0 .. v - 1, k \in S PROVE k + 1 \in S
  <2>1. k + 1 \in 0 .. v /\ \A n \in 0 .. k + 1 : n \in 0 .. k \/ n = k + 1
    OBVIOUS
  <2>2. \A n \in 0 .. k : Prints(d[n], n)
    BY <1>5
  <2>3. Prints(d[k + 1], k + 1)
    <3>1. CASE k + 1 < 10
      BY <1>2, <2>1, <3>1
    <3>2. CASE ~(k + 1 < 10)
      <4>1. (k + 1) \div 10 \in 0 .. k
        BY <3>2
      <4> QED
        BY <1>3, <2>1, <2>2, <3>2, <4>1
    <3> QED
      BY <3>1, <3>2
  <2> QED
    BY <2>1, <2>2, <2>3
<1>6. \A k \in 0 .. v : k \in S
  <2> HIDE DEF S
  <2> QED
    BY <1>4, <1>5, IntervalInduction
<1>7. v \in 0 .. v
  OBVIOUS
<1> QED
  BY <1>1, <1>6, <1>7

\* The least number is its own negative, and its magnitude still the right one.
LEMMA MagnitudeRight ==
  ASSUME NEW v \in -MaxLong - 1 .. MaxLong
  PROVE  T!Magnitude(v) = (IF v < 0 THEN -v ELSE v) /\ T!Magnitude(v) \in Nat
<1> DEFINE m == IF v < 0 THEN -v ELSE v
           k == 2 * (MaxLong + 1)
<1>1. MaxLong \in Nat
  BY NullNotLine
<1>2. m \in Nat /\ k \in Nat /\ 0 <= m /\ m < k
  BY <1>1
<1>3. T!Magnitude(v) = m % k
  BY DEF T!Magnitude
<1> HIDE DEF m, k
<1>4. m % k = m
  BY <1>2
<1> QED
  BY <1>2, <1>3, <1>4 DEF m

\* A sign before the digits.
LEMMA SignedDigits ==
  ASSUME NEW d \in Seq(Digit)
  PROVE  /\ <<45>> \o d \in Line /\ (<<45>> \o d)[1] = 45 /\ Tail(<<45>> \o d) = d
         /\ <<>> \o d = d /\ d \in Line
<1>1. Len(d) \in Nat /\ \A i \in 1 .. Len(d) : d[i] \in Byte
  <2>1. Len(d) \in Nat /\ \A i \in 1 .. Len(d) : d[i] \in Digit
    OBVIOUS
  <2>2. \A x \in Digit : x \in Byte
    BY DEF Digit, Byte
  <2> QED
    BY <2>1, <2>2
<1>2. d \in Line
  <2>1. d = [i \in 1 .. Len(d) |-> d[i]]
    OBVIOUS
  <2>2. d \in [1 .. Len(d) -> Byte]
    BY <1>1, <2>1
  <2> QED
    BY <1>1, <2>2 DEF Line
<1>3. <<45>> \in Line /\ Len(<<45>>) = 1 /\ <<45>>[1] = 45
  BY DEF Line, Byte
<1> DEFINE c == <<45>> \o d
<1>4. /\ c \in Line /\ Len(c) = 1 + Len(d)
      /\ \A i \in 1 .. 1 + Len(d) : c[i] = IF i <= 1 THEN <<45>>[i] ELSE d[i - 1]
  BY <1>2, <1>3, ConcatProperties DEF Line
<1> HIDE DEF c
<1>5. c[1] = 45 /\ c # <<>>
  BY <1>1, <1>3, <1>4, EmptySeq DEF Line
<1>6. Tail(c) = d
  <2>1. /\ Tail(c) \in Line /\ Len(Tail(c)) = Len(c) - 1
        /\ \A i \in 1 .. Len(Tail(c)) : Tail(c)[i] = c[i + 1]
    BY <1>4, <1>5, HeadTailProperties DEF Line
  <2>2. Len(Tail(c)) = Len(d)
    BY <1>1, <1>4, <2>1
  <2>3. \A i \in 1 .. Len(d) : Tail(c)[i] = d[i]
    <3> TAKE i \in 1 .. Len(d)
    <3>1. i + 1 \in 1 .. 1 + Len(d) /\ ~(i + 1 <= 1) /\ (i + 1) - 1 = i
      BY <1>1
    <3> QED
      BY <1>4, <2>1, <2>2, <3>1
  <2> QED
    BY <1>2, <2>1, <2>2, <2>3, SeqEqual DEF Line
<1>7. <<>> \o d = d
  BY ConcatEmptySeq
<1> QED
  BY <1>2, <1>4, <1>5, <1>6, <1>7 DEF c

LEMMA NumberKeeps ==
  ASSUME TokensInv, NEW v \in -MaxLong - 1 .. MaxLong, T!sdsfromlonglong(v)
  PROVE  TokensInv'
<1>1. Idle
  BY IdleState DEF T!sdsfromlonglong
<1>2. call' = [fn |-> "number", value |-> v]
  BY DEF T!sdsfromlonglong
<1>3. call'.fn = "number" /\ call'.value = v
  BY <1>2
<1>4. CASE T!Return(NULL) /\ UNCHANGED <<strings, array>>
  BY <1>1, <1>3, <1>4, ReturnedNull DEF Idle
<1>5. CASE /\ T!Return((IF v < 0 THEN <<45>> ELSE <<>>) \o T!Digits(T!Magnitude(v)))
           /\ strings' = 1 /\ UNCHANGED array
  <2> DEFINE m == IF v < 0 THEN -v ELSE v
             d == T!Digits(T!Magnitude(v))
  <2>1. T!Magnitude(v) = m /\ m \in Nat
    BY MagnitudeRight
  <2>2. Prints(d, m)
    <3> HIDE DEF m
    <3> QED
      BY <2>1, DigitsRight
  <2>3. d \in Seq(Digit) /\ d # <<>> /\ Read(d) = m /\ (m > 0 => d[1] # 48) /\ (m = 0 => Len(d) = 1)
    BY <2>2 DEF Prints
  <2>4. /\ phase' = "done" /\ cur' = NULL /\ quote' = "none"
        /\ result' = (IF v < 0 THEN <<45>> ELSE <<>>) \o d
    BY <1>5 DEF T!Return
  <2> HIDE DEF d
  <2>5. /\ <<45>> \o d \in Line /\ (<<45>> \o d)[1] = 45 /\ Tail(<<45>> \o d) = d
        /\ <<>> \o d = d /\ d \in Line
    BY <2>3, SignedDigits
  <2>6. /\ result' \in Line
        /\ v < 0 => result'[1] = 45
        /\ d = IF v < 0 THEN Tail(result') ELSE result'
    <3>1. CASE v < 0
      <4>1. result' = <<45>> \o d
        BY <2>4, <3>1
      <4> QED
        BY <2>5, <3>1, <4>1
    <3>2. CASE ~(v < 0)
      <4>1. result' = <<>> \o d
        BY <2>4, <3>2
      <4> QED
        BY <2>5, <3>2, <4>1
    <3> QED
      BY <3>1, <3>2
  <2>7. d # <<>> /\ (Len(d) > 1 => d[1] # 48)
    <3> HIDE DEF m
    <3>1. CASE m = 0
      <4>1. Len(d) = 1 /\ d # <<>>
        BY <2>3, <3>1
      <4>2. ~(Len(d) > 1)
        BY <4>1
      <4> QED
        BY <4>1, <4>2
    <3>2. CASE m > 0
      BY <2>3, <3>2
    <3>3. m = 0 \/ m > 0
      BY <2>1
    <3> QED
      BY <3>1, <3>2, <3>3
  <2>8. T!NumberRight'
    <3>1. Read(d) = m
      BY <2>3
    <3> HIDE DEF m
    <3>2. Read(d) = IF call'.value < 0 THEN -call'.value ELSE call'.value
      BY <1>3, <3>1 DEF m
    <3>3. call'.value < 0 => result'[1] = 45
      BY <1>3, <2>6
    <3>4. d = IF call'.value < 0 THEN Tail(result') ELSE result'
      BY <1>3, <2>6
    <3>5. Read(IF call'.value < 0 THEN Tail(result') ELSE result')
            = IF call'.value < 0 THEN -call'.value ELSE call'.value
      BY <3>2, <3>4
    <3>6. LET digits == IF call'.value < 0 THEN Tail(result') ELSE result'
          IN  digits # <<>> /\ (Len(digits) > 1 => digits[1] # 48)
      BY <2>7, <3>4
    <3> QED
      BY <3>3, <3>5, <3>6 DEF T!NumberRight, Read
  <2>9. ResultsRight'
    BY <1>3, <2>8 DEF ResultsRight, T!SplitRight
  <2>10. InBounds' /\ QuotedAgain'
    BY <1>3 DEF InBounds, T!InBounds, QuotedAgain, T!QuotedAgain
  <2>11. array' = FALSE /\ strings' = 1 /\ result' # NULL
    BY <1>1, <1>5, <2>6, NullNotLine DEF Idle
  <2>12. Done'
    BY <1>3, <2>4, <2>9, <2>10, <2>11 DEF Done
  <2> QED
    BY <2>4, <2>12 DEF TokensInv
<1> QED
  BY <1>4, <1>5 DEF T!sdsfromlonglong

-----------------------------------------------------------------------------
(* The calls together                                                      *)

LEMMA ConstantLines ==
  SplitLines \subseteq Line /\ Seps \subseteq Line /\ ArgLines \subseteq Line /\ Quotables \subseteq Line
BY StringsAssumption DEF T!TokensAssumption, Line, Byte

LEMMA RepresentedIsLine ==
  ASSUME NEW text \in Line
  PROVE  T!sdscatrepr(<<>>, text) \in Line
BY RepresentedBytes

LEMMA ReleaseKeeps ==
  ASSUME TokensInv, T!Release
  PROVE  TokensInv' /\ phase' = "idle"
<1>1. phase = "done" /\ Done
  BY DEF T!Release, TokensInv
<1>2. strings' = 0 /\ array' = FALSE
  <2>1. CASE result = NULL
    <3>1. strings = 0 /\ strings' = strings - 0
      BY <1>1, <2>1 DEF Done, T!Release
    <3>2. array' = FALSE
      BY <1>1, <2>1, Zenon DEF Done, T!Release
    <3> QED
      BY <3>1, <3>2
  <2>2. CASE result # NULL /\ call.fn = "number"
    <3>1. strings = 1 /\ strings' = strings - 1
      BY <1>1, <2>2 DEF Done, T!Release
    <3>2. array' = FALSE
      BY <1>1, <2>2, Zenon DEF Done, T!Release
    <3> QED
      BY <3>1, <3>2
  <2>3. CASE result # NULL /\ call.fn # "number"
    <3>1. strings = Len(result) /\ strings' = strings - Len(result) /\ Len(result) \in Nat
      BY <1>1, <2>3 DEF Done, T!Release
    <3>2. array' = FALSE
      BY <2>3, Zenon DEF T!Release
    <3> QED
      BY <3>1, <3>2
  <2> QED
    BY <2>1, <2>2, <2>3
<1>3. /\ phase' = "idle" /\ call' = T!NoCall /\ result' = NULL
      /\ pos' = 0 /\ start' = 0 /\ tokens' = <<>> /\ slots' = 0 /\ cur' = NULL /\ quote' = "none"
  BY <1>1 DEF T!Release, Done
<1> QED
  BY <1>2, <1>3 DEF TokensInv, Idle

LEMMA CallsKeep ==
  ASSUME TokensInv, T!Next
  PROVE  TokensInv'
<1>1. ASSUME NEW line \in SplitLines, NEW sep \in Seps, T!sdssplitlen(line, sep) PROVE TokensInv'
  <2>1. line \in Line /\ sep \in Line
    BY ConstantLines
  <2> QED
    BY <1>1, <2>1, SplitStart
<1>2. ASSUME NEW line \in ArgLines, T!sdssplitargs(line, NULL) PROVE TokensInv'
  <2>1. line \in Line
    BY ConstantLines
  <2> QED
    BY <1>2, <2>1, ArgsStart
<1>3. ASSUME NEW text \in Quotables, T!sdssplitargs(T!sdscatrepr(<<>>, text), text)
      PROVE  TokensInv'
  <2> DEFINE line == T!sdscatrepr(<<>>, text)
  <2>1. text \in Line /\ line \in Line
    BY ConstantLines, RepresentedIsLine
  <2>2. text # NULL => text \in Line /\ line = T!sdscatrepr(<<>>, text)
    BY <2>1
  <2>3. T!sdssplitargs(line, text)
    BY <1>3
  <2> HIDE DEF line
  <2> QED
    BY <2>1, <2>2, <2>3, ArgsStart
<1>4. ASSUME NEW v \in -MaxLong - 1 .. MaxLong, T!sdsfromlonglong(v) PROVE TokensInv'
  BY <1>4, NumberKeeps
<1>5. ASSUME T!Start PROVE TokensInv'
  BY <1>1, <1>2, <1>3, <1>4, <1>5 DEF T!Start
<1>6. ASSUME T!Scan PROVE TokensInv'
  BY <1>6, SplitStepKeeps, SplitEndKeeps, ArgsStepKeeps, ArgsEndKeeps DEF T!Scan
<1> QED
  BY <1>5, <1>6, ReleaseKeeps DEF T!Next

LEMMA CallsStutter ==
  ASSUME TokensInv, UNCHANGED calls
  PROVE  TokensInv'
<1>1. /\ phase' = phase /\ call' = call /\ pos' = pos /\ start' = start /\ tokens' = tokens
      /\ slots' = slots /\ cur' = cur /\ quote' = quote /\ strings' = strings
      /\ array' = array /\ result' = result
  BY DEF calls
<1>2. CASE phase = "idle" /\ Idle
  BY <1>1, <1>2 DEF TokensInv, Idle
<1>3. CASE phase = "running" /\ call.fn = "split" /\ SplitRunning
  BY <1>1, <1>3 DEF TokensInv, SplitRunning
<1>4. CASE phase = "running" /\ call.fn = "args" /\ ArgsRunning
  BY <1>1, <1>4 DEF TokensInv, ArgsRunning, Parsed, ReadingQuoted
<1>5. CASE phase = "done" /\ Done
  <2>1. InBounds' /\ QuotedAgain'
    BY <1>1, <1>5 DEF Done, InBounds, T!InBounds, QuotedAgain, T!QuotedAgain
  <2>2. ResultsRight'
    <3>1. T!SplitRight' /\ T!NumberRight
      BY <1>1, <1>5 DEF Done, ResultsRight, T!SplitRight
    <3> DEFINE N(p, c, r) ==
                 p = "done" /\ c.fn = "number" /\ r # NULL =>
                   LET digits == IF c.value < 0 THEN Tail(r) ELSE r
                       read[i \in 0 .. Len(digits)] ==
                         IF i = 0 THEN 0 ELSE 10 * read[i - 1] + digits[i] - 48
                   IN  /\ c.value < 0 => r[1] = 45
                       /\ read[Len(digits)] = (IF c.value < 0 THEN -c.value ELSE c.value)
                       /\ digits # <<>> /\ (Len(digits) > 1 => digits[1] # 48)
    <3>2. T!NumberRight <=> N(phase, call, result)
      BY DEF T!NumberRight
    <3>3. T!NumberRight' <=> N(phase', call', result')
      BY DEF T!NumberRight
    <3> HIDE DEF N
    <3>4. T!NumberRight'
      BY <1>1, <3>1, <3>2, <3>3, Zenon
    <3> QED
      BY <3>1, <3>4 DEF ResultsRight
  <2>3. Done'
    BY <1>1, <1>5, <2>1, <2>2 DEF Done
  <2> QED
    BY <1>1, <1>5, <2>3 DEF TokensInv
<1> QED
  BY <1>2, <1>3, <1>4, <1>5 DEF TokensInv

-----------------------------------------------------------------------------
(* The client's own string                                                 *)

LEMMA ContentBytes ==
  ASSUME NEW s, Good(s)
  PROVE  Content(s) \in Seq(Bytes) /\ Content(s) \in Line /\ Len(Content(s)) = s.len
<1> DEFINE c == Content(s)
<1>3. c \in Seq(Bytes) /\ Len(c) = s.len
  BY ContentProperties
<1> HIDE DEF c
<1>4. c \in Line
  <2>1. Len(c) \in Nat /\ c \in [1 .. Len(c) -> Bytes]
    BY <1>3
  <2>2. c \in [1 .. Len(c) -> Byte]
    BY <2>1, SdsAssumption DEF Byte
  <2> QED
    BY <2>1, <2>2 DEF Line
<1> QED
  BY <1>3, <1>4 DEF c

OwnPiece(t) == IsPiece(t, Content(str))

\* A piece of the string is made of its bytes and no longer.
LEMMA PieceBytes ==
  ASSUME NEW s, Good(s), NEW t, IsPiece(t, Content(s))
  PROVE  t \in Seq(Bytes) /\ Len(t) <= s.len
<1>1. Content(s) \in Seq(Bytes) /\ Len(Content(s)) = s.len /\ s.len \in Nat
  BY ContentProperties
<1>2. PICK l \in 1 .. s.len + 1, n \in 0 .. s.len : t = SubSeq(Content(s), l, n)
  BY <1>1 DEF IsPiece
<1> DEFINE c == Content(s)
<1> HIDE DEF c
<1>3. l \in Int /\ n \in Int /\ \A i \in l .. n : c[i] \in Bytes
  <2>1. \A i \in l .. n : i \in 1 .. s.len
    BY <1>1
  <2> QED
    BY <1>1, <2>1 DEF c
<1>4. SubSeq(c, l, n) \in Seq(Bytes) /\ Len(SubSeq(c, l, n)) = IF l <= n THEN n - l + 1 ELSE 0
  BY <1>3, SubSeqProperties
<1>5. Len(SubSeq(c, l, n)) <= s.len
  BY <1>1, <1>4
<1> QED
  BY <1>2, <1>4, <1>5 DEF c

LEMMA OwnPieces ==
  ASSUME Inv, str # NULL, NEW m \in Nat, NEW n \in Nat, m <= n, n <= Len(Content(str))
  PROVE  OwnPiece(SubSeq(Content(str), m + 1, n))
<1> DEFINE c == Content(str)
<1>1. c \in Seq(Bytes) /\ Len(c) = str.len /\ str.len \in Nat
  BY ContentBytes DEF Inv, Good
<1>2. n <= Len(c)
  OBVIOUS
<1> HIDE DEF c
<1>3. m + 1 \in 1 .. Len(c) + 1 /\ n \in 0 .. Len(c)
  BY <1>1, <1>2
<1> QED
  BY <1>3 DEF OwnPiece, IsPiece, c

LEMMA OwnLineParts ==
  OwnLine <=> (str # NULL /\ phase # "idle" =>
                 /\ call.fn = "split" /\ call.line = Content(str)
                 /\ phase = "done" /\ result # NULL => \A i \in 1 .. Len(result) : OwnPiece(result[i])
                 /\ phase = "running" => \A i \in 1 .. Len(tokens) : OwnPiece(tokens[i]))
BY DEF OwnLine, OwnPiece

\* One piece more.
LEMMA OwnAppend ==
  ASSUME NEW toks \in Seq(Line), NEW t \in Line, OwnPiece(t),
         \A i \in 1 .. Len(toks) : OwnPiece(toks[i])
  PROVE  \A i \in 1 .. Len(Append(toks, t)) : OwnPiece(Append(toks, t)[i])
<1> DEFINE a == Append(toks, t)
<1>1. /\ Len(toks) \in Nat /\ Len(a) = Len(toks) + 1 /\ a[Len(toks) + 1] = t
      /\ \A i \in 1 .. Len(toks) : a[i] = toks[i]
  BY AppendProperties
<1> HIDE DEF a
<1>2. ASSUME NEW i \in 1 .. Len(a) PROVE OwnPiece(a[i])
  <2>1. CASE i \in 1 .. Len(toks)
    BY <1>1, <2>1
  <2>2. CASE i = Len(toks) + 1
    BY <1>1, <2>2
  <2> QED
    BY <1>1, <2>1, <2>2
<1> QED
  BY <1>2 DEF a

\* A call under way on the client's string goes on with pieces of it.
LEMMA OwnScan ==
  ASSUME SInv, str # NULL, phase # "idle", T!Next, UNCHANGED str
  PROVE  OwnLine'
<1>1. call.fn = "split" /\ call.line = Content(str) /\ Good(str)
  BY DEF SInv, Inv, OwnLine
<1>2. CASE T!Release
  BY <1>2 DEF T!Release, OwnLine
<1>3. CASE T!SplitFails
  BY <1>1, <1>3 DEF T!SplitFails, T!Return, OwnLine, Content
<1>4. CASE T!Scan /\ ~T!SplitFails
  <2>1. T!SplitStep \/ T!SplitEnd
    BY <1>1, <1>4 DEF T!Scan, T!SkipBlank, T!ArgsEnd, T!TokenBegins, T!InDouble, T!InSingle,
                      T!InBare, T!Parsing
  <2>2. SplitRunning /\ phase = "running"
    BY <2>1, SplitState DEF SInv, T!SplitStep, T!SplitEnd, T!Splitting
  <2>3. \A i \in 1 .. Len(tokens) : OwnPiece(tokens[i])
    BY <2>2, OwnLineParts DEF SInv
  <2>4. /\ start \in Nat /\ pos \in Nat /\ start <= pos /\ pos <= Len(call.line)
        /\ tokens \in Seq(Line) /\ call.line \in Line /\ Len(call.line) \in Nat
    BY <2>2 DEF SplitRunning, Line
  <2>5. OwnPiece(SubSeq(call.line, start + 1, pos)) /\ SubSeq(call.line, start + 1, pos) \in Line
    BY <1>1, <2>4, OwnPieces, PieceType DEF SInv
  <2>6. OwnPiece(SubSeq(call.line, start + 1, Len(call.line)))
        /\ SubSeq(call.line, start + 1, Len(call.line)) \in Line
    <3>1. start <= Len(call.line) /\ Len(call.line) <= Len(call.line)
      BY <2>4
    <3> QED
      BY <1>1, <2>4, <3>1, OwnPieces, PieceType DEF SInv
  <2>7. call' = call /\ \A t : OwnPiece(t)' <=> OwnPiece(t)
    BY <1>4, <2>1 DEF T!SplitStep, T!SplitEnd, OwnPiece
  <2>8. CASE T!SplitStep
    <3>1. phase' = "running" /\ \A i \in 1 .. Len(tokens') : OwnPiece(tokens'[i])
      <4>1. CASE T!AtSeparator
        <5>1. tokens' = Append(tokens, SubSeq(call.line, start + 1, pos)) /\ phase' = "running"
          BY <1>4, <2>2, <2>8, <4>1 DEF T!SplitStep
        <5> QED
          BY <2>3, <2>4, <2>5, <5>1, OwnAppend
      <4>2. CASE ~T!AtSeparator
        <5>1. tokens' = tokens /\ phase' = "running"
          BY <1>4, <2>2, <2>8, <4>2 DEF T!SplitStep
        <5> QED
          BY <2>3, <5>1
      <4> QED
        BY <4>1, <4>2
    <3> QED
      BY <1>1, <2>7, <3>1 DEF OwnLine, OwnPiece, Content
  <2>9. CASE T!SplitEnd
    <3>1. phase' = "done" /\ \A i \in 1 .. Len(result') : OwnPiece(result'[i])
      <4>1. /\ tokens' = Append(tokens, SubSeq(call.line, start + 1, Len(call.line)))
            /\ phase' = "done" /\ result' = tokens'
        BY <1>4, <2>9 DEF T!SplitEnd
      <4> QED
        BY <2>3, <2>4, <2>6, <4>1, OwnAppend
    <3> QED
      BY <1>1, <2>7, <3>1 DEF OwnLine, OwnPiece, Content
  <2> QED
    BY <2>1, <2>8, <2>9
<1>5. ~T!Start
  BY DEF T!Start
<1> QED
  BY <1>2, <1>3, <1>4, <1>5 DEF T!Next

LEMMA SplitStringKeeps ==
  ASSUME SInv, NEW sep \in Seps, SplitString(sep)
  PROVE  SInv'
<1>1. str # NULL /\ str' = str /\ T!sdssplitlen(Content(str), sep) /\ Good(str)
  BY DEF SplitString, SInv, Inv
<1>2. Inv'
  BY <1>1 DEF Inv
<1>3. TokensInv'
  <2>1. Content(str) \in Line /\ sep \in Line
    BY <1>1, ContentBytes, ConstantLines
  <2> QED
    BY <1>1, <2>1, SplitStart DEF SInv
<1>4. OwnLine'
  <2>1. Idle
    BY <1>1, IdleState DEF T!sdssplitlen, SInv
  <2>2. call' = [fn |-> "split", line |-> Content(str), sep |-> sep]
    BY <1>1 DEF T!sdssplitlen
  <2>3. call'.fn = "split" /\ call'.line = Content(str')
    BY <1>1, <2>2
  <2>4. \/ phase' = "done" /\ result' \in {NULL, <<>>}
        \/ phase' = "running" /\ tokens' = <<>>
    BY <1>1, <2>1 DEF T!sdssplitlen, T!Return, Idle
  <2>5. /\ phase' = "done" /\ result' # NULL => result' = <<>>
        /\ phase' = "running" => tokens' = <<>>
    BY <2>4
  <2>6. \A i \in 1 .. Len(<<>>) : FALSE
    OBVIOUS
  <2> QED
    BY <2>3, <2>5, <2>6 DEF OwnLine
<1> QED
  BY <1>2, <1>3, <1>4 DEF SInv

\* The token is a string whose buffer the heap has given.
LEMMA KeepTokenKeeps ==
  ASSUME NoWrap, SInv, NEW i \in 1 .. MaxBytes, KeepToken(i)
  PROVE  SInv'
<1>1. /\ str # NULL /\ phase = "done" /\ result # NULL /\ i \in DOMAIN result /\ T!Release
      /\ str' = String(Len(result[i]), 0, result[i] \o <<0>>)
  BY DEF KeepToken
<1>2. TokensInv' /\ phase' = "idle"
  BY <1>1, ReleaseKeeps DEF SInv
<1>3. OwnLine'
  BY <1>2 DEF OwnLine
<1>4. Good(str) /\ call.fn = "split" /\ \A j \in 1 .. Len(result) : OwnPiece(result[j])
  BY <1>1, OwnLineParts DEF SInv, Inv, OwnLine
<1>5. i \in 1 .. Len(result)
  <2>1. result \in Seq(Line)
    BY <1>1, <1>4 DEF SInv, TokensInv, Done
  <2> QED
    BY <1>1, <2>1
<1> DEFINE t == result[i]
<1>6. t \in Seq(Bytes) /\ Len(t) <= str.len
  BY <1>4, <1>5, PieceBytes DEF OwnPiece
<1> HIDE DEF t
<1>7. t \in Seq(Cell) /\ Len(t) \in Nat
  BY <1>6, CellTexts
<1>8. /\ t \o <<0>> \in Seq(Cell) /\ Len(t \o <<0>>) = Len(t) + 1
      /\ \A j \in 1 .. Len(t) : (t \o <<0>>)[j] = t[j]
      /\ (t \o <<0>>)[Len(t) + 1] = 0
  BY <1>7, ConstantTypes, Terminated
<1> DEFINE b == t \o <<0>>
           n == Len(t)
<1>9. /\ b \in Seq(Cell) /\ n \in Nat /\ Len(b) = n + 0 + 1 /\ b[n + 1] = 0
      /\ \A j \in 1 .. n : b[j] \in Bytes
  BY <1>6, <1>7, <1>8
<1>10. Len(b) <= MaxBytes
  BY <1>4, <1>6, <1>7, <1>8, ConstantTypes DEF Good
<1> HIDE DEF b, n
<1>11. Good(String(n, 0, b))
  <2>1. 0 \in Nat
    OBVIOUS
  <2> QED
    BY <1>9, <1>10, <2>1, StringGood
<1>12. Inv'
  BY <1>1, <1>11 DEF Inv, b, n, t
<1> QED
  BY <1>2, <1>3, <1>12 DEF SInv

LEMMA SystemStep ==
  ASSUME NoWrap, SInv, [SystemNext]_all
  PROVE  SInv'
<1>1. CASE UNCHANGED all
  <2>1. str' = str /\ UNCHANGED calls
    BY <1>1 DEF all
  <2>2. TokensInv'
    BY <2>1, CallsStutter DEF SInv
  <2>3. OwnLine'
    BY <2>1 DEF calls, OwnLine, SInv, Content
  <2> QED
    BY <2>1, <2>2, <2>3 DEF SInv, Inv
<1>2. CASE OnString
  <2>1. phase = "idle" /\ Next /\ UNCHANGED calls
    BY <1>2 DEF OnString
  <2>2. Inv'
    BY <2>1, InvStep DEF SInv
  <2>3. TokensInv'
    BY <2>1, CallsStutter DEF SInv
  <2>4. OwnLine'
    BY <2>1 DEF calls, OwnLine
  <2> QED
    BY <2>2, <2>3, <2>4 DEF SInv
<1>3. CASE OnBytes
  <2>1. (str = NULL \/ phase # "idle") /\ T!Next /\ str' = str
    BY <1>3 DEF OnBytes
  <2>2. TokensInv'
    BY <2>1, CallsKeep DEF SInv
  <2>3. OwnLine'
    BY <2>1, OwnScan DEF OwnLine
  <2> QED
    BY <2>1, <2>2, <2>3 DEF SInv, Inv
<1> QED
  BY <1>1, <1>2, <1>3, SplitStringKeeps, KeepTokenKeeps DEF SystemNext

-----------------------------------------------------------------------------
(* Results                                                                 *)

LEMMA SystemInvariant == NoWrap => (System => []SInv)
<1>1. SystemInit => SInv
  <2>1. SystemInit => str = NULL /\ phase = "idle" /\ Idle
    BY DEF SystemInit, Init, T!Init, Idle
  <2> QED
    BY <2>1 DEF SInv, Inv, TokensInv, OwnLine
<1>2. NoWrap /\ SInv /\ [SystemNext]_all => SInv'
  BY SystemStep
<1>3. ASSUME NoWrap PROVE System => []SInv
  <2>1. SInv /\ [SystemNext]_all => SInv'
    BY <1>2, <1>3
  <2> QED
    BY <1>1, <2>1, PTL DEF System
<1> QED
  BY <1>3

\* While it splits, sdssplitlen stores no token beyond its array, the last one
\* included; sdssplitargs never looks behind the NUL that ends its line.
THEOREM StringsInBounds == NoWrap => (System => []InBounds)
<1>1. TokensInv => InBounds
  <2>1. ASSUME phase = "idle", Idle PROVE InBounds
    BY <2>1 DEF Idle, T!NoCall, InBounds, T!InBounds
  <2>2. ASSUME call.fn = "split", SplitRunning PROVE InBounds
    <3>1. Len(tokens) \in Nat
      BY <2>2 DEF SplitRunning
    <3> QED
      BY <2>2, <3>1 DEF SplitRunning, InBounds, T!InBounds
  <2>3. ASSUME call.fn = "args", ArgsRunning PROVE InBounds
    BY <2>3 DEF ArgsRunning, Parsed, InBounds, T!InBounds
  <2> QED
    BY <2>1, <2>2, <2>3 DEF TokensInv, Done
<1>2. ASSUME NoWrap PROVE System => []InBounds
  <2>1. SInv => InBounds
    BY <1>1 DEF SInv
  <2> QED
    BY <1>2, <2>1, SystemInvariant, PTL
<1> QED
  BY <1>2

\* Whichever allocation fails and wherever the quotes are wrong, a call that
\* returns NULL has freed what it made; one that succeeds has what it returns.
THEOREM StringsNoLeak == NoWrap => (System => []NoLeak)
<1>1. TokensInv => NoLeak
  BY DEF TokensInv, Idle, Done, NoLeak, T!NoLeak
<1>2. ASSUME NoWrap PROVE System => []NoLeak
  <2>1. SInv => NoLeak
    BY <1>1 DEF SInv
  <2> QED
    BY <1>2, <2>1, SystemInvariant, PTL
<1> QED
  BY <1>2

\* The tokens of sdssplitlen are the line cut at every separator, and the digits of
\* sdsfromlonglong say its number, the least long long too.
THEOREM StringsResultsRight == NoWrap => (System => []ResultsRight)
<1>1. TokensInv => ResultsRight
  BY DEF TokensInv, Done, ResultsRight, T!SplitRight, T!NumberRight
<1>2. ASSUME NoWrap PROVE System => []ResultsRight
  <2>1. SInv => ResultsRight
    BY <1>1 DEF SInv
  <2> QED
    BY <1>2, <2>1, SystemInvariant, PTL
<1> QED
  BY <1>2

\* sdssplitargs gives back every text that sdscatrepr has quoted, byte for byte.
THEOREM StringsQuotedAgain == NoWrap => (System => []QuotedAgain)
<1>1. TokensInv => QuotedAgain
  BY DEF TokensInv, Done, QuotedAgain, T!QuotedAgain
<1>2. ASSUME NoWrap PROVE System => []QuotedAgain
  <2>1. SInv => QuotedAgain
    BY <1>1 DEF SInv
  <2> QED
    BY <1>2, <2>1, SystemInvariant, PTL
<1> QED
  BY <1>2

\* The header of the client's string is exact in the larger system too: a token it
\* has kept is a string like any other.
THEOREM StringsHeaderExact == NoWrap => (System => []HeaderExact)
<1>1. Inv => HeaderExact
  BY ConstantTypes DEF Inv, Good, HeaderExact, sdsAllocSize
<1>2. ASSUME NoWrap PROVE System => []HeaderExact
  <2>1. SInv => HeaderExact
    BY <1>1 DEF SInv
  <2> QED
    BY <1>2, <2>1, SystemInvariant, PTL
<1> QED
  BY <1>2

\* Every call on the client's string gives the bytes its comment promises, also when
\* the string is a token it has kept.
THEOREM StringsCallsRight == NoWrap => (System => []CallsRight)
<1>1. ASSUME NoWrap PROVE System => []CallsRight
  <2>1. SInv => CallsRight
    BY <1>1, InvCallsRight DEF SInv
  <2> QED
    BY <1>1, <2>1, SystemInvariant, PTL
<1> QED
  BY <1>1

\* The token that is kept is what the abstract string is shortened to.
LEMMA KeepTokenMoves ==
  ASSUME NoWrap, SInv, NEW i \in 1 .. MaxBytes, KeepToken(i)
  PROVE  Moves
<1> DEFINE t == result[i]
           n == Len(t)
           b == t \o <<0>>
<1>1. /\ str # NULL /\ phase = "done" /\ result # NULL /\ i \in DOMAIN result
      /\ str' = String(n, 0, b)
  BY DEF KeepToken
<1>2. Good(str) /\ call.fn = "split" /\ \A j \in 1 .. Len(result) : OwnPiece(result[j])
  BY <1>1, OwnLineParts DEF SInv, Inv, OwnLine
<1>3. i \in 1 .. Len(result)
  <2>1. result \in Seq(Line)
    BY <1>1, <1>2 DEF SInv, TokensInv, Done
  <2> QED
    BY <1>1, <2>1
<1>4. IsPiece(t, Content(str))
  BY <1>2, <1>3 DEF OwnPiece
<1>5. t \in Seq(Bytes) /\ n <= str.len
  BY <1>2, <1>4, PieceBytes
<1> HIDE DEF t
<1>6. t \in Seq(Cell) /\ n \in Nat
  BY <1>5, CellTexts
<1>7. /\ b \in Seq(Cell) /\ Len(b) = n + 1 /\ b[n + 1] = 0
      /\ \A j \in 1 .. n : b[j] = t[j] /\ b[j] \in Bytes
  BY <1>5, <1>6, ConstantTypes, Terminated
<1>8. Len(b) <= MaxBytes
  BY <1>2, <1>5, <1>6, <1>7, ConstantTypes DEF Good
<1> HIDE DEF n, b
<1>9. Good(str') /\ str' = [len |-> n, free |-> 0, buf |-> b]
  <2>1. 0 \in Nat /\ Len(b) = n + 0 + 1 /\ \A j \in 1 .. n : b[j] \in Bytes
    BY <1>6, <1>7
  <2> QED
    BY <1>1, <1>6, <1>7, <1>8, <2>1, StringGood
<1>10. str'.len = n /\ \A j \in 1 .. n : str'.buf[j] = t[j]
  BY <1>7, <1>9
<1>11. Content(str') = t
  BY <1>5, <1>9, <1>10, SameContent DEF n
<1> QED
  BY <1>1, <1>4, <1>11, PieceMoves DEF SInv

\* Splitting does nothing to the client's string, and a kept token is a part of it: the
\* larger system implements the same abstract string.
THEOREM StringsRefinesBytes == NoWrap => (System => RefinesBytes)
<1>1. SystemInit => Abstract!Init
  BY DEF SystemInit, Init, Abstract!Init
<1>2. ASSUME NoWrap, SInv, [SystemNext]_all PROVE Moves
  <2>1. CASE str' = str
    BY <2>1 DEF Moves, AbstractText, Content
  <2>2. CASE OnString
    BY <1>2, <2>2, StringMoves DEF OnString, SInv
  <2>3. CASE \E i \in 1 .. MaxBytes : KeepToken(i)
    BY <1>2, <2>3, KeepTokenMoves
  <2> QED
    BY <1>2, <2>1, <2>2, <2>3 DEF SystemNext, OnBytes, SplitString, all
<1>3. ASSUME NoWrap PROVE System => RefinesBytes
  <2>1. SInv /\ [SystemNext]_all => [Abstract!Next]_(IF str = NULL THEN NULL ELSE Content(str))
    BY <1>2, <1>3 DEF Moves, AbstractText
  <2> QED
    BY <1>1, <1>3, <2>1, SystemInvariant, PTL DEF System, RefinesBytes, Abstract!Spec
<1> QED
  BY <1>3
=============================================================================
