------------------------------- MODULE NcSds -------------------------------
(***************************************************************************)
(* One dynamic string of nc_sds.c: the header before its bytes and the     *)
(* bytes themselves, as the client sees it through a long series of calls. *)
(* A function is an operator that yields the set of its outcomes, NULL     *)
(* being the one for want of memory: the old string is then still there.   *)
(*                                                                         *)
(* Bytes are numbers.  A header field is an int: what is stored in it      *)
(* wraps, and a negative free read back as a size_t is more than any size. *)
(***************************************************************************)
EXTENDS Integers, Sequences

CONSTANTS
  Bytes,       \* the bytes of the client's strings
  Junk,        \* what memory that nobody has written holds
  Texts,       \* the byte strings the client passes
  Sizes,       \* the lengths it asks for
  Indexes,     \* the positions it asks for, negative ones counting from the end
  CharSets,    \* sets of bytes to trim
  CharMaps,    \* tables for sdsmapchars: a pair of sequences, from and to
  MaxPrealloc, \* SDS_MAX_PREALLOC
  FirstBuffer, \* the first size of sdscatvprintf's buffer, 16 in the code
  IntMax,      \* the largest int
  MaxBytes,    \* bound: the heap gives no string more bytes, terminator included
  NULL

ASSUME SdsAssumption ==
  /\ Bytes \subseteq 0 .. 255 /\ 0 \in Bytes
  /\ \A b \in Bytes : (b \in 65 .. 90 => b + 32 \in Bytes) /\ (b \in 97 .. 122 => b - 32 \in Bytes)
  /\ Junk \notin Int /\ NULL \notin Seq(Bytes \cup {Junk})
  /\ Texts \subseteq Seq(Bytes) /\ Sizes \subseteq Nat /\ Indexes \subseteq Int
  /\ \A m \in CharMaps : /\ m.from \in Seq(Bytes) /\ m.to \in Seq(Bytes)
                         /\ Len(m.from) = Len(m.to)
  /\ MaxPrealloc \in Nat \ {0} /\ FirstBuffer \in Nat \ {0, 1}
  /\ IntMax \in Nat \ {0} /\ MaxBytes \in Nat

VARIABLE str  \* the string: sh->len, sh->free and sh->buf; NULL when there is none

Wrap(x) == ((x + IntMax + 1) % (2 * (IntMax + 1))) - (IntMax + 1)

String(len, free, buf) == [len |-> Wrap(len), free |-> Wrap(free), buf |-> buf]

\* free >= n, both being size_t.
Avail(s, n) == s.free < 0 \/ s.free >= n

\* malloc and realloc give the buffer or NULL.
Given(s) == IF Len(s.buf) <= MaxBytes THEN {s, NULL} ELSE {NULL}

\* memcpy(buf + at, t, Len(t)): writing past the end would show as a longer buffer.
Write(buf, at, t) ==
  [i \in 1 .. (IF at + Len(t) > Len(buf) THEN at + Len(t) ELSE Len(buf)) |->
     IF at < i /\ i <= at + Len(t) THEN t[i - at] ELSE buf[i]]

Cells(n, c) == [i \in 1 .. n |-> c]
Resize(buf, n) == [i \in 1 .. n |-> IF i <= Len(buf) THEN buf[i] ELSE Junk]
Content(s) == SubSeq(s.buf, 1, s.len)

\* strlen: the bytes before the first NUL.
StrLen(t) == CHOOSE n \in 0 .. Len(t) : /\ \A i \in 1 .. n : t[i] # 0
                                        /\ n < Len(t) => t[n + 1] = 0
CString(t) == SubSeq(t, 1, StrLen(t))

-----------------------------------------------------------------------------
(* Making strings                                                          *)

\* calloc for NULL, malloc for a text.
sdsnewlen(t, n) ==
  Given(String(n, 0, IF t = NULL THEN Cells(n + 1, 0)
                                 ELSE Write(Cells(n + 1, Junk), 0, SubSeq(t, 1, n) \o <<0>>)))

sdsempty == sdsnewlen(<<>>, 0)
sdsnew(t) == IF t = NULL THEN sdsnewlen(NULL, 0) ELSE sdsnewlen(t, StrLen(t))
sdsdup(s) == sdsnewlen(s.buf, s.len)

-----------------------------------------------------------------------------
(* Room at the end                                                         *)

Preallocated(n) == IF n < MaxPrealloc THEN 2 * n ELSE n + MaxPrealloc

\* Mutant: the room already there is counted again.
sdsMakeRoomFor_adds_free(s, addlen) ==
  IF Avail(s, addlen) THEN {s}
  ELSE LET newlen == Preallocated(s.len + addlen)
       IN  Given(String(s.len, s.free + newlen - s.len, Resize(s.buf, newlen + 1)))

sdsMakeRoomFor(s, addlen) ==
  IF Avail(s, addlen) THEN {s}
  ELSE LET newlen == Preallocated(s.len + addlen)
       IN  Given(String(s.len, newlen - s.len, Resize(s.buf, newlen + 1)))

\* A realloc that shrinks is taken to succeed: the code does not test it.
sdsRemoveFreeSpace(s) == String(s.len, 0, Resize(s.buf, s.len + 1))

sdsAllocSize(s) == s.len + s.free + 1

\* Mutant: the terminator is written before len is brought up to date.
sdsIncrLen_ends_first(s, n) == String(s.len + n, s.free - n, Write(s.buf, s.len, <<0>>))

\* The client has written n bytes after the end, or wants -n bytes less.
sdsIncrLen(s, n) == String(s.len + n, s.free - n, Write(s.buf, s.len + n, <<0>>))

\* Mutant: the bytes between the old end and the new one are left as they are.
GrownZero_unset(s, n) ==
  String(n, s.len + s.free - n, Write(s.buf, n, <<0>>))

\* The part of sdsgrowzero after the room is made: the terminator is set too.
GrownZero(s, n) ==
  String(n, s.len + s.free - n, Write(s.buf, s.len, Cells(n - s.len + 1, 0)))

sdsgrowzero(s, n) ==
  IF n <= s.len THEN {s}
  ELSE {IF r = NULL THEN NULL ELSE GrownZero(r, n) : r \in sdsMakeRoomFor(s, n - s.len)}

Appended(s, t) ==
  String(s.len + Len(t), s.free - Len(t), Write(s.buf, s.len, t \o <<0>>))

sdscatlen(s, t) ==
  {IF r = NULL THEN NULL ELSE Appended(r, t) : r \in sdsMakeRoomFor(s, Len(t))}

sdscat(s, t) == sdscatlen(s, CString(t))
sdscatsds(s, t) == sdscatlen(s, Content(t))

Copied(s, t) ==
  String(Len(t), s.len + s.free - Len(t), Write(s.buf, 0, t \o <<0>>))

sdscpylen(s, t) ==
  IF s.free + s.len >= Len(t) THEN {Copied(s, t)}
  ELSE {IF r = NULL THEN NULL ELSE Copied(r, t) : r \in sdsMakeRoomFor(s, Len(t) - s.len)}

sdscpy(s, t) == sdscpylen(s, CString(t))

\* The loop stops at the first buffer whose last byte but one is still NUL.
Fits(t, buflen) == Len(t) < buflen - 1 \/ t[buflen - 1] = 0

\* FirstBuffer doubled as often as it takes.
BufferSizes(t) ==
  {n \in FirstBuffer .. FirstBuffer + 2 * Len(t) + 2 :
     \E k \in 0 .. Len(t) : n = FirstBuffer * 2 ^ k}
Buffer(t) ==
  {n \in BufferSizes(t) : Fits(t, n) /\ \A m \in BufferSizes(t) : Fits(t, m) => n <= m}

\* What vsnprintf leaves in a buffer, t being the whole text.
Printed(t, buflen) == SubSeq(t, 1, IF Len(t) < buflen THEN Len(t) ELSE buflen - 1)

sdscatvprintf(s, t) == {NULL} \cup UNION {sdscat(s, Printed(t, n)) : n \in Buffer(t)}

-----------------------------------------------------------------------------
(* Cutting and changing in place                                           *)

sdsclear(s) == String(0, s.free + s.len, Write(s.buf, 0, <<0>>))
sdsupdatelen(s) == String(StrLen(s.buf), s.free + (s.len - StrLen(s.buf)), s.buf)

\* Bytes from and after are moved to the front, n of them.
Cut(s, from, n) ==
  String(n, s.free + (s.len - n), Write(s.buf, 0, SubSeq(s.buf, from, from + n - 1) \o <<0>>))

\* strchr finds the NUL of cset too.
InSet(b, cset) == b \in cset \cup {0}

\* Where the two loops of sdstrim stop: the right one never passes the first byte.
TrimEnds(s, cset) ==
  {e \in (1 .. s.len + 1) \X (0 .. s.len) :
     /\ \A i \in 1 .. e[1] - 1 : InSet(s.buf[i], cset)
     /\ e[1] <= s.len => ~InSet(s.buf[e[1]], cset)
     /\ \A i \in e[2] + 1 .. s.len : InSet(s.buf[i], cset)
     /\ IF e[2] > 1 THEN ~InSet(s.buf[e[2]], cset) ELSE e[2] = 1 \/ s.len = 0}

sdstrim(s, cset) ==
  {Cut(s, e[1], IF e[1] > e[2] THEN 0 ELSE e[2] - e[1] + 1) : e \in TrimEnds(s, cset)}

\* if (i < 0) i = len + i, and 0 if it is still negative.
FromEnd(s, i) == IF i >= 0 THEN i ELSE IF s.len + i < 0 THEN 0 ELSE s.len + i

RangeLen(s, first, last) ==
  IF first > last \/ first >= s.len THEN 0
  ELSE (IF last >= s.len THEN s.len - 1 ELSE last) - first + 1

sdsrange(s, start, end) ==
  LET first == FromEnd(s, start)
      last == FromEnd(s, end)
  IN  IF s.len = 0 THEN s ELSE Cut(s, first + 1, RangeLen(s, first, last))

\* s[j] = f(s[j]) for every byte of the string.
Mapped(s, f) == [s EXCEPT !.buf = [i \in DOMAIN s.buf |-> IF i <= s.len THEN f[s.buf[i]] ELSE s.buf[i]]]

sdstolower(s) == Mapped(s, [b \in Bytes |-> IF b \in 65 .. 90 THEN b + 32 ELSE b])
sdstoupper(s) == Mapped(s, [b \in Bytes |-> IF b \in 97 .. 122 THEN b - 32 ELSE b])

\* Mutant: the inner loop goes on with the byte just put there.
Translated_twice(m, b) ==
  LET f[i \in 0 .. Len(m.from)] ==
        IF i = 0 THEN b ELSE IF f[i - 1] = m.from[i] THEN m.to[i] ELSE f[i - 1]
  IN  f[Len(m.from)]

\* The inner loop of sdsmapchars: the first place where b is found.
Translated(m, b) ==
  IF b \notin {m.from[i] : i \in DOMAIN m.from} THEN b
  ELSE m.to[CHOOSE i \in DOMAIN m.from :
              m.from[i] = b /\ \A j \in 1 .. i - 1 : m.from[j] # b]

sdsmapchars(s, m) == Mapped(s, [b \in Bytes |-> Translated(m, b)])

-----------------------------------------------------------------------------
(* The client                                                              *)

Init == str = NULL

\* The client goes on with the string a call returns, or with its own on NULL.
Update(outcomes) == str # NULL /\ \E o \in outcomes : str' = IF o = NULL THEN str ELSE o

New(t) == str = NULL /\ str' \in sdsnewlen(t, Len(t))
NewZeros(n) == str = NULL /\ str' \in sdsnewlen(NULL, n)
NewC(t) == str = NULL /\ str' \in sdsnew(t)
NewEmpty == str = NULL /\ str' \in sdsempty \cup sdsnew(NULL)

\* The duplicate is kept and the original freed.
Duplicate == Update(sdsdup(str))
sdsfree == str # NULL /\ str' = NULL

MakeRoom(n) == Update(sdsMakeRoomFor(str, n))
RemoveFreeSpace == Update({sdsRemoveFreeSpace(str)})
GrowZero(n) == Update(sdsgrowzero(str, n))
CatLen(t) == Update(sdscatlen(str, t))
Cat(t) == Update(sdscat(str, t))
CatPrintf(t) == Update(sdscatvprintf(str, t))
CpyLen(t) == Update(sdscpylen(str, t))
Cpy(t) == Update(sdscpy(str, t))

\* A string put after itself: only when there is room, or the source would be the
\* buffer that realloc has given back.
CatSelf == str # NULL /\ Avail(str, str.len) /\ Update(sdscatsds(str, str))

\* The scheme of sdsIncrLen's comment: t is written into the room, then counted.
ReadInto(t) ==
  /\ str # NULL /\ str.free >= Len(t)
  /\ str' = sdsIncrLen([str EXCEPT !.buf = Write(@, str.len, t)], Len(t))

\* "a negative increment in order to right-trim the string".
TrimRight(n) == str # NULL /\ n <= str.len /\ str' = sdsIncrLen(str, -n)

Clear == Update({sdsclear(str)})

\* s[i] = '\0'; without sdsupdatelen it is a byte like any other.
Poke(i) == /\ str # NULL /\ i \in 1 .. str.len
           /\ str' = [str EXCEPT !.buf[i] = 0]
UpdateLen == Update({sdsupdatelen(str)})
Trim(cset) == Update(sdstrim(str, cset))
KeepRange(first, last) == Update({sdsrange(str, first, last)})
ToLower == Update({sdstolower(str)})
ToUpper == Update({sdstoupper(str)})
MapChars(m) == Update({sdsmapchars(str, m)})

CallWithText(t) ==
  New(t) \/ NewC(t) \/ CatLen(t) \/ Cat(t) \/ CatPrintf(t) \/ CpyLen(t) \/ Cpy(t) \/ ReadInto(t)

Next ==
  \/ \E t \in Texts : CallWithText(t)
  \/ \E n \in Sizes : NewZeros(n) \/ MakeRoom(n) \/ GrowZero(n) \/ TrimRight(n) \/ Poke(n)
  \/ NewEmpty \/ Duplicate \/ sdsfree \/ RemoveFreeSpace \/ CatSelf
  \/ Clear \/ UpdateLen \/ ToLower \/ ToUpper
  \/ \E cset \in CharSets : Trim(cset)
  \/ \E i, j \in Indexes : KeepRange(i, j)
  \/ \E m \in CharMaps : MapChars(m)

Spec == Init /\ [][Next]_str

-----------------------------------------------------------------------------
(* Properties                                                              *)

\* What must hold of the heap for no int to wrap.
NoWrap == MaxBytes <= IntMax

\* The header and the buffer; and no byte that nobody has written is in the string.
TypeOK ==
  str # NULL => /\ DOMAIN str = {"len", "free", "buf"}
                /\ str.len \in Int /\ str.free \in Int
                /\ str.buf \in Seq(Bytes \cup {Junk})
                /\ \A i \in 1 .. str.len : i \in DOMAIN str.buf => str.buf[i] \in Bytes

\* len and free account for every byte of the allocation (sdsAllocSize), nothing
\* is ever written beyond it, and the terminator follows the content.
HeaderExact ==
  str # NULL => /\ 0 <= str.len /\ 0 <= str.free
                /\ sdsAllocSize(str) = Len(str.buf)
                /\ str.buf[str.len + 1] = 0

\* What a table says, the first entry for a byte that it has twice; and the C library
\* of letters.
Entry(m, b) == CHOOSE i \in DOMAIN m.from :
                 m.from[i] = b /\ \A j \in DOMAIN m.from : m.from[j] = b => i <= j
AsMap(m) == [b \in {m.from[i] : i \in DOMAIN m.from} |-> m.to[Entry(m, b)]]
Lower == [b \in 65 .. 90 |-> b + 32]
Upper == [b \in 97 .. 122 |-> b - 32]

Abstract == INSTANCE ByteString WITH
  CharMaps <- {AsMap(m) : m \in CharMaps} \cup {Lower, Upper},
  text <- IF str = NULL THEN NULL ELSE Content(str)

\* A call gives a string of these bytes, if it gives one.
Gives(outcomes, t) == \A o \in outcomes \ {NULL} : Content(o) = t

\* A new string has the text's bytes up to the given length, or to the first NUL,
\* or zeros where there is no text.
CreatesRight ==
  /\ \A t \in Texts : /\ Gives(sdsnewlen(t, Len(t)), t)
                      /\ Gives(sdsnew(t), Abstract!UpToNul(t))
  /\ \A n \in Sizes : Gives(sdsnewlen(NULL, n), Abstract!Zeros(n))
  /\ Gives(sdsempty \cup sdsnew(NULL), <<>>)

\* The calls that put text after the content c, or in its place.  What sdsIncrLen
\* counts are bytes the client has written into the room.
AppendsRight(c) ==
  /\ \A t \in Texts :
       LET z == Abstract!UpToNul(t)
           filled == [str EXCEPT !.buf = Write(@, str.len, t)]
       IN  /\ Gives(sdscatlen(str, t), c \o t)
           /\ Gives(sdscat(str, t) \cup sdscatvprintf(str, t), c \o z)
           /\ \A o \in sdsnewlen(t, Len(t)) \ {NULL} : Gives(sdscatsds(str, o), c \o t)
           /\ Gives(sdscpylen(str, t), t) /\ Gives(sdscpy(str, t), z)
           /\ str.free >= Len(t) => Gives({sdsIncrLen(filled, Len(t))}, c \o t)
  /\ Avail(str, str.len) => Gives(sdscatsds(str, str), c \o c)

\* The calls that change the room and, but for sdsgrowzero's zeros, no content.
RoomRight(c) ==
  /\ \A n \in Sizes :
       /\ Gives(sdsMakeRoomFor(str, n), c)
       /\ \A o \in sdsMakeRoomFor(str, n) \ {NULL} : o.free >= n
       /\ Gives(sdsgrowzero(str, n), c \o Abstract!Zeros(n - str.len))
  /\ Gives({sdsRemoveFreeSpace(str)} \cup sdsdup(str), c)

\* The calls that keep a piece of the content.  sdstrim also takes off NULs, which
\* strchr finds at the end of every set: nc_sds.c:397-398 has only "characters found
\* in 'cset'" there, so this part says less than that comment.
CutsRight(c) ==
  /\ Gives({sdsclear(str)}, <<>>) /\ Gives({sdsupdatelen(str)}, Abstract!UpToNul(c))
  /\ \A n \in Sizes : n <= str.len => Gives({sdsIncrLen(str, -n)}, SubSeq(c, 1, str.len - n))
  /\ \A i, j \in Indexes : Gives({sdsrange(str, i, j)}, Abstract!Slice(c, i, j))
  /\ \A cset \in CharSets :
       \E o \in sdstrim(str, cset) :
         /\ sdstrim(str, cset) = {o}
         /\ Abstract!IsTrimmed(Content(o), c, cset \cup {0})

\* The calls that change bytes in their places.
ChangesRight(c) ==
  /\ \A m \in CharMaps : Gives({sdsmapchars(str, m)}, Abstract!Replaced(c, AsMap(m)))
  /\ Gives({sdstolower(str)}, Abstract!Replaced(c, Lower))
  /\ Gives({sdstoupper(str)}, Abstract!Replaced(c, Upper))

\* Each call of nc_sds.h on one string has the result its name and arguments ask
\* for, whatever older calls have left behind the terminator.
CallsRight ==
  /\ CreatesRight
  /\ str # NULL => LET c == Content(str)
                   IN  AppendsRight(c) /\ RoomRight(c) /\ CutsRight(c) /\ ChangesRight(c)

\* The string goes from one sequence of bytes to the next as the abstract one does,
\* wherever its buffer has been moved to, and stays what it was when a call fails.
RefinesBytes == Abstract!Spec
=============================================================================
