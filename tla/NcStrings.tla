----------------------------- MODULE NcStrings -----------------------------
(***************************************************************************)
(* Strings and the calls that take them apart, in one client: a string may *)
(* be split where it is held, and the client may go on with a token, which *)
(* is itself a string.  There is one thread: a call on the string starts   *)
(* when no other is under way; bound: and when its tokens are freed.       *)
(***************************************************************************)
EXTENDS NcSds

CONSTANTS SplitLines, Seps, ArgLines, Quotables, FirstSlots, MaxLong

VARIABLES phase, call, pos, start, tokens, slots, cur, quote, strings, array, result

T == INSTANCE NcSdsTokens

ASSUME StringsAssumption == T!TokensAssumption

calls == <<phase, call, pos, start, tokens, slots, cur, quote, strings, array, result>>
all == <<str, calls>>

SystemInit == Init /\ T!Init

OnString == phase = "idle" /\ Next /\ UNCHANGED calls

\* Calls on bytes that are not the string's.
OnBytes == (str = NULL \/ phase # "idle") /\ T!Next /\ UNCHANGED str

\* sdssplitlen(s, sdslen(s), sep, ...).
SplitString(sep) ==
  str # NULL /\ T!sdssplitlen(Content(str), sep) /\ UNCHANGED str

\* The client frees its string and goes on with a token of it; the others and
\* the array are freed.
KeepToken(i) ==
  /\ str # NULL /\ phase = "done" /\ result # NULL /\ i \in DOMAIN result
  /\ str' = String(Len(result[i]), 0, result[i] \o <<0>>)
  /\ T!Release

SystemNext ==
  \/ OnString \/ OnBytes
  \/ \E sep \in Seps : SplitString(sep)
  \/ \E i \in 1 .. MaxBytes : KeepToken(i)

\* A call is one run of the only thread: it does not stop in the middle.
System == SystemInit /\ [][SystemNext]_all /\ WF_all(T!Scan /\ UNCHANGED str)

-----------------------------------------------------------------------------
(* Properties of NcSdsTokens, for the calls of this client                 *)

\* The array has room for what sdssplitlen stores, and the position of sdssplitargs
\* never goes past the NUL that ends its line.
InBounds == T!InBounds

\* A failed call has freed all it allocated, a successful one has what it returns.
NoLeak == T!NoLeak

\* sdssplitlen cuts at every separator and loses no byte, of an empty line making an
\* empty array; sdsfromlonglong prints the number it is given, zero too, and the least
\* one where -value wraps.
ResultsRight == T!SplitRight /\ T!NumberRight

\* What the comment of sdssplitlen says of an empty line (nc_sds.c:536-537): NULL.
EmptyGivesNull == T!EmptyGivesNull

\* sdssplitargs reads back what sdscatrepr writes.
QuotedAgain == T!QuotedAgain

\* Every scan of a line ends.
CallsEnd == T!CallsEnd
=============================================================================
