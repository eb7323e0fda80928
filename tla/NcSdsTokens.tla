---------------------------- MODULE NcSdsTokens ----------------------------
(***************************************************************************)
(* The calls of nc_sds.c that make strings of other bytes: splitting,      *)
(* joining, quoting, printing a number.  A string is here its bytes, as    *)
(* NcSds shows that it may be; what matters is the array of tokens, what   *)
(* is on the heap when a call fails half way, and the scanning of the      *)
(* input.  Positions count from 0, as in the code.                         *)
(***************************************************************************)
EXTENDS Integers, Sequences, SequencesExt

CONSTANTS
  SplitLines, Seps,  \* what sdssplitlen is given
  ArgLines,          \* the lines sdssplitargs is given, without NUL
  Quotables,         \* the byte strings sdscatrepr is given
  FirstSlots,        \* the first length of sdssplitlen's array, 5 in the code
  MaxLong,           \* the largest long long
  NULL

\* What is asked of the constants; NcStrings assumes it.
TokensAssumption ==
  /\ SplitLines \cup Seps \cup ArgLines \cup Quotables \subseteq Seq(0 .. 255)
  /\ NULL \notin Seq(0 .. 255) \cup Seq(Seq(0 .. 255))
  /\ \A l \in ArgLines : \A i \in DOMAIN l : l[i] # 0
  /\ FirstSlots \in Nat \ {0, 1} /\ MaxLong \in Nat \ {0}

VARIABLES
  phase,   \* "idle", "running" or "done": of the one call there is
  call,    \* its function and arguments
  pos,     \* j of sdssplitlen, p of sdssplitargs
  start,   \* where the current token of sdssplitlen begins
  tokens,  \* tokens, or vector: what has been stored in the array
  slots,   \* how long sdssplitlen's array is
  cur,     \* current: the token sdssplitargs is at, NULL between two
  quote,   \* the quotes it is in: "none", "double" or "single"
  strings, \* how many strings are on the heap
  array,   \* is there an array on the heap?
  result   \* what the call returned

vars == <<phase, call, pos, start, tokens, slots, cur, quote, strings, array, result>>

Return(r) ==
  /\ phase' = "done" /\ result' = r
  /\ pos' = 0 /\ start' = 0 /\ tokens' = <<>> /\ slots' = 0 /\ cur' = NULL /\ quote' = "none"

NoCall == [fn |-> "none"]

Init ==
  /\ phase = "idle" /\ call = NoCall /\ pos = 0 /\ start = 0 /\ tokens = <<>> /\ slots = 0
  /\ cur = NULL /\ quote = "none" /\ strings = 0 /\ array = FALSE /\ result = NULL

-----------------------------------------------------------------------------
(* sdssplitlen                                                             *)

sdssplitlen(line, sep) ==
  /\ phase = "idle"
  /\ call' = [fn |-> "split", line |-> line, sep |-> sep]
  /\ UNCHANGED strings
  /\ \/ Return(NULL) /\ UNCHANGED array
     \/ sep # <<>> /\ line = <<>> /\ Return(<<>>) /\ array' = TRUE
     \/ /\ sep # <<>> /\ line # <<>>
        /\ phase' = "running" /\ slots' = FirstSlots /\ array' = TRUE
        /\ UNCHANGED <<pos, start, tokens, cur, quote, result>>

Splitting == phase = "running" /\ call.fn = "split"
Left == pos < Len(call.line) - (Len(call.sep) - 1)

\* Mutant: the strings made so far are not freed.
SplitFails_leaks == strings' = strings /\ array' = FALSE /\ Return(NULL) /\ UNCHANGED call

\* cleanup: an allocation has failed.
SplitFails ==
  /\ strings' = strings - Len(tokens) /\ array' = FALSE
  /\ Return(NULL) /\ UNCHANGED call

\* Mutant: room for the next element, but not for the final one.
Grown_by_need == IF slots < Len(tokens) + 1 THEN 2 * slots ELSE slots

\* Room for the next element and the final one.
Grown == IF slots < Len(tokens) + 2 THEN 2 * slots ELSE slots

\* memcmp(s + j, sep, seplen) == 0.
AtSeparator == SubSeq(call.line, pos + 1, pos + Len(call.sep)) = call.sep

\* Mutant: the scan goes on in the middle of the separator.
AfterSeparator_next == pos + 1

AfterSeparator == pos + Len(call.sep)

SplitStep ==
  /\ Splitting /\ Left
  /\ \/ Grown # slots /\ SplitFails
     \/ AtSeparator /\ SplitFails
     \/ /\ slots' = Grown
        /\ IF AtSeparator
             THEN /\ tokens' = Append(tokens, SubSeq(call.line, start + 1, pos))
                  /\ strings' = strings + 1
                  /\ start' = pos + Len(call.sep)
                  /\ pos' = AfterSeparator
             ELSE pos' = pos + 1 /\ UNCHANGED <<tokens, strings, start>>
        /\ UNCHANGED <<phase, call, cur, quote, array, result>>

\* The final element, the rest of the line.
SplitEnd ==
  /\ Splitting /\ ~Left
  /\ \/ SplitFails
     \/ /\ tokens' = Append(tokens, SubSeq(call.line, start + 1, Len(call.line)))
        /\ strings' = strings + 1
        /\ phase' = "done" /\ result' = tokens'
        /\ UNCHANGED <<call, pos, start, slots, cur, quote, array>>

-----------------------------------------------------------------------------
(* sdscatrepr and sdssplitargs                                             *)

isspace(b) == b \in (9 .. 13) \cup {32}
isprint(b) == b \in 32 .. 126

\* Each letter after a backslash, and the byte it stands for.
Letters == {<<110, 10>>, <<114, 13>>, <<116, 9>>, <<97, 7>>, <<98, 8>>}
HexDigits == <<48, 49, 50, 51, 52, 53, 54, 55, 56, 57, 97, 98, 99, 100, 101, 102>>

\* Mutant: %x for %02x, one digit where one is enough.
Escaped_short(b) ==
  IF b \in {34, 92} THEN <<92, b>>
  ELSE IF \E l \in Letters : l[2] = b THEN <<92, (CHOOSE l \in Letters : l[2] = b)[1]>>
  ELSE IF isprint(b) THEN <<b>>
  ELSE <<92, 120>> \o (IF b < 16 THEN <<>> ELSE <<HexDigits[b \div 16 + 1]>>) \o <<HexDigits[(b % 16) + 1]>>

Escaped(b) ==
  IF b \in {34, 92} THEN <<92, b>>
  ELSE IF \E l \in Letters : l[2] = b THEN <<92, (CHOOSE l \in Letters : l[2] = b)[1]>>
  ELSE IF isprint(b) THEN <<b>>
  ELSE <<92, 120, HexDigits[b \div 16 + 1], HexDigits[(b % 16) + 1]>>

sdscatrepr(s, t) == s \o <<34>> \o FlattenSeq([i \in DOMAIN t |-> Escaped(t[i])]) \o <<34>>

is_hex_digit(b) == b \in (48 .. 57) \cup (97 .. 102) \cup (65 .. 70)
hex_digit_to_int(b) == IF b <= 57 THEN b - 48 ELSE IF b >= 97 THEN b - 87 ELSE b - 55
Unescaped(b) == IF \E l \in Letters : l[1] = b THEN (CHOOSE l \in Letters : l[1] = b)[2] ELSE b

\* p[k]: the line ends with a NUL.
At(k) == IF pos + k < Len(call.line) THEN call.line[pos + k + 1] ELSE 0

\* A line, which may be the representation of text.
sdssplitargs(line, text) ==
  /\ phase = "idle"
  /\ call' = [fn |-> "args", line |-> line, text |-> text]
  /\ phase' = "running"
  /\ UNCHANGED <<pos, start, tokens, slots, cur, quote, strings, array, result>>

Parsing == phase = "running" /\ call.fn = "args"
Goto(n) == pos' = pos + n /\ UNCHANGED <<phase, call, start, tokens, slots, array, result>>

\* Mutant: the blank is not passed.
SkipBlank_stays == Parsing /\ cur = NULL /\ isspace(At(0)) /\ Goto(0) /\ UNCHANGED <<cur, quote, strings>>

\* Between two tokens.
SkipBlank == Parsing /\ cur = NULL /\ isspace(At(0)) /\ Goto(1) /\ UNCHANGED <<cur, quote, strings>>

\* vector is allocated even if it is to hold nothing.
ArgsEnd ==
  /\ Parsing /\ cur = NULL /\ At(0) = 0
  /\ Return(tokens) /\ array' = TRUE /\ UNCHANGED <<call, strings>>

TokenBegins ==
  /\ Parsing /\ cur = NULL /\ At(0) # 0 /\ ~isspace(At(0))
  /\ cur' = <<>> /\ strings' = strings + 1 /\ Goto(0) /\ UNCHANGED quote

\* One byte more of the token, n bytes further in the line.
Take(b, n) == cur' = Append(cur, b) /\ Goto(n) /\ UNCHANGED <<quote, strings>>

Enter(q) == quote' = q /\ Goto(1) /\ UNCHANGED <<cur, strings>>

\* The byte that ends the token is skipped, if it is not the line's end.
TokenEnds ==
  /\ tokens' = Append(tokens, cur) /\ cur' = NULL /\ quote' = "none" /\ array' = TRUE
  /\ pos' = IF At(0) = 0 THEN pos ELSE pos + 1
  /\ UNCHANGED <<phase, call, start, slots, strings, result>>

\* err: the tokens, the vector and the current token are freed.
ArgsFail ==
  /\ strings' = strings - Len(tokens) - 1 /\ array' = FALSE
  /\ Return(NULL) /\ UNCHANGED call

\* A closing quote must be followed by a space or nothing at all.
CloseQuote == IF At(1) # 0 /\ ~isspace(At(1)) THEN ArgsFail ELSE TokenEnds

HexAt == At(0) = 92 /\ At(1) = 120 /\ is_hex_digit(At(2)) /\ is_hex_digit(At(3))

InDouble ==
  /\ Parsing /\ cur # NULL /\ quote = "double"
  /\ CASE HexAt -> Take(hex_digit_to_int(At(2)) * 16 + hex_digit_to_int(At(3)), 4)
       [] ~HexAt /\ At(0) = 92 /\ At(1) # 0 -> Take(Unescaped(At(1)), 2)
       [] At(0) = 34 -> CloseQuote
       [] At(0) = 0 -> ArgsFail
       [] OTHER -> Take(At(0), 1)

InSingle ==
  /\ Parsing /\ cur # NULL /\ quote = "single"
  /\ CASE At(0) = 92 /\ At(1) = 39 -> Take(39, 2)
       [] At(0) = 39 -> CloseQuote
       [] At(0) = 0 -> ArgsFail
       [] OTHER -> Take(At(0), 1)

InBare ==
  /\ Parsing /\ cur # NULL /\ quote = "none"
  /\ CASE At(0) \in {0, 9, 10, 13, 32} -> TokenEnds
       [] At(0) = 34 -> Enter("double")
       [] At(0) = 39 -> Enter("single")
       [] OTHER -> Take(At(0), 1)

-----------------------------------------------------------------------------
(* Numbers and joining                                                     *)

\* -value of the least long long overflows, which C leaves undefined.  Modelled are the
\* builds where it wraps to itself, of which the conversion to unsigned makes the magnitude.
Magnitude(v) == (IF v < 0 THEN -v ELSE v) % (2 * (MaxLong + 1))

\* The digits, the last one first in the code.
Digits(v) ==
  LET d[n \in 0 .. v] == IF n < 10 THEN <<48 + n>> ELSE Append(d[n \div 10], 48 + (n % 10)) IN d[v]

sdsfromlonglong(v) ==
  /\ phase = "idle"
  /\ call' = [fn |-> "number", value |-> v]
  /\ \/ Return(NULL) /\ UNCHANGED <<strings, array>>
     \/ /\ Return((IF v < 0 THEN <<45>> ELSE <<>>) \o Digits(Magnitude(v)))
        /\ strings' = 1 /\ UNCHANGED array

sdsjoinsds(argv, sep) ==
  FlattenSeq([i \in DOMAIN argv |-> IF i = Len(argv) THEN argv[i] ELSE argv[i] \o sep])

-----------------------------------------------------------------------------
(* The client                                                              *)

\* sdsfreesplitres or sdsfree; what is not in the result is not freed.
Release ==
  /\ phase = "done"
  /\ strings' = strings - (IF result = NULL THEN 0 ELSE IF call.fn = "number" THEN 1 ELSE Len(result))
  /\ array' = (array /\ (result = NULL \/ call.fn = "number"))
  /\ phase' = "idle" /\ call' = NoCall /\ result' = NULL
  /\ pos' = 0 /\ start' = 0 /\ tokens' = <<>> /\ slots' = 0 /\ UNCHANGED <<cur, quote>>

Scan == SplitStep \/ SplitEnd \/ SkipBlank \/ ArgsEnd \/ TokenBegins \/ InDouble \/ InSingle \/ InBare

Start ==
  /\ phase = "idle"
  /\ \/ \E line \in SplitLines, sep \in Seps : sdssplitlen(line, sep)
     \/ \E line \in ArgLines : sdssplitargs(line, NULL)
     \/ \E text \in Quotables : sdssplitargs(sdscatrepr(<<>>, text), text)
     \/ \E v \in -MaxLong - 1 .. MaxLong : sdsfromlonglong(v)

Next == Start \/ Scan \/ Release

\* A call is one run of the only thread: it does not stop in the middle.
Spec == Init /\ [][Next]_vars /\ WF_vars(Scan)

-----------------------------------------------------------------------------
(* Properties                                                              *)

\* The array always has room for what is stored in it, the final element too, and
\* p of sdssplitargs never goes past the NUL that ends its line.
InBounds ==
  /\ call.fn = "split" /\ phase # "idle" => Len(tokens) <= slots
  /\ call.fn = "args" => pos <= Len(call.line)

\* A call that fails has freed all it allocated, whichever allocation failed and
\* wherever the quotes were wrong; one that succeeds has only what it returns.
NoLeak ==
  /\ phase = "idle" => strings = 0 /\ ~array
  /\ phase = "done" /\ result = NULL => strings = 0 /\ ~array
  /\ phase = "done" /\ result # NULL /\ call.fn # "number" => array /\ strings = Len(result)

HasSeparator(t, sep) == \E i \in 0 .. Len(t) - Len(sep) : SubSeq(t, i + 1, i + Len(sep)) = sep

\* The tokens are the line cut at separators: joined they are the line again, and
\* none has a separator in it.  An empty line gives no token: see EmptyGivesNull.
SplitRight ==
  phase = "done" /\ call.fn = "split" /\ result # NULL =>
    /\ sdsjoinsds(result, call.sep) = call.line
    /\ \A i \in DOMAIN result : ~HasSeparator(result[i], call.sep)

\* nc_sds.c:536-537: "On out of memory, zero length string, zero length separator, NULL
\* is returned."
EmptyGivesNull ==
  phase = "done" /\ call.fn = "split" => (call.line = <<>> => result = NULL)

\* "sdscatrepr() is able to convert back a string into a quoted string in the same
\* format sdssplitargs() is able to parse": the one argument is the string.
QuotedAgain ==
  phase = "done" /\ call.fn = "args" => (call.text # NULL => result = <<call.text>>)

\* The digits printed are the number's, without leading zeros; of the least one too,
\* where -value wraps.
NumberRight ==
  phase = "done" /\ call.fn = "number" /\ result # NULL =>
    LET digits == IF call.value < 0 THEN Tail(result) ELSE result
        read[i \in 0 .. Len(digits)] == IF i = 0 THEN 0 ELSE 10 * read[i - 1] + digits[i] - 48
    IN  /\ call.value < 0 => result[1] = 45
        /\ read[Len(digits)] = (IF call.value < 0 THEN -call.value ELSE call.value)
        /\ digits # <<>> /\ (Len(digits) > 1 => digits[1] # 48)

\* Every scan of a line comes to its end.
CallsEnd == (phase = "running") ~> (phase = "done")
=============================================================================
