---------------------------- MODULE MCNcStrings ----------------------------
(* Small instances of NcStrings for TLC.                                    *)
EXTENDS NcStrings

Upto(n, S) == UNION {[1 .. k -> S] : k \in 0 .. n}

\* NUL, "A" and "a".
SomeBytes == {0, 65, 97}
ShortTexts == Upto(2, SomeBytes) \cup {<<65, 97, 0>>, <<65, 97, 97>>}
\* Two letters change places; the second entry for one of them is never reached.
Swap == {[from |-> <<65, 97, 65>>, to |-> <<97, 65, 0>>]}
Positions == {-6, -2, -1, 0, 2, 5}

\* "A" separates, alone or with another byte, in lines of up to six bytes.
Lines == Upto(6, {97, 65})
SomeSeps == {<<>>, <<65>>, <<65, 65>>, <<65, 97>>}
ShortLines == Upto(1, {97, 65})

\* "a", "x", "0", blanks of two kinds, both quotes and the backslash.
WordLines == Upto(4, {97, 120, 48, 32, 11, 34, 39, 92})
\* The same with NUL, newline, bell, other control characters and a byte of 8 bits.
QuotedTexts == Upto(2, {97, 120, 48, 32, 34, 39, 92, 0, 10, 7, 11, 31, 200})
=============================================================================
