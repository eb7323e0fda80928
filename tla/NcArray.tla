------------------------------ MODULE NcArray ------------------------------
(***************************************************************************)
(* The growing array of nc_array.c.  Memory is counted in elements; an int *)
(* of the code wraps at IntMax, and a size_t made from a negative one is   *)
(* more than the heap can give.                                            *)
(***************************************************************************)
EXTENDS Integers, Sequences

CONSTANTS
  Counts,    \* how many elements the client asks for at once
  MaxCells,  \* bound: malloc and realloc give no more elements than this
  IntMax,    \* the largest int
  Values, Undef, NULL, OK, FAILED

ASSUME ArrayAssumption ==
  /\ IntMax \in Nat \ {0}
  /\ Counts \subseteq 0 .. IntMax
  /\ MaxCells \in Nat
  /\ OK # FAILED

\* What must hold of the client and of the heap for no int to wrap.
NoWrap == MaxCells <= IntMax /\ \A n \in Counts : n + MaxCells <= IntMax

VARIABLES
  open,    \* is there an array?
  elems,   \* the buffer: as many cells as were allocated, or NULL: no array
  nelem,
  nalloc,
  given,   \* the elements the last push returned a pointer to
  ret      \* whether the last call succeeded

vars == <<open, elems, nelem, nalloc, given, ret>>

Wrap(x) == ((x + IntMax + 1) % (2 * (IntMax + 1))) - (IntMax + 1)

Cells(n) == [i \in 1 .. n |-> Undef]

\* Mutant: a new block without the old contents.
Resize_forgets(n) == [i \in 1 .. n |-> Undef]

\* nc_realloc to n cells: the old ones keep their contents.
Resize(n) == [i \in 1 .. n |-> IF i <= Len(elems) THEN elems[i] ELSE Undef]

Available(n) == 0 < n /\ n <= MaxCells

-----------------------------------------------------------------------------
Init ==
  /\ open = FALSE /\ elems = NULL /\ nelem = 0 /\ nalloc = 0
  /\ given = {} /\ ret = FAILED

\* NC_ASSERT(n != 0 && size != 0).
nc_array_create(n) ==
  /\ ~open /\ n # 0
  /\ \/ /\ Available(n)
        /\ open' = TRUE /\ elems' = Cells(n) /\ nelem' = 0 /\ nalloc' = n /\ ret' = OK
     \/ ret' = FAILED /\ UNCHANGED <<open, elems, nelem, nalloc>>
  /\ given' = {}

nc_array_destroy ==
  /\ open
  /\ open' = FALSE /\ elems' = NULL /\ nelem' = 0 /\ nalloc' = 0
  /\ given' = {} /\ ret' = OK

\* Mutant: the pointer is taken after nelem is advanced.
TakeElements_after_end(n) ==
  /\ nelem' = Wrap(nelem + n)
  /\ given' = nelem + n + 1 .. nelem + n + n
  /\ ret' = OK

\* Both pushes end alike: n elements are taken from the end of the buffer.
TakeElements(n) ==
  /\ nelem' = Wrap(nelem + n)
  /\ given' = nelem + 1 .. nelem + n
  /\ ret' = OK

Fail == ret' = FAILED /\ given' = {} /\ UNCHANGED <<open, elems, nelem, nalloc>>

\* Mutant: what realloc gave is not tested, and NULL becomes the buffer.
nc_array_push_unchecked ==
  /\ open
  /\ \/ /\ nelem # nalloc
        /\ TakeElements(1)
        /\ UNCHANGED <<elems, nalloc, open>>
     \/ /\ nelem = nalloc
        /\ \/ Available(2 * nalloc) /\ elems' = Resize(2 * nalloc)
           \/ elems' = NULL
        /\ nalloc' = Wrap(2 * nalloc)
        /\ TakeElements(1)
        /\ UNCHANGED open

nc_array_push ==
  /\ open
  /\ \/ /\ nelem # nalloc
        /\ TakeElements(1)
        /\ UNCHANGED <<elems, nalloc, open>>
     \/ /\ nelem = nalloc /\ Available(2 * nalloc)
        /\ elems' = Resize(2 * nalloc)
        /\ nalloc' = Wrap(2 * nalloc)
        /\ TakeElements(1)
        /\ UNCHANGED open
     \/ nelem = nalloc /\ Fail

\* The capacity a push of n asks for.
Doubled(n) == Wrap(2 * (IF n >= nalloc THEN n ELSE nalloc))

nc_array_push_n(n) ==
  /\ open
  /\ \/ /\ Wrap(nelem + n) <= nalloc
        /\ TakeElements(n)
        /\ UNCHANGED <<elems, nalloc, open>>
     \/ /\ Wrap(nelem + n) > nalloc /\ Available(Doubled(n))
        /\ elems' = Resize(Doubled(n))
        /\ nalloc' = Doubled(n)
        /\ TakeElements(n)
        /\ UNCHANGED open
     \/ Wrap(nelem + n) > nalloc /\ Fail

\* The client writes an element it was last given a pointer to.
Write(i, v) ==
  /\ open /\ i \in given
  /\ elems' = [elems EXCEPT ![i] = v]
  /\ UNCHANGED <<open, nelem, nalloc, given, ret>>

Next ==
  \/ \E n \in Counts : nc_array_create(n) \/ nc_array_push_n(n)
  \/ nc_array_destroy
  \/ nc_array_push
  \/ \E i \in given, v \in Values : Write(i, v)

Spec == Init /\ [][Next]_vars

-----------------------------------------------------------------------------
(* Properties                                                              *)

\* The fields of struct nc_array, and the history.  As long as there is an
\* array there is a buffer, however many allocations have failed: neither push
\* nor the client ever meets a NULL in elems.
TypeOK ==
  /\ open \in BOOLEAN
  /\ IF open THEN elems \in Seq(Values \cup {Undef}) ELSE elems = NULL
  /\ nelem \in Int /\ nalloc \in Int
  /\ given \subseteq Int
  /\ ret \in {OK, FAILED}

\* nalloc is what the buffer holds and nelem stays within it, so that the
\* pointer a push returns leads to as many elements as were asked for.
Capacity ==
  /\ nalloc = IF open THEN Len(elems) ELSE 0
  /\ 0 <= nelem /\ nelem <= nalloc
  /\ given \subseteq 1 .. nelem

List == INSTANCE GrowList WITH
  list <- [i \in 1 .. nelem |-> elems[i]], len <- nelem

\* The elements are a list that growing leaves alone: nothing already pushed is
\* lost or changed by a push, a failed one included.
RefinesList == List!Spec
=============================================================================
