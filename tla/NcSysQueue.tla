----------------------------- MODULE NcSysQueue -----------------------------
(***************************************************************************)
(* The intrusive queues of nc_sys_queue.h.  A pointer to a link field is a *)
(* place: a head stands for the address of its first field, an element for *)
(* the address of its next field.  So next[p] is *p, back[h] the last      *)
(* field of a head and back[e] the prev field of an element, and a macro   *)
(* that differs from another only in the place it starts from is the same  *)
(* operator.  A behaviour is one of the five families.                     *)
(***************************************************************************)
EXTENDS Integers, Sequences, SequencesExt, FiniteSets

CONSTANTS
  Heads, Elems,
  NULL,
  Junk  \* what an uninitialized link holds

ASSUME QueueAssumption ==
  /\ Heads \cap Elems = {} /\ IsFiniteSet(Elems)
  /\ {NULL, Junk} \cap (Heads \cup Elems) = {} /\ NULL # Junk

Places == Heads \cup Elems

VARIABLES
  kind,     \* the family of macros
  next,     \* slh_first, sle_next and their like
  back,     \* tqh_last, tqe_prev and their like
  owner,    \* what the client knows: the queue an element is on
  loop,     \* the traversal macro being run, or "none"
  at,       \* its head
  var,      \* its loop variable
  tvar,     \* the one that a _SAFE traversal computes in advance
  visited,  \* history: the values var has had
  stayed    \* history: the elements on the queue since the traversal began

links == <<next, back>>
walk == <<loop, at, var, tvar, visited>>
vars == <<kind, links, owner, walk, stayed>>

On(h) == {e \in Elems : owner[e] = h}

-----------------------------------------------------------------------------
(* Singly linked lists and tail queues                                     *)

\* elm->next = *p, *p = elm.
Link(p, e) == [next EXCEPT ![e] = next[p], ![p] = e]

\* *p = (*p)->next, and the link of the removed element is trashed.
Unlink(p) == [next EXCEPT ![p] = next[next[p]], ![next[p]] = NULL]

\* The walk from the first element to the one before elm.
Predecessor(h, e) == CHOOSE c \in On(h) : next[c] = e

SLIST_INIT(h) == next' = [next EXCEPT ![h] = NULL] /\ UNCHANGED back
SLIST_INSERT(p, e) == next' = Link(p, e) /\ UNCHANGED back
SLIST_REMOVE_AFTER(p) == next' = Unlink(p) /\ UNCHANGED back
SLIST_REMOVE(h, e) ==
  SLIST_REMOVE_AFTER(IF next[h] = e THEN h ELSE Predecessor(h, e))

STAILQ_INIT(h) ==
  next' = [next EXCEPT ![h] = NULL] /\ back' = [back EXCEPT ![h] = h]

\* Mutant: an element put behind the last one does not become the tail.
STAILQ_INSERT_keeps_tail(h, p, e) == next' = Link(p, e) /\ UNCHANGED back

STAILQ_INSERT(h, p, e) ==
  /\ next' = Link(p, e)
  /\ back' = IF next[p] = NULL THEN [back EXCEPT ![h] = e] ELSE back

STAILQ_INSERT_TAIL(h, e) ==
  /\ next' = [next EXCEPT ![e] = NULL, ![back[h]] = e]
  /\ back' = [back EXCEPT ![h] = e]

\* Mutant: the tail is not moved back when the last element goes.
STAILQ_REMOVE_AFTER_keeps_tail(h, p) == next' = Unlink(p) /\ UNCHANGED back

STAILQ_REMOVE_AFTER(h, p) ==
  /\ next' = Unlink(p)
  /\ back' = IF next[next[p]] = NULL THEN [back EXCEPT ![h] = p] ELSE back

STAILQ_REMOVE(h, e) ==
  STAILQ_REMOVE_AFTER(h, IF next[h] = e THEN h ELSE Predecessor(h, e))

STAILQ_CONCAT(h, k) ==
  IF next[k] = NULL THEN UNCHANGED links
  ELSE /\ next' = [next EXCEPT ![back[h]] = next[k], ![k] = NULL]
       /\ back' = [back EXCEPT ![h] = back[k], ![k] = k]

Exchanged(h, k) == [next EXCEPT ![h] = next[k], ![k] = next[h]]

STAILQ_SWAP(h, k) ==
  /\ next' = Exchanged(h, k)
  /\ back' = [back EXCEPT ![h] = IF next[k] = NULL THEN h ELSE back[k],
                          ![k] = IF next[h] = NULL THEN k ELSE back[h]]

STAILQ_LAST(h) == IF next[h] = NULL THEN NULL ELSE back[h]

-----------------------------------------------------------------------------
(* Lists                                                                   *)

\* if (x != NULL) x->prev = p.
Point(b, x, p) == IF x = NULL THEN b ELSE [b EXCEPT ![x] = p]

LIST_INSERT(p, e) ==
  /\ next' = Link(p, e)
  /\ back' = [Point(back, next[p], e) EXCEPT ![e] = p]

\* LIST_INSERT_BEFORE and TAILQ_INSERT_BEFORE.
INSERT_BEFORE(q, e) ==
  /\ next' = [next EXCEPT ![e] = q, ![back[q]] = e]
  /\ back' = [back EXCEPT ![e] = back[q], ![q] = e]

LIST_REMOVE(e) ==
  /\ next' = [next EXCEPT ![back[e]] = next[e], ![e] = NULL]
  /\ back' = [Point(back, next[e], back[e]) EXCEPT ![e] = NULL]

LIST_SWAP(h, k) ==
  /\ next' = Exchanged(h, k)
  /\ back' = Point(Point(back, next[k], h), next[h], k)

-----------------------------------------------------------------------------
(* Tail queues                                                             *)

\* The owner of the field that points back at p: the element after p, or the
\* head when p is the last place.
Follower(h, p) == IF next[p] = NULL THEN h ELSE next[p]

TAILQ_INSERT(h, p, e) ==
  /\ next' = Link(p, e)
  /\ back' = [back EXCEPT ![Follower(h, p)] = e, ![e] = p]

TAILQ_INSERT_TAIL(h, e) ==
  /\ next' = [next EXCEPT ![e] = NULL, ![back[h]] = e]
  /\ back' = [back EXCEPT ![e] = back[h], ![h] = e]

TAILQ_REMOVE(h, e) ==
  /\ next' = [next EXCEPT ![back[e]] = next[e], ![e] = NULL]
  /\ back' = [back EXCEPT ![Follower(h, e)] = back[e], ![e] = NULL]

\* Mutant: the first element of head2 keeps pointing back at head2.
TAILQ_CONCAT_as_STAILQ(h, k) == STAILQ_CONCAT(h, k)

TAILQ_CONCAT(h, k) ==
  IF next[k] = NULL THEN UNCHANGED links
  ELSE /\ next' = [next EXCEPT ![back[h]] = next[k], ![k] = NULL]
       /\ back' = [back EXCEPT ![next[k]] = back[h], ![h] = back[k], ![k] = k]

TAILQ_SWAP(h, k) ==
  /\ next' = Exchanged(h, k)
  /\ back' = [back EXCEPT ![h] = back[k], ![k] = back[h],
                          ![Follower(h, k)] = h, ![Follower(k, h)] = k]

\* The prev field lies where a head has its last field, so that one expression
\* serves for TAILQ_LAST of a head and TAILQ_PREV of an element.
TAILQ_PREV(p) == next[back[back[p]]]

-----------------------------------------------------------------------------
(* Circular queues: the links of the ends are the head itself, so that the *)
(* branches on "is it the head?" assign the one field back or next.        *)

CIRCLEQ_INIT(h) ==
  next' = [next EXCEPT ![h] = h] /\ back' = [back EXCEPT ![h] = h]

CIRCLEQ_INSERT_AFTER(p, e) ==
  /\ next' = Link(p, e)
  /\ back' = [back EXCEPT ![next[p]] = e, ![e] = p]

CIRCLEQ_INSERT_BEFORE(q, e) == INSERT_BEFORE(q, e)

CIRCLEQ_INSERT_HEAD(h, e) ==
  /\ next' = Link(h, e)
  /\ back' = [back EXCEPT ![e] = h, ![IF back[h] = h THEN h ELSE next[h]] = e]

CIRCLEQ_INSERT_TAIL(h, e) ==
  /\ next' = [next EXCEPT ![e] = h, ![IF next[h] = h THEN h ELSE back[h]] = e]
  /\ back' = [back EXCEPT ![e] = back[h], ![h] = e]

CIRCLEQ_REMOVE(e) ==
  /\ next' = [next EXCEPT ![back[e]] = next[e]]
  /\ back' = [back EXCEPT ![next[e]] = back[e]]

-----------------------------------------------------------------------------
(* The client: it initializes heads, puts on a queue what is on none, and  *)
(* takes off what is on one.                                               *)

\* Assignments to owner; the traversal goes on.
Own(o) ==
  /\ owner' = o
  /\ stayed' = {e \in stayed : o[e] = at}
  /\ UNCHANGED <<kind, walk>>

Gains(h, e) == owner[e] = NULL /\ Own([owner EXCEPT ![e] = h])

Running == loop # "none" /\ var # NULL

\* The body of a traversal may take off any element but the one the traversal
\* goes on from: that is var, or tvar in the _SAFE forms.
Loses(h, e) ==
  /\ owner[e] = h
  /\ ~ (Running /\ e = IF loop \in {"FOREACH", "FOREACH_REVERSE"} THEN var ELSE tvar)
  /\ Own([owner EXCEPT ![e] = NULL])

\* A head is initialized again, and its elements left where they are.
Clear(h) ==
  /\ ~Running
  /\ Own([e \in Elems |-> IF owner[e] = h THEN NULL ELSE owner[e]])
  /\ \/ kind \in {"SLIST", "LIST"} /\ SLIST_INIT(h)
     \/ kind \in {"STAILQ", "TAILQ"} /\ STAILQ_INIT(h)
     \/ kind = "CIRCLEQ" /\ CIRCLEQ_INIT(h)

InsertHead(h, e) ==
  /\ Gains(h, e)
  /\ \/ kind = "SLIST" /\ SLIST_INSERT(h, e)
     \/ kind = "STAILQ" /\ STAILQ_INSERT(h, h, e)
     \/ kind = "LIST" /\ LIST_INSERT(h, e)
     \/ kind = "TAILQ" /\ TAILQ_INSERT(h, h, e)
     \/ kind = "CIRCLEQ" /\ CIRCLEQ_INSERT_HEAD(h, e)

InsertTail(h, e) ==
  /\ Gains(h, e)
  /\ \/ kind = "STAILQ" /\ STAILQ_INSERT_TAIL(h, e)
     \/ kind = "TAILQ" /\ TAILQ_INSERT_TAIL(h, e)
     \/ kind = "CIRCLEQ" /\ CIRCLEQ_INSERT_TAIL(h, e)

InsertAfter(h, p, e) ==
  /\ owner[p] = h /\ Gains(h, e)
  /\ \/ kind = "SLIST" /\ SLIST_INSERT(p, e)
     \/ kind = "STAILQ" /\ STAILQ_INSERT(h, p, e)
     \/ kind = "LIST" /\ LIST_INSERT(p, e)
     \/ kind = "TAILQ" /\ TAILQ_INSERT(h, p, e)
     \/ kind = "CIRCLEQ" /\ CIRCLEQ_INSERT_AFTER(p, e)

InsertBefore(h, q, e) ==
  /\ owner[q] = h /\ Gains(h, e)
  /\ \/ kind \in {"LIST", "TAILQ"} /\ INSERT_BEFORE(q, e)
     \/ kind = "CIRCLEQ" /\ CIRCLEQ_INSERT_BEFORE(q, e)

RemoveElem(h, e) ==
  /\ Loses(h, e)
  /\ \/ kind = "SLIST" /\ SLIST_REMOVE(h, e)
     \/ kind = "STAILQ" /\ STAILQ_REMOVE(h, e)
     \/ kind = "LIST" /\ LIST_REMOVE(e)
     \/ kind = "TAILQ" /\ TAILQ_REMOVE(h, e)
     \/ kind = "CIRCLEQ" /\ CIRCLEQ_REMOVE(e)

\* SLIST_REMOVE_HEAD, STAILQ_REMOVE_HEAD.
RemoveHead(h) ==
  /\ next[h] \in Elems /\ Loses(h, next[h])
  /\ \/ kind = "SLIST" /\ SLIST_REMOVE_AFTER(h)
     \/ kind = "STAILQ" /\ STAILQ_REMOVE_AFTER(h, h)

RemoveAfter(h, p) ==
  /\ owner[p] = h /\ next[p] \in Elems /\ Loses(h, next[p])
  /\ \/ kind = "SLIST" /\ SLIST_REMOVE_AFTER(p)
     \/ kind = "STAILQ" /\ STAILQ_REMOVE_AFTER(h, p)

Concat(h, k) ==
  /\ h # k
  /\ Own([e \in Elems |-> IF owner[e] = k THEN h ELSE owner[e]])
  /\ \/ kind = "STAILQ" /\ STAILQ_CONCAT(h, k)
     \/ kind = "TAILQ" /\ TAILQ_CONCAT(h, k)

Swap(h, k) ==
  /\ h # k
  /\ Own([e \in Elems |-> CASE owner[e] = h -> k
                            [] owner[e] = k -> h
                            [] OTHER -> owner[e]])
  /\ \/ kind = "STAILQ" /\ STAILQ_SWAP(h, k)
     \/ kind = "LIST" /\ LIST_SWAP(h, k)
     \/ kind = "TAILQ" /\ TAILQ_SWAP(h, k)

-----------------------------------------------------------------------------
(* Traversals: the body is whatever the client does between two steps.     *)

Loops ==
  {"FOREACH"}
    \cup (IF kind # "CIRCLEQ" THEN {"FOREACH_SAFE"} ELSE {})
    \cup (IF kind \in {"TAILQ", "CIRCLEQ"} THEN {"FOREACH_REVERSE"} ELSE {})
    \cup (IF kind = "TAILQ" THEN {"FOREACH_REVERSE_SAFE"} ELSE {})

\* FIRST or LAST of a head, NEXT or PREV of an element.
Ahead(how, p) ==
  IF how \in {"FOREACH", "FOREACH_SAFE"} THEN next[p]
  ELSE IF kind = "CIRCLEQ" THEN back[p]
  ELSE TAILQ_PREV(p)

\* Mutant: the loop of a circular queue ends without resetting var.
Found_head(x) == x

\* var != (void *)(head) || (var = NULL).
Found(x) == IF x \in Heads THEN NULL ELSE x

\* var takes the value x, and tvar that of the next round.
Visit(how, x) ==
  /\ var' = Found(x)
  /\ tvar' = IF how \in {"FOREACH_SAFE", "FOREACH_REVERSE_SAFE"} /\ x # NULL
             THEN Ahead(how, x) ELSE NULL

Foreach(h, how) ==
  /\ ~Running /\ how \in Loops
  /\ loop' = how /\ at' = h
  /\ Visit(how, Ahead(how, h))
  /\ visited' = {} /\ stayed' = On(h)
  /\ UNCHANGED <<kind, links, owner>>

\* Mutant: the next element is read after the body, which may have taken var off.
Onward_rereads == IF loop = "FOREACH_REVERSE_SAFE" THEN tvar ELSE Ahead(loop, var)

Onward == IF loop \in {"FOREACH", "FOREACH_REVERSE"} THEN Ahead(loop, var) ELSE tvar

ForeachStep ==
  /\ Running
  /\ visited' = visited \cup {var}
  /\ Visit(loop, Onward)
  /\ UNCHANGED <<kind, links, owner, loop, at, stayed>>

-----------------------------------------------------------------------------
Kinds == {"SLIST", "STAILQ", "LIST", "TAILQ", "CIRCLEQ"}

Init ==
  /\ kind \in Kinds
  /\ next = [p \in Places |-> IF p \in Elems THEN Junk
                              ELSE IF kind = "CIRCLEQ" THEN p ELSE NULL]
  /\ back = [p \in Places |-> IF p \in Heads /\ kind \notin {"SLIST", "LIST"}
                              THEN p ELSE Junk]
  /\ owner = [e \in Elems |-> NULL]
  /\ loop = "none" /\ at \in Heads /\ var = NULL /\ tvar = NULL
  /\ visited = {} /\ stayed = {}

Next ==
  \/ \E h \in Heads : Clear(h) \/ RemoveHead(h)
  \/ \E h \in Heads, e \in Elems : InsertHead(h, e) \/ InsertTail(h, e) \/ RemoveElem(h, e)
  \/ \E h \in Heads, p, e \in Elems : InsertAfter(h, p, e) \/ InsertBefore(h, p, e)
  \/ \E h \in Heads, p \in Elems : RemoveAfter(h, p)
  \/ \E h, k \in Heads : Concat(h, k) \/ Swap(h, k)
  \/ \E h \in Heads, how \in Loops : Foreach(h, how)
  \/ ForeachStep

Spec == Init /\ [][Next]_vars

-----------------------------------------------------------------------------
(* Properties                                                              *)

\* The links a family has are places, NULL or not yet set, and a loop variable
\* is an element or NULL: also that of a circular queue, whose last element has
\* the head for its next.
TypeOK ==
  /\ kind \in Kinds
  /\ next \in [Places -> Places \cup {NULL, Junk}]
  /\ back \in [Places -> Places \cup {NULL, Junk}]
  /\ owner \in [Elems -> Heads \cup {NULL}]
  /\ at \in Heads /\ var \in Elems \cup {NULL} /\ tvar \in Elems \cup {NULL}
  /\ loop \in {"none", "FOREACH", "FOREACH_SAFE", "FOREACH_REVERSE", "FOREACH_REVERSE_SAFE"}
  /\ visited \subseteq Elems /\ stayed \subseteq Elems

\* The checks that QUEUE_MACRO_ASSERT compiles in.
CheckHead(h) == next[h] # NULL => back[next[h]] = h
CheckTail(h) == next[back[h]] = NULL
CheckNext(e) == next[e] # NULL => back[next[e]] = e
CheckPrev(e) == next[back[e]] = e

\* None of the checks of QMD_LIST_CHECK_* and QMD_TAILQ_CHECK_* can panic,
\* whichever queue and element the next macro is applied to.
ChecksPass ==
  kind \in {"LIST", "TAILQ"} =>
    /\ \A h \in Heads : CheckHead(h) /\ (kind = "TAILQ" => CheckTail(h))
    /\ \A e \in Elems : owner[e] # NULL => CheckNext(e) /\ CheckPrev(e)

\* The elements that follow each place, as far as the queue goes.
Following[n \in 0 .. Cardinality(Elems)] ==
  [p \in Places |->
    IF n = 0 \/ next[p] \notin Elems THEN <<>>
    ELSE <<next[p]>> \o Following[n - 1][next[p]]]

Chain(h) == Following[Cardinality(Elems)][h]

Preceding[n \in 0 .. Cardinality(Elems)] ==
  [p \in Places |->
    LET x == IF kind = "CIRCLEQ" THEN back[p] ELSE TAILQ_PREV(p)
    IN  IF n = 0 \/ x \notin Elems THEN <<>>
        ELSE Append(Preceding[n - 1][x], x)]

\* LAST and PREV see the queue that FIRST and NEXT see: the tail pointer of a
\* tail queue, the pun of TAILQ_PREV and the back links of a circular queue all
\* lead to the same elements in the opposite order.
EndsAgree ==
  \A h \in Heads :
    /\ kind = "STAILQ" => STAILQ_LAST(h) = IF Chain(h) = <<>> THEN NULL ELSE Last(Chain(h))
    /\ kind \in {"TAILQ", "CIRCLEQ"} => Preceding[Cardinality(Elems)][h] = Chain(h)

\* A traversal that has come to its end was at every element that was on the
\* queue all the time, though its body may have taken elements off, the current
\* one included where the macro is a _SAFE one, and put others on.
ForeachComplete == loop # "none" /\ var = NULL => stayed \subseteq visited

Sequences_ == INSTANCE Queues WITH queues <- [h \in Heads |-> Chain(h)]

\* Each macro does to the sequences what its name says.
CallsAgree ==
  /\ \A h \in Heads : /\ Clear(h) => Sequences_!Clear(h)
                      /\ RemoveHead(h) => Sequences_!RemoveHead(h)
  /\ \A h \in Heads, e \in Elems :
       /\ InsertHead(h, e) => Sequences_!InsertHead(h, e)
       /\ InsertTail(h, e) => Sequences_!InsertTail(h, e)
       /\ RemoveElem(h, e) => Sequences_!RemoveElem(h, e)
       /\ RemoveAfter(h, e) => Sequences_!RemoveAfter(h, e)
       /\ \A p \in Elems : /\ InsertAfter(h, p, e) => Sequences_!InsertAfter(h, p, e)
                           /\ InsertBefore(h, p, e) => Sequences_!InsertBefore(h, p, e)
  /\ \A h, k \in Heads : /\ Concat(h, k) => Sequences_!Concat(h, k)
                         /\ Swap(h, k) => Sequences_!Swap(h, k)

\* All five families implement the sequences, call by call.
RefinesQueues == Sequences_!Spec /\ [][CallsAgree]_vars
=============================================================================
