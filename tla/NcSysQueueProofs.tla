-------------------------- MODULE NcSysQueueProofs --------------------------
(***************************************************************************)
(* The links of the five queues are sound for any number of heads and      *)
(* elements, so that none of the checks of QUEUE_MACRO_ASSERT can panic:   *)
(* for that, Links says of each place only how it fits its neighbours.     *)
(* The links also spell a sequence (Row) for each head, on which every     *)
(* macro acts as its name says and along which every traversal goes; that  *)
(* makes the queues a refinement of Queues.                                *)
(***************************************************************************)
EXTENDS NcSysQueue, NatSets, FiniteSetTheorems, TLAPS

\* The queue a place belongs to.
Queue(p) == IF p \in Heads THEN p ELSE owner[p]
Listed(p) == p \in Places /\ Queue(p) # NULL

Types ==
  /\ kind \in Kinds
  /\ next \in [Places -> Places \cup {NULL, Junk}]
  /\ back \in [Places -> Places \cup {NULL, Junk}]
  /\ owner \in [Elems -> Heads \cup {NULL}]

Linear == {"SLIST", "STAILQ", "LIST", "TAILQ"}

NextLinks ==
  kind \in Linear =>
    \A p \in Places : Listed(p) /\ next[p] # NULL =>
                        next[p] \in Elems /\ owner[next[p]] = Queue(p)

\* Needed where there are no back links: an element has one predecessor.
Predecessors ==
  kind \in {"SLIST", "STAILQ"} =>
    /\ \A p, q \in Places :
         Listed(p) /\ Listed(q) /\ next[p] = next[q] /\ next[p] # NULL => p = q
    /\ \A e \in Elems : owner[e] # NULL => \E p \in Places : Queue(p) = owner[e] /\ next[p] = e

Tails ==
  kind \in {"STAILQ", "TAILQ"} =>
    /\ \A h \in Heads : back[h] \in Places /\ Queue(back[h]) = h /\ next[back[h]] = NULL
    /\ \A p \in Places : Listed(p) /\ next[p] = NULL => back[Queue(p)] = p

BackLinks ==
  kind \in {"LIST", "TAILQ"} =>
    /\ \A e \in Elems :
         owner[e] # NULL => back[e] \in Places /\ Queue(back[e]) = owner[e] /\ next[back[e]] = e
    /\ \A p \in Places : Listed(p) /\ next[p] # NULL => back[next[p]] = p

Ring ==
  kind = "CIRCLEQ" =>
    \A p \in Places : Listed(p) =>
      /\ next[p] \in Places /\ Queue(next[p]) = Queue(p) /\ back[next[p]] = p
      /\ back[p] \in Places /\ Queue(back[p]) = Queue(p) /\ next[back[p]] = p

Links == Types /\ NextLinks /\ Predecessors /\ Tails /\ BackLinks /\ Ring

USE DEF Places, Kinds, Linear, Queue, Listed

-----------------------------------------------------------------------------
(* Putting an element on a queue                                           *)

\* What an insertion does to everything but the links.
Puts(h, e) ==
  /\ h \in Heads /\ e \in Elems /\ owner[e] = NULL
  /\ owner' = [owner EXCEPT ![e] = h] /\ kind' = kind

LEMMA InsertSingly ==
  ASSUME Links, NEW h, NEW e, NEW p \in Places, Puts(h, e), Queue(p) = h,
         \/ kind = "SLIST" /\ SLIST_INSERT(p, e)
         \/ kind = "STAILQ" /\ STAILQ_INSERT(h, p, e)
  PROVE  Links'
<1> USE QueueAssumption DEF Puts
<1>1. Types'
  BY DEF Links, Types, SLIST_INSERT, STAILQ_INSERT, Link
<1>2. NextLinks'
  BY DEF Links, Types, SLIST_INSERT, STAILQ_INSERT, Link, NextLinks
<1>3. Predecessors'
  BY DEF Links, Types, SLIST_INSERT, STAILQ_INSERT, Link, NextLinks, Predecessors
<1>4. Tails'
  BY DEF Links, Types, SLIST_INSERT, STAILQ_INSERT, Link, NextLinks, Tails
<1>5. BackLinks' /\ Ring'
  BY DEF BackLinks, Ring
<1> QED
  BY <1>1, <1>2, <1>3, <1>4, <1>5 DEF Links

LEMMA InsertDoubly ==
  ASSUME Links, NEW h, NEW e, NEW p \in Places, Puts(h, e), Queue(p) = h,
         \/ kind = "LIST" /\ LIST_INSERT(p, e)
         \/ kind = "TAILQ" /\ TAILQ_INSERT(h, p, e)
  PROVE  Links'
<1> USE QueueAssumption DEF Puts
<1>1. Types'
  BY DEF Links, Types, NextLinks, LIST_INSERT, TAILQ_INSERT, Link, Point, Follower
<1>2. NextLinks'
  BY DEF Links, Types, NextLinks, LIST_INSERT, TAILQ_INSERT, Link
<1>3. Tails'
  BY DEF Links, Types, NextLinks, Tails, TAILQ_INSERT, Link, Follower
<1>4. BackLinks'
  BY DEF Links, Types, NextLinks, BackLinks, LIST_INSERT, TAILQ_INSERT, Link, Point, Follower
<1>5. Predecessors' /\ Ring'
  BY DEF Predecessors, Ring
<1> QED
  BY <1>1, <1>2, <1>3, <1>4, <1>5 DEF Links

LEMMA InsertRing ==
  ASSUME Links, NEW h, NEW e, NEW p \in Places, Puts(h, e), Queue(p) = h, kind = "CIRCLEQ",
         \/ p \in Elems /\ CIRCLEQ_INSERT_AFTER(p, e)
         \/ p \in Elems /\ CIRCLEQ_INSERT_BEFORE(p, e)
         \/ p = h /\ CIRCLEQ_INSERT_HEAD(h, e)
         \/ p = h /\ CIRCLEQ_INSERT_TAIL(h, e)
  PROVE  Links'
<1> USE QueueAssumption DEF Puts
<1>1. Types'
  BY DEF Links, Types, Ring, CIRCLEQ_INSERT_AFTER, CIRCLEQ_INSERT_BEFORE, INSERT_BEFORE,
         CIRCLEQ_INSERT_HEAD, CIRCLEQ_INSERT_TAIL, Link
<1>2. Ring'
  BY DEF Links, Types, Ring, CIRCLEQ_INSERT_AFTER, CIRCLEQ_INSERT_BEFORE, INSERT_BEFORE,
         CIRCLEQ_INSERT_HEAD, CIRCLEQ_INSERT_TAIL, Link
<1>3. NextLinks' /\ Predecessors' /\ Tails' /\ BackLinks'
  BY DEF NextLinks, Predecessors, Tails, BackLinks
<1> QED
  BY <1>1, <1>2, <1>3 DEF Links

LEMMA InsertBeforeDoubly ==
  ASSUME Links, NEW h, NEW e, NEW q \in Elems, Puts(h, e), owner[q] = h,
         kind \in {"LIST", "TAILQ"}, INSERT_BEFORE(q, e)
  PROVE  Links'
<1> USE QueueAssumption DEF Puts
<1>1. Types'
  BY DEF Links, Types, BackLinks, INSERT_BEFORE
<1>2. NextLinks'
  BY DEF Links, Types, NextLinks, BackLinks, INSERT_BEFORE
<1>3. Tails'
  BY DEF Links, Types, NextLinks, Tails, BackLinks, INSERT_BEFORE
<1>4. BackLinks'
  BY DEF Links, Types, NextLinks, BackLinks, INSERT_BEFORE
<1>5. Predecessors' /\ Ring'
  BY DEF Predecessors, Ring
<1> QED
  BY <1>1, <1>2, <1>3, <1>4, <1>5 DEF Links

LEMMA InsertTailLinks ==
  ASSUME Links, NEW h, NEW e, Puts(h, e),
         \/ kind = "STAILQ" /\ STAILQ_INSERT_TAIL(h, e)
         \/ kind = "TAILQ" /\ TAILQ_INSERT_TAIL(h, e)
  PROVE  Links'
<1> USE QueueAssumption DEF Puts
<1>1. Types'
  BY DEF Links, Types, Tails, STAILQ_INSERT_TAIL, TAILQ_INSERT_TAIL
<1>2. NextLinks'
  BY DEF Links, Types, NextLinks, Tails, STAILQ_INSERT_TAIL, TAILQ_INSERT_TAIL
<1>3. Predecessors'
  BY DEF Links, Types, NextLinks, Tails, Predecessors, STAILQ_INSERT_TAIL
<1>4. Tails'
  BY DEF Links, Types, NextLinks, Tails, STAILQ_INSERT_TAIL, TAILQ_INSERT_TAIL
<1>5. BackLinks'
  BY DEF Links, Types, NextLinks, Tails, BackLinks, TAILQ_INSERT_TAIL
<1>6. Ring'
  BY DEF Ring
<1> QED
  BY <1>1, <1>2, <1>3, <1>4, <1>5, <1>6 DEF Links

-----------------------------------------------------------------------------
(* Taking an element off a queue                                           *)

Takes(h, e) ==
  /\ h \in Heads /\ e \in Elems /\ owner[e] = h
  /\ owner' = [owner EXCEPT ![e] = NULL] /\ kind' = kind

LEMMA RemoveSingly ==
  ASSUME Links, NEW h, NEW p \in Places, Queue(p) = h, next[p] \in Elems, Takes(h, next[p]),
         \/ kind = "SLIST" /\ SLIST_REMOVE_AFTER(p)
         \/ kind = "STAILQ" /\ STAILQ_REMOVE_AFTER(h, p)
  PROVE  Links'
<1> USE QueueAssumption DEF Takes
<1>1. Types'
  BY DEF Links, Types, SLIST_REMOVE_AFTER, STAILQ_REMOVE_AFTER, Unlink
<1>2. NextLinks'
  BY DEF Links, Types, NextLinks, Predecessors, SLIST_REMOVE_AFTER, STAILQ_REMOVE_AFTER, Unlink
<1>3. Predecessors'
  BY DEF Links, Types, NextLinks, Predecessors, SLIST_REMOVE_AFTER, STAILQ_REMOVE_AFTER, Unlink
<1>4. Tails'
  BY DEF Links, Types, NextLinks, Predecessors, Tails, STAILQ_REMOVE_AFTER, Unlink
<1>5. BackLinks' /\ Ring'
  BY DEF BackLinks, Ring
<1> QED
  BY <1>1, <1>2, <1>3, <1>4, <1>5 DEF Links

\* The walk of SLIST_REMOVE and STAILQ_REMOVE finds the place before elm.
LEMMA PlaceBefore ==
  ASSUME Links, kind \in {"SLIST", "STAILQ"}, NEW h \in Heads, NEW e \in Elems, owner[e] = h,
         NEW p, p = IF next[h] = e THEN h ELSE Predecessor(h, e)
  PROVE  p \in Places /\ Queue(p) = h /\ next[p] = e
<1>1. CASE next[h] = e
  BY <1>1, QueueAssumption
<1>2. CASE next[h] # e
  <2>1. \E c \in On(h) : next[c] = e
    BY <1>2, QueueAssumption DEF Links, Types, Predecessors, On
  <2>2. p \in On(h) /\ next[p] = e
    BY <1>2, <2>1 DEF Predecessor
  <2> QED
    BY <2>2, QueueAssumption DEF On
<1> QED
  BY <1>1, <1>2

LEMMA RemoveDoubly ==
  ASSUME Links, NEW h, NEW e, Takes(h, e),
         \/ kind = "LIST" /\ LIST_REMOVE(e)
         \/ kind = "TAILQ" /\ TAILQ_REMOVE(h, e)
  PROVE  Links'
<1> USE QueueAssumption DEF Takes
<1>1. Types'
  BY DEF Links, Types, NextLinks, BackLinks, LIST_REMOVE, TAILQ_REMOVE, Point, Follower
<1>2. NextLinks'
  BY DEF Links, Types, NextLinks, BackLinks, LIST_REMOVE, TAILQ_REMOVE
<1>3. Tails'
  BY DEF Links, Types, NextLinks, Tails, BackLinks, TAILQ_REMOVE, Follower
<1>4. BackLinks'
  BY DEF Links, Types, NextLinks, BackLinks, LIST_REMOVE, TAILQ_REMOVE, Point, Follower
<1>5. Predecessors' /\ Ring'
  BY DEF Predecessors, Ring
<1> QED
  BY <1>1, <1>2, <1>3, <1>4, <1>5 DEF Links

LEMMA RemoveRing ==
  ASSUME Links, NEW h, NEW e, Takes(h, e), kind = "CIRCLEQ", CIRCLEQ_REMOVE(e)
  PROVE  Links'
<1> USE QueueAssumption DEF Takes
<1>1. Types'
  BY DEF Links, Types, Ring, CIRCLEQ_REMOVE
<1>2. Ring'
  BY DEF Links, Types, Ring, CIRCLEQ_REMOVE
<1>3. NextLinks' /\ Predecessors' /\ Tails' /\ BackLinks'
  BY DEF NextLinks, Predecessors, Tails, BackLinks
<1> QED
  BY <1>1, <1>2, <1>3 DEF Links

-----------------------------------------------------------------------------
(* Whole queues                                                            *)

LEMMA ClearLinks ==
  ASSUME Links, NEW h \in Heads, kind' = kind,
         owner' = [e \in Elems |-> IF owner[e] = h THEN NULL ELSE owner[e]],
         \/ kind \in {"SLIST", "LIST"} /\ SLIST_INIT(h)
         \/ kind \in {"STAILQ", "TAILQ"} /\ STAILQ_INIT(h)
         \/ kind = "CIRCLEQ" /\ CIRCLEQ_INIT(h)
  PROVE  Links'
<1> USE QueueAssumption DEF Links, Types, SLIST_INIT, STAILQ_INIT, CIRCLEQ_INIT
<1>1. Types'
  OBVIOUS
<1>2. NextLinks'
  BY DEF NextLinks
<1>3. Predecessors'
  <2> SUFFICES ASSUME kind \in {"SLIST", "STAILQ"}
               PROVE  Predecessors'
    BY DEF Predecessors
  <2>1. ASSUME NEW p \in Places, NEW q \in Places,
               Listed(p)', Listed(q)', next'[p] = next'[q], next'[p] # NULL
        PROVE  p = q
    BY <2>1 DEF NextLinks, Predecessors
  <2>2. ASSUME NEW e \in Elems, owner'[e] # NULL
        PROVE  \E p \in Places : Queue(p)' = owner'[e] /\ next'[p] = e
    <3>1. PICK p \in Places : Queue(p) = owner[e] /\ next[p] = e
      BY <2>2 DEF Predecessors
    <3>2. Queue(p)' = owner'[e] /\ next'[p] = e
      BY <2>2, <3>1
    <3> QED
      BY <3>2
  <2> QED
    BY <2>1, <2>2 DEF Predecessors
<1>4. Tails'
  BY DEF Tails
<1>5. BackLinks'
  BY DEF NextLinks, BackLinks
<1>6. Ring'
  BY DEF Ring
<1> QED
  BY <1>1, <1>2, <1>3, <1>4, <1>5, <1>6

LEMMA ConcatLinks ==
  ASSUME Links, NEW h \in Heads, NEW k \in Heads, h # k, kind' = kind,
         owner' = [e \in Elems |-> IF owner[e] = k THEN h ELSE owner[e]],
         \/ kind = "STAILQ" /\ STAILQ_CONCAT(h, k)
         \/ kind = "TAILQ" /\ TAILQ_CONCAT(h, k)
  PROVE  Links'
<1> USE QueueAssumption
<1>1. Types'
  BY DEF Links, Types, NextLinks, Tails, STAILQ_CONCAT, TAILQ_CONCAT, links
<1>2. NextLinks'
  BY DEF Links, Types, NextLinks, Tails, STAILQ_CONCAT, TAILQ_CONCAT, links
<1>3. Predecessors'
  <2> SUFFICES ASSUME kind = "STAILQ"
               PROVE  Predecessors'
    BY DEF Predecessors
  <2>1. ASSUME NEW p \in Places, NEW q \in Places,
               Listed(p)', Listed(q)', next'[p] = next'[q], next'[p] # NULL
        PROVE  p = q
    BY <2>1 DEF Links, Types, NextLinks, Predecessors, Tails, STAILQ_CONCAT, links
  <2>2. ASSUME NEW e \in Elems, owner'[e] # NULL
        PROVE  \E p \in Places : Queue(p)' = owner'[e] /\ next'[p] = e
    <3>1. PICK p \in Places : Queue(p) = owner[e] /\ next[p] = e
      BY <2>2 DEF Links, Types, Predecessors
    <3>2. CASE p = k
      <4>1. PICK q \in Places : q = back[h]
        BY DEF Links, Tails
      <4>2. Queue(q)' = owner'[e] /\ next'[q] = e
        BY <3>1, <3>2, <4>1 DEF Links, Types, NextLinks, Tails, STAILQ_CONCAT
      <4> QED
        BY <4>2
    <3>3. CASE p # k
      <4>1. Queue(p)' = owner'[e] /\ next'[p] = e
        BY <3>1, <3>3, <2>2 DEF Links, Types, NextLinks, Tails, STAILQ_CONCAT, links
      <4> QED
        BY <4>1
    <3> QED
      BY <3>2, <3>3
  <2> QED
    BY <2>1, <2>2 DEF Predecessors
<1>4. Tails'
  BY DEF Links, Types, NextLinks, Tails, STAILQ_CONCAT, TAILQ_CONCAT, links
<1>5. BackLinks'
  BY DEF Links, Types, NextLinks, Tails, BackLinks, TAILQ_CONCAT, links
<1>6. Ring'
  BY DEF Ring
<1> QED
  BY <1>1, <1>2, <1>3, <1>4, <1>5, <1>6 DEF Links

LEMMA SwapLinks ==
  ASSUME Links, NEW h \in Heads, NEW k \in Heads, h # k, kind' = kind,
         owner' = [e \in Elems |-> CASE owner[e] = h -> k
                                     [] owner[e] = k -> h
                                     [] OTHER -> owner[e]],
         \/ kind = "STAILQ" /\ STAILQ_SWAP(h, k)
         \/ kind = "LIST" /\ LIST_SWAP(h, k)
         \/ kind = "TAILQ" /\ TAILQ_SWAP(h, k)
  PROVE  Links'
<1> USE QueueAssumption DEF Exchanged
<1>1. Types'
  BY DEF Links, Types, NextLinks, STAILQ_SWAP, LIST_SWAP, TAILQ_SWAP, Point, Follower
<1>2. NextLinks'
  BY DEF Links, Types, NextLinks, STAILQ_SWAP, LIST_SWAP, TAILQ_SWAP
<1>3. Predecessors'
  <2> SUFFICES ASSUME kind = "STAILQ"
               PROVE  Predecessors'
    BY DEF Predecessors
  <2>1. ASSUME NEW p \in Places, NEW q \in Places,
               Listed(p)', Listed(q)', next'[p] = next'[q], next'[p] # NULL
        PROVE  p = q
    BY <2>1 DEF Links, Types, NextLinks, Predecessors, STAILQ_SWAP
  <2>2. ASSUME NEW e \in Elems, owner'[e] # NULL
        PROVE  \E p \in Places : Queue(p)' = owner'[e] /\ next'[p] = e
    <3>1. PICK p \in Places : Queue(p) = owner[e] /\ next[p] = e
      BY <2>2 DEF Links, Types, Predecessors
    <3> DEFINE r == IF p = h THEN k ELSE IF p = k THEN h ELSE p
    <3>2. r \in Places /\ Queue(r)' = owner'[e]
      BY <2>2, <3>1 DEF Links, Types
    <3>3. next'[r] = e
      BY <3>1 DEF Links, Types, STAILQ_SWAP
    <3> QED
      BY <3>2, <3>3
  <2> QED
    BY <2>1, <2>2 DEF Predecessors
<1>4. Tails'
  BY DEF Links, Types, NextLinks, Tails, STAILQ_SWAP, TAILQ_SWAP, Follower
<1>5. BackLinks'
  BY DEF Links, Types, NextLinks, BackLinks, LIST_SWAP, TAILQ_SWAP, Point, Follower
<1>6. Ring'
  BY DEF Ring
<1> QED
  BY <1>1, <1>2, <1>3, <1>4, <1>5, <1>6 DEF Links

-----------------------------------------------------------------------------
(* Steps                                                                   *)

LEMMA InitLinks == Init => Links
BY QueueAssumption
DEF Init, Links, Types, NextLinks, Predecessors, Tails, BackLinks, Ring

LEMMA NextStep ==
  ASSUME Links, Next
  PROVE  Links'
<1> USE QueueAssumption
<1>1. ASSUME NEW h \in Heads, Clear(h)
      PROVE  Links'
  BY <1>1, ClearLinks DEF Clear, Own
<1>2. ASSUME NEW h \in Heads, NEW p \in Places, Queue(p) = h, next[p] \in Elems,
             Loses(h, next[p]),
             \/ kind = "SLIST" /\ SLIST_REMOVE_AFTER(p)
             \/ kind = "STAILQ" /\ STAILQ_REMOVE_AFTER(h, p)
      PROVE  Links'
  <2>1. Takes(h, next[p])
    BY <1>2 DEF Takes, Loses, Own
  <2> QED
    BY <1>2, <2>1, RemoveSingly
<1>3. ASSUME NEW h \in Heads, RemoveHead(h)
      PROVE  Links'
  BY <1>2, <1>3 DEF RemoveHead
<1>4. ASSUME NEW h \in Heads, NEW p \in Elems, RemoveAfter(h, p)
      PROVE  Links'
  BY <1>2, <1>4 DEF RemoveAfter
<1>5. ASSUME NEW h \in Heads, NEW e \in Elems, RemoveElem(h, e)
      PROVE  Links'
  <2>1. Takes(h, e)
    BY <1>5 DEF RemoveElem, Takes, Loses, Own
  <2>2. CASE kind \in {"SLIST", "STAILQ"}
    <3>1. PICK p : p = IF next[h] = e THEN h ELSE Predecessor(h, e)
      OBVIOUS
    <3>2. p \in Places /\ Queue(p) = h /\ next[p] = e
      BY <2>1, <2>2, <3>1, PlaceBefore DEF Takes
    <3>3. \/ kind = "SLIST" /\ SLIST_REMOVE_AFTER(p)
          \/ kind = "STAILQ" /\ STAILQ_REMOVE_AFTER(h, p)
      BY <1>5, <2>2, <3>1 DEF RemoveElem, SLIST_REMOVE, STAILQ_REMOVE
    <3> QED
      BY <2>1, <3>2, <3>3, RemoveSingly
  <2>3. CASE kind \in {"LIST", "TAILQ"}
    BY <1>5, <2>1, <2>3, RemoveDoubly DEF RemoveElem
  <2>4. CASE kind = "CIRCLEQ"
    BY <1>5, <2>1, <2>4, RemoveRing DEF RemoveElem
  <2> QED
    BY <2>2, <2>3, <2>4 DEF Links, Types
<1>6. ASSUME NEW h \in Heads, NEW e \in Elems, InsertHead(h, e)
      PROVE  Links'
  <2>1. Puts(h, e)
    BY <1>6 DEF InsertHead, Puts, Gains, Own
  <2> QED
    BY <1>6, <2>1, InsertSingly, InsertDoubly, InsertRing DEF InsertHead
<1>7. ASSUME NEW h \in Heads, NEW e \in Elems, InsertTail(h, e)
      PROVE  Links'
  <2>1. Puts(h, e)
    BY <1>7 DEF InsertTail, Puts, Gains, Own
  <2> QED
    BY <1>7, <2>1, InsertTailLinks, InsertRing DEF InsertTail
<1>8. ASSUME NEW h \in Heads, NEW p \in Elems, NEW e \in Elems, InsertAfter(h, p, e)
      PROVE  Links'
  <2>1. Puts(h, e) /\ Queue(p) = h
    BY <1>8 DEF InsertAfter, Puts, Gains, Own
  <2> QED
    BY <1>8, <2>1, InsertSingly, InsertDoubly, InsertRing DEF InsertAfter
<1>9. ASSUME NEW h \in Heads, NEW p \in Elems, NEW e \in Elems, InsertBefore(h, p, e)
      PROVE  Links'
  <2>1. Puts(h, e) /\ Queue(p) = h
    BY <1>9 DEF InsertBefore, Puts, Gains, Own
  <2> QED
    BY <1>9, <2>1, InsertBeforeDoubly, InsertRing DEF InsertBefore
<1>10. ASSUME NEW h \in Heads, NEW k \in Heads, Concat(h, k)
       PROVE  Links'
  BY <1>10, ConcatLinks DEF Concat, Own
<1>11. ASSUME NEW h \in Heads, NEW k \in Heads, Swap(h, k)
       PROVE  Links'
  BY <1>11, SwapLinks DEF Swap, Own
<1>12. ASSUME UNCHANGED <<kind, links, owner>>
       PROVE  Links'
  BY <1>12 DEF links, Links, Types, NextLinks, Predecessors, Tails, BackLinks, Ring
<1> QED
  BY <1>1, <1>3, <1>4, <1>5, <1>6, <1>7, <1>8, <1>9, <1>10, <1>11, <1>12
  DEF Next, Foreach, ForeachStep

LEMMA LinksStuttering ==
  ASSUME Links, UNCHANGED vars
  PROVE  Links'
BY DEF vars, links, Links, Types, NextLinks, Predecessors, Tails, BackLinks, Ring

\* The links of every family stay sound: the neighbours of a place agree, the
\* tail pointer is that of the one place that nothing follows, and a circular
\* queue closes at its head.
THEOREM QueueLinks == Spec => []Links
BY InitLinks, NextStep, LinksStuttering, PTL DEF Spec

\* For any number of queues and elements, no check of QMD_LIST_CHECK_* or
\* QMD_TAILQ_CHECK_* finds a bad link.
THEOREM QueueChecksPass == Spec => []ChecksPass
<1>1. Links => ChecksPass
  BY QueueAssumption
  DEF Links, Types, NextLinks, Tails, BackLinks, ChecksPass, CheckHead, CheckTail, CheckNext, CheckPrev
<1> QED
  BY <1>1, QueueLinks, PTL

-----------------------------------------------------------------------------
(* Traversals                                                              *)

Plain == {"FOREACH", "FOREACH_REVERSE"}

\* While a traversal runs, the element it goes on from is on a queue.
WalkSound ==
  /\ at \in Heads /\ var \in Elems \cup {NULL} /\ tvar \in Elems \cup {NULL}
  /\ loop \in {"none", "FOREACH", "FOREACH_SAFE", "FOREACH_REVERSE", "FOREACH_REVERSE_SAFE"}
  /\ visited \subseteq Elems /\ stayed \subseteq Elems
  /\ Running =>
       /\ loop \in Loops
       /\ loop \in Plain => owner[var] # NULL
       /\ loop \notin Plain => tvar = NULL \/ owner[tvar] # NULL

LEMMA AheadOnQueue ==
  ASSUME Links, NEW how \in Loops, NEW p \in Places, Listed(p)
  PROVE  /\ Found(Ahead(how, p)) # NULL =>
              Found(Ahead(how, p)) \in Elems /\ owner[Found(Ahead(how, p))] # NULL
         /\ how \notin Plain => Found(Ahead(how, p)) = Ahead(how, p)
<1> USE QueueAssumption DEF Links, Types
<1>1. CASE kind = "CIRCLEQ"
  BY <1>1 DEF Loops, Ahead, Found, Ring, Plain
<1>2. CASE kind # "CIRCLEQ" /\ how \in {"FOREACH", "FOREACH_SAFE"}
  BY <1>2 DEF Ahead, Found, NextLinks
<1>3. CASE kind # "CIRCLEQ" /\ how \notin {"FOREACH", "FOREACH_SAFE"}
  <2>1. kind = "TAILQ" /\ Ahead(how, p) = next[back[back[p]]]
    BY <1>3 DEF Loops, Ahead, TAILQ_PREV
  <2>2. \A q \in Places : Listed(q) => Listed(back[q])
    BY <2>1 DEF Tails, BackLinks
  <2>3. Listed(back[back[p]])
    BY <2>2
  <2> QED
    BY <2>1, <2>3 DEF Found, NextLinks
<1> QED
  BY <1>1, <1>2, <1>3

LEMMA VisitSound ==
  ASSUME Links, NEW how \in Loops, NEW x \in Places \cup {NULL},
         Found(x) = NULL \/ owner[Found(x)] # NULL, how \notin Plain => Found(x) = x,
         Visit(how, x)
  PROVE  /\ var' \in Elems \cup {NULL} /\ tvar' \in Elems \cup {NULL}
         /\ var' = NULL \/ owner[var'] # NULL
         /\ how \notin Plain => tvar' = NULL \/ owner[tvar'] # NULL
<1> USE QueueAssumption
<1>1. /\ var' \in Elems \cup {NULL}
      /\ var' = NULL \/ owner[var'] # NULL
  BY DEF Visit, Found
<1>2. CASE how \in Plain \/ x = NULL
  BY <1>1, <1>2 DEF Visit, Plain
<1>3. CASE how \notin Plain /\ x # NULL
  <2>1. x \in Elems /\ owner[x] # NULL /\ tvar' = Ahead(how, x)
    BY <1>3 DEF Visit, Found, Plain, Loops
  <2>2. Found(Ahead(how, x)) = Ahead(how, x)
    BY <1>3, <2>1, AheadOnQueue
  <2>3. Ahead(how, x) # NULL => Ahead(how, x) \in Elems /\ owner[Ahead(how, x)] # NULL
    BY <2>1, <2>2, AheadOnQueue
  <2> QED
    BY <1>1, <2>1, <2>3
<1> QED
  BY <1>2, <1>3

\* The client leaves the traversal what it goes on from.
LEMMA ClientStep ==
  ASSUME Links, WalkSound, NEW o, Own(o),
         \A e \in Elems : owner[e] # NULL /\ o[e] = NULL =>
            ~ (Running /\ e = IF loop \in Plain THEN var ELSE tvar)
  PROVE  WalkSound'
BY QueueAssumption DEF Own, WalkSound, walk, Running, Loops, Plain

LEMMA NextWalk ==
  ASSUME Links, WalkSound, Next
  PROVE  WalkSound'
<1> USE QueueAssumption DEF Links, Types
<1>1. ASSUME NEW h \in Heads, Clear(h)
      PROVE  WalkSound'
  BY <1>1 DEF Clear, Own, WalkSound, walk, Running
<1>2. ASSUME NEW h \in Heads, NEW e \in Elems, Loses(h, e)
      PROVE  WalkSound'
  <2>1. Own([owner EXCEPT ![e] = NULL])
    BY <1>2 DEF Loses
  <2>2. ~ (Running /\ e = IF loop \in Plain THEN var ELSE tvar)
    BY <1>2 DEF Loses, Plain
  <2> QED
    BY <2>1, <2>2, ClientStep
<1>3. ASSUME NEW h \in Heads, NEW e \in Elems, Gains(h, e)
      PROVE  WalkSound'
  <2>1. Own([owner EXCEPT ![e] = h]) /\ owner[e] = NULL
    BY <1>3 DEF Gains
  <2> QED
    BY <2>1, ClientStep
<1>4. ASSUME NEW h \in Heads, NEW k \in Heads, Concat(h, k)
      PROVE  WalkSound'
  BY <1>4, ClientStep DEF Concat
<1>5. ASSUME NEW h \in Heads, NEW k \in Heads, Swap(h, k)
      PROVE  WalkSound'
  BY <1>5, ClientStep DEF Swap
<1>6. ASSUME NEW h \in Heads, NEW how \in Loops, Foreach(h, how)
      PROVE  WalkSound'
  <2>1. Found(Ahead(how, h)) = NULL \/ owner[Found(Ahead(how, h))] # NULL
    BY AheadOnQueue
  <2>2. Ahead(how, h) \in Places \cup {NULL}
    BY AheadOnQueue DEF Found
  <2>3. how \notin Plain => Found(Ahead(how, h)) = Ahead(how, h)
    BY AheadOnQueue
  <2>4. /\ var' \in Elems \cup {NULL} /\ tvar' \in Elems \cup {NULL}
        /\ var' = NULL \/ owner[var'] # NULL
        /\ how \notin Plain => tvar' = NULL \/ owner[tvar'] # NULL
    BY <1>6, <2>1, <2>2, <2>3, VisitSound DEF Foreach
  <2> QED
    BY <1>6, <2>4 DEF Foreach, WalkSound, Running, Loops, On, Plain
<1>7. ASSUME ForeachStep
      PROVE  WalkSound'
  <2> DEFINE x == Onward
  <2>1. Running /\ loop \in Loops /\ var \in Elems
    BY <1>7 DEF ForeachStep, WalkSound, Running
  <2>4. /\ Found(x) = NULL \/ owner[Found(x)] # NULL
        /\ x \in Places \cup {NULL} /\ (loop \notin Plain => Found(x) = x)
    <3>1. CASE loop \in Plain
      <4>1. x = Ahead(loop, var) /\ Listed(var)
        BY <2>1, <3>1 DEF Onward, Plain, WalkSound
      <4> QED
        BY <2>1, <3>1, <4>1, AheadOnQueue DEF Found
    <3>2. CASE loop \notin Plain
      BY <2>1, <3>2 DEF Onward, Plain, WalkSound, Found
    <3> QED
      BY <3>1, <3>2
  <2>5. Visit(loop, x)
    BY <1>7 DEF ForeachStep
  <2> HIDE DEF x
  <2>6. /\ var' \in Elems \cup {NULL} /\ tvar' \in Elems \cup {NULL}
        /\ var' = NULL \/ owner[var'] # NULL
        /\ loop \notin Plain => tvar' = NULL \/ owner[tvar'] # NULL
    BY <2>1, <2>4, <2>5, VisitSound
  <2> QED
    BY <1>7, <2>1, <2>6 DEF ForeachStep, WalkSound, Running, Loops
<1> QED
  BY <1>1, <1>2, <1>3, <1>4, <1>5, <1>6, <1>7
  DEF Next, RemoveHead, RemoveAfter, RemoveElem, InsertHead, InsertTail, InsertAfter, InsertBefore

\* Types hold in every family, those of the loop variables included: no
\* traversal follows a link that was trashed or never set.
THEOREM QueueTypeCorrect == Spec => []TypeOK
<1> DEFINE IInv == Links /\ WalkSound
<1>1. Init => IInv
  BY InitLinks, QueueAssumption DEF Init, WalkSound, Running
<1>2. IInv /\ [Next]_vars => IInv'
  <2>1. IInv /\ Next => IInv'
    BY NextStep, NextWalk
  <2>2. IInv /\ UNCHANGED vars => IInv'
    <3>1. WalkSound /\ UNCHANGED vars => WalkSound'
      BY DEF vars, walk, WalkSound, Running, Loops
    <3> QED
      BY <3>1, LinksStuttering
  <2> QED
    BY <2>1, <2>2
<1>3. IInv => TypeOK
  BY DEF TypeOK, Links, Types, WalkSound
<1> QED
  BY <1>1, <1>2, <1>3, PTL DEF Spec

-----------------------------------------------------------------------------
(* The sequence that a queue's links spell                                 *)

\* The place that position i of the sequence is: the head, then the elements.
Place(h, s, i) == IF i = 0 THEN h ELSE s[i]

\* What the last place of a queue has for its next.
Stop(h) == IF kind = "CIRCLEQ" THEN h ELSE NULL

\* The elements on h are those of s, each once, and next leads through them.
Row(h, s) ==
  /\ s \in Seq(Elems)
  /\ \A i, j \in 1 .. Len(s) : s[i] = s[j] => i = j
  /\ \A e \in Elems : owner[e] = h <=> \E i \in 1 .. Len(s) : s[i] = e
  /\ \A i \in 1 .. Len(s) : next[Place(h, s, i - 1)] = s[i]
  /\ next[Place(h, s, Len(s))] = Stop(h)

Rows(q) == q \in [Heads -> Seq(Elems)] /\ \A h \in Heads : Row(h, q[h])

\* Positions and places correspond.
LEMMA RowPlaces ==
  ASSUME Links, NEW h \in Heads, NEW s, Row(h, s)
  PROVE  /\ Len(s) \in Nat /\ DOMAIN s = 1 .. Len(s)
         /\ \A i \in 1 .. Len(s) : s[i] \in Elems /\ owner[s[i]] = h
         /\ \A i \in 0 .. Len(s) : Place(h, s, i) \in Places /\ Queue(Place(h, s, i)) = h
         /\ \A i, j \in 0 .. Len(s) : Place(h, s, i) = Place(h, s, j) => i = j
         /\ \A p \in Places : Queue(p) = h => \E i \in 0 .. Len(s) : Place(h, s, i) = p
<1>1. Len(s) \in Nat /\ DOMAIN s = 1 .. Len(s) /\ \A i \in 1 .. Len(s) : s[i] \in Elems
  BY DEF Row
<1>2. \A i \in 1 .. Len(s) : owner[s[i]] = h
  BY <1>1 DEF Row
<1>3. ASSUME NEW i \in 0 .. Len(s)
      PROVE  Place(h, s, i) \in Places /\ Queue(Place(h, s, i)) = h
  <2>1. CASE i = 0
    BY <2>1 DEF Place
  <2>2. CASE i # 0
    <3>1. i \in 1 .. Len(s)
      BY <1>1, <2>2
    <3> QED
      BY <1>1, <1>2, <2>2, <3>1, QueueAssumption DEF Place
  <2> QED
    BY <2>1, <2>2
<1>4. ASSUME NEW i \in 0 .. Len(s), NEW j \in 0 .. Len(s), Place(h, s, i) = Place(h, s, j)
      PROVE  i = j
  <2>1. \A k \in 1 .. Len(s) : s[k] # h
    BY <1>1, QueueAssumption
  <2>2. (i = 0 \/ i \in 1 .. Len(s)) /\ (j = 0 \/ j \in 1 .. Len(s))
    BY <1>1
  <2> QED
    BY <1>4, <2>1, <2>2 DEF Place, Row
<1>5. ASSUME NEW p \in Places, Queue(p) = h
      PROVE  \E i \in 0 .. Len(s) : Place(h, s, i) = p
  <2>1. CASE p \in Heads
    <3>1. p = h /\ 0 \in 0 .. Len(s) /\ Place(h, s, 0) = p
      BY <1>1, <1>5, <2>1 DEF Place
    <3> QED
      BY <3>1
  <2>2. CASE p \notin Heads
    <3>1. p \in Elems /\ owner[p] = h
      BY <1>5, <2>2
    <3>2. PICK i \in 1 .. Len(s) : s[i] = p
      BY <3>1 DEF Row
    <3>3. i \in 0 .. Len(s) /\ Place(h, s, i) = p
      BY <1>1, <3>2 DEF Place
    <3> QED
      BY <3>3
  <2> QED
    BY <2>1, <2>2
<1> QED
  BY <1>1, <1>2, <1>3, <1>4, <1>5

\* Where next, and the way back, lead from each position.
LEMMA RowNext ==
  ASSUME Links, NEW h \in Heads, NEW s, Row(h, s), NEW i \in 0 .. Len(s)
  PROVE  next[Place(h, s, i)] = IF i < Len(s) THEN s[i + 1] ELSE Stop(h)
<1>1. Len(s) \in Nat
  BY RowPlaces
<1>2. CASE i < Len(s)
  <2>1. i + 1 \in 1 .. Len(s) /\ i + 1 - 1 = i
    BY <1>1, <1>2
  <2>2. next[Place(h, s, i + 1 - 1)] = s[i + 1]
    BY <2>1 DEF Row
  <2> QED
    BY <1>2, <2>1, <2>2
<1>3. CASE ~(i < Len(s))
  <2>1. i = Len(s)
    BY <1>1, <1>3
  <2> QED
    BY <1>3, <2>1 DEF Row
<1> QED
  BY <1>2, <1>3

\* A sequence has no more than all the elements.
LEMMA RowLength ==
  ASSUME NEW h \in Heads, NEW s, Row(h, s)
  PROVE  Cardinality(Elems) \in Nat /\ Len(s) <= Cardinality(Elems)
<1> DEFINE S == {s[i] : i \in 1 .. Len(s)}
<1>1. Len(s) \in Nat /\ s \in [1 .. Len(s) -> Elems] /\ S \subseteq Elems
  BY DEF Row
<1>2. s \in Bijection(1 .. Len(s), S)
  BY <1>1 DEF Row, Bijection, Injection, Surjection, IsInjective
<1>3. IsFiniteSet(Elems) /\ Cardinality(Elems) \in Nat
  BY QueueAssumption, FS_CardinalityType
<1>4. Cardinality(S) = Len(s)
  BY <1>1, <1>2, FS_CountingElements DEF ExistsBijection
<1>5. Cardinality(S) <= Cardinality(Elems)
  BY <1>1, <1>3, FS_Subset
<1> QED
  BY <1>3, <1>4, <1>5

-----------------------------------------------------------------------------
(* What the macros do to the sequences                                     *)

\* e put behind position i, and the element at position i taken out.
Ins(s, i, e) ==
  [j \in 1 .. Len(s) + 1 |-> IF j <= i THEN s[j] ELSE IF j = i + 1 THEN e ELSE s[j - 1]]
Del(s, i) == [j \in 1 .. Len(s) - 1 |-> IF j < i THEN s[j] ELSE s[j + 1]]

\* What the two yield, and s \o u, position by position.
Inserted(t, S, s, i, e) ==
  /\ t \in Seq(S) /\ Len(t) = Len(s) + 1
  /\ \A j \in 1 .. Len(s) + 1 :
       t[j] = IF j <= i THEN s[j] ELSE IF j = i + 1 THEN e ELSE s[j - 1]
Deleted(t, S, s, i) ==
  /\ t \in Seq(S) /\ Len(t) = Len(s) - 1
  /\ \A j \in 1 .. Len(s) - 1 : t[j] = IF j < i THEN s[j] ELSE s[j + 1]
Joined(t, S, s, u) ==
  /\ t \in Seq(S) /\ Len(t) = Len(s) + Len(u) /\ Len(s) + Len(u) \in Nat
  /\ \A i \in 1 .. Len(s) : t[i] = s[i]
  /\ \A i \in 1 .. Len(u) : t[Len(s) + i] = u[i]
  /\ \A i \in 1 .. Len(s) + Len(u) :
       i \in 1 .. Len(s) \/ (i - Len(s) \in 1 .. Len(u) /\ Len(s) + (i - Len(s)) = i)

LEMMA InsProperties ==
  ASSUME NEW S, NEW s \in Seq(S), NEW i \in 0 .. Len(s), NEW e \in S
  PROVE  Inserted(Ins(s, i, e), S, s, i, e)
<1>1. Len(s) \in Nat /\ \A j \in 1 .. Len(s) : s[j] \in S
  OBVIOUS
<1>2. ASSUME NEW j \in 1 .. Len(s) + 1
      PROVE  (IF j <= i THEN s[j] ELSE IF j = i + 1 THEN e ELSE s[j - 1]) \in S
  <2>1. j <= i => j \in 1 .. Len(s)
    BY <1>1
  <2>2. ~(j <= i) /\ j # i + 1 => j - 1 \in 1 .. Len(s)
    BY <1>1
  <2> QED
    BY <1>1, <2>1, <2>2
<1>3. Ins(s, i, e) \in [1 .. Len(s) + 1 -> S]
  BY <1>2 DEF Ins
<1>4. Len(s) + 1 \in Nat
  BY <1>1
<1>5. \A j \in 1 .. Len(s) + 1 :
         Ins(s, i, e)[j] = IF j <= i THEN s[j] ELSE IF j = i + 1 THEN e ELSE s[j - 1]
  BY DEF Ins
<1>6. \A f, n : n \in Nat /\ f \in [1 .. n -> S] => f \in Seq(S) /\ Len(f) = n
  OBVIOUS
<1> QED
  <2>1. Ins(s, i, e) \in Seq(S) /\ Len(Ins(s, i, e)) = Len(s) + 1
    BY <1>3, <1>4, <1>6, Zenon
  <2> QED
    BY <1>5, <2>1, Zenon DEF Inserted

LEMMA DelProperties ==
  ASSUME NEW S, NEW s \in Seq(S), NEW i \in 1 .. Len(s)
  PROVE  Deleted(Del(s, i), S, s, i)
<1>1. Len(s) \in Nat /\ \A j \in 1 .. Len(s) : s[j] \in S
  OBVIOUS
<1>2. ASSUME NEW j \in 1 .. Len(s) - 1
      PROVE  (IF j < i THEN s[j] ELSE s[j + 1]) \in S
  <2>1. j \in 1 .. Len(s) /\ j + 1 \in 1 .. Len(s)
    BY <1>1
  <2> QED
    BY <1>1, <2>1
<1>3. Del(s, i) \in [1 .. Len(s) - 1 -> S]
  BY <1>2 DEF Del
<1>4. Len(s) - 1 \in Nat
  BY <1>1
<1>5. \A j \in 1 .. Len(s) - 1 : Del(s, i)[j] = IF j < i THEN s[j] ELSE s[j + 1]
  BY DEF Del
<1>6. \A f, n : n \in Nat /\ f \in [1 .. n -> S] => f \in Seq(S) /\ Len(f) = n
  OBVIOUS
<1> QED
  <2>1. Del(s, i) \in Seq(S) /\ Len(Del(s, i)) = Len(s) - 1
    BY <1>3, <1>4, <1>6, Zenon
  <2> QED
    BY <1>5, <2>1, Zenon DEF Deleted

\* A queue that a call leaves alone keeps its sequence.
LEMMA RowKept ==
  ASSUME Links, NEW g \in Heads, NEW s, Row(g, s), kind' = kind,
         \A e \in Elems : owner'[e] = g <=> owner[e] = g,
         \A p \in Places : Queue(p) = g => next'[p] = next[p]
  PROVE  Row(g, s)'
<1>1. Len(s) \in Nat
  BY RowPlaces
<1>2. \A i \in 0 .. Len(s) : next'[Place(g, s, i)] = next[Place(g, s, i)]
  BY RowPlaces
<1>3. \A i \in 1 .. Len(s) : i - 1 \in 0 .. Len(s)
  BY <1>1
<1>4. \A i \in 1 .. Len(s) : next'[Place(g, s, i - 1)] = s[i]
  BY <1>2, <1>3 DEF Row
<1>5. Len(s) \in 0 .. Len(s)
  BY <1>1
<1>6. next'[Place(g, s, Len(s))] = Stop(g)'
  BY <1>2, <1>5 DEF Row, Stop
<1> QED
  BY <1>4, <1>6 DEF Row, Place

\* To show a row, say where next leads from each position.
LEMMA RowIs ==
  ASSUME NEW h \in Heads, NEW s \in Seq(Elems), NEW n \in Nat, Len(s) = n,
         \A i, j \in 1 .. n : s[i] = s[j] => i = j,
         \A e \in Elems : owner'[e] = h <=> \E i \in 1 .. n : s[i] = e,
         \A i \in 0 .. n : next'[Place(h, s, i)] = IF i < n THEN s[i + 1] ELSE Stop(h)'
  PROVE  Row(h, s)'
<1>1. ASSUME NEW i \in 1 .. n PROVE next'[Place(h, s, i - 1)] = s[i]
  <2>1. i - 1 \in 0 .. n /\ i - 1 < n /\ i - 1 + 1 = i
    OBVIOUS
  <2> QED
    BY <2>1
<1>2. next'[Place(h, s, n)] = Stop(h)'
  OBVIOUS
<1> QED
  BY <1>1, <1>2 DEF Row, Place

LEMMA InsertRow ==
  ASSUME Links, NEW q, Rows(q), NEW h, NEW e, Puts(h, e), NEW i \in 0 .. Len(q[h]),
         next' = Link(Place(h, q[h], i), e)
  PROVE  Rows([q EXCEPT ![h] = Ins(q[h], i, e)])'
<1> DEFINE s == q[h]
           n == Len(s)
           t == Ins(s, i, e)
           r == [q EXCEPT ![h] = t]
           p == Place(h, s, i)
<1>1. h \in Heads /\ e \in Elems /\ owner[e] = NULL /\ h # NULL /\ kind' = kind
      /\ owner' = [owner EXCEPT ![e] = h]
  BY QueueAssumption DEF Puts
<1>2. Row(h, s) /\ s \in Seq(Elems) /\ n \in Nat
  BY <1>1, RowPlaces DEF Rows, Row
<1>3. /\ t \in Seq(Elems) /\ Len(t) = n + 1
      /\ \A j \in 1 .. n + 1 : t[j] = IF j <= i THEN s[j] ELSE IF j = i + 1 THEN e ELSE s[j - 1]
  <2>1. s \in Seq(Elems) /\ i \in 0 .. Len(s) /\ e \in Elems
    BY <1>1, <1>2
  <2> HIDE DEF s
  <2>2. Inserted(Ins(s, i, e), Elems, s, i, e)
    BY <2>1, InsProperties
  <2> QED
    BY <2>2, Zenon DEF Inserted
<1>4. /\ \A j \in 1 .. n : s[j] \in Elems /\ s[j] # e
      /\ \A j, k \in 1 .. n : s[j] = s[k] => j = k
      /\ \A x \in Elems : owner[x] = h <=> \E j \in 1 .. n : s[j] = x
  BY <1>1, <1>2, RowPlaces DEF Row
<1>5. /\ \A j \in 0 .. n : Place(h, s, j) \in Places /\ Queue(Place(h, s, j)) = h
      /\ \A j, k \in 0 .. n : Place(h, s, j) = Place(h, s, k) => j = k
      /\ \A j \in 0 .. n : next[Place(h, s, j)] = IF j < n THEN s[j + 1] ELSE Stop(h)
  BY <1>1, <1>2, RowPlaces, RowNext
<1>6. /\ p \in Places /\ p # e /\ e \in Places
      /\ \A x \in Places : next'[x] = IF x = e THEN next[p] ELSE IF x = p THEN e ELSE next[x]
  BY <1>1, <1>5, QueueAssumption DEF Link, Links, Types
<1>7. \A j \in 0 .. n : Place(h, s, j) # e
  BY <1>1, <1>5, QueueAssumption
<1> HIDE DEF s, n, t, p
<1>i. i \in Nat /\ i <= n
  BY <1>2 DEF s, n
<1>u. ASSUME NEW j \in 1 .. n + 1
      PROVE  \/ j <= i /\ j \in 1 .. n /\ t[j] = s[j]
             \/ j = i + 1 /\ t[j] = e
             \/ j > i + 1 /\ j - 1 \in 1 .. n /\ t[j] = s[j - 1]
  <2>1. \/ j <= i /\ j \in 1 .. n
        \/ j = i + 1 /\ ~(j <= i)
        \/ j > i + 1 /\ j - 1 \in 1 .. n /\ ~(j <= i) /\ j # i + 1
    BY <1>2, <1>i
  <2> QED
    BY <1>3, <2>1
<1>8. ASSUME NEW j \in 1 .. n + 1, NEW k \in 1 .. n + 1, t[j] = t[k] PROVE j = k
  <2>1. \/ j <= i /\ k <= i /\ j \in 1 .. n /\ k \in 1 .. n /\ s[j] = s[k]
        \/ j = i + 1 /\ k = i + 1
        \/ j <= i /\ k > i + 1 /\ j \in 1 .. n /\ k - 1 \in 1 .. n /\ s[j] = s[k - 1]
        \/ j > i + 1 /\ k <= i /\ j - 1 \in 1 .. n /\ k \in 1 .. n /\ s[j - 1] = s[k]
        \/ j > i + 1 /\ k > i + 1 /\ j - 1 \in 1 .. n /\ k - 1 \in 1 .. n /\ s[j - 1] = s[k - 1]
    BY <1>4, <1>8, <1>u
  <2>2. \/ j <= i /\ k <= i /\ j = k
        \/ j = i + 1 /\ k = i + 1
        \/ j <= i /\ k > i + 1 /\ j = k - 1
        \/ j > i + 1 /\ k <= i /\ j - 1 = k
        \/ j > i + 1 /\ k > i + 1 /\ j - 1 = k - 1
    BY <1>4, <2>1
  <2> QED
    BY <1>2, <1>i, <2>2
<1>9. ASSUME NEW x \in Elems PROVE owner'[x] = h <=> \E j \in 1 .. n + 1 : t[j] = x
  <2>1. \A j \in 1 .. n + 1 : t[j] = e \/ \E k \in 1 .. n : t[j] = s[k]
    BY <1>u
  <2>2. i + 1 \in 1 .. n + 1 /\ t[i + 1] = e
    BY <1>2, <1>3 DEF s, n
  <2>3. ASSUME NEW k \in 1 .. n PROVE \E j \in 1 .. n + 1 : t[j] = s[k]
    <3>1. CASE k <= i
      <4>1. k \in 1 .. n + 1 /\ t[k] = s[k]
        BY <1>2, <1>3, <3>1
      <4> QED
        BY <4>1
    <3>2. CASE ~(k <= i)
      <4>1. k + 1 \in 1 .. n + 1 /\ k + 1 - 1 = k /\ ~(k + 1 <= i) /\ k + 1 # i + 1
        BY <1>2, <3>2 DEF s, n
      <4>2. t[k + 1] = s[k]
        BY <1>3, <4>1
      <4> QED
        BY <4>1, <4>2
    <3> QED
      BY <3>1, <3>2
  <2>4. owner'[x] = IF x = e THEN h ELSE owner[x]
    BY <1>1 DEF Links, Types
  <2> QED
    BY <1>1, <1>4, <2>1, <2>2, <2>3, <2>4
<1>10. ASSUME NEW j \in 0 .. n + 1
       PROVE  next'[Place(h, t, j)] = IF j < n + 1 THEN t[j + 1] ELSE Stop(h)'
  <2>0. i \in Nat /\ i <= n
    BY <1>i
  <2>s. Stop(h)' = Stop(h)
    BY <1>1 DEF Stop
  <2>1. CASE j < i
    <3>1. j \in 0 .. n /\ i \in 0 .. n /\ j # i /\ (j = 0 \/ j \in 1 .. n + 1) /\ j + 1 \in 1 .. n + 1 /\ j + 1 <= i
      BY <1>2, <2>0, <2>1
    <3>2. Place(h, t, j) = Place(h, s, j) /\ t[j + 1] = s[j + 1]
      BY <1>3, <2>1, <3>1 DEF Place
    <3>3. Place(h, s, j) # p /\ Place(h, s, j) # e /\ Place(h, s, j) \in Places
      BY <1>5, <1>7, <3>1 DEF p
    <3>4. next'[Place(h, s, j)] = next[Place(h, s, j)]
      BY <1>6, <3>3
    <3>5. next[Place(h, s, j)] = s[j + 1]
      BY <1>2, <1>5, <2>0, <2>1, <3>1
    <3> QED
      BY <1>2, <2>0, <2>1, <3>2, <3>4, <3>5
  <2>2. CASE j = i
    <3>1. j \in 0 .. n /\ (j = 0 \/ j \in 1 .. n + 1) /\ j + 1 \in 1 .. n + 1 /\ ~(j + 1 <= i)
      BY <1>2, <2>0, <2>2
    <3>2. Place(h, t, j) = p /\ t[j + 1] = e
      BY <1>3, <2>2, <3>1 DEF Place, p
    <3>3. next'[p] = e
      BY <1>6
    <3> QED
      BY <1>2, <2>0, <2>2, <3>2, <3>3
  <2>3. CASE j = i + 1
    <3>1. j \in 1 .. n + 1 /\ ~(j <= i) /\ j # 0 /\ i \in 0 .. n
      BY <1>2, <2>0, <2>3
    <3>2. Place(h, t, j) = e
      BY <1>3, <2>3, <3>1 DEF Place
    <3>3. next'[e] = IF i < n THEN s[i + 1] ELSE Stop(h)
      BY <1>5, <1>6, <3>1 DEF p
    <3>4. i < n => t[j + 1] = s[i + 1]
      <4>1. i < n => j + 1 \in 1 .. n + 1 /\ ~(j + 1 <= i) /\ j + 1 # i + 1 /\ j + 1 - 1 = i + 1
        BY <1>2, <2>0, <2>3
      <4> QED
        BY <1>3, <4>1
    <3> QED
      BY <1>2, <2>0, <2>3, <2>s, <3>2, <3>3, <3>4
  <2>4. CASE j > i + 1
    <3>1. j \in 1 .. n + 1 /\ ~(j <= i) /\ j # i + 1 /\ j # 0 /\ j - 1 \in 0 .. n /\ j - 1 # 0 /\ j - 1 # i /\ i \in 0 .. n
      BY <1>2, <2>0, <2>4
    <3>2. Place(h, t, j) = Place(h, s, j - 1)
      BY <1>3, <3>1 DEF Place
    <3>3. Place(h, s, j - 1) # p /\ Place(h, s, j - 1) # e /\ Place(h, s, j - 1) \in Places
      BY <1>5, <1>7, <3>1 DEF p
    <3>4. next'[Place(h, s, j - 1)] = IF j - 1 < n THEN s[j - 1 + 1] ELSE Stop(h)
      BY <1>5, <1>6, <3>1, <3>3
    <3>5. j < n + 1 => t[j + 1] = s[j]
      <4>1. j < n + 1 => j + 1 \in 1 .. n + 1 /\ ~(j + 1 <= i) /\ j + 1 # i + 1 /\ j + 1 - 1 = j
        BY <1>2, <2>0, <2>4
      <4> QED
        BY <1>3, <4>1
    <3>6. j - 1 + 1 = j /\ (j - 1 < n <=> j < n + 1)
      BY <1>2
    <3> QED
      BY <2>s, <3>2, <3>4, <3>5, <3>6
  <2> QED
    BY <1>2, <2>0, <2>1, <2>2, <2>3, <2>4
<1>11. Row(h, t)'
  <2>1. n + 1 \in Nat
    BY <1>2
  <2> QED
    BY <1>1, <1>3, <1>8, <1>9, <1>10, <2>1, RowIs, SMTT(30)
<1>12. ASSUME NEW g \in Heads, g # h PROVE Row(g, q[g])'
  <2>1. Row(g, q[g])
    BY DEF Rows
  <2>2. \A x \in Elems : owner'[x] = g <=> owner[x] = g
    BY <1>1, <1>12, QueueAssumption DEF Links, Types
  <2>3. \A x \in Places : Queue(x) = g => next'[x] = next[x]
    <3>1. Queue(p) = h /\ Queue(e) = NULL /\ g # NULL
      BY <1>1, <1>5, <1>i, QueueAssumption DEF p
    <3> QED
      BY <1>6, <1>12, <3>1
  <2> QED
    BY <1>1, <2>1, <2>2, <2>3, RowKept
<1>13. r \in [Heads -> Seq(Elems)] /\ \A g \in Heads : r[g] = IF g = h THEN t ELSE q[g]
  BY <1>1, <1>3 DEF Rows
<1>14. Rows(r)'
  <2> HIDE DEF r
  <2> QED
    BY <1>11, <1>12, <1>13 DEF Rows
<1> QED
  BY <1>14 DEF r, t, s

LEMMA RemoveRow ==
  ASSUME Links, NEW q, Rows(q), NEW h, NEW e, Takes(h, e),
         NEW i \in 1 .. Len(q[h]), q[h][i] = e,
         \A x \in Places \ {e} :
            next'[x] = IF x = Place(h, q[h], i - 1) THEN next[e] ELSE next[x]
  PROVE  Rows([q EXCEPT ![h] = Del(q[h], i)])'
<1> DEFINE s == q[h]
           n == Len(s)
           t == Del(s, i)
           r == [q EXCEPT ![h] = t]
           p == Place(h, s, i - 1)
<1>1. h \in Heads /\ e \in Elems /\ owner[e] = h /\ h # NULL /\ kind' = kind
      /\ owner' = [owner EXCEPT ![e] = NULL]
  BY QueueAssumption DEF Takes
<1>2. Row(h, s) /\ s \in Seq(Elems) /\ n \in Nat
  BY <1>1, RowPlaces DEF Rows, Row
<1>i. i \in Nat /\ 1 <= i /\ i <= n /\ n - 1 \in Nat
  BY <1>2
<1>3. /\ t \in Seq(Elems) /\ Len(t) = n - 1
      /\ \A j \in 1 .. n - 1 : t[j] = IF j < i THEN s[j] ELSE s[j + 1]
  <2>1. s \in Seq(Elems) /\ i \in 1 .. Len(s)
    BY <1>2
  <2> HIDE DEF s
  <2>2. Deleted(Del(s, i), Elems, s, i)
    BY <2>1, DelProperties
  <2> QED
    BY <2>2, Zenon DEF Deleted
<1>4. /\ \A j \in 1 .. n : s[j] \in Elems
      /\ \A j, k \in 1 .. n : s[j] = s[k] => j = k
      /\ \A x \in Elems : owner[x] = h <=> \E j \in 1 .. n : s[j] = x
      /\ s[i] = e
  BY <1>1, <1>2, RowPlaces DEF Row
<1>5. /\ \A j \in 0 .. n : Place(h, s, j) \in Places /\ Queue(Place(h, s, j)) = h
      /\ \A j, k \in 0 .. n : Place(h, s, j) = Place(h, s, k) => j = k
      /\ \A j \in 0 .. n : next[Place(h, s, j)] = IF j < n THEN s[j + 1] ELSE Stop(h)
  BY <1>1, <1>2, RowPlaces, RowNext
<1>e. Place(h, s, i) = e /\ i \in 0 .. n /\ i - 1 \in 0 .. n
  BY <1>i, <1>4 DEF Place
<1>6. \A x \in Places : x # e => next'[x] = IF x = p THEN next[e] ELSE next[x]
  OBVIOUS
<1> HIDE DEF s, n, t, p
<1>u. ASSUME NEW j \in 1 .. n - 1
      PROVE  \/ j < i /\ j \in 1 .. n /\ t[j] = s[j]
             \/ j >= i /\ j + 1 \in 1 .. n /\ t[j] = s[j + 1]
  <2>1. \/ j < i /\ j \in 1 .. n
        \/ ~(j < i) /\ j >= i /\ j + 1 \in 1 .. n
    BY <1>2, <1>i
  <2> QED
    BY <1>3, <2>1
<1>8. ASSUME NEW j \in 1 .. n - 1, NEW k \in 1 .. n - 1, t[j] = t[k] PROVE j = k
  <2>1. \/ j < i /\ k < i /\ j \in 1 .. n /\ k \in 1 .. n /\ s[j] = s[k]
        \/ j < i /\ k >= i /\ j \in 1 .. n /\ k + 1 \in 1 .. n /\ s[j] = s[k + 1]
        \/ j >= i /\ k < i /\ j + 1 \in 1 .. n /\ k \in 1 .. n /\ s[j + 1] = s[k]
        \/ j >= i /\ k >= i /\ j + 1 \in 1 .. n /\ k + 1 \in 1 .. n /\ s[j + 1] = s[k + 1]
    BY <1>8, <1>u
  <2>2. \/ j < i /\ k < i /\ j = k
        \/ j < i /\ k >= i /\ j = k + 1
        \/ j >= i /\ k < i /\ j + 1 = k
        \/ j >= i /\ k >= i /\ j + 1 = k + 1
    BY <1>4, <2>1
  <2> QED
    BY <1>2, <1>i, <2>2
<1>9. ASSUME NEW x \in Elems PROVE owner'[x] = h <=> \E j \in 1 .. n - 1 : t[j] = x
  <2>1. ASSUME NEW j \in 1 .. n - 1 PROVE t[j] # e /\ \E k \in 1 .. n : t[j] = s[k]
    <3>1. PICK k \in 1 .. n : k # i /\ t[j] = s[k]
      <4>1. CASE j < i
        BY <1>i, <1>u, <4>1
      <4>2. CASE j >= i
        <5>1. j + 1 \in 1 .. n /\ j + 1 # i /\ t[j] = s[j + 1]
          BY <1>i, <1>u, <4>2
        <5> QED
          BY <5>1
      <4> QED
        BY <1>i, <4>1, <4>2
    <3>2. i \in 1 .. n
      BY <1>2, <1>i
    <3> QED
      BY <1>4, <3>1, <3>2
  <2>2. ASSUME NEW k \in 1 .. n, k # i PROVE \E j \in 1 .. n - 1 : t[j] = s[k]
    <3>1. CASE k < i
      <4>1. k \in 1 .. n - 1 /\ t[k] = s[k]
        <5>1. k \in 1 .. n - 1
          BY <1>2, <1>i, <3>1
        <5> QED
          BY <1>3, <3>1, <5>1
      <4> QED
        BY <4>1
    <3>2. CASE ~(k < i)
      <4>1. k - 1 \in 1 .. n - 1 /\ k - 1 + 1 = k /\ ~(k - 1 < i)
        BY <1>2, <1>i, <2>2, <3>2
      <4>2. t[k - 1] = s[k]
        BY <1>3, <4>1
      <4> QED
        BY <4>1, <4>2
    <3> QED
      BY <3>1, <3>2
  <2>3. owner'[x] = IF x = e THEN NULL ELSE owner[x]
    BY <1>1 DEF Links, Types
  <2> QED
    BY <1>1, <1>4, <2>1, <2>2, <2>3
<1>10. ASSUME NEW j \in 0 .. n - 1
       PROVE  next'[Place(h, t, j)] = IF j < n - 1 THEN t[j + 1] ELSE Stop(h)'
  <2>s. Stop(h)' = Stop(h)
    BY <1>1 DEF Stop
  <2>1. CASE j < i - 1
    <3>1. /\ j \in 0 .. n /\ j # i - 1 /\ j # i /\ (j = 0 \/ (j \in 1 .. n - 1 /\ j < i))
          /\ j + 1 \in 1 .. n - 1 /\ j + 1 < i /\ j < n - 1 /\ j < n
      BY <1>2, <1>i, <2>1
    <3>2. Place(h, t, j) = Place(h, s, j) /\ t[j + 1] = s[j + 1]
      BY <1>3, <3>1 DEF Place
    <3>3. Place(h, s, j) # p /\ Place(h, s, j) # e /\ Place(h, s, j) \in Places
      BY <1>5, <1>e, <3>1 DEF p
    <3>4. next'[Place(h, s, j)] = next[Place(h, s, j)]
      BY <1>6, <3>3
    <3>5. next[Place(h, s, j)] = s[j + 1]
      BY <1>5, <3>1
    <3> QED
      BY <3>1, <3>2, <3>4, <3>5
  <2>2. CASE j = i - 1
    <3>1. /\ j \in 0 .. n /\ j # i /\ (j = 0 \/ (j \in 1 .. n - 1 /\ j < i))
          /\ j + 1 = i /\ (j < n - 1 <=> i < n)
      BY <1>2, <1>i, <2>2
    <3>2. Place(h, t, j) = p
      BY <1>3, <2>2, <3>1 DEF Place, p
    <3>3. p # e /\ p \in Places
      BY <1>5, <1>e, <2>2, <3>1 DEF p
    <3>4. next'[p] = next[e]
      BY <1>6, <3>3
    <3>5. next[e] = IF i < n THEN s[i + 1] ELSE Stop(h)
      BY <1>5, <1>e
    <3>6. i < n => t[i] = s[i + 1]
      <4>1. i < n => i \in 1 .. n - 1 /\ ~(i < i)
        BY <1>2, <1>i
      <4> QED
        BY <1>3, <4>1
    <3> QED
      BY <2>s, <3>1, <3>2, <3>4, <3>5, <3>6
  <2>3. CASE j >= i
    <3>1. /\ j \in 1 .. n - 1 /\ ~(j < i) /\ j # 0 /\ j + 1 # 0 /\ j + 1 # i /\ j + 1 # i - 1
          /\ j + 1 \in 0 .. n /\ (j < n - 1 <=> j + 1 < n)
      BY <1>2, <1>i, <2>3
    <3>2. Place(h, t, j) = Place(h, s, j + 1)
      BY <1>3, <3>1 DEF Place
    <3>3. Place(h, s, j + 1) # p /\ Place(h, s, j + 1) # e /\ Place(h, s, j + 1) \in Places
      BY <1>5, <1>e, <3>1 DEF p
    <3>4. next'[Place(h, s, j + 1)] = next[Place(h, s, j + 1)]
      BY <1>6, <3>3
    <3>5. next[Place(h, s, j + 1)] = IF j + 1 < n THEN s[j + 1 + 1] ELSE Stop(h)
      BY <1>5, <3>1
    <3>6. j < n - 1 => t[j + 1] = s[j + 1 + 1]
      <4>1. j < n - 1 => j + 1 \in 1 .. n - 1 /\ ~(j + 1 < i)
        BY <1>2, <1>i, <2>3
      <4> QED
        BY <1>3, <4>1
    <3> QED
      BY <2>s, <3>1, <3>2, <3>4, <3>5, <3>6
  <2> QED
    BY <1>2, <1>i, <2>1, <2>2, <2>3
<1>11. Row(h, t)'
  <2> DEFINE m == n - 1
  <2>1. m \in Nat /\ t \in Seq(Elems) /\ Len(t) = m
    BY <1>3, <1>i
  <2>2. /\ \A j, k \in 1 .. m : t[j] = t[k] => j = k
        /\ \A x \in Elems : owner'[x] = h <=> \E j \in 1 .. m : t[j] = x
        /\ \A j \in 0 .. m : next'[Place(h, t, j)] = IF j < m THEN t[j + 1] ELSE Stop(h)'
    BY <1>8, <1>9, <1>10
  <2> HIDE DEF m
  <2> QED
    BY <1>1, <2>1, <2>2, RowIs
<1>12. ASSUME NEW g \in Heads, g # h PROVE Row(g, q[g])'
  <2>1. Row(g, q[g])
    BY DEF Rows
  <2>2. \A x \in Elems : owner'[x] = g <=> owner[x] = g
    BY <1>1, <1>12, QueueAssumption DEF Links, Types
  <2>3. \A x \in Places : Queue(x) = g => next'[x] = next[x]
    <3>1. Queue(p) = h /\ Queue(e) = h
      BY <1>1, <1>5, <1>e, QueueAssumption DEF p
    <3> QED
      BY <1>6, <1>12, <3>1
  <2> QED
    BY <1>1, <2>1, <2>2, <2>3, RowKept
<1>13. r \in [Heads -> Seq(Elems)] /\ \A g \in Heads : r[g] = IF g = h THEN t ELSE q[g]
  BY <1>1, <1>3 DEF Rows
<1>14. Rows(r)'
  <2> HIDE DEF r
  <2> QED
    BY <1>11, <1>12, <1>13 DEF Rows
<1> QED
  BY <1>14 DEF r, t, s

LEMMA ClearRow ==
  ASSUME Links, NEW q, Rows(q), NEW h \in Heads, kind' = kind,
         owner' = [e \in Elems |-> IF owner[e] = h THEN NULL ELSE owner[e]],
         next' = [next EXCEPT ![h] = Stop(h)]
  PROVE  Rows([q EXCEPT ![h] = <<>>])'
<1> DEFINE r == [q EXCEPT ![h] = <<>>]
<1>1. Row(h, <<>>)'
  <2>1. next'[h] = Stop(h)'
    BY DEF Links, Types, Stop
  <2>2. \A e \in Elems : owner'[e] # h
    BY QueueAssumption
  <2> QED
    BY <2>1, <2>2 DEF Row, Place
<1>2. ASSUME NEW g \in Heads, g # h PROVE Row(g, q[g])'
  <2>1. Row(g, q[g])
    BY DEF Rows
  <2>2. \A e \in Elems : owner'[e] = g <=> owner[e] = g
    BY <1>2, QueueAssumption DEF Links, Types
  <2>3. \A p \in Places : Queue(p) = g => next'[p] = next[p]
    BY <1>2, QueueAssumption DEF Links, Types
  <2> QED
    BY <2>1, <2>2, <2>3, RowKept
<1>3. r \in [Heads -> Seq(Elems)] /\ \A g \in Heads : r[g] = IF g = h THEN <<>> ELSE q[g]
  BY DEF Rows
<1>4. Rows(r)'
  <2> HIDE DEF r
  <2> QED
    BY <1>1, <1>2, <1>3 DEF Rows
<1> QED
  BY <1>4 DEF r

\* Two sequences on one another's heads.
LEMMA SwapRow ==
  ASSUME Links, NEW q, Rows(q), NEW h \in Heads, NEW k \in Heads, h # k, kind' = kind,
         kind # "CIRCLEQ",
         owner' = [e \in Elems |-> CASE owner[e] = h -> k
                                     [] owner[e] = k -> h
                                     [] OTHER -> owner[e]],
         next' = Exchanged(h, k)
  PROVE  Rows([q EXCEPT ![h] = q[k], ![k] = q[h]])'
<1> DEFINE r == [q EXCEPT ![h] = q[k], ![k] = q[h]]
<1>1. ASSUME NEW a \in Heads, NEW b \in Heads, a # b, {a, b} = {h, k}
      PROVE  Row(a, q[b])'
  <2> DEFINE s == q[b]
             n == Len(s)
  <2>1. Row(b, s) /\ s \in Seq(Elems) /\ n \in Nat
    BY RowPlaces DEF Rows, Row
  <2>2. /\ \A i \in 1 .. n : s[i] \in Elems
        /\ \A i, j \in 1 .. n : s[i] = s[j] => i = j
        /\ \A x \in Elems : owner[x] = b <=> \E i \in 1 .. n : s[i] = x
    BY <2>1, RowPlaces DEF Row
  <2>3. \A i \in 0 .. n : next[Place(b, s, i)] = IF i < n THEN s[i + 1] ELSE Stop(b)
    BY <2>1, RowNext
  <2>4. /\ Stop(b) = NULL /\ Stop(a)' = NULL
        /\ next'[a] = next[b]
        /\ \A x \in Elems : next'[x] = next[x]
        /\ \A x \in Elems : owner'[x] = a <=> owner[x] = b
    BY <1>1, QueueAssumption DEF Stop, Exchanged, Links, Types
  <2> HIDE DEF s, n
  <2>5. ASSUME NEW i \in 0 .. n
        PROVE  next'[Place(a, s, i)] = IF i < n THEN s[i + 1] ELSE Stop(a)'
    <3>1. CASE i = 0
      BY <2>3, <2>4, <3>1 DEF Place
    <3>2. CASE i # 0
      <4>1. i \in 1 .. n
        BY <2>1, <3>2
      <4> QED
        BY <2>2, <2>3, <2>4, <3>2, <4>1 DEF Place
    <3> QED
      BY <3>1, <3>2
  <2>6. Len(s) = n /\ \A x \in Elems : owner'[x] = a <=> \E i \in 1 .. n : s[i] = x
    BY <2>2, <2>4 DEF n
  <2>7. Row(a, s)'
    BY <2>1, <2>2, <2>5, <2>6, RowIs
  <2> QED
    BY <2>7 DEF s
<1>2. ASSUME NEW g \in Heads, g # h, g # k PROVE Row(g, q[g])'
  <2>1. Row(g, q[g])
    BY DEF Rows
  <2>2. \A e \in Elems : owner'[e] = g <=> owner[e] = g
    BY <1>2, QueueAssumption DEF Links, Types
  <2>3. \A p \in Places : Queue(p) = g => next'[p] = next[p]
    BY <1>2, QueueAssumption DEF Links, Types, Exchanged
  <2> QED
    BY <2>1, <2>2, <2>3, RowKept
<1>3. /\ r \in [Heads -> Seq(Elems)]
      /\ \A g \in Heads : r[g] = IF g = h THEN q[k] ELSE IF g = k THEN q[h] ELSE q[g]
  BY DEF Rows
<1>4. Row(h, q[k])' /\ Row(k, q[h])'
  BY <1>1
<1>5. Rows(r)'
  <2> HIDE DEF r
  <2> QED
    BY <1>2, <1>3, <1>4 DEF Rows
<1> QED
  BY <1>5 DEF r

LEMMA CatProperties ==
  ASSUME NEW S, NEW s \in Seq(S), NEW u \in Seq(S)
  PROVE  Joined(s \o u, S, s, u)
<1>1. s \o u \in Seq(S) /\ Len(s \o u) = Len(s) + Len(u) /\ Len(s) + Len(u) \in Nat
  OBVIOUS
<1>2. \A i \in 1 .. Len(s) : (s \o u)[i] = s[i]
  OBVIOUS
<1>3. \A i \in 1 .. Len(u) : (s \o u)[Len(s) + i] = u[i]
  OBVIOUS
<1>4. \A i \in 1 .. Len(s) + Len(u) :
         i \in 1 .. Len(s) \/ (i - Len(s) \in 1 .. Len(u) /\ Len(s) + (i - Len(s)) = i)
  <2>1. Len(s) \in Nat /\ Len(u) \in Nat
    OBVIOUS
  <2> QED
    BY <2>1
<1> QED
  BY <1>1, <1>2, <1>3, <1>4, Zenon DEF Joined

\* What STAILQ_CONCAT and TAILQ_CONCAT do to everything but the back links.
Joins(h, k) ==
  /\ kind \in {"STAILQ", "TAILQ"} /\ kind' = kind
  /\ owner' = [e \in Elems |-> IF owner[e] = k THEN h ELSE owner[e]]
  /\ next' = [next EXCEPT ![back[h]] = next[k], ![k] = NULL]

\* The second sequence behind the first.
LEMMA ConcatRow ==
  ASSUME Links, NEW q, Rows(q), NEW h \in Heads, NEW k \in Heads, h # k, Joins(h, k)
  PROVE  Rows([q EXCEPT ![h] = q[h] \o q[k], ![k] = <<>>])'
<1> DEFINE r == [q EXCEPT ![h] = q[h] \o q[k], ![k] = <<>>]
           s == q[h]
           u == q[k]
           t == s \o u
           n == Len(s)
           m == Len(u)
<1>1. /\ Row(h, s) /\ s \in Seq(Elems) /\ n \in Nat
      /\ Row(k, u) /\ u \in Seq(Elems) /\ m \in Nat
  BY RowPlaces DEF Rows, Row
<1>2. /\ \A i \in 1 .. n : s[i] \in Elems
      /\ \A i, j \in 1 .. n : s[i] = s[j] => i = j
      /\ \A x \in Elems : owner[x] = h <=> \E i \in 1 .. n : s[i] = x
      /\ \A i \in 0 .. n : Place(h, s, i) \in Places /\ Queue(Place(h, s, i)) = h
      /\ \A i, j \in 0 .. n : Place(h, s, i) = Place(h, s, j) => i = j
  BY <1>1, RowPlaces DEF Row
<1>3. /\ \A i \in 1 .. m : u[i] \in Elems
      /\ \A i, j \in 1 .. m : u[i] = u[j] => i = j
      /\ \A x \in Elems : owner[x] = k <=> \E i \in 1 .. m : u[i] = x
      /\ \A i \in 0 .. m : Place(k, u, i) \in Places /\ Queue(Place(k, u, i)) = k
  BY <1>1, RowPlaces DEF Row
<1>4. /\ \A i \in 0 .. n : next[Place(h, s, i)] = IF i < n THEN s[i + 1] ELSE NULL
      /\ \A i \in 0 .. m : next[Place(k, u, i)] = IF i < m THEN u[i + 1] ELSE NULL
  <2>1. Stop(h) = NULL /\ Stop(k) = NULL
    BY DEF Stop, Joins
  <2> QED
    BY <1>1, <2>1, RowNext
<1>5. back[h] = Place(h, s, n)
  <2>1. n \in 0 .. n /\ ~(n < n)
    BY <1>1
  <2>2. Listed(Place(h, s, n)) /\ next[Place(h, s, n)] = NULL
    BY <1>2, <1>4, <2>1, QueueAssumption
  <2> QED
    BY <1>2, <2>1, <2>2 DEF Links, Tails, Joins
<1>6. /\ t \in Seq(Elems) /\ Len(t) = n + m /\ n + m \in Nat
      /\ \A i \in 1 .. n : t[i] = s[i]
      /\ \A i \in 1 .. m : t[n + i] = u[i]
      /\ \A i \in 1 .. n + m : i \in 1 .. n \/ (i - n \in 1 .. m /\ n + (i - n) = i)
  <2>1. s \in Seq(Elems) /\ u \in Seq(Elems)
    BY <1>1
  <2> HIDE DEF s, u
  <2>2. Joined(s \o u, Elems, s, u)
    BY <2>1, CatProperties
  <2> QED
    BY <2>2, Zenon DEF Joined
<1> HIDE DEF s, u, t, n, m
<1>7. /\ next'[k] = NULL
      /\ next'[back[h]] = next[k]
      /\ \A x \in Places : x # k /\ x # back[h] => next'[x] = next[x]
  <2>1. back[h] \in Places /\ back[h] # k
    BY <1>1, <1>2, <1>5
  <2> QED
    BY <2>1 DEF Links, Types, Joins
<1>8. ASSUME NEW i \in 1 .. n + m, NEW j \in 1 .. n + m, t[i] = t[j] PROVE i = j
  <2>1. \A a \in 1 .. n, b \in 1 .. m : s[a] # u[b]
    <3>1. \A a \in 1 .. n, b \in 1 .. m : owner[s[a]] = h /\ owner[u[b]] = k
      BY <1>2, <1>3
    <3> QED
      BY <3>1
  <2>2. \/ i \in 1 .. n /\ t[i] = s[i]
        \/ i - n \in 1 .. m /\ n + (i - n) = i /\ t[i] = u[i - n]
    BY <1>6
  <2>3. \/ j \in 1 .. n /\ t[j] = s[j]
        \/ j - n \in 1 .. m /\ n + (j - n) = j /\ t[j] = u[j - n]
    BY <1>6
  <2>4. i = j \/ i - n = j - n
    BY <1>2, <1>3, <1>8, <2>1, <2>2, <2>3
  <2> QED
    BY <1>1, <2>4
<1>9. ASSUME NEW x \in Elems PROVE owner'[x] = h <=> \E i \in 1 .. n + m : t[i] = x
  <2>1. owner'[x] = h <=> owner[x] = h \/ owner[x] = k
    BY QueueAssumption DEF Joins
  <2>2. ASSUME NEW i \in 1 .. n + m, t[i] = x
        PROVE  (\E a \in 1 .. n : s[a] = x) \/ (\E b \in 1 .. m : u[b] = x)
    BY <1>6, <2>2
  <2>3. ASSUME NEW a \in 1 .. n PROVE a \in 1 .. n + m /\ t[a] = s[a]
    BY <1>1, <1>6
  <2>4. ASSUME NEW b \in 1 .. m PROVE n + b \in 1 .. n + m /\ t[n + b] = u[b]
    BY <1>1, <1>6
  <2> QED
    BY <1>2, <1>3, <2>1, <2>2, <2>3, <2>4
<1>10. ASSUME NEW i \in 0 .. n + m
       PROVE  next'[Place(h, t, i)] = IF i < n + m THEN t[i + 1] ELSE Stop(h)'
  <2>s. Stop(h)' = NULL
    BY DEF Stop, Joins
  <2>1. CASE i < n
    <3>1. /\ i \in 0 .. n /\ n \in 0 .. n /\ i # n /\ (i = 0 \/ i \in 1 .. n)
          /\ i + 1 \in 1 .. n /\ i < n + m
      BY <1>1, <2>1
    <3>2. Place(h, t, i) = Place(h, s, i) /\ t[i + 1] = s[i + 1]
      BY <1>6, <3>1 DEF Place
    <3>3. Place(h, s, i) # back[h] /\ Place(h, s, i) # k /\ Place(h, s, i) \in Places
      BY <1>2, <1>5, <3>1
    <3>4. next'[Place(h, s, i)] = next[Place(h, s, i)]
      BY <1>7, <3>3
    <3> QED
      BY <1>4, <2>1, <3>1, <3>2, <3>4
  <2>2. CASE i = n
    <3>1. n = 0 \/ n \in 1 .. n
      BY <1>1
    <3>2. Place(h, t, i) = back[h]
      BY <1>5, <1>6, <2>2, <3>1 DEF Place
    <3>3. next'[back[h]] = IF 0 < m THEN u[0 + 1] ELSE NULL
      <4>1. 0 \in 0 .. m /\ Place(k, u, 0) = k
        BY <1>1 DEF Place
      <4> QED
        BY <1>4, <1>7, <4>1
    <3>4. /\ n < n + m <=> 0 < m
          /\ 0 < m => 1 \in 1 .. m
      BY <1>1
    <3> QED
      BY <1>6, <2>s, <2>2, <3>2, <3>3, <3>4
  <2>3. CASE i > n
    <3>1. /\ i - n \in 1 .. m /\ i - n \in 0 .. m /\ n + (i - n) = i /\ i # 0 /\ i - n # 0
          /\ (i < n + m <=> i - n < m)
      BY <1>1, <2>3
    <3>2. Place(h, t, i) = u[i - n] /\ Place(k, u, i - n) = u[i - n]
      BY <1>6, <3>1 DEF Place
    <3>3. u[i - n] \in Places /\ u[i - n] # k /\ u[i - n] # back[h]
      <4>1. u[i - n] \in Elems /\ owner[u[i - n]] = k
        BY <1>3, <3>1
      <4>2. n \in 0 .. n
        BY <1>1
      <4>3. back[h] \in Places /\ Queue(back[h]) = h
        BY <1>2, <1>5, <4>2
      <4> QED
        BY <4>1, <4>3, QueueAssumption
    <3>4. next'[u[i - n]] = IF i - n < m THEN u[i - n + 1] ELSE NULL
      BY <1>4, <1>7, <3>1, <3>2, <3>3
    <3>5. i < n + m => t[i + 1] = u[i - n + 1]
      <4>1. i < n + m => i - n + 1 \in 1 .. m /\ n + (i - n + 1) = i + 1
        BY <1>1, <2>3
      <4> QED
        BY <1>6, <4>1
    <3> QED
      BY <2>s, <3>1, <3>2, <3>4, <3>5
  <2> QED
    BY <1>1, <2>1, <2>2, <2>3
<1>11. Row(h, t)'
  <2> DEFINE l == n + m
  <2>1. l \in Nat /\ t \in Seq(Elems) /\ Len(t) = l
    BY <1>6
  <2>2. /\ \A i, j \in 1 .. l : t[i] = t[j] => i = j
        /\ \A x \in Elems : owner'[x] = h <=> \E i \in 1 .. l : t[i] = x
        /\ \A i \in 0 .. l : next'[Place(h, t, i)] = IF i < l THEN t[i + 1] ELSE Stop(h)'
    BY <1>8, <1>9, <1>10
  <2> HIDE DEF l
  <2> QED
    BY <2>1, <2>2, RowIs
<1>12. Row(k, <<>>)'
  <2>1. \A e \in Elems : owner'[e] # k
    BY QueueAssumption DEF Joins
  <2>2. next'[k] = Stop(k)'
    BY <1>7 DEF Stop, Joins
  <2> QED
    BY <2>1, <2>2 DEF Row, Place
<1>13. ASSUME NEW g \in Heads, g # h, g # k PROVE Row(g, q[g])'
  <2>1. Row(g, q[g])
    BY DEF Rows
  <2>2. \A e \in Elems : owner'[e] = g <=> owner[e] = g
    BY <1>13, QueueAssumption DEF Joins
  <2>3. \A p \in Places : Queue(p) = g => next'[p] = next[p]
    <3>1. n \in 0 .. n
      BY <1>1
    <3>2. Queue(back[h]) = h
      BY <1>2, <1>5, <3>1
    <3> QED
      BY <1>7, <1>13, <3>2
  <2> QED
    BY <2>1, <2>2, <2>3, RowKept DEF Joins
<1>14. /\ r \in [Heads -> Seq(Elems)]
       /\ \A g \in Heads : r[g] = IF g = h THEN t ELSE IF g = k THEN <<>> ELSE q[g]
  <2>1. t \in Seq(Elems) /\ <<>> \in Seq(Elems)
    BY <1>6
  <2> QED
    BY <2>1 DEF Rows, t, s, u
<1>15. Rows(r)'
  <2> HIDE DEF r
  <2> QED
    BY <1>11, <1>12, <1>13, <1>14 DEF Rows
<1> QED
  BY <1>15 DEF r

\* Where the back links lead, in the families that have them.
LEMMA RowBack ==
  ASSUME Links, NEW h \in Heads, NEW s, Row(h, s)
  PROVE  /\ kind \in {"LIST", "TAILQ", "CIRCLEQ"} =>
              \A i \in 1 .. Len(s) : back[s[i]] = Place(h, s, i - 1)
         /\ kind \in {"STAILQ", "TAILQ", "CIRCLEQ"} => back[h] = Place(h, s, Len(s))
<1>1. /\ Len(s) \in Nat
      /\ \A i \in 0 .. Len(s) : Place(h, s, i) \in Places /\ Queue(Place(h, s, i)) = h
      /\ \A i \in 0 .. Len(s) : Listed(Place(h, s, i))
      /\ \A i \in 1 .. Len(s) : s[i] \in Elems
  BY RowPlaces, QueueAssumption
<1>2. ASSUME NEW i \in 1 .. Len(s), kind \in {"LIST", "TAILQ", "CIRCLEQ"}
      PROVE  back[s[i]] = Place(h, s, i - 1)
  <2>1. i - 1 \in 0 .. Len(s) /\ s[i] # NULL
    BY <1>1, QueueAssumption
  <2>2. next[Place(h, s, i - 1)] = s[i]
    BY DEF Row
  <2>3. Listed(Place(h, s, i - 1)) /\ Place(h, s, i - 1) \in Places
    BY <1>1, <2>1
  <2> QED
    BY <1>2, <2>1, <2>2, <2>3 DEF Links, BackLinks, Ring
<1>3. ASSUME kind \in {"STAILQ", "TAILQ", "CIRCLEQ"}
      PROVE  back[h] = Place(h, s, Len(s))
  <2>1. Len(s) \in 0 .. Len(s)
    BY <1>1
  <2>2. /\ Listed(Place(h, s, Len(s))) /\ Place(h, s, Len(s)) \in Places
        /\ Queue(Place(h, s, Len(s))) = h
    BY <1>1, <2>1
  <2>3. next[Place(h, s, Len(s))] = Stop(h)
    BY DEF Row
  <2> QED
    BY <1>3, <2>2, <2>3 DEF Links, Tails, Ring, Stop
<1> QED
  BY <1>2, <1>3

\* Every insertion links its element behind some position.
LEMMA Inserts ==
  ASSUME Links, NEW q, Rows(q), NEW h \in Heads, NEW e \in Elems, NEW i \in 0 .. Len(q[h]),
         \/ i = 0 /\ InsertHead(h, e)
         \/ i = Len(q[h]) /\ InsertTail(h, e)
         \/ i # 0 /\ InsertAfter(h, q[h][i], e)
         \/ i # Len(q[h]) /\ InsertBefore(h, q[h][i + 1], e)
  PROVE  Rows([q EXCEPT ![h] = Ins(q[h], i, e)])'
<1> DEFINE s == q[h]
           p == Place(h, s, i)
<1>1. Row(h, s) /\ Len(s) \in Nat
  BY RowPlaces DEF Rows
<1>2. Puts(h, e)
  BY DEF InsertHead, InsertTail, InsertAfter, InsertBefore, Gains, Own, Puts
<1>3. p \in Places /\ Queue(p) = h /\ p # e
  <2>1. p \in Places /\ Queue(p) = h
    BY <1>1, RowPlaces
  <2> QED
    BY <1>2, <2>1, QueueAssumption DEF Puts
<1>4. next[p] = IF i < Len(s) THEN s[i + 1] ELSE Stop(h)
  BY <1>1, RowNext
<1> HIDE DEF p
<1>5. next' = Link(p, e)
  <2>1. CASE i = 0 /\ InsertHead(h, e)
    <3>1. p = h
      BY <2>1 DEF Place, p
    <3> QED
      BY <2>1, <3>1 DEF InsertHead, SLIST_INSERT, STAILQ_INSERT, LIST_INSERT, TAILQ_INSERT,
                        CIRCLEQ_INSERT_HEAD
  <2>2. CASE i = Len(s) /\ InsertTail(h, e)
    <3>1. kind \in {"STAILQ", "TAILQ", "CIRCLEQ"} => p = back[h]
      BY <1>1, <2>2, RowBack DEF p
    <3>2. next[p] = Stop(h)
      BY <1>1, <1>4, <2>2
    <3>3. CASE kind \in {"STAILQ", "TAILQ"}
      <4>1. next' = [next EXCEPT ![e] = NULL, ![p] = e]
        BY <2>2, <3>1, <3>3 DEF InsertTail, STAILQ_INSERT_TAIL, TAILQ_INSERT_TAIL
      <4> QED
        BY <3>2, <3>3, <4>1 DEF Link, Stop
    <3>4. CASE kind = "CIRCLEQ"
      <4>1. (IF next[h] = h THEN h ELSE back[h]) = p
        <5>1. CASE next[h] = h
          BY <3>1, <3>4, <5>1, QueueAssumption DEF Links, Ring
        <5>2. CASE next[h] # h
          BY <3>1, <3>4, <5>2
        <5> QED
          BY <5>1, <5>2
      <4>2. next' = [next EXCEPT ![e] = h, ![p] = e]
        BY <2>2, <3>4, <4>1 DEF InsertTail, CIRCLEQ_INSERT_TAIL
      <4> QED
        BY <3>2, <3>4, <4>2 DEF Link, Stop
    <3> QED
      BY <2>2, <3>3, <3>4 DEF InsertTail
  <2>3. CASE i # 0 /\ InsertAfter(h, s[i], e)
    <3>1. p = s[i]
      BY <2>3 DEF Place, p
    <3> QED
      BY <2>3, <3>1 DEF InsertAfter, SLIST_INSERT, STAILQ_INSERT, LIST_INSERT, TAILQ_INSERT,
                        CIRCLEQ_INSERT_AFTER
  <2>4. CASE i # Len(s) /\ InsertBefore(h, s[i + 1], e)
    <3>1. i + 1 \in 1 .. Len(s) /\ i + 1 - 1 = i /\ i < Len(s)
      BY <1>1, <2>4
    <3>2. kind \in {"LIST", "TAILQ", "CIRCLEQ"}
      BY <2>4 DEF InsertBefore
    <3>3. back[s[i + 1]] = p
      BY <1>1, <3>1, <3>2, RowBack DEF p
    <3>4. next[p] = s[i + 1]
      BY <1>4, <3>1
    <3>5. next' = [next EXCEPT ![e] = s[i + 1], ![p] = e]
      BY <2>4, <3>3 DEF InsertBefore, CIRCLEQ_INSERT_BEFORE, INSERT_BEFORE
    <3> QED
      BY <3>4, <3>5 DEF Link
  <2> QED
    BY <2>1, <2>2, <2>3, <2>4
<1> QED
  BY <1>2, <1>5, InsertRow DEF p

\* Every removal makes the place before the element go on behind it.
LEMMA Removes ==
  ASSUME Links, NEW q, Rows(q), NEW h \in Heads, NEW i \in 1 .. Len(q[h]),
         \/ RemoveElem(h, q[h][i])
         \/ i = 1 /\ RemoveHead(h)
         \/ i # 1 /\ RemoveAfter(h, q[h][i - 1])
  PROVE  Rows([q EXCEPT ![h] = Del(q[h], i)])'
<1> DEFINE s == q[h]
           e == s[i]
           p == Place(h, s, i - 1)
<1>1. /\ Row(h, s) /\ Len(s) \in Nat
      /\ \A j, k \in 0 .. Len(s) : Place(h, s, j) = Place(h, s, k) => j = k
      /\ \A j \in 0 .. Len(s) : Place(h, s, j) \in Places /\ Queue(Place(h, s, j)) = h
      /\ \A x \in Places : Queue(x) = h => \E j \in 0 .. Len(s) : Place(h, s, j) = x
      /\ e \in Elems
  BY RowPlaces DEF Rows
<1>i. i \in Nat /\ i - 1 \in 0 .. Len(s) /\ i - 1 < Len(s) /\ i - 1 + 1 = i
  BY <1>1
<1>2. next[p] = e /\ p \in Places /\ Queue(p) = h
  BY <1>1, <1>i DEF Row
<1>3. /\ i = 1 => p = h
      /\ i # 1 => p = s[i - 1]
  BY <1>i DEF Place
<1>4. \A x \in Places : Queue(x) = h /\ next[x] = e => x = p
  <2> SUFFICES ASSUME NEW j \in 0 .. Len(s), next[Place(h, s, j)] = e PROVE j = i - 1
    BY <1>1
  <2>1. next[Place(h, s, j)] = IF j < Len(s) THEN s[j + 1] ELSE Stop(h)
    BY <1>1, RowNext
  <2>2. j < Len(s)
    BY <1>1, <2>1, QueueAssumption DEF Stop
  <2>3. j + 1 \in 1 .. Len(s) /\ s[j + 1] = s[i]
    BY <1>1, <2>1, <2>2
  <2>4. j + 1 = i
    BY <1>1, <2>3 DEF Row
  <2> QED
    BY <1>i, <2>4
<1>5. kind \in {"LIST", "TAILQ", "CIRCLEQ"} => back[e] = p
  BY <1>1, RowBack
<1> HIDE DEF p, e
<1>6. Takes(h, e)
  <2>1. CASE RemoveElem(h, e)
    BY <1>1, <2>1 DEF RemoveElem, Loses, Own, Takes
  <2>2. CASE i = 1 /\ RemoveHead(h)
    <3>1. next[h] = e
      BY <1>2, <1>3, <2>2
    <3> QED
      BY <1>1, <2>2, <3>1 DEF RemoveHead, Loses, Own, Takes
  <2>3. CASE i # 1 /\ RemoveAfter(h, s[i - 1])
    <3>1. next[s[i - 1]] = e
      BY <1>2, <1>3, <2>3
    <3> QED
      BY <1>1, <2>3, <3>1 DEF RemoveAfter, Loses, Own, Takes
  <2> QED
    BY <2>1, <2>2, <2>3 DEF e
<1>7. \A x \in Places \ {e} : next'[x] = IF x = p THEN next[e] ELSE next[x]
  <2>n. next \in [Places -> Places \cup {NULL, Junk}] /\ p \in Places /\ e \in Places
    BY <1>1, <1>2 DEF Links, Types
  <2>1. ASSUME next' = Unlink(p)
        PROVE  \A x \in Places \ {e} : next'[x] = IF x = p THEN next[e] ELSE next[x]
    BY <1>2, <2>1, <2>n DEF Unlink
  <2>2. CASE kind \in {"SLIST", "STAILQ"} /\ RemoveElem(h, e)
    <3>1. PICK x : x = IF next[h] = e THEN h ELSE Predecessor(h, e)
      OBVIOUS
    <3>2. x \in Places /\ Queue(x) = h /\ next[x] = e
      BY <1>6, <2>2, <3>1, PlaceBefore DEF Takes
    <3>3. x = p
      BY <1>4, <3>2
    <3>4. next' = Unlink(p)
      BY <2>2, <3>1, <3>3
      DEF RemoveElem, SLIST_REMOVE, STAILQ_REMOVE, SLIST_REMOVE_AFTER, STAILQ_REMOVE_AFTER
    <3> QED
      BY <2>1, <3>4
  <2>3. CASE kind \in {"LIST", "TAILQ", "CIRCLEQ"} /\ RemoveElem(h, e)
    <3>1. \/ next' = [next EXCEPT ![p] = next[e], ![e] = NULL]
          \/ next' = [next EXCEPT ![p] = next[e]]
      BY <1>5, <2>3 DEF RemoveElem, LIST_REMOVE, TAILQ_REMOVE, CIRCLEQ_REMOVE
    <3> QED
      BY <2>n, <3>1
  <2>4. CASE i = 1 /\ RemoveHead(h)
    <3>1. next' = Unlink(p)
      BY <1>3, <2>4 DEF RemoveHead, SLIST_REMOVE_AFTER, STAILQ_REMOVE_AFTER
    <3> QED
      BY <2>1, <3>1
  <2>5. CASE i # 1 /\ RemoveAfter(h, s[i - 1])
    <3>1. next' = Unlink(p)
      BY <1>3, <2>5 DEF RemoveAfter, SLIST_REMOVE_AFTER, STAILQ_REMOVE_AFTER
    <3> QED
      BY <2>1, <3>1
  <2> QED
    BY <2>2, <2>3, <2>4, <2>5 DEF RemoveElem, e
<1> QED
  BY <1>6, <1>7, RemoveRow DEF p, e

LEMMA Clears ==
  ASSUME Links, NEW q, Rows(q), NEW h \in Heads, Clear(h)
  PROVE  Rows([q EXCEPT ![h] = <<>>])'
<1>1. next' = [next EXCEPT ![h] = Stop(h)]
  BY DEF Clear, SLIST_INIT, STAILQ_INIT, CIRCLEQ_INIT, Stop
<1> QED
  BY <1>1, ClearRow DEF Clear, Own

LEMMA Swaps ==
  ASSUME Links, NEW q, Rows(q), NEW h \in Heads, NEW k \in Heads, Swap(h, k)
  PROVE  Rows([q EXCEPT ![h] = q[k], ![k] = q[h]])'
BY SwapRow DEF Swap, Own, STAILQ_SWAP, LIST_SWAP, TAILQ_SWAP

LEMMA Concats ==
  ASSUME Links, NEW q, Rows(q), NEW h \in Heads, NEW k \in Heads, Concat(h, k)
  PROVE  Rows([q EXCEPT ![h] = q[h] \o q[k], ![k] = <<>>])'
<1>1. h # k /\ kind \in {"STAILQ", "TAILQ"} /\ Row(h, q[h]) /\ Row(k, q[k])
  BY DEF Concat, Rows
<1>2. CASE next[k] # NULL
  <2>1. Joins(h, k)
    BY <1>2 DEF Concat, Own, Joins, STAILQ_CONCAT, TAILQ_CONCAT
  <2> QED
    BY <1>1, <2>1, ConcatRow
<1>3. CASE next[k] = NULL
  <2>1. Len(q[k]) \in Nat /\ 0 \in 0 .. Len(q[k])
    BY <1>1, RowPlaces
  <2>2. ~(0 < Len(q[k]))
    <3> SUFFICES ASSUME 0 < Len(q[k]) PROVE FALSE
      OBVIOUS
    <3>1. next[k] = q[k][0 + 1] /\ 1 \in 1 .. Len(q[k])
      BY <1>1, <2>1, RowNext DEF Place
    <3>2. q[k][1] \in Elems
      BY <1>1, <3>1, RowPlaces
    <3> QED
      BY <1>3, <3>1, <3>2, QueueAssumption
  <2>3. q[k] = <<>> /\ q[h] \in Seq(Elems)
    BY <2>1, <2>2 DEF Rows
  <2>4. [q EXCEPT ![h] = q[h] \o q[k], ![k] = <<>>] = q
    BY <2>3 DEF Rows
  <2>5. next' = next
    BY <1>1, <1>3 DEF Concat, STAILQ_CONCAT, TAILQ_CONCAT, links
  <2>6. \A e \in Elems : owner[e] # k
    BY <1>1, <2>1, <2>2 DEF Row
  <2>7. owner' = owner /\ kind' = kind
    BY <2>6 DEF Concat, Own, Links, Types
  <2>8. ASSUME NEW g \in Heads PROVE Row(g, q[g])'
    BY <2>5, <2>7, RowKept DEF Rows
  <2>9. Rows(q)'
    BY <2>8 DEF Rows
  <2> QED
    BY <2>4, <2>9
<1> QED
  BY <1>2, <1>3

-----------------------------------------------------------------------------
(* Chain and Preceding find the sequence                                   *)

\* Each of the recursive definitions is what its body says.
LEMMA FollowingStepwise ==
  ASSUME Links, NEW N, N = Cardinality(Elems)
  PROVE  \A n \in 0 .. N :
           Following[n] = [p \in Places |->
              IF n = 0 \/ next[p] \notin Elems THEN <<>>
              ELSE <<next[p]>> \o Following[n - 1][next[p]]]
<1> DEFINE Body(f, n) == [p \in Places |->
              IF n = 0 \/ next[p] \notin Elems THEN <<>>
              ELSE <<next[p]>> \o f[n - 1][next[p]]]
           R(f) == [n \in 0 .. N |-> Body(f, n)]
           V == [Places -> Seq(Elems)]
           base == [p \in Places |-> <<>>]
           Once(v) == [p \in Places |-> IF next[p] \notin Elems THEN <<>> ELSE <<next[p]>> \o v[next[p]]]
           step == [v \in V |-> Once(v)]
<1>1. N \in Nat
  BY QueueAssumption, FS_CardinalityType
<1>2. base \in V
  OBVIOUS
<1>3. step \in [V -> V]
  <2> SUFFICES ASSUME NEW v \in V PROVE Once(v) \in V
    OBVIOUS
  <2>1. ASSUME NEW p \in Places, next[p] \in Elems PROVE <<next[p]>> \o v[next[p]] \in Seq(Elems)
    <3>1. <<next[p]>> \in Seq(Elems) /\ v[next[p]] \in Seq(Elems)
      BY <2>1
    <3> QED
      BY <3>1
  <2> QED
    BY <2>1
<1> DEFINE d == Iteration(V, base, step, N)
<1>4. d \in [0 .. N -> V] /\ d[0] = base /\ \A n \in 1 .. N : d[n] = step[d[n - 1]]
  <2> HIDE DEF V, base, step
  <2>1. Iterated(Iteration(V, base, step, N), V, base, step, N)
    BY <1>1, <1>2, <1>3, Iterates
  <2> QED
    BY <2>1, Zenon DEF Iterated
<1> HIDE DEF d
<1>5. d = R(d)
  <2> SUFFICES ASSUME NEW n \in 0 .. N PROVE d[n] = Body(d, n)
    <3>1. d = [n \in 0 .. N |-> d[n]]
      BY <1>4
    <3> HIDE DEF Body
    <3> QED
      BY <3>1, Zenon
  <2>1. CASE n = 0
    BY <1>4, <2>1
  <2>2. CASE n # 0
    <3>1. n \in 1 .. N /\ n - 1 \in 0 .. N
      BY <1>1, <2>2
    <3>2. d[n] = Once(d[n - 1])
      <4>1. d[n - 1] \in V /\ d[n] = step[d[n - 1]]
        BY <1>4, <3>1
      <4> HIDE DEF Once, V
      <4> QED
        BY <4>1
    <3> QED
      BY <2>2, <3>2
  <2> QED
    BY <2>1, <2>2
<1> DEFINE F == CHOOSE f : f = R(f)
<1>6. F = R(F)
  <2> HIDE DEF R
  <2> QED
    BY <1>5
<1>7. Following = F
  BY DEF Following
<1> HIDE DEF F
<1> QED
  BY <1>6, <1>7

LEMMA PrecedingStepwise ==
  ASSUME Links, NEW N, N = Cardinality(Elems)
  PROVE  \A n \in 0 .. N :
           Preceding[n] = [p \in Places |->
              LET x == IF kind = "CIRCLEQ" THEN back[p] ELSE TAILQ_PREV(p)
              IN  IF n = 0 \/ x \notin Elems THEN <<>> ELSE Append(Preceding[n - 1][x], x)]
<1> DEFINE x(p) == IF kind = "CIRCLEQ" THEN back[p] ELSE TAILQ_PREV(p)
           Body(f, n) == [p \in Places |->
              IF n = 0 \/ x(p) \notin Elems THEN <<>> ELSE Append(f[n - 1][x(p)], x(p))]
           R(f) == [n \in 0 .. N |-> Body(f, n)]
           V == [Places -> Seq(Elems)]
           base == [p \in Places |-> <<>>]
           Once(v) == [p \in Places |-> IF x(p) \notin Elems THEN <<>> ELSE Append(v[x(p)], x(p))]
           step == [v \in V |-> Once(v)]
<1>1. N \in Nat
  BY QueueAssumption, FS_CardinalityType
<1>2. base \in V
  OBVIOUS
<1>7. Preceding = CHOOSE f : f = R(f)
  BY DEF Preceding
<1> HIDE DEF x
<1>3. step \in [V -> V]
  <2> SUFFICES ASSUME NEW v \in V PROVE Once(v) \in V
    OBVIOUS
  <2>1. ASSUME NEW p \in Places, x(p) \in Elems PROVE Append(v[x(p)], x(p)) \in Seq(Elems)
    <3>1. v[x(p)] \in Seq(Elems)
      BY <2>1
    <3> QED
      BY <2>1, <3>1
  <2> QED
    BY <2>1
<1> DEFINE d == Iteration(V, base, step, N)
<1>4. d \in [0 .. N -> V] /\ d[0] = base /\ \A n \in 1 .. N : d[n] = step[d[n - 1]]
  <2> HIDE DEF V, base, step
  <2>1. Iterated(Iteration(V, base, step, N), V, base, step, N)
    BY <1>1, <1>2, <1>3, Iterates
  <2> QED
    BY <2>1, Zenon DEF Iterated
<1> HIDE DEF d
<1>5. d = R(d)
  <2> SUFFICES ASSUME NEW n \in 0 .. N PROVE d[n] = Body(d, n)
    <3>1. d = [n \in 0 .. N |-> d[n]]
      BY <1>4
    <3> HIDE DEF Body
    <3> QED
      BY <3>1, Zenon
  <2>1. CASE n = 0
    BY <1>4, <2>1
  <2>2. CASE n # 0
    <3>1. n \in 1 .. N /\ n - 1 \in 0 .. N
      BY <1>1, <2>2
    <3>2. d[n] = Once(d[n - 1])
      <4>1. d[n - 1] \in V /\ d[n] = step[d[n - 1]]
        BY <1>4, <3>1
      <4> HIDE DEF Once, V
      <4> QED
        BY <4>1
    <3> QED
      BY <2>2, <3>2
  <2> QED
    BY <2>1, <2>2
<1> DEFINE F == CHOOSE f : f = R(f)
<1>6. F = R(F)
  <2> HIDE DEF R
  <2> QED
    BY <1>5
<1>8. Preceding = F
  BY <1>7
<1> HIDE DEF F
<1> QED
  BY <1>6, <1>8, ZenonT(60) DEF x

\* The parts of a sequence that a walk has yet to see.
LEMMA Parts ==
  ASSUME NEW S, NEW s \in Seq(S)
  PROVE  /\ SubSeq(s, 1, Len(s)) = s /\ SubSeq(s, Len(s) + 1, Len(s)) = <<>> /\ SubSeq(s, 1, 0) = <<>>
         /\ \A i \in 0 .. Len(s) - 1 :
              SubSeq(s, i + 1, Len(s)) = <<s[i + 1]>> \o SubSeq(s, i + 1 + 1, Len(s))
         /\ \A i \in 1 .. Len(s) : SubSeq(s, 1, i) = Append(SubSeq(s, 1, i - 1), s[i])
<1>1. Len(s) \in Nat
  OBVIOUS
<1>2. SubSeq(s, 1, Len(s)) = s
  OBVIOUS
<1>3. SubSeq(s, Len(s) + 1, Len(s)) = <<>> /\ SubSeq(s, 1, 0) = <<>>
  OBVIOUS
<1>4. ASSUME NEW i \in 0 .. Len(s) - 1
      PROVE  SubSeq(s, i + 1, Len(s)) = <<s[i + 1]>> \o SubSeq(s, i + 1 + 1, Len(s))
  OBVIOUS
<1>5. ASSUME NEW i \in 1 .. Len(s)
      PROVE  SubSeq(s, 1, i) = Append(SubSeq(s, 1, i - 1), s[i])
  OBVIOUS
<1> QED
  BY <1>2, <1>3, <1>4, <1>5

LEMMA ChainIs ==
  ASSUME Links, NEW h \in Heads, NEW s, Row(h, s)
  PROVE  Chain(h) = s
<1> DEFINE N == Cardinality(Elems)
           l == Len(s)
           Rest(i) == SubSeq(s, i + 1, l)
           S == {n \in 0 .. N : \A i \in 0 .. l : l - i <= n => Following[n][Place(h, s, i)] = Rest(i)}
<1>1. /\ N \in Nat /\ l \in Nat /\ l <= N /\ s \in Seq(Elems)
      /\ \A i \in 1 .. l : s[i] \in Elems
      /\ \A i \in 0 .. l : Place(h, s, i) \in Places
  BY RowLength, RowPlaces DEF Row
<1>2. /\ Rest(l) = <<>> /\ Rest(0) = s
      /\ \A i \in 0 .. l - 1 : Rest(i) = <<s[i + 1]>> \o Rest(i + 1)
  <2>1. 0 + 1 = 1
    OBVIOUS
  <2> QED
    BY <1>1, <2>1, Parts
<1>3. \A n \in 0 .. N, p \in Places :
        Following[n][p] = IF n = 0 \/ next[p] \notin Elems THEN <<>>
                          ELSE <<next[p]>> \o Following[n - 1][next[p]]
  <2> HIDE DEF N
  <2>1. \A n \in 0 .. N :
           Following[n] = [p \in Places |->
              IF n = 0 \/ next[p] \notin Elems THEN <<>>
              ELSE <<next[p]>> \o Following[n - 1][next[p]]]
    BY FollowingStepwise DEF N
  <2> TAKE n \in 0 .. N, p \in Places
  <2> QED
    BY <2>1
<1>4. \A i \in 0 .. l : next[Place(h, s, i)] = IF i < l THEN s[i + 1] ELSE Stop(h)
  BY RowNext
<1>5. Stop(h) \notin Elems
  BY QueueAssumption DEF Stop
<1> HIDE DEF N, l, Rest
<1>6. 0 \in S
  <2> SUFFICES ASSUME NEW i \in 0 .. l, l - i <= 0
               PROVE  Following[0][Place(h, s, i)] = Rest(i)
    BY <1>1
  <2>1. i = l /\ 0 \in 0 .. N
    BY <1>1
  <2> QED
    BY <1>1, <1>2, <1>3, <2>1
<1>7. ASSUME NEW n \in 0 .. N - 1, n \in S PROVE n + 1 \in S
  <2>1. n + 1 \in 0 .. N /\ n + 1 # 0 /\ n + 1 - 1 = n /\ n \in Nat
    BY <1>1
  <2> SUFFICES ASSUME NEW i \in 0 .. l, l - i <= n + 1
               PROVE  Following[n + 1][Place(h, s, i)] = Rest(i)
    BY <2>1
  <2>2. CASE i = l
    <3>1. next[Place(h, s, i)] \notin Elems
      BY <1>1, <1>4, <1>5, <2>2
    <3> QED
      BY <1>1, <1>2, <1>3, <2>1, <2>2, <3>1
  <2>3. CASE i # l
    <3>1. i < l /\ i + 1 \in 1 .. l /\ i + 1 \in 0 .. l /\ i \in 0 .. l - 1 /\ l - (i + 1) <= n /\ i + 1 # 0
      BY <1>1, <2>1, <2>3
    <3>2. next[Place(h, s, i)] = s[i + 1] /\ s[i + 1] \in Elems
      BY <1>1, <1>4, <3>1
    <3>3. Following[n][Place(h, s, i + 1)] = Rest(i + 1)
      BY <1>7, <3>1
    <3>4. Place(h, s, i + 1) = s[i + 1]
      BY <3>1 DEF Place
    <3>5. Following[n + 1][Place(h, s, i)] = <<s[i + 1]>> \o Following[n][s[i + 1]]
      <4> DEFINE p == Place(h, s, i)
      <4>1. p \in Places /\ next[p] = s[i + 1] /\ next[p] \in Elems
        BY <1>1, <3>2
      <4> HIDE DEF p
      <4> DEFINE m == n + 1
      <4>2. m \in 0 .. N /\ m # 0 /\ m - 1 = n
        BY <2>1
      <4> HIDE DEF m
      <4>3. Following[m][p] = <<next[p]>> \o Following[m - 1][next[p]]
        BY <1>3, <4>1, <4>2
      <4> QED
        BY <4>1, <4>2, <4>3 DEF p, m
    <3> QED
      BY <1>2, <3>1, <3>3, <3>4, <3>5
  <2> QED
    BY <2>2, <2>3
<1>8. N \in S
  <2> HIDE DEF S
  <2>1. \A n \in 0 .. N : n \in S
    BY <1>1, <1>6, <1>7, IntervalInduction
  <2> QED
    BY <1>1, <2>1
<1>9. Following[N][Place(h, s, 0)] = Rest(0)
  <2>1. 0 \in 0 .. l /\ l - 0 <= N
    BY <1>1
  <2> QED
    BY <1>8, <2>1
<1> QED
  BY <1>2, <1>9 DEF Chain, N, Place

\* Where a position of the sequence is, coming from behind: past the last
\* element is the head.
Behind(h, s, j) == IF j = Len(s) + 1 THEN h ELSE s[j]

Before(p) == IF kind = "CIRCLEQ" THEN back[p] ELSE TAILQ_PREV(p)

LEMMA RowBefore ==
  ASSUME Links, NEW h \in Heads, NEW s, Row(h, s), kind \in {"TAILQ", "CIRCLEQ"},
         NEW j \in 1 .. Len(s) + 1
  PROVE  /\ Behind(h, s, j) \in Places
         /\ Before(Behind(h, s, j)) = IF j > 1 THEN s[j - 1] ELSE Stop(h)
<1>1. /\ Len(s) \in Nat
      /\ \A i \in 1 .. Len(s) : s[i] \in Elems
      /\ \A i \in 1 .. Len(s) : back[s[i]] = Place(h, s, i - 1)
      /\ back[h] = Place(h, s, Len(s))
      /\ \A i \in 0 .. Len(s) : next[Place(h, s, i)] = IF i < Len(s) THEN s[i + 1] ELSE Stop(h)
  BY RowPlaces, RowBack, RowNext
<1>2. back[Behind(h, s, j)] = Place(h, s, j - 1)
  <2>1. CASE j = Len(s) + 1
    BY <1>1, <2>1 DEF Behind
  <2>2. CASE j # Len(s) + 1
    <3>1. j \in 1 .. Len(s)
      BY <1>1, <2>2
    <3> QED
      BY <1>1, <2>2, <3>1 DEF Behind
  <2> QED
    BY <2>1, <2>2
<1>3. Behind(h, s, j) \in Places
  <2>1. j # Len(s) + 1 => j \in 1 .. Len(s)
    BY <1>1
  <2> QED
    BY <1>1, <2>1 DEF Behind
<1>4. CASE kind = "CIRCLEQ"
  <2>1. j > 1 => j - 1 # 0
    BY <1>1
  <2>2. ~(j > 1) => j - 1 = 0
    BY <1>1
  <2> QED
    BY <1>2, <1>3, <1>4, <2>1, <2>2 DEF Before, Place, Stop
<1>5. CASE kind = "TAILQ"
  <2>1. CASE j > 1
    <3>1. j - 1 \in 1 .. Len(s) /\ j - 1 # 0 /\ j - 1 - 1 \in 0 .. Len(s) /\ j - 1 - 1 < Len(s) /\ j - 1 - 1 + 1 = j - 1
      BY <1>1, <2>1
    <3>2. back[Place(h, s, j - 1)] = Place(h, s, j - 1 - 1)
      BY <1>1, <3>1 DEF Place
    <3>3. next[Place(h, s, j - 1 - 1)] = s[j - 1]
      BY <1>1, <3>1
    <3> QED
      BY <1>2, <1>3, <1>5, <2>1, <3>2, <3>3 DEF Before, TAILQ_PREV
  <2>2. CASE ~(j > 1)
    <3>1. j - 1 = 0 /\ Place(h, s, j - 1) = h /\ Len(s) \in 0 .. Len(s) /\ ~(Len(s) < Len(s))
      BY <1>1, <2>2 DEF Place
    <3>2. next[back[h]] = Stop(h)
      BY <1>1, <3>1
    <3> QED
      BY <1>2, <1>3, <1>5, <2>2, <3>1, <3>2 DEF Before, TAILQ_PREV
  <2> QED
    BY <2>1, <2>2
<1> QED
  BY <1>3, <1>4, <1>5

LEMMA PrecedingIs ==
  ASSUME Links, NEW h \in Heads, NEW s, Row(h, s), kind \in {"TAILQ", "CIRCLEQ"}
  PROVE  Preceding[Cardinality(Elems)][h] = s
<1> DEFINE N == Cardinality(Elems)
           l == Len(s)
           Till(j) == SubSeq(s, 1, j - 1)
           S == {n \in 0 .. N : \A j \in 1 .. l + 1 : j - 1 <= n => Preceding[n][Behind(h, s, j)] = Till(j)}
<1>1. /\ N \in Nat /\ l \in Nat /\ l <= N /\ s \in Seq(Elems)
      /\ \A i \in 1 .. l : s[i] \in Elems
  BY RowLength, RowPlaces DEF Row
<1>2. /\ Till(1) = <<>> /\ Till(l + 1) = s
      /\ \A j \in 2 .. l + 1 : Till(j) = Append(Till(j - 1), s[j - 1])
  <2>1. 1 - 1 = 0 /\ (l + 1) - 1 = l
    BY <1>1
  <2>2. \A j \in 2 .. l + 1 : j - 1 \in 1 .. l
    BY <1>1
  <2>3. \A i \in 1 .. l : SubSeq(s, 1, i) = Append(SubSeq(s, 1, i - 1), s[i])
    BY <1>1, Parts
  <2>4. SubSeq(s, 1, 0) = <<>> /\ SubSeq(s, 1, l) = s
    BY <1>1, Parts
  <2> HIDE DEF l
  <2>5. ASSUME NEW j \in 2 .. l + 1 PROVE Till(j) = Append(Till(j - 1), s[j - 1])
    BY <2>2, <2>3
  <2>6. Till(1) = <<>> /\ Till(l + 1) = s
    <3>1. Till(1) = SubSeq(s, 1, 0)
      BY <2>1, Zenon
    <3>2. Till(l + 1) = SubSeq(s, 1, l)
      BY <2>1, Zenon
    <3> QED
      BY <2>4, <3>1, <3>2
  <2> QED
    BY <2>5, <2>6
<1>3. \A n \in 0 .. N, p \in Places :
        Preceding[n][p] = IF n = 0 \/ Before(p) \notin Elems THEN <<>>
                          ELSE Append(Preceding[n - 1][Before(p)], Before(p))
  BY PrecedingStepwise, ZenonT(60) DEF Before
<1>4. \A j \in 1 .. l + 1 : /\ Behind(h, s, j) \in Places
                            /\ Before(Behind(h, s, j)) = IF j > 1 THEN s[j - 1] ELSE Stop(h)
  BY RowBefore
<1>5. Stop(h) \notin Elems
  BY QueueAssumption DEF Stop
<1>b. \A j \in 1 .. l : Behind(h, s, j) = s[j]
  BY <1>1 DEF Behind
<1> HIDE DEF N, l, Till
<1>6. 0 \in S
  <2> SUFFICES ASSUME NEW j \in 1 .. l + 1, j - 1 <= 0
               PROVE  Preceding[0][Behind(h, s, j)] = Till(j)
    BY <1>1
  <2>1. j = 1 /\ 0 \in 0 .. N
    BY <1>1
  <2>2. Preceding[0][Behind(h, s, j)] = <<>>
    BY <1>3, <1>4, <2>1
  <2> QED
    BY <1>2, <2>1, <2>2
<1>7. ASSUME NEW n \in 0 .. N - 1, n \in S PROVE n + 1 \in S
  <2>1. n + 1 \in 0 .. N /\ n + 1 # 0 /\ n + 1 - 1 = n /\ n \in Nat
    BY <1>1
  <2> SUFFICES ASSUME NEW j \in 1 .. l + 1, j - 1 <= n + 1
               PROVE  Preceding[n + 1][Behind(h, s, j)] = Till(j)
    BY <2>1
  <2>2. CASE j = 1
    <3>1. Before(Behind(h, s, j)) \notin Elems
      BY <1>4, <1>5, <2>2
    <3> QED
      BY <1>2, <1>3, <1>4, <2>1, <2>2, <3>1
  <2>3. CASE j # 1
    <3>1. j > 1 /\ j - 1 \in 1 .. l /\ j - 1 \in 1 .. l + 1 /\ j \in 2 .. l + 1 /\ j - 1 - 1 <= n
      BY <1>1, <2>1, <2>3
    <3>2. Before(Behind(h, s, j)) = s[j - 1] /\ s[j - 1] \in Elems
      BY <1>1, <1>4, <3>1
    <3>3. Preceding[n][s[j - 1]] = Till(j - 1)
      BY <1>7, <1>b, <3>1
    <3>4. Preceding[n + 1][Behind(h, s, j)] = Append(Preceding[n][s[j - 1]], s[j - 1])
      <4> DEFINE p == Behind(h, s, j)
      <4>1. p \in Places /\ Before(p) = s[j - 1] /\ Before(p) \in Elems
        BY <1>4, <3>2
      <4> HIDE DEF p
      <4> DEFINE m == n + 1
      <4>2. m \in 0 .. N /\ m # 0 /\ m - 1 = n
        BY <2>1
      <4> HIDE DEF m
      <4>3. Preceding[m][p] = Append(Preceding[m - 1][Before(p)], Before(p))
        BY <1>3, <4>1, <4>2
      <4> QED
        BY <4>1, <4>2, <4>3 DEF p, m
    <3> QED
      BY <1>2, <3>1, <3>3, <3>4
  <2> QED
    BY <2>2, <2>3
<1>8. N \in S
  <2> HIDE DEF S
  <2>1. \A n \in 0 .. N : n \in S
    BY <1>1, <1>6, <1>7, IntervalInduction
  <2> QED
    BY <1>1, <2>1
<1>9. Preceding[N][Behind(h, s, l + 1)] = Till(l + 1)
  <2>1. l + 1 \in 1 .. l + 1 /\ (l + 1) - 1 <= N
    BY <1>1
  <2>2. \A j \in 1 .. l + 1 : j - 1 <= N => Preceding[N][Behind(h, s, j)] = Till(j)
    BY <1>8
  <2> HIDE DEF S
  <2> DEFINE j == l + 1
  <2>3. j \in 1 .. l + 1 /\ j - 1 <= N
    BY <2>1, Zenon
  <2> HIDE DEF j
  <2>4. Preceding[N][Behind(h, s, j)] = Till(j)
    BY <2>2, <2>3
  <2> QED
    BY <2>4 DEF j
<1> QED
  BY <1>2, <1>9 DEF N, Behind, l

-----------------------------------------------------------------------------
(* The calls on the sequences                                              *)

LEMMA SameSeq ==
  ASSUME NEW S, NEW s \in Seq(S), NEW t \in Seq(S), Len(s) = Len(t),
         \A j \in 1 .. Len(s) : s[j] = t[j]
  PROVE  s = t
OBVIOUS

LEMMA InsAs ==
  ASSUME NEW S, NEW s \in Seq(S), NEW e \in S
  PROVE  /\ Ins(s, 0, e) = <<e>> \o s
         /\ Ins(s, Len(s), e) = Append(s, e)
         /\ \A i \in 0 .. Len(s) : Ins(s, i, e) = InsertAt(s, i + 1, e)
<1>0. Len(s) \in Nat
  OBVIOUS
<1>p. \A i \in 0 .. Len(s) : Inserted(Ins(s, i, e), S, s, i, e)
  BY InsProperties
<1>1. Ins(s, 0, e) = <<e>> \o s
  <2> DEFINE t == Ins(s, 0, e)
             u == <<e>> \o s
  <2>1. /\ t \in Seq(S) /\ Len(t) = Len(s) + 1
        /\ \A j \in 1 .. Len(s) + 1 : t[j] = IF j <= 0 THEN s[j] ELSE IF j = 0 + 1 THEN e ELSE s[j - 1]
    <3>1. 0 \in 0 .. Len(s)
      BY <1>0
    <3>2. Inserted(Ins(s, 0, e), S, s, 0, e)
      BY <1>p, <3>1, Zenon
    <3> QED
      BY <3>2, Zenon DEF Inserted
  <2>2. u \in Seq(S) /\ Len(u) = Len(s) + 1
    OBVIOUS
  <2>3. \A j \in 1 .. Len(s) + 1 : u[j] = IF j = 1 THEN e ELSE s[j - 1]
    OBVIOUS
  <2> HIDE DEF t, u
  <2>4. \A j \in 1 .. Len(s) + 1 : t[j] = u[j]
    BY <1>0, <2>1, <2>3
  <2>5. t = u
    BY <2>1, <2>2, <2>4, SameSeq
  <2> QED
    BY <2>5 DEF t, u
<1>2. Ins(s, Len(s), e) = Append(s, e)
  <2> DEFINE t == Ins(s, Len(s), e)
             u == Append(s, e)
  <2>1. /\ t \in Seq(S) /\ Len(t) = Len(s) + 1
        /\ \A j \in 1 .. Len(s) + 1 : t[j] = IF j <= Len(s) THEN s[j] ELSE IF j = Len(s) + 1 THEN e ELSE s[j - 1]
    <3> DEFINE i == Len(s)
    <3>1. i \in 0 .. Len(s)
      BY <1>0
    <3> HIDE DEF i
    <3> HIDE DEF t
    <3>2. Inserted(Ins(s, i, e), S, s, i, e)
      BY <1>p, <3>1, Zenon
    <3>3. Inserted(t, S, s, Len(s), e)
      BY <3>2, Zenon DEF i, t
    <3> QED
      BY <3>3, Zenon DEF Inserted
  <2>2. u \in Seq(S) /\ Len(u) = Len(s) + 1
    OBVIOUS
  <2>3. \A j \in 1 .. Len(s) + 1 : u[j] = IF j <= Len(s) THEN s[j] ELSE e
    OBVIOUS
  <2> HIDE DEF t, u
  <2>4. \A j \in 1 .. Len(s) + 1 : t[j] = u[j]
    BY <1>0, <2>1, <2>3
  <2>5. t = u
    BY <2>1, <2>2, <2>4, SameSeq
  <2> QED
    BY <2>5 DEF t, u
<1>3. ASSUME NEW i \in 0 .. Len(s)
      PROVE  Ins(s, i, e) = InsertAt(s, i + 1, e)
  <2> DEFINE t == Ins(s, i, e)
             a == SubSeq(s, 1, i)
             b == SubSeq(s, i + 1, Len(s))
             u == a \o <<e>> \o b
  <2>1. /\ t \in Seq(S) /\ Len(t) = Len(s) + 1
        /\ \A j \in 1 .. Len(s) + 1 : t[j] = IF j <= i THEN s[j] ELSE IF j = i + 1 THEN e ELSE s[j - 1]
    <3>1. Inserted(Ins(s, i, e), S, s, i, e)
      BY <1>p, Zenon
    <3> QED
      BY <3>1, Zenon DEF Inserted
  <2>2. /\ a \in Seq(S) /\ Len(a) = i /\ \A j \in 1 .. i : a[j] = s[j]
    BY <1>0
  <2>3. /\ b \in Seq(S) /\ Len(b) = Len(s) - i /\ \A j \in 1 .. Len(s) - i : b[j] = s[i + j]
    BY <1>0
  <2>4. InsertAt(s, i + 1, e) = u
    <3>1. (i + 1) - 1 = i
      BY <1>0
    <3> QED
      BY <3>1 DEF InsertAt
  <2> HIDE DEF a, b
  <2>5. /\ u \in Seq(S) /\ Len(u) = i + 1 + (Len(s) - i)
        /\ \A j \in 1 .. i : u[j] = a[j]
        /\ u[i + 1] = e
        /\ \A j \in 1 .. Len(s) - i : u[i + 1 + j] = b[j]
    <3> DEFINE c == a \o <<e>>
    <3>1. /\ c \in Seq(S) /\ Len(c) = i + 1
          /\ \A j \in 1 .. i : c[j] = a[j]
          /\ c[i + 1] = e
      <4>1. <<e>> \in Seq(S) /\ Len(<<e>>) = 1 /\ <<e>>[1] = e
        OBVIOUS
      <4>2. /\ c \in Seq(S) /\ Len(c) = Len(a) + Len(<<e>>)
            /\ \A j \in 1 .. Len(a) : c[j] = a[j]
            /\ \A j \in 1 .. Len(<<e>>) : c[Len(a) + j] = <<e>>[j]
        <5>1. Joined(a \o <<e>>, S, a, <<e>>)
          BY <2>2, <4>1, CatProperties
        <5> QED
          BY <5>1, Zenon DEF Joined
      <4>3. 1 \in 1 .. 1
        OBVIOUS
      <4> HIDE DEF c
      <4> QED
        BY <2>2, <4>1, <4>2, <4>3
    <3> HIDE DEF c
    <3>2. /\ u \in Seq(S) /\ Len(u) = Len(c) + Len(b)
          /\ \A j \in 1 .. Len(c) : u[j] = c[j]
          /\ \A j \in 1 .. Len(b) : u[Len(c) + j] = b[j]
      <4>1. u = c \o b
        BY DEF c
      <4> HIDE DEF u
      <4>2. /\ c \o b \in Seq(S) /\ Len(c \o b) = Len(c) + Len(b)
            /\ \A j \in 1 .. Len(c) : (c \o b)[j] = c[j]
            /\ \A j \in 1 .. Len(b) : (c \o b)[Len(c) + j] = b[j]
        <5>1. c \in Seq(S) /\ b \in Seq(S)
          BY <2>3, <3>1
        <5>2. Joined(c \o b, S, c, b)
          BY <5>1, CatProperties
        <5> QED
          BY <5>2, Zenon DEF Joined
      <4> QED
        BY <4>1, <4>2
    <3> HIDE DEF u
    <3>3. \A j \in 1 .. i : j \in 1 .. i + 1
      BY <1>0
    <3>4. i + 1 \in 1 .. i + 1
      BY <1>0
    <3>5. u[i + 1] = e
      BY <3>1, <3>2, <3>4
    <3>6. \A j \in 1 .. i : u[j] = a[j]
      BY <3>1, <3>2, <3>3
    <3>7. \A j \in 1 .. Len(s) - i : u[i + 1 + j] = b[j]
      BY <2>3, <3>1, <3>2
    <3> QED
      BY <2>3, <3>1, <3>2, <3>5, <3>6, <3>7
  <2> HIDE DEF t, u
  <2>6. ASSUME NEW j \in 1 .. Len(s) + 1 PROVE t[j] = u[j]
    <3>1. CASE j <= i
      <4>1. j \in 1 .. i
        BY <1>0, <3>1
      <4>2. t[j] = s[j]
        BY <2>1, <3>1
      <4>3. u[j] = a[j] /\ a[j] = s[j]
        BY <2>2, <2>5, <4>1, Zenon
      <4> QED
        BY <4>2, <4>3
    <3>2. CASE j = i + 1
      BY <1>0, <2>1, <2>5, <3>2
    <3>3. CASE j > i + 1
      <4>1. /\ j - 1 - i \in 1 .. Len(s) - i /\ i + 1 + (j - 1 - i) = j /\ i + (j - 1 - i) = j - 1
            /\ ~(j <= i) /\ j # i + 1
        BY <1>0, <3>3
      <4>2. u[j] = b[j - 1 - i] /\ b[j - 1 - i] = s[j - 1]
        BY <2>3, <2>5, <4>1
      <4> QED
        BY <2>1, <4>1, <4>2
    <3> QED
      BY <1>0, <3>1, <3>2, <3>3
  <2>7. Len(t) = Len(u)
    BY <1>0, <2>1, <2>5
  <2>8. t = u
    BY <2>1, <2>5, <2>6, <2>7, SameSeq
  <2> QED
    BY <2>4, <2>8 DEF t
<1> QED
  BY <1>1, <1>2, <1>3

LEMMA DelAs ==
  ASSUME NEW S, NEW s \in Seq(S), NEW i \in 1 .. Len(s)
  PROVE  Del(s, i) = RemoveAt(s, i)
<1> DEFINE t == Del(s, i)
           a == SubSeq(s, 1, i - 1)
           b == SubSeq(s, i + 1, Len(s))
           u == a \o b
<1>0. Len(s) \in Nat
  OBVIOUS
<1>1. /\ t \in Seq(S) /\ Len(t) = Len(s) - 1
      /\ \A j \in 1 .. Len(s) - 1 : t[j] = IF j < i THEN s[j] ELSE s[j + 1]
  <2>1. Deleted(Del(s, i), S, s, i)
    BY DelProperties
  <2> QED
    BY <2>1, Zenon DEF Deleted
<1>2. /\ a \in Seq(S) /\ Len(a) = i - 1 /\ \A j \in 1 .. i - 1 : a[j] = s[j]
  BY <1>0
<1>3. /\ b \in Seq(S) /\ Len(b) = Len(s) - i /\ \A j \in 1 .. Len(s) - i : b[j] = s[i + j]
  BY <1>0
<1>4. RemoveAt(s, i) = u
  BY DEF RemoveAt
<1> HIDE DEF a, b
<1>5. /\ u \in Seq(S) /\ Len(u) = i - 1 + (Len(s) - i)
      /\ \A j \in 1 .. i - 1 : u[j] = a[j]
      /\ \A j \in 1 .. Len(s) - i : u[(i - 1) + j] = b[j]
  <2>1. /\ u \in Seq(S) /\ Len(u) = Len(a) + Len(b)
        /\ \A j \in 1 .. Len(a) : u[j] = a[j]
        /\ \A j \in 1 .. Len(b) : u[Len(a) + j] = b[j]
    <3>1. a \in Seq(S) /\ b \in Seq(S)
      BY <1>2, <1>3
    <3>2. Joined(a \o b, S, a, b)
      BY <3>1, CatProperties
    <3> QED
      BY <3>2, Zenon DEF Joined
  <2> HIDE DEF u
  <2> QED
    BY <1>2, <1>3, <2>1
<1> HIDE DEF t, u
<1>6. ASSUME NEW j \in 1 .. Len(s) - 1 PROVE t[j] = u[j]
  <2>1. CASE j < i
    BY <1>0, <1>1, <1>2, <1>5, <2>1
  <2>2. CASE ~(j < i)
    <3>1. /\ j - (i - 1) \in 1 .. Len(s) - i /\ (i - 1) + (j - (i - 1)) = j
          /\ i + (j - (i - 1)) = j + 1
      BY <1>0, <2>2
    <3>2. u[j] = b[j - (i - 1)] /\ b[j - (i - 1)] = s[j + 1]
      BY <1>3, <1>5, <3>1
    <3> QED
      BY <1>1, <2>2, <3>2
  <2> QED
    BY <2>1, <2>2
<1>7. Len(t) = Len(u)
  BY <1>0, <1>1, <1>5
<1>8. t = u
  BY <1>1, <1>5, <1>6, <1>7, SameSeq
<1> QED
  BY <1>4, <1>8 DEF t

\* The sequences that the properties of the module speak of.
Lists == [h \in Heads |-> Chain(h)]

ListsRight == Links => \A q : Rows(q) => Lists = q

LEMMA ListsAre == ListsRight
<1> SUFFICES ASSUME Links, NEW q, Rows(q) PROVE Lists = q
  BY DEF ListsRight
<1>1. \A h \in Heads : Chain(h) = q[h]
  BY ChainIs DEF Rows
<1>2. q = [h \in Heads |-> q[h]]
  BY DEF Rows
<1> HIDE DEF Links
<1> QED
  BY <1>1, <1>2 DEF Lists

LEMMA ListsWillBe == ListsRight'
BY ListsAre, PTL

LEMMA ListsBecome ==
  ASSUME Links', NEW r, Rows(r)'
  PROVE  Lists' = r
BY ListsWillBe DEF ListsRight

\* What the specification of the sequences sees.
LEMMA Seen ==
  ASSUME Links, NEW q, Rows(q)
  PROVE  /\ Lists = q
         /\ \A h \in Heads, e \in Elems : e \in Sequences_!On(h) <=> owner[e] = h
         /\ \A e \in Elems : owner[e] = NULL => Sequences_!Free(e)
         /\ \A h \in Heads : \A i \in 1 .. Len(q[h]) : Sequences_!Index(h, q[h][i]) = i
<1>1. Lists = q
  BY ListsAre DEF ListsRight
<1>2. \A h \in Heads : Chain(h) = q[h]
  BY <1>1 DEF Lists
<1>3. \A h \in Heads : Row(h, q[h]) /\ Len(q[h]) \in Nat /\ DOMAIN q[h] = 1 .. Len(q[h])
  BY RowPlaces DEF Rows
<1>4. ASSUME NEW h \in Heads, NEW e \in Elems
      PROVE  e \in Sequences_!On(h) <=> owner[e] = h
  <2>1. Sequences_!On(h) = ToSet(q[h])
    BY <1>2 DEF Sequences_!On, Sequences_!ToSet, ToSet
  <2>2. owner[e] = h <=> \E i \in 1 .. Len(q[h]) : q[h][i] = e
    BY <1>3 DEF Row
  <2> HIDE DEF Row
  <2> QED
    BY <1>3, <2>1, <2>2 DEF ToSet
<1>5. ASSUME NEW e \in Elems, owner[e] = NULL PROVE Sequences_!Free(e)
  BY <1>4, <1>5, QueueAssumption DEF Sequences_!Free
<1>6. ASSUME NEW h \in Heads, NEW i \in 1 .. Len(q[h])
      PROVE  Sequences_!Index(h, q[h][i]) = i
  <2>1. Sequences_!Index(h, q[h][i]) = CHOOSE j \in 1 .. Len(q[h]) : q[h][j] = q[h][i]
    BY <1>2, <1>3 DEF Sequences_!Index
  <2>2. \A j \in 1 .. Len(q[h]) : q[h][j] = q[h][i] => j = i
    BY <1>3 DEF Row
  <2> QED
    BY <2>1, <2>2
<1> QED
  BY <1>1, <1>4, <1>5, <1>6

\* x stands at y or before it.
Upto(s, x, y) == \E i, j \in 1 .. Len(s) : i <= j /\ s[i] = x /\ s[j] = y

\* Elements that stay on a queue keep their order.
Keeps(q, r) ==
  \A h \in Heads : \A x, y \in Elems :
    owner'[x] = h /\ owner'[y] = h /\ Upto(q[h], x, y) => Upto(r[h], x, y)

LEMMA InsertKeeps ==
  ASSUME Links, NEW q, Rows(q), NEW h \in Heads, NEW e \in Elems, NEW i \in 0 .. Len(q[h])
  PROVE  Keeps(q, [q EXCEPT ![h] = Ins(q[h], i, e)])
<1> DEFINE s == q[h]
           t == Ins(s, i, e)
<1>1. s \in Seq(Elems) /\ Len(s) \in Nat /\ i \in 0 .. Len(s)
  BY RowPlaces DEF Rows
<1> HIDE DEF s
<1>2. /\ Len(t) = Len(s) + 1
      /\ \A j \in 1 .. Len(s) + 1 : t[j] = IF j <= i THEN s[j] ELSE IF j = i + 1 THEN e ELSE s[j - 1]
  <2>1. Inserted(Ins(s, i, e), Elems, s, i, e)
    BY <1>1, InsProperties
  <2> QED
    BY <2>1, Zenon DEF Inserted
<1> HIDE DEF t
<1>3. ASSUME NEW x \in Elems, NEW y \in Elems, Upto(s, x, y) PROVE Upto(t, x, y)
  <2>1. PICK a \in 1 .. Len(s), b \in 1 .. Len(s) : a <= b /\ s[a] = x /\ s[b] = y
    BY <1>3 DEF Upto
  <2> DEFINE To(c) == IF c <= i THEN c ELSE c + 1
  <2>2. ASSUME NEW c \in 1 .. Len(s) PROVE To(c) \in 1 .. Len(t) /\ t[To(c)] = s[c]
    <3>1. CASE c <= i
      BY <1>1, <1>2, <3>1
    <3>2. CASE ~(c <= i)
      <4>1. /\ c + 1 \in 1 .. Len(s) + 1 /\ ~(c + 1 <= i) /\ c + 1 # i + 1
            /\ (c + 1) - 1 = c /\ To(c) = c + 1
        BY <1>1, <3>2
      <4> DEFINE d == c + 1
      <4> HIDE DEF d, To
      <4>2. d \in 1 .. Len(s) + 1 /\ ~(d <= i) /\ d # i + 1 /\ d - 1 = c /\ To(c) = d
        BY <4>1, Zenon DEF d
      <4> QED
        BY <1>2, <4>2
    <3> QED
      BY <3>1, <3>2
  <2>3. To(a) <= To(b)
    BY <1>1, <2>1
  <2> HIDE DEF To
  <2> QED
    BY <2>1, <2>2, <2>3 DEF Upto
<1> QED
  BY <1>3 DEF Keeps, Rows, s, t

LEMMA RemoveKeeps ==
  ASSUME Links, NEW q, Rows(q), NEW h \in Heads, NEW i \in 1 .. Len(q[h]),
         owner'[q[h][i]] # h
  PROVE  Keeps(q, [q EXCEPT ![h] = Del(q[h], i)])
<1> DEFINE s == q[h]
           t == Del(s, i)
<1>1. s \in Seq(Elems) /\ Len(s) \in Nat /\ i \in 1 .. Len(s)
  BY RowPlaces DEF Rows
<1>2. owner'[s[i]] # h
  OBVIOUS
<1> HIDE DEF s
<1>3. /\ Len(t) = Len(s) - 1
      /\ \A j \in 1 .. Len(s) - 1 : t[j] = IF j < i THEN s[j] ELSE s[j + 1]
  <2>1. Deleted(Del(s, i), Elems, s, i)
    BY <1>1, DelProperties
  <2> QED
    BY <2>1, Zenon DEF Deleted
<1> HIDE DEF t
<1>4. ASSUME NEW x \in Elems, NEW y \in Elems, owner'[x] = h, owner'[y] = h, Upto(s, x, y)
      PROVE  Upto(t, x, y)
  <2>1. PICK a \in 1 .. Len(s), b \in 1 .. Len(s) : a <= b /\ s[a] = x /\ s[b] = y
    BY <1>4 DEF Upto
  <2>2. a # i /\ b # i
    BY <1>2, <1>4, <2>1
  <2> DEFINE To(c) == IF c < i THEN c ELSE c - 1
  <2>3. ASSUME NEW c \in 1 .. Len(s), c # i PROVE To(c) \in 1 .. Len(t) /\ t[To(c)] = s[c]
    <3>1. CASE c < i
      BY <1>1, <1>3, <3>1
    <3>2. CASE ~(c < i)
      <4>1. c - 1 \in 1 .. Len(s) - 1 /\ ~(c - 1 < i) /\ (c - 1) + 1 = c /\ To(c) = c - 1
        BY <1>1, <2>3, <3>2
      <4> DEFINE d == c - 1
      <4> HIDE DEF d, To
      <4>2. d \in 1 .. Len(s) - 1 /\ ~(d < i) /\ d + 1 = c /\ To(c) = d
        BY <4>1, Zenon DEF d
      <4> QED
        BY <1>3, <4>2
    <3> QED
      BY <3>1, <3>2
  <2>4. To(a) <= To(b)
    BY <1>1, <2>1, <2>2
  <2> HIDE DEF To
  <2> QED
    BY <2>1, <2>2, <2>3, <2>4 DEF Upto
<1> QED
  BY <1>4 DEF Keeps, Rows, s, t

LEMMA ConcatKeeps ==
  ASSUME Links, NEW q, Rows(q), NEW h \in Heads, NEW k \in Heads, Concat(h, k)
  PROVE  Keeps(q, [q EXCEPT ![h] = q[h] \o q[k], ![k] = <<>>])
<1> DEFINE s == q[h]
           u == q[k]
           t == s \o u
<1>1. s \in Seq(Elems) /\ u \in Seq(Elems) /\ Len(s) \in Nat /\ Len(u) \in Nat
  BY RowPlaces DEF Rows
<1> HIDE DEF s, u
<1>2. Len(t) = Len(s) + Len(u) /\ \A i \in 1 .. Len(s) : t[i] = s[i]
  <2>1. Joined(s \o u, Elems, s, u)
    BY <1>1, CatProperties
  <2> QED
    BY <2>1, Zenon DEF Joined
<1> HIDE DEF t
<1>3. \A i \in 1 .. Len(s) : i \in 1 .. Len(t)
  BY <1>1, <1>2
<1>4. ASSUME NEW x \in Elems, NEW y \in Elems, Upto(s, x, y) PROVE Upto(t, x, y)
  BY <1>2, <1>3, <1>4 DEF Upto
<1>5. \A x \in Elems : owner'[x] # k
  BY DEF Concat, Own
<1> QED
  BY <1>4, <1>5 DEF Keeps, Rows, s, t, u

\* No element that a queue of a swap had stays there.
LEMMA SwapKeeps ==
  ASSUME Links, NEW q, Rows(q), NEW h \in Heads, NEW k \in Heads, Swap(h, k)
  PROVE  Keeps(q, [q EXCEPT ![h] = q[k], ![k] = q[h]])
<1>1. ASSUME NEW g \in Heads, g \in {h, k}, NEW x \in Elems, NEW y, Upto(q[g], x, y)
      PROVE  owner'[x] # g
  <2>1. owner[x] = g
    BY <1>1 DEF Upto, Rows, Row
  <2> QED
    BY <1>1, <2>1 DEF Swap, Own
<1> QED
  BY <1>1 DEF Keeps, Rows

LEMMA ClearKeeps ==
  ASSUME Links, NEW q, Rows(q), NEW h \in Heads, Clear(h)
  PROVE  Keeps(q, [q EXCEPT ![h] = <<>>])
<1>1. \A x \in Elems : owner'[x] # h
  BY QueueAssumption DEF Clear, Own
<1> QED
  BY <1>1 DEF Keeps, Rows

LEMMA InsertHeadCall ==
  ASSUME Links, Links', NEW q, Rows(q), NEW h \in Heads, NEW e \in Elems, InsertHead(h, e)
  PROVE  Sequences_!InsertHead(h, e) /\ \E r : Rows(r)' /\ Keeps(q, r)
<1> DEFINE r == [q EXCEPT ![h] = Ins(q[h], 0, e)]
<1>1. 0 \in 0 .. Len(q[h]) /\ q[h] \in Seq(Elems)
  BY RowPlaces DEF Rows
<1>2. Rows(r)' /\ Keeps(q, r)
  BY <1>1, Inserts, InsertKeeps
<1>3. r = [q EXCEPT ![h] = <<e>> \o q[h]]
  BY <1>1, InsAs
<1> HIDE DEF r
<1>4. Lists' = [Lists EXCEPT ![h] = <<e>> \o @]
  BY <1>2, <1>3, Seen, ListsBecome
<1>5. Sequences_!Free(e)
  BY Seen DEF InsertHead, Gains
<1> QED
  BY <1>2, <1>4, <1>5 DEF Sequences_!InsertHead, Lists

LEMMA InsertTailCall ==
  ASSUME Links, Links', NEW q, Rows(q), NEW h \in Heads, NEW e \in Elems, InsertTail(h, e)
  PROVE  Sequences_!InsertTail(h, e) /\ \E r : Rows(r)' /\ Keeps(q, r)
<1> DEFINE i == Len(q[h])
           r == [q EXCEPT ![h] = Ins(q[h], i, e)]
<1>1. i \in 0 .. Len(q[h]) /\ q[h] \in Seq(Elems)
  BY RowPlaces DEF Rows
<1>2. Rows(r)' /\ Keeps(q, r)
  <2>1. i = Len(q[h])
    OBVIOUS
  <2> HIDE DEF i
  <2> QED
    BY <1>1, <2>1, Inserts, InsertKeeps
<1>3. r = [q EXCEPT ![h] = Append(q[h], e)]
  BY <1>1, InsAs
<1> HIDE DEF r
<1>4. Lists' = [Lists EXCEPT ![h] = Append(@, e)]
  BY <1>2, <1>3, Seen, ListsBecome
<1>5. Sequences_!Free(e)
  BY Seen DEF InsertTail, Gains
<1> QED
  BY <1>2, <1>4, <1>5 DEF Sequences_!InsertTail, Lists

\* The position of an element of a queue.
LEMMA PositionOf ==
  ASSUME Links, NEW q, Rows(q), NEW h \in Heads, NEW p \in Elems, owner[p] = h
  PROVE  /\ \E i \in 1 .. Len(q[h]) : q[h][i] = p /\ Sequences_!Index(h, p) = i
         /\ p \in Sequences_!On(h)
<1>1. PICK i \in 1 .. Len(q[h]) : q[h][i] = p
  BY DEF Rows, Row
<1>2. Sequences_!Index(h, p) = i
  BY <1>1, Seen
<1>3. p \in Sequences_!On(h)
  BY Seen
<1> QED
  BY <1>1, <1>2, <1>3

LEMMA InsertAfterCall ==
  ASSUME Links, Links', NEW q, Rows(q), NEW h \in Heads, NEW p \in Elems, NEW e \in Elems,
         InsertAfter(h, p, e)
  PROVE  Sequences_!InsertAfter(h, p, e) /\ \E r : Rows(r)' /\ Keeps(q, r)
<1>1. owner[p] = h /\ owner[e] = NULL
  BY DEF InsertAfter, Gains
<1>2. PICK i \in 1 .. Len(q[h]) : q[h][i] = p /\ Sequences_!Index(h, p) = i
  BY <1>1, PositionOf
<1> DEFINE r == [q EXCEPT ![h] = Ins(q[h], i, e)]
<1>3. i \in 0 .. Len(q[h]) /\ i # 0 /\ q[h] \in Seq(Elems)
  BY RowPlaces DEF Rows
<1>4. Rows(r)' /\ Keeps(q, r)
  BY <1>2, <1>3, Inserts, InsertKeeps
<1>5. r = [q EXCEPT ![h] = InsertAt(q[h], i + 1, e)]
  BY <1>3, InsAs
<1> HIDE DEF r
<1>6. Lists' = [Lists EXCEPT ![h] = InsertAt(@, Sequences_!Index(h, p) + 1, e)]
  BY <1>2, <1>4, <1>5, Seen, ListsBecome
<1>7. Sequences_!Free(e) /\ p \in Sequences_!On(h)
  BY <1>1, Seen
<1> QED
  BY <1>4, <1>6, <1>7 DEF Sequences_!InsertAfter, Lists, Sequences_!InsertAt, InsertAt

LEMMA InsertBeforeCall ==
  ASSUME Links, Links', NEW q, Rows(q), NEW h \in Heads, NEW p \in Elems, NEW e \in Elems,
         InsertBefore(h, p, e)
  PROVE  Sequences_!InsertBefore(h, p, e) /\ \E r : Rows(r)' /\ Keeps(q, r)
<1>1. owner[p] = h /\ owner[e] = NULL
  BY DEF InsertBefore, Gains
<1>2. PICK j \in 1 .. Len(q[h]) : q[h][j] = p /\ Sequences_!Index(h, p) = j
  BY <1>1, PositionOf
<1> DEFINE i == j - 1
           r == [q EXCEPT ![h] = Ins(q[h], i, e)]
<1>3. i \in 0 .. Len(q[h]) /\ i # Len(q[h]) /\ i + 1 = j /\ q[h] \in Seq(Elems)
  BY RowPlaces DEF Rows
<1> HIDE DEF i
<1>4. Rows(r)' /\ Keeps(q, r)
  BY <1>2, <1>3, Inserts, InsertKeeps
<1>5. r = [q EXCEPT ![h] = InsertAt(q[h], j, e)]
  BY <1>3, InsAs
<1> HIDE DEF r
<1>6. Lists' = [Lists EXCEPT ![h] = InsertAt(@, Sequences_!Index(h, p), e)]
  BY <1>2, <1>4, <1>5, Seen, ListsBecome
<1>7. Sequences_!Free(e) /\ p \in Sequences_!On(h)
  BY <1>1, Seen
<1> QED
  BY <1>4, <1>6, <1>7 DEF Sequences_!InsertBefore, Lists, Sequences_!InsertAt, InsertAt

LEMMA RemovedCall ==
  ASSUME Links, Links', NEW q, Rows(q), NEW h \in Heads, NEW i \in 1 .. Len(q[h]),
         \/ RemoveElem(h, q[h][i])
         \/ i = 1 /\ RemoveHead(h)
         \/ i # 1 /\ RemoveAfter(h, q[h][i - 1])
  PROVE  Sequences_!RemoveElem(h, q[h][i]) /\ \E r : Rows(r)' /\ Keeps(q, r)
<1> DEFINE e == q[h][i]
           r == [q EXCEPT ![h] = Del(q[h], i)]
<1>0. Row(h, q[h]) /\ Len(q[h]) \in Nat
  BY RowPlaces DEF Rows
<1>1. q[h] \in Seq(Elems) /\ e \in Elems /\ owner[e] = h
  BY RowPlaces DEF Rows
<1>2. Rows(r)' /\ Keeps(q, r)
  <2>1. owner'[e] # h
    <3>1. i = 1 => next[h] = e
      BY <1>0 DEF Row, Place
    <3>2. i # 1 => next[q[h][i - 1]] = e
      BY <1>0 DEF Row, Place
    <3> HIDE DEF e
    <3>3. \E x : Loses(h, x) /\ x = e
      BY <3>1, <3>2 DEF RemoveElem, RemoveHead, RemoveAfter, e
    <3> QED
      BY <1>1, <3>3, QueueAssumption DEF Loses, Own, Links, Types
  <2> QED
    BY <2>1, Removes, RemoveKeeps
<1>3. r = [q EXCEPT ![h] = RemoveAt(q[h], i)]
  BY <1>1, DelAs
<1>4. Sequences_!Index(h, e) = i
  BY Seen
<1> HIDE DEF r, e
<1>5. Lists' = [Lists EXCEPT ![h] = RemoveAt(@, Sequences_!Index(h, e))]
  BY <1>2, <1>3, <1>4, Seen, ListsBecome
<1>6. e \in Sequences_!On(h)
  BY <1>1, Seen
<1>7. Sequences_!RemoveElem(h, e)
  BY <1>5, <1>6 DEF Sequences_!RemoveElem, Lists, Sequences_!RemoveAt, RemoveAt
<1> QED
  BY <1>2, <1>7 DEF e

LEMMA RemoveElemCall ==
  ASSUME Links, Links', NEW q, Rows(q), NEW h \in Heads, NEW e \in Elems, RemoveElem(h, e)
  PROVE  Sequences_!RemoveElem(h, e) /\ \E r : Rows(r)' /\ Keeps(q, r)
<1>1. owner[e] = h
  BY DEF RemoveElem, Loses
<1>2. PICK i \in 1 .. Len(q[h]) : q[h][i] = e
  BY <1>1, PositionOf
<1> QED
  BY <1>2, RemovedCall

LEMMA RemoveHeadCall ==
  ASSUME Links, Links', NEW q, Rows(q), NEW h \in Heads, RemoveHead(h)
  PROVE  /\ Sequences_!RemoveHead(h) /\ \E r : Rows(r)' /\ Keeps(q, r)
         /\ \E e \in Elems : Sequences_!RemoveElem(h, e)
<1> DEFINE s == q[h]
<1>1. Row(h, s) /\ Len(s) \in Nat /\ s \in Seq(Elems) /\ 0 \in 0 .. Len(s)
  BY RowPlaces DEF Rows
<1>2. next[h] = IF 0 < Len(s) THEN s[0 + 1] ELSE Stop(h)
  BY <1>1, RowNext DEF Place
<1>3. 0 < Len(s)
  BY <1>1, <1>2, QueueAssumption DEF RemoveHead, Stop
<1>4. 1 \in 1 .. Len(s) /\ s # <<>> /\ Head(s) = s[1]
  BY <1>1, <1>3
<1>5. Sequences_!RemoveElem(h, q[h][1]) /\ \E r : Rows(r)' /\ Keeps(q, r)
  BY <1>4, RemovedCall
<1>6. Chain(h) = s
  BY Seen DEF Lists
<1> HIDE DEF s
<1>7. [g \in Heads |-> Chain(g)][h] = s
  BY <1>6
<1>8. Sequences_!RemoveElem(h, Head(s)) /\ Head(s) \in Elems
  <2>1. s[1] \in Elems
    BY <1>1, <1>4
  <2> QED
    BY <1>4, <1>5, <2>1 DEF s
<1> QED
  BY <1>4, <1>5, <1>7, <1>8 DEF Sequences_!RemoveHead

LEMMA RemoveAfterCall ==
  ASSUME Links, Links', NEW q, Rows(q), NEW h \in Heads, NEW p \in Elems, RemoveAfter(h, p)
  PROVE  /\ Sequences_!RemoveAfter(h, p) /\ \E r : Rows(r)' /\ Keeps(q, r)
         /\ \E e \in Elems : Sequences_!RemoveElem(h, e)
<1> DEFINE s == q[h]
<1>1. Row(h, s) /\ Len(s) \in Nat /\ owner[p] = h /\ next[p] \in Elems
  BY RowPlaces DEF Rows, RemoveAfter
<1>2. PICK j \in 1 .. Len(s) : s[j] = p /\ Sequences_!Index(h, p) = j
  BY <1>1, PositionOf
<1>3. j \in 0 .. Len(s) /\ Place(h, s, j) = p
  BY <1>1, <1>2 DEF Place
<1>4. next[p] = IF j < Len(s) THEN s[j + 1] ELSE Stop(h)
  BY <1>1, <1>3, RowNext
<1>5. j < Len(s)
  BY <1>1, <1>4, QueueAssumption DEF Stop
<1> DEFINE i == j + 1
<1>6. i \in 1 .. Len(s) /\ i # 1 /\ i - 1 = j
  BY <1>1, <1>2, <1>5
<1> HIDE DEF i
<1>7. Sequences_!RemoveElem(h, q[h][i]) /\ \E r : Rows(r)' /\ Keeps(q, r)
  BY <1>2, <1>6, RemovedCall
<1>8. [g \in Heads |-> Chain(g)][h] = s
  BY Seen DEF Lists
<1>9. p \in Sequences_!On(h)
  BY <1>1, PositionOf
<1> HIDE DEF s
<1>10. Sequences_!RemoveElem(h, s[j + 1]) /\ s[j + 1] \in Elems
  <2>1. s[i] \in Elems
    BY <1>1, <1>6, RowPlaces
  <2> QED
    BY <1>7, <2>1 DEF s, i
<1> QED
  BY <1>2, <1>5, <1>7, <1>8, <1>9, <1>10 DEF Sequences_!RemoveAfter

LEMMA ClearCall ==
  ASSUME Links, Links', NEW q, Rows(q), NEW h \in Heads, Clear(h)
  PROVE  Sequences_!Clear(h) /\ \E r : Rows(r)' /\ Keeps(q, r)
<1> DEFINE r == [q EXCEPT ![h] = <<>>]
<1>1. Rows(r)' /\ Keeps(q, r)
  BY Clears, ClearKeeps
<1>2. Lists' = [Lists EXCEPT ![h] = <<>>]
  BY <1>1, Seen, ListsBecome
<1> HIDE DEF r
<1> QED
  BY <1>1, <1>2 DEF Sequences_!Clear, Lists

LEMMA ConcatCall ==
  ASSUME Links, Links', NEW q, Rows(q), NEW h \in Heads, NEW k \in Heads, Concat(h, k)
  PROVE  Sequences_!Concat(h, k) /\ \E r : Rows(r)' /\ Keeps(q, r)
<1> DEFINE r == [q EXCEPT ![h] = q[h] \o q[k], ![k] = <<>>]
<1>1. Rows(r)' /\ Keeps(q, r)
  BY Concats, ConcatKeeps
<1>2. Lists' = [Lists EXCEPT ![h] = @ \o Lists[k], ![k] = <<>>]
  BY <1>1, Seen, ListsBecome
<1> HIDE DEF r
<1>3. h # k
  BY DEF Concat
<1> QED
  BY <1>1, <1>2, <1>3 DEF Sequences_!Concat, Lists

LEMMA SwapCall ==
  ASSUME Links, Links', NEW q, Rows(q), NEW h \in Heads, NEW k \in Heads, Swap(h, k)
  PROVE  Sequences_!Swap(h, k) /\ \E r : Rows(r)' /\ Keeps(q, r)
<1> DEFINE r == [q EXCEPT ![h] = q[k], ![k] = q[h]]
<1>1. Rows(r)' /\ Keeps(q, r)
  BY Swaps, SwapKeeps
<1>2. Lists' = [Lists EXCEPT ![h] = Lists[k], ![k] = Lists[h]]
  BY <1>1, Seen, ListsBecome
<1> HIDE DEF r
<1> QED
  BY <1>1, <1>2 DEF Sequences_!Swap, Lists

\* Every element that the client has on a queue can be reached from its head.
Sequenced == \E q : Rows(q)

\* Each macro does to the sequences what its name says.
LEMMA CallsStep ==
  ASSUME Links, Links', Sequenced
  PROVE  CallsAgree
<1>1. PICK q : Rows(q)
  BY DEF Sequenced
<1>2. \A h \in Heads : /\ Clear(h) => Sequences_!Clear(h)
                       /\ RemoveHead(h) => Sequences_!RemoveHead(h)
  BY <1>1, ClearCall, RemoveHeadCall
<1>3. \A h \in Heads, e \in Elems :
        /\ InsertHead(h, e) => Sequences_!InsertHead(h, e)
        /\ InsertTail(h, e) => Sequences_!InsertTail(h, e)
        /\ RemoveElem(h, e) => Sequences_!RemoveElem(h, e)
        /\ RemoveAfter(h, e) => Sequences_!RemoveAfter(h, e)
  BY <1>1, InsertHeadCall, InsertTailCall, RemoveElemCall, RemoveAfterCall
<1>4. \A h \in Heads, e, p \in Elems :
        /\ InsertAfter(h, p, e) => Sequences_!InsertAfter(h, p, e)
        /\ InsertBefore(h, p, e) => Sequences_!InsertBefore(h, p, e)
  BY <1>1, InsertAfterCall, InsertBeforeCall
<1>5. \A h, k \in Heads : /\ Concat(h, k) => Sequences_!Concat(h, k)
                          /\ Swap(h, k) => Sequences_!Swap(h, k)
  BY <1>1, ConcatCall, SwapCall
<1> QED
  BY <1>2, <1>3, <1>4, <1>5 DEF CallsAgree

\* A step of the sequences, or none.
Moves == Sequences_!Next \/ UNCHANGED Lists

\* Where no link changes, no sequence does.
LEMMA RowsStay ==
  ASSUME NEW q, Rows(q), UNCHANGED <<kind, links, owner>>
  PROVE  Rows(q)'
BY DEF Rows, Row, Place, Stop, links

\* Every step makes a step of the sequences or none, and keeps the order of
\* the elements that stay.
LEMMA SequencesStep ==
  ASSUME Links, Links', NEW q, Rows(q), Next
  PROVE  Moves /\ \E r : Rows(r)' /\ Keeps(q, r)
<1> DEFINE Follows == Moves /\ \E r : Rows(r)' /\ Keeps(q, r)
<1>1. \A h \in Heads : Clear(h) => Follows
  BY ClearCall DEF Moves, Sequences_!Next
<1>2. \A h \in Heads : RemoveHead(h) => Follows
  BY RemoveHeadCall DEF Moves, Sequences_!Next
<1>3. \A h \in Heads, e \in Elems : InsertHead(h, e) => Follows
  BY InsertHeadCall DEF Moves, Sequences_!Next
<1>4. \A h \in Heads, e \in Elems : InsertTail(h, e) => Follows
  BY InsertTailCall DEF Moves, Sequences_!Next
<1>5. \A h \in Heads, e \in Elems : RemoveElem(h, e) => Follows
  BY RemoveElemCall DEF Moves, Sequences_!Next
<1>6. \A h \in Heads, p, e \in Elems : InsertAfter(h, p, e) => Follows
  BY InsertAfterCall DEF Moves, Sequences_!Next
<1>7. \A h \in Heads, p, e \in Elems : InsertBefore(h, p, e) => Follows
  BY InsertBeforeCall DEF Moves, Sequences_!Next
<1>8. \A h \in Heads, p \in Elems : RemoveAfter(h, p) => Follows
  BY RemoveAfterCall DEF Moves, Sequences_!Next
<1>9. \A h, k \in Heads : Concat(h, k) => Follows
  BY ConcatCall DEF Moves, Sequences_!Next
<1>10. \A h, k \in Heads : Swap(h, k) => Follows
  BY SwapCall DEF Moves, Sequences_!Next
<1>11. UNCHANGED <<kind, links, owner>> => Follows
  <2> SUFFICES ASSUME UNCHANGED <<kind, links, owner>> PROVE Follows
    OBVIOUS
  <2>1. Rows(q)'
    BY RowsStay
  <2>2. Lists' = Lists
    BY <2>1, Seen, ListsBecome
  <2> QED
    BY <2>1, <2>2 DEF Keeps, Moves
<1> HIDE DEF Follows
<1>12. Follows
  BY <1>1, <1>2, <1>3, <1>4, <1>5, <1>6, <1>7, <1>8, <1>9, <1>10, <1>11
  DEF Next, Foreach, ForeachStep
<1> QED
  BY <1>12 DEF Follows

LEMMA SequencedStep ==
  ASSUME Links, Links', Sequenced, Next
  PROVE  Sequenced' /\ Moves
BY SequencesStep DEF Sequenced

LEMMA InitSequenced ==
  ASSUME Init
  PROVE  Rows([h \in Heads |-> <<>>]) /\ Sequences_!Init
<1> DEFINE q == [h \in Heads |-> <<>>]
<1>1. ASSUME NEW h \in Heads PROVE Row(h, <<>>)
  <2>1. next[h] = Stop(h) /\ \A e \in Elems : owner[e] # h
    BY QueueAssumption DEF Init, Stop
  <2> QED
    BY <2>1 DEF Row, Place
<1>2. Rows(q)
  BY <1>1 DEF Rows
<1> HIDE DEF q
<1>3. Lists = q
  BY <1>2, InitLinks, Seen
<1> QED
  BY <1>2, <1>3 DEF q, Lists, Sequences_!Init

\* Whatever the family, for any number of queues and elements, the links are
\* sequences and each macro does to them what its name says.
THEOREM QueueRefinesQueues == Spec => RefinesQueues
<1> DEFINE IInv == Links /\ Sequenced
           Once == CallsAgree
<1>1. Init => IInv /\ Sequences_!Init
  BY InitLinks, InitSequenced DEF Sequenced
<1>2. IInv /\ Next => IInv' /\ Moves
  BY NextStep, SequencedStep
<1>3. IInv /\ UNCHANGED vars => IInv' /\ Moves
  <2> SUFFICES ASSUME IInv, UNCHANGED vars PROVE IInv' /\ Moves
    OBVIOUS
  <2>1. PICK q : Rows(q)
    BY DEF Sequenced
  <2>2. Links' /\ UNCHANGED <<kind, links, owner>>
    BY LinksStuttering DEF vars
  <2>3. Rows(q)'
    BY <2>1, <2>2, RowsStay
  <2>4. Lists' = Lists
    BY <2>1, <2>2, <2>3, Seen, ListsBecome
  <2> QED
    BY <2>2, <2>3, <2>4 DEF Sequenced, Moves
<1>4. IInv /\ IInv' => Once
  BY CallsStep
<1>5. Moves => [Sequences_!Next]_([h \in Heads |-> Chain(h)])
  BY DEF Moves, Lists
<1> HIDE DEF IInv, Once
<1>6. Spec => Sequences_!Spec
  BY <1>1, <1>2, <1>3, <1>5, PTL DEF Spec, Sequences_!Spec
<1>7. Spec => [][Once]_vars
  BY <1>1, <1>2, <1>3, <1>4, PTL DEF Spec
<1> QED
  BY <1>6, <1>7 DEF RefinesQueues, Once

\* In every family the links of each head spell a sequence of all the elements
\* that are on it: no macro leaves one out or closes a cycle beside the queue.
THEOREM QueueSequences == Spec => []Sequenced
<1> DEFINE IInv == Links /\ Sequenced
<1>1. Init => IInv
  BY InitLinks, InitSequenced DEF Sequenced
<1>2. IInv /\ Next => IInv'
  BY NextStep, SequencedStep
<1>3. IInv /\ UNCHANGED vars => IInv'
  <2> SUFFICES ASSUME IInv, UNCHANGED vars PROVE IInv'
    OBVIOUS
  <2>1. PICK q : Rows(q)
    BY DEF Sequenced
  <2>2. Links' /\ UNCHANGED <<kind, links, owner>>
    BY LinksStuttering DEF vars
  <2>3. Rows(q)'
    BY <2>1, <2>2, RowsStay
  <2> QED
    BY <2>2, <2>3 DEF Sequenced
<1> HIDE DEF IInv
<1>4. Spec => []IInv
  BY <1>1, <1>2, <1>3, PTL DEF Spec
<1> QED
  BY <1>4, PTL DEF IInv

\* LAST and PREV, which go by the tail pointer, the pun of TAILQ_PREV or the
\* back links of a circular queue, see the sequence that FIRST and NEXT see.
THEOREM QueueEndsAgree == Spec => []EndsAgree
<1>1. Links /\ Sequenced => EndsAgree
  <2> SUFFICES ASSUME Links, Sequenced, NEW h \in Heads
               PROVE  /\ kind = "STAILQ" =>
                           STAILQ_LAST(h) = IF Chain(h) = <<>> THEN NULL ELSE Last(Chain(h))
                      /\ kind \in {"TAILQ", "CIRCLEQ"} =>
                           Preceding[Cardinality(Elems)][h] = Chain(h)
    BY DEF EndsAgree
  <2>1. PICK q : Rows(q)
    BY DEF Sequenced
  <2> DEFINE s == q[h]
  <2>2. Row(h, s) /\ Chain(h) = s
    BY <2>1, ChainIs DEF Rows
  <2>3. Len(s) \in Nat /\ s \in Seq(Elems) /\ 0 \in 0 .. Len(s)
    BY <2>2, RowPlaces DEF Row
  <2>4. ASSUME kind = "STAILQ"
        PROVE  STAILQ_LAST(h) = IF s = <<>> THEN NULL ELSE s[Len(s)]
    <3>1. back[h] = Place(h, s, Len(s))
      BY <2>2, <2>4, RowBack
    <3>2. next[h] = IF 0 < Len(s) THEN s[0 + 1] ELSE Stop(h)
      BY <2>2, <2>3, RowNext DEF Place
    <3>3. CASE s = <<>>
      <4>1. next[h] = NULL
        BY <2>3, <2>4, <3>2, <3>3 DEF Stop
      <4> QED
        BY <3>3, <4>1 DEF STAILQ_LAST
    <3>4. CASE s # <<>>
      <4>1. 0 < Len(s) /\ Len(s) # 0 /\ 1 \in 1 .. Len(s)
        BY <2>3, <3>4
      <4>2. s[1] \in Elems
        BY <2>3, <4>1
      <4>3. next[h] # NULL
        BY <3>2, <4>1, <4>2, QueueAssumption
      <4> QED
        BY <3>1, <3>4, <4>1, <4>3 DEF STAILQ_LAST, Place
    <3> QED
      BY <3>3, <3>4
  <2>5. ASSUME kind \in {"TAILQ", "CIRCLEQ"}
        PROVE  Preceding[Cardinality(Elems)][h] = s
    BY <2>2, <2>5, PrecedingIs
  <2> QED
    BY <2>2, <2>4, <2>5 DEF Last
<1> QED
  BY <1>1, QueueLinks, QueueSequences, PTL

-----------------------------------------------------------------------------
(* A traversal comes by every element that stays                           *)

\* The element that the traversal goes on from.
From == IF loop \in Plain THEN var ELSE tvar

\* Going on, the traversal will come to e.
Due(q, e) ==
  \/ loop \in {"FOREACH", "FOREACH_SAFE"} /\ Upto(q[at], From, e)
  \/ loop \in {"FOREACH_REVERSE", "FOREACH_REVERSE_SAFE"} /\ Upto(q[at], e, From)

\* What stayed on the queue was visited, is being visited, or will be.
Pending(q) ==
  /\ stayed \subseteq On(at)
  /\ loop # "none" /\ var = NULL => stayed \subseteq visited
  /\ Running => \A e \in stayed \ visited : e = var \/ Due(q, e)

Forward == {"FOREACH", "FOREACH_SAFE"}
Backward == {"FOREACH_REVERSE", "FOREACH_REVERSE_SAFE"}

\* Where FIRST, NEXT, LAST and PREV lead.
LEMMA AheadIs ==
  ASSUME Links, NEW h \in Heads, NEW s, Row(h, s), NEW how \in Loops
  PROVE  /\ how \in Forward =>
              \A i \in 0 .. Len(s) :
                Ahead(how, Place(h, s, i)) = IF i < Len(s) THEN s[i + 1] ELSE Stop(h)
         /\ how \in Backward =>
              \A j \in 1 .. Len(s) + 1 :
                Ahead(how, Behind(h, s, j)) = IF j > 1 THEN s[j - 1] ELSE Stop(h)
         /\ how \in Forward \/ how \in Backward
<1>1. ASSUME how \in Forward, NEW i \in 0 .. Len(s)
      PROVE  Ahead(how, Place(h, s, i)) = IF i < Len(s) THEN s[i + 1] ELSE Stop(h)
  <2>1. Ahead(how, Place(h, s, i)) = next[Place(h, s, i)]
    BY <1>1 DEF Ahead, Forward
  <2> QED
    BY <2>1, RowNext
<1>2. ASSUME how \in Backward, NEW j \in 1 .. Len(s) + 1
      PROVE  Ahead(how, Behind(h, s, j)) = IF j > 1 THEN s[j - 1] ELSE Stop(h)
  <2>1. kind \in {"TAILQ", "CIRCLEQ"}
    BY <1>2 DEF Loops, Backward
  <2>2. Ahead(how, Behind(h, s, j)) = Before(Behind(h, s, j))
    BY <1>2, <2>1 DEF Ahead, Before, Backward
  <2> QED
    BY <2>1, <2>2, RowBefore
<1>3. how \in Forward \/ how \in Backward
  BY DEF Loops, Forward, Backward
<1> QED
  BY <1>1, <1>2, <1>3

\* At position i, what comes at i or later is visited or will be.
LEMMA VisitForward ==
  ASSUME Links, NEW h \in Heads, NEW s, Row(h, s), NEW how \in Loops, how \in Forward,
         NEW i \in 1 .. Len(s), Visit(how, s[i]), NEW j \in 1 .. Len(s), i <= j
  PROVE  /\ var' = s[i] /\ var' # NULL
         /\ how \in Plain => Upto(s, var', s[j])
         /\ how \notin Plain => s[j] = var' \/ Upto(s, tvar', s[j])
<1>1. Len(s) \in Nat /\ s[i] \in Elems
  BY RowPlaces
<1>2. var' = s[i] /\ var' # NULL
  BY <1>1, QueueAssumption DEF Visit, Found
<1>3. Upto(s, s[i], s[j])
  BY DEF Upto
<1>4. ASSUME how \notin Plain, i # j PROVE Upto(s, tvar', s[j])
  <2>1. i < j /\ i < Len(s) /\ i + 1 \in 1 .. Len(s) /\ i + 1 <= j /\ i \in 0 .. Len(s) /\ i # 0
    BY <1>1, <1>4
  <2>2. Ahead(how, s[i]) = s[i + 1]
    BY <2>1, AheadIs DEF Place
  <2>3. s[i] # NULL
    BY <1>1, QueueAssumption
  <2>4. tvar' = s[i + 1]
    BY <1>4, <2>2, <2>3 DEF Visit, Forward, Plain
  <2> QED
    BY <2>1, <2>4 DEF Upto
<1> QED
  BY <1>2, <1>3, <1>4

LEMMA VisitBackward ==
  ASSUME Links, NEW h \in Heads, NEW s, Row(h, s), NEW how \in Loops, how \in Backward,
         NEW i \in 1 .. Len(s), Visit(how, s[i]), NEW j \in 1 .. Len(s), j <= i
  PROVE  /\ var' = s[i] /\ var' # NULL
         /\ how \in Plain => Upto(s, s[j], var')
         /\ how \notin Plain => s[j] = var' \/ Upto(s, s[j], tvar')
<1>1. Len(s) \in Nat /\ s[i] \in Elems
  BY RowPlaces
<1>2. var' = s[i] /\ var' # NULL
  BY <1>1, QueueAssumption DEF Visit, Found
<1>3. Upto(s, s[j], s[i])
  BY DEF Upto
<1>4. ASSUME how \notin Plain, i # j PROVE Upto(s, s[j], tvar')
  <2>1. i > 1 /\ i - 1 \in 1 .. Len(s) /\ j <= i - 1 /\ i \in 1 .. Len(s) + 1 /\ i # Len(s) + 1
    BY <1>1, <1>4
  <2>2. Ahead(how, s[i]) = s[i - 1]
    BY <2>1, AheadIs DEF Behind
  <2>3. s[i] # NULL
    BY <1>1, QueueAssumption
  <2>4. tvar' = s[i - 1]
    BY <1>4, <2>2, <2>3 DEF Visit, Backward, Plain
  <2> QED
    BY <2>1, <2>4 DEF Upto
<1> QED
  BY <1>2, <1>3, <1>4

\* All the elements are yet to come when a traversal starts.
LEMMA StartPending ==
  ASSUME Links, NEW q, Rows(q), NEW h \in Heads, NEW how \in Loops, Foreach(h, how)
  PROVE  Pending(q)'
<1> DEFINE s == q[h]
<1>1. Row(h, s) /\ Len(s) \in Nat
  BY RowPlaces DEF Rows
<1>2. /\ loop' = how /\ at' = h /\ visited' = {} /\ stayed' = On(h) /\ owner' = owner
      /\ Visit(how, Ahead(how, h))
  BY DEF Foreach
<1>3. \A e \in On(h) : e \in Elems /\ \E j \in 1 .. Len(s) : s[j] = e
  BY <1>1 DEF On, Row
<1>4. ASSUME NEW e \in On(h) PROVE var' # NULL /\ (e = var' \/ Due(q, e)')
  <2>1. PICK j \in 1 .. Len(s) : s[j] = e
    BY <1>3
  <2>2. CASE how \in Forward
    <3>1. 1 \in 1 .. Len(s) /\ 1 <= j /\ 0 \in 0 .. Len(s) /\ 0 < Len(s) /\ 0 + 1 = 1
      BY <1>1
    <3>2. Ahead(how, h) = s[1]
      BY <1>1, <2>2, <3>1, AheadIs DEF Place
    <3>3. /\ var' # NULL
          /\ how \in Plain => Upto(s, var', s[j])
          /\ how \notin Plain => s[j] = var' \/ Upto(s, tvar', s[j])
      BY <1>1, <1>2, <2>2, <3>1, <3>2, VisitForward
    <3> QED
      BY <1>2, <2>1, <2>2, <3>3 DEF Due, From, Forward
  <2>3. CASE how \in Backward
    <3> DEFINE i == Len(s)
               k == i + 1
    <3>1. i \in 1 .. Len(s) /\ j <= i /\ k \in 1 .. Len(s) + 1 /\ k > 1 /\ k - 1 = i /\ k = Len(s) + 1
      BY <1>1
    <3> HIDE DEF i, k
    <3>2. Ahead(how, h) = s[i]
      BY <1>1, <2>3, <3>1, AheadIs DEF Behind
    <3>3. /\ var' # NULL
          /\ how \in Plain => Upto(s, s[j], var')
          /\ how \notin Plain => s[j] = var' \/ Upto(s, s[j], tvar')
      BY <1>1, <1>2, <2>3, <3>1, <3>2, VisitBackward
    <3> QED
      BY <1>2, <2>1, <2>3, <3>3 DEF Due, From, Backward
  <2> QED
    BY <1>1, <2>2, <2>3, AheadIs
<1>5. stayed' \subseteq On(at)'
  BY <1>2 DEF On
<1>6. var' = NULL => stayed' \subseteq visited'
  BY <1>2, <1>4
<1> QED
  BY <1>2, <1>4, <1>5, <1>6 DEF Pending

\* What was due at the element the traversal comes to is that element, or due
\* from then on.
LEMMA StepPending ==
  ASSUME Links, WalkSound, NEW q, Rows(q), Pending(q), ForeachStep
  PROVE  Pending(q)'
<1> DEFINE s == q[at]
<1>1. /\ at \in Heads /\ Row(at, s) /\ Len(s) \in Nat
      /\ \A i \in 1 .. Len(s) : s[i] \in Elems
  BY RowPlaces DEF WalkSound, Rows
<1>2. /\ Running /\ loop \in Loops /\ Visit(loop, Onward)
      /\ visited' = visited \cup {var} /\ UNCHANGED <<kind, links, owner, loop, at, stayed>>
  BY DEF ForeachStep, WalkSound
<1>3. \A e \in stayed \ visited' : e # var /\ Due(q, e)
  BY <1>2 DEF Pending
<1>4. ASSUME NEW e \in stayed \ visited' PROVE var' # NULL /\ (e = var' \/ Due(q, e)')
  <2>1. e # var /\ Due(q, e)
    BY <1>3
  <2>2. CASE loop \in Forward
    <3>1. PICK i \in 1 .. Len(s), j \in 1 .. Len(s) : i <= j /\ s[i] = From /\ s[j] = e
      <4>1. Upto(s, From, e)
        BY <2>1, <2>2 DEF Due, Forward
      <4> QED
        BY <4>1 DEF Upto
    <3>2. PICK k \in 1 .. Len(s) : k <= j /\ Onward = s[k]
      <4>1. CASE loop \in Plain
        <5>1. From = var /\ i # j
          BY <2>1, <3>1, <4>1 DEF From
        <5>2. i < Len(s) /\ i + 1 \in 1 .. Len(s) /\ i + 1 <= j /\ i \in 0 .. Len(s) /\ i # 0
          BY <1>1, <3>1, <5>1
        <5>3. Ahead(loop, var) = s[i + 1]
          BY <1>1, <1>2, <2>2, <3>1, <5>1, <5>2, AheadIs DEF Place
        <5> QED
          BY <4>1, <5>2, <5>3 DEF Onward, Plain
      <4>2. CASE loop \notin Plain
        BY <3>1, <4>2 DEF Onward, Plain, From
      <4> QED
        BY <4>1, <4>2
    <3>3. /\ var' # NULL
          /\ loop \in Plain => Upto(s, var', s[j])
          /\ loop \notin Plain => s[j] = var' \/ Upto(s, tvar', s[j])
      BY <1>1, <1>2, <2>2, <3>2, VisitForward
    <3> QED
      BY <1>2, <2>2, <3>1, <3>3 DEF Due, From, Forward
  <2>3. CASE loop \in Backward
    <3>1. PICK j \in 1 .. Len(s), i \in 1 .. Len(s) : j <= i /\ s[i] = From /\ s[j] = e
      <4>1. Upto(s, e, From)
        BY <2>1, <2>3 DEF Due, Backward
      <4> QED
        BY <4>1 DEF Upto
    <3>2. PICK k \in 1 .. Len(s) : j <= k /\ Onward = s[k]
      <4>1. CASE loop \in Plain
        <5>1. From = var /\ i # j
          BY <2>1, <3>1, <4>1 DEF From
        <5>2. i > 1 /\ i - 1 \in 1 .. Len(s) /\ j <= i - 1 /\ i \in 1 .. Len(s) + 1 /\ i # Len(s) + 1
          BY <1>1, <3>1, <5>1
        <5>3. Ahead(loop, var) = s[i - 1]
          BY <1>1, <1>2, <2>3, <3>1, <5>1, <5>2, AheadIs DEF Behind
        <5> QED
          BY <4>1, <5>2, <5>3 DEF Onward, Plain
      <4>2. CASE loop \notin Plain
        BY <3>1, <4>2 DEF Onward, Plain, From
      <4> QED
        BY <4>1, <4>2
    <3>3. /\ var' # NULL
          /\ loop \in Plain => Upto(s, s[j], var')
          /\ loop \notin Plain => s[j] = var' \/ Upto(s, s[j], tvar')
      BY <1>1, <1>2, <2>3, <3>2, VisitBackward
    <3> QED
      BY <1>2, <2>3, <3>1, <3>3 DEF Due, From, Backward
  <2> QED
    BY <1>1, <1>2, <2>2, <2>3, AheadIs
<1>5. stayed' \subseteq On(at)'
  BY <1>2 DEF On, Pending
<1>6. var' = NULL => stayed' \subseteq visited'
  BY <1>2, <1>4
<1> QED
  BY <1>2, <1>4, <1>5, <1>6 DEF Pending

\* The client may do what it likes with all but the element to go on from.
LEMMA ClientPending ==
  ASSUME Links, WalkSound, NEW q, Rows(q), Pending(q), NEW r, Keeps(q, r), NEW o, Own(o),
         Running /\ From \in Elems =>
           \A y \in Elems : owner[From] = at /\ owner[y] = at /\ o[y] = at => o[From] = at
  PROVE  Pending(r)'
<1>1. /\ owner' = o /\ stayed' = {e \in stayed : o[e] = at}
      /\ UNCHANGED <<loop, at, var, tvar, visited>>
  BY DEF Own, walk
<1>2. at \in Heads /\ stayed \subseteq Elems
  BY DEF WalkSound
<1>3. \A x, y : Upto(q[at], x, y) => x \in Elems /\ owner[x] = at /\ y \in Elems /\ owner[y] = at
  <2>1. \A i \in 1 .. Len(q[at]) : q[at][i] \in Elems /\ owner[q[at][i]] = at
    BY <1>2, RowPlaces DEF Rows
  <2> QED
    BY <2>1 DEF Upto
<1>4. ASSUME Running, NEW e \in stayed', e \notin visited, e # var PROVE Due(r, e)'
  <2>1. e \in Elems /\ owner'[e] = at /\ Due(q, e)
    BY <1>1, <1>2, <1>4 DEF Pending
  <2>2. From \in Elems /\ owner[From] = at /\ owner[e] = at
    BY <1>3, <2>1 DEF Due
  <2>3. owner'[From] = at
    BY <1>1, <1>4, <2>1, <2>2
  <2>4. /\ Upto(q[at], From, e) => Upto(r[at], From, e)
        /\ Upto(q[at], e, From) => Upto(r[at], e, From)
    BY <1>2, <2>1, <2>2, <2>3 DEF Keeps
  <2>5. From' = From
    BY <1>1 DEF From
  <2> QED
    BY <1>1, <2>1, <2>4, <2>5 DEF Due
<1>5. Running' <=> Running
  BY <1>1 DEF Running
<1>6. stayed' \subseteq On(at)'
  BY <1>1, <1>2 DEF On
<1> QED
  BY <1>1, <1>4, <1>5, <1>6 DEF Pending

LEMMA PendingStep ==
  ASSUME Links, Links', WalkSound, NEW q, Rows(q), Pending(q), Next
  PROVE  \E r : Rows(r)' /\ Pending(r)'
<1>0. PICK r : Rows(r)' /\ Keeps(q, r)
  BY SequencesStep
<1>t. owner \in [Elems -> Heads \cup {NULL}] /\ at \in Heads /\ at # NULL
  BY QueueAssumption DEF Links, Types, WalkSound
<1>1. ASSUME NEW h \in Heads, Clear(h) PROVE Pending(r)'
  <2>1. /\ Own([e \in Elems |-> IF owner[e] = h THEN NULL ELSE owner[e]]) /\ ~Running
    BY <1>1 DEF Clear
  <2> QED
    BY <1>0, <2>1, ClientPending
<1>2. ASSUME NEW h \in Heads, NEW e \in Elems, Loses(h, e) PROVE Pending(r)'
  <2>1. Own([owner EXCEPT ![e] = NULL]) /\ (Running => e # From)
    BY <1>2 DEF Loses, From, Plain
  <2>2. Running => \A y \in Elems : owner[From] = at => [owner EXCEPT ![e] = NULL][From] = at
    BY <1>t, <2>1
  <2> QED
    BY <1>0, <2>1, <2>2, ClientPending
<1>3. ASSUME NEW h \in Heads, NEW e \in Elems, Gains(h, e) PROVE Pending(r)'
  <2>1. Own([owner EXCEPT ![e] = h]) /\ owner[e] = NULL
    BY <1>3 DEF Gains
  <2>2. owner[From] = at => [owner EXCEPT ![e] = h][From] = at
    BY <1>t, <2>1
  <2> QED
    BY <1>0, <2>1, <2>2, ClientPending
<1>4. ASSUME NEW h \in Heads, NEW k \in Heads, Concat(h, k) PROVE Pending(r)'
  <2> DEFINE o == [e \in Elems |-> IF owner[e] = k THEN h ELSE owner[e]]
  <2>1. Own(o)
    BY <1>4 DEF Concat
  <2>2. ASSUME From \in Elems, NEW y \in Elems, owner[From] = at, owner[y] = at, o[y] = at
        PROVE  o[From] = at
    BY <2>2
  <2> HIDE DEF o
  <2> QED
    BY <1>0, <2>1, <2>2, ClientPending
<1>5. ASSUME NEW h \in Heads, NEW k \in Heads, Swap(h, k) PROVE Pending(r)'
  <2> DEFINE o == [e \in Elems |-> CASE owner[e] = h -> k
                                     [] owner[e] = k -> h
                                     [] OTHER -> owner[e]]
  <2>1. Own(o)
    BY <1>5 DEF Swap
  <2>2. ASSUME From \in Elems, NEW y \in Elems, owner[From] = at, owner[y] = at, o[y] = at
        PROVE  o[From] = at
    BY <2>2
  <2> HIDE DEF o
  <2> QED
    BY <1>0, <2>1, <2>2, ClientPending
<1>6. ASSUME NEW h \in Heads, NEW how \in Loops, Foreach(h, how)
      PROVE  Rows(q)' /\ Pending(q)'
  BY <1>6, StartPending, RowsStay DEF Foreach
<1>7. ASSUME ForeachStep
      PROVE  Rows(q)' /\ Pending(q)'
  BY <1>7, StepPending, RowsStay DEF ForeachStep
<1> QED
  BY <1>0, <1>1, <1>2, <1>3, <1>4, <1>5, <1>6, <1>7
  DEF Next, RemoveHead, RemoveAfter, RemoveElem, InsertHead, InsertTail, InsertAfter, InsertBefore

\* Any of the traversals, over a queue of any length, comes by every element
\* that is on the queue from its beginning to its end.
THEOREM QueueForeachComplete == Spec => []ForeachComplete
<1> DEFINE Goes == \E q : Rows(q) /\ Pending(q)
           IInv == Links /\ WalkSound /\ Goes
<1>1. Init => IInv
  <2> SUFFICES ASSUME Init PROVE IInv
    OBVIOUS
  <2>1. Links /\ WalkSound
    BY InitLinks, QueueAssumption DEF Init, WalkSound, Running
  <2>2. Pending([h \in Heads |-> <<>>])
    BY DEF Init, Pending, Running
  <2> QED
    BY <2>1, <2>2, InitSequenced
<1>2. IInv /\ Next => IInv'
  <2> SUFFICES ASSUME IInv, Next PROVE IInv'
    OBVIOUS
  <2>1. Links' /\ WalkSound'
    BY NextStep, NextWalk
  <2>2. PICK q : Rows(q) /\ Pending(q)
    OBVIOUS
  <2>3. PICK r : Rows(r)' /\ Pending(r)'
    BY <2>1, <2>2, PendingStep
  <2> QED
    BY <2>1, <2>3
<1>3. IInv /\ UNCHANGED vars => IInv'
  <2> SUFFICES ASSUME IInv, UNCHANGED vars PROVE IInv'
    OBVIOUS
  <2>1. Links' /\ WalkSound'
    <3>1. WalkSound /\ UNCHANGED vars => WalkSound'
      BY DEF vars, walk, WalkSound, Running, Loops
    <3> QED
      BY <3>1, LinksStuttering
  <2>2. PICK q : Rows(q) /\ Pending(q)
    OBVIOUS
  <2>3. Rows(q)'
    BY <2>2, RowsStay DEF vars
  <2>4. Pending(q)'
    BY <2>2 DEF vars, walk, Pending, Running, On, Due, From
  <2> QED
    BY <2>1, <2>3, <2>4
<1>4. IInv => ForeachComplete
  BY DEF Pending, ForeachComplete
<1> HIDE DEF IInv
<1> QED
  BY <1>1, <1>2, <1>3, <1>4, PTL DEF Spec
=============================================================================
