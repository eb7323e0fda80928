------------------------------- MODULE Queues -------------------------------
(***************************************************************************)
(* What the queues of nc_sys_queue.h promise: each head is a sequence of   *)
(* elements, an element is on at most one of them, and every operation     *)
(* changes the sequences in the one place it names.                        *)
(***************************************************************************)
EXTENDS Integers, Sequences, SequencesExt

CONSTANTS Heads, Elems

VARIABLE queues  \* from heads to sequences of elements

On(h) == ToSet(queues[h])
Free(e) == \A h \in Heads : e \notin On(h)
Index(h, e) == CHOOSE i \in DOMAIN queues[h] : queues[h][i] = e

Init == queues = [h \in Heads |-> <<>>]

Clear(h) == queues' = [queues EXCEPT ![h] = <<>>]

InsertHead(h, e) == Free(e) /\ queues' = [queues EXCEPT ![h] = <<e>> \o @]

InsertTail(h, e) == Free(e) /\ queues' = [queues EXCEPT ![h] = Append(@, e)]

InsertAfter(h, p, e) ==
  /\ Free(e) /\ p \in On(h)
  /\ queues' = [queues EXCEPT ![h] = InsertAt(@, Index(h, p) + 1, e)]

InsertBefore(h, q, e) ==
  /\ Free(e) /\ q \in On(h)
  /\ queues' = [queues EXCEPT ![h] = InsertAt(@, Index(h, q), e)]

RemoveElem(h, e) ==
  /\ e \in On(h)
  /\ queues' = [queues EXCEPT ![h] = RemoveAt(@, Index(h, e))]

RemoveHead(h) == queues[h] # <<>> /\ RemoveElem(h, Head(queues[h]))

RemoveAfter(h, p) ==
  /\ p \in On(h) /\ Index(h, p) < Len(queues[h])
  /\ RemoveElem(h, queues[h][Index(h, p) + 1])

Concat(h, k) ==
  /\ h # k
  /\ queues' = [queues EXCEPT ![h] = @ \o queues[k], ![k] = <<>>]

Swap(h, k) == queues' = [queues EXCEPT ![h] = queues[k], ![k] = queues[h]]

Next ==
  \/ \E h \in Heads : Clear(h)
  \/ \E h \in Heads, e \in Elems :
       InsertHead(h, e) \/ InsertTail(h, e) \/ RemoveElem(h, e)
  \/ \E h \in Heads, p, e \in Elems : InsertAfter(h, p, e) \/ InsertBefore(h, p, e)
  \/ \E h, k \in Heads : Concat(h, k) \/ Swap(h, k)

Spec == Init /\ [][Next]_queues
=============================================================================
