---------------------------- MODULE SortedQueue ----------------------------
(***************************************************************************)
(* What nc_rbtree.h promises: nodes sorted by key, the oldest first among  *)
(* those of a key, and the first of them on demand.                        *)
(***************************************************************************)
EXTENDS Integers, SequencesExt

CONSTANTS Nodes, Key, NULL

VARIABLES
  queue,  \* the nodes, least key first
  min     \* the node nc_rbtree_min finds

Init == queue = <<>> /\ min = NULL

\* Behind every node of its key or a smaller one.
Insert(node) ==
  \E i \in 0 .. Len(queue) :
    /\ \A j \in DOMAIN queue : j <= i <=> Key[queue[j]] <= Key[node]
    /\ queue' = InsertAt(queue, i + 1, node)

Delete(node) == \E i \in DOMAIN queue : queue[i] = node /\ queue' = RemoveAt(queue, i)

Next ==
  /\ LET present == {queue[i] : i \in DOMAIN queue}
     IN  \E node \in Nodes : IF node \in present THEN Delete(node) ELSE Insert(node)
  /\ min' = IF queue' = <<>> THEN NULL ELSE Head(queue')

Spec == Init /\ [][Next]_<<queue, min>>
=============================================================================
