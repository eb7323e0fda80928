------------------------------ MODULE NcRbtree ------------------------------
(***************************************************************************)
(* The red-black tree of nc_rbtree.c, at the level of its pointers.  The   *)
(* nodes are the client's; one more node, the sentinel, stands for every   *)
(* leaf, and a delete may use its parent link.  An insert or a delete is a *)
(* step that links or unlinks the node, then a step per round of its       *)
(* rebalancing loop.                                                       *)
(*                                                                         *)
(* The code is written out once for each side; here the side is a          *)
(* parameter.                                                              *)
(***************************************************************************)
EXTENDS Integers, Sequences, FiniteSets, Functions

CONSTANTS
  Nodes,     \* the client's nodes
  Key,       \* the key the client gives each of them
  Sentinel,  \* tree->sentinel
  NULL,
  Unset,     \* the colour of a node that nc_rbtree_node_init left uninitialized
  Mixed,     \* bound: nodes a client inserts and deletes in any order, for ever
  Grown      \* bound: nodes a client inserts in any order, then deletes in any order

RED == 1
BLACK == 0
Linked == Nodes \cup {Sentinel}
Sides == {"left", "right"}

ASSUME RbtreeAssumption ==
  /\ IsFiniteSet(Nodes) /\ Key \in [Nodes -> Int]
  /\ Sentinel \notin Nodes /\ NULL \notin Linked
  /\ Unset \notin {RED, BLACK} /\ Mixed \cup Grown \subseteq Nodes

VARIABLES
  tree,   \* the root, and the fields of every node: child is left and right
  phase,  \* "idle", or the call whose rebalancing loop is running
  cur,    \* the loop's node (insert) or temp (delete)
  client  \* bound: which nodes the client inserts, "mixed", "growing" or "shrinking"

vars == <<tree, phase, cur, client>>

-----------------------------------------------------------------------------
(* Links                                                                   *)

Opposite(s) == IF s = "left" THEN "right" ELSE "left"

is_red(t, n) == t.color[n] = RED
is_black(t, n) == ~is_red(t, n)
Paint(t, n, color) == [t EXCEPT !.color[n] = color]

\* if (node == node->parent->left)
SideOf(t, node) == IF node = t.child["left"][t.parent[node]] THEN "left" ELSE "right"

\* The node that takes the place of another under its parent, or as the root.
PutInPlace(t, node, new) ==
  IF node = t.root THEN [t EXCEPT !.root = new]
  ELSE [t EXCEPT !.child[SideOf(t, node)][t.parent[node]] = new]

SetParent(t, n, p) == IF n = Sentinel THEN t ELSE [t EXCEPT !.parent[n] = p]

\* Mutant: the inner subtree keeps its parent link.
rotate_leaves_inner(t, s, node) ==
  LET temp == t.child[Opposite(s)][node]
      inner == t.child[s][temp]
  IN  [PutInPlace(t, node, temp)
         EXCEPT !.child[Opposite(s)][node] = inner,
                !.child[s][temp] = node,
                !.parent = [@ EXCEPT ![temp] = t.parent[node], ![node] = temp]]

rotate(t, s, node) ==
  LET temp == t.child[Opposite(s)][node]
      inner == t.child[s][temp]
      moved == SetParent(PutInPlace(t, node, temp), inner, node)
  IN  [moved EXCEPT !.child[Opposite(s)][node] = inner,
                    !.child[s][temp] = node,
                    !.parent = [@ EXCEPT ![temp] = t.parent[node], ![node] = temp]]

\* The last node met from node on before the sentinel, going each time to the
\* side that dir gives.
Follow(t, node, dir) ==
  LET met[i \in 0 .. Cardinality(Nodes)] ==
        IF i = 0 THEN node
        ELSE IF met[i - 1] = Sentinel THEN Sentinel
        ELSE t.child[dir[met[i - 1]]][met[i - 1]]
  IN  met[CHOOSE i \in DOMAIN met : /\ met[i] # Sentinel
                                    /\ i + 1 \in DOMAIN met => met[i + 1] = Sentinel]

rbtree_node_min(t, node) == Follow(t, node, [n \in Nodes |-> "left"])

nc_rbtree_min(t) == IF t.root = Sentinel THEN NULL ELSE rbtree_node_min(t, t.root)

\* "color is left uninitialized": whatever it was, nobody may use it again.
nc_rbtree_node_init(t, node) ==
  [t EXCEPT !.child = [s \in Sides |-> [@[s] EXCEPT ![node] = NULL]],
            !.parent[node] = NULL,
            !.key[node] = 0,
            !.color[node] = Unset]

\* The nodes of a subtree, from left to right.
InOrder(t) ==
  LET from[d \in 0 .. Cardinality(Nodes)] == [n \in Linked |->
        IF d = 0 \/ n = Sentinel THEN <<>>
        ELSE from[d - 1][t.child["left"][n]] \o <<n>> \o from[d - 1][t.child["right"][n]]]
  IN  from[Cardinality(Nodes)][t.root]

InTree(t) == Range(InOrder(t))

\* What the bounds let the client insert now.
Insertable == CASE client = "mixed" -> Mixed [] client = "growing" -> Grown [] OTHER -> {}

-----------------------------------------------------------------------------
(* Insert                                                                  *)

nc_rbtree_init ==
  [root |-> Sentinel,
   child |-> [s \in Sides |-> [n \in Linked |-> NULL]],
   parent |-> [n \in Linked |-> NULL],
   color |-> [n \in Linked |-> IF n = Sentinel THEN BLACK ELSE Unset],
   key |-> [n \in Linked |-> 0]]

Init ==
  /\ tree = nc_rbtree_init
  /\ phase = "idle"
  /\ cur = NULL
  /\ client \in {"mixed", "growing"}

\* The node as a leaf of the given parent, with the key the client gave it.
Leaf(t, node, parent, color) ==
  [t EXCEPT !.key[node] = Key[node],
            !.child = [s \in Sides |-> [@[s] EXCEPT ![node] = Sentinel]],
            !.parent[node] = parent,
            !.color[node] = color]

\* Mutant: a node goes before the ones of its key.
Side_before_equals(t, node, at) == IF Key[node] <= t.key[at] THEN "left" ELSE "right"

Side(t, node, at) == IF Key[node] < t.key[at] THEN "left" ELSE "right"

nc_rbtree_insert(node) ==
  /\ phase = "idle" /\ node \notin InTree(tree)
  /\ node \in Insertable
  /\ \/ /\ tree.root = Sentinel
        /\ tree' = [Leaf(tree, node, NULL, BLACK) EXCEPT !.root = node]
        /\ UNCHANGED <<phase, cur>>
     \/ /\ tree.root # Sentinel
        /\ LET temp == Follow(tree, tree.root, [n \in Nodes |-> Side(tree, node, n)])
           IN  tree' = [Leaf(tree, node, temp, RED)
                          EXCEPT !.child[Side(tree, node, temp)][temp] = node]
        /\ phase' = "insert"
        /\ cur' = node
  /\ UNCHANGED client

InsertFixupNeeded == cur # tree.root /\ is_red(tree, tree.parent[cur])

\* The uncle is red: the violation moves up to the grandparent.
RecolorUp(parent, grand, uncle) ==
  /\ tree' = Paint(Paint(Paint(tree, parent, BLACK), uncle, BLACK), grand, RED)
  /\ cur' = grand

\* The uncle is black: one rotation, after another one if cur is an inner child.
RotateUp(parent, grand, s) ==
  LET inner == cur = tree.child[Opposite(s)][parent]
      node == IF inner THEN parent ELSE cur
      t == IF inner THEN rotate(tree, s, parent) ELSE tree
      painted == Paint(Paint(t, t.parent[node], BLACK), grand, RED)
  IN  /\ tree' = rotate(painted, Opposite(s), grand)
      /\ cur' = node

InsertFixup ==
  /\ phase = "insert" /\ InsertFixupNeeded
  /\ LET parent == tree.parent[cur]
         grand == tree.parent[parent]
         s == SideOf(tree, parent)
         uncle == tree.child[Opposite(s)][grand]
     IN  IF is_red(tree, uncle) THEN RecolorUp(parent, grand, uncle)
                                ELSE RotateUp(parent, grand, s)
  /\ UNCHANGED <<phase, client>>

InsertDone ==
  /\ phase = "insert" /\ ~InsertFixupNeeded
  /\ tree' = Paint(tree, tree.root, BLACK)
  /\ phase' = "idle"
  /\ cur' = NULL
  /\ UNCHANGED client

-----------------------------------------------------------------------------
(* Delete                                                                  *)

\* Mutant: subst keeps its own colour.
TakeOver_keeps_color(t, node, subst) ==
  LET left == t.child["left"][node]
      right == t.child["right"][node]
      placed == SetParent(SetParent(PutInPlace(t, node, subst), left, subst), right, subst)
  IN  [placed EXCEPT !.child = [s \in Sides |-> [@[s] EXCEPT ![subst] = t.child[s][node]]],
                     !.parent[subst] = t.parent[node]]

\* subst takes the links and the colour of node.
TakeOver(t, node, subst) ==
  LET left == t.child["left"][node]
      right == t.child["right"][node]
      placed == SetParent(SetParent(PutInPlace(t, node, subst), left, subst), right, subst)
  IN  [placed EXCEPT !.child = [s \in Sides |-> [@[s] EXCEPT ![subst] = t.child[s][node]]],
                     !.parent[subst] = t.parent[node],
                     !.color[subst] = t.color[node]]

\* subst, which is not the root, is unlinked from the tree, temp takes its
\* place, and subst that of node.
Unlink(t, node, subst, temp) ==
  LET above == t.parent[subst]
      cut == [t EXCEPT !.child[SideOf(t, subst)][above] = temp,
                       !.parent[temp] = IF subst # node /\ above = node THEN subst ELSE above]
  IN  IF subst = node THEN cut ELSE TakeOver(cut, node, subst)

Substitute(t, node) ==
  IF Sentinel \in {t.child[s][node] : s \in Sides} THEN node
  ELSE rbtree_node_min(t, t.child["right"][node])

OnlyChild(t, node) ==
  IF t.child["left"][node] = Sentinel THEN t.child["right"][node] ELSE t.child["left"][node]

\* Mutant: an emptied tree has no root.
DropRoot_to_null(t, node, temp) ==
  nc_rbtree_node_init(
    Paint([t EXCEPT !.root = IF temp = Sentinel THEN NULL ELSE temp], temp, BLACK), node)

\* temp becomes the root.
DropRoot(t, node, temp) ==
  nc_rbtree_node_init(Paint([t EXCEPT !.root = temp], temp, BLACK), node)

\* Mutant: the loop is run whatever the colour.
LosesBlack_always(t, subst) == TRUE

\* if (red) return;
LosesBlack(t, subst) == is_black(t, subst)

nc_rbtree_delete(node) ==
  /\ phase = "idle" /\ node \in InTree(tree)
  /\ LET subst == Substitute(tree, node)
         temp == OnlyChild(tree, subst)
     IN  IF subst = tree.root
           THEN /\ tree' = DropRoot(tree, node, temp)
                /\ UNCHANGED <<phase, cur>>
           ELSE /\ tree' = nc_rbtree_node_init(Unlink(tree, node, subst, temp), node)
                /\ IF LosesBlack(tree, subst) THEN phase' = "delete" /\ cur' = temp
                   ELSE UNCHANGED <<phase, cur>>
  /\ client' = IF client = "mixed" THEN client ELSE "shrinking"

DeleteFixupNeeded == cur # tree.root /\ is_black(tree, cur)

\* A red sibling is rotated above cur's parent.
RaiseSibling(t, s) ==
  LET parent == t.parent[cur]
      w == t.child[Opposite(s)][parent]
  IN  IF is_red(t, w) THEN rotate(Paint(Paint(t, w, BLACK), parent, RED), s, parent) ELSE t

\* The sibling's red inner child is rotated above it.
RaiseInner(t, s, w) ==
  IF is_black(t, t.child[Opposite(s)][w])
    THEN rotate(Paint(Paint(t, t.child[s][w], BLACK), w, RED), Opposite(s), w)
    ELSE t

\* The sibling's red outer child lets a rotation give cur's side a black node.
Borrow(t, s) ==
  LET parent == t.parent[cur]
      w == t.child[Opposite(s)][parent]
      painted == Paint(Paint(Paint(t, w, t.color[parent]), parent, BLACK),
                       t.child[Opposite(s)][w], BLACK)
  IN  rotate(painted, s, parent)

\* Mutant: when the sibling has nothing to lend the round does nothing.
DeleteFixup_continues ==
  /\ phase = "delete" /\ DeleteFixupNeeded
  /\ \E s \in {SideOf(tree, cur)} : \E t \in {RaiseSibling(tree, s)} :
       LET w == t.child[Opposite(s)][t.parent[cur]]
       IN  IF \A side \in Sides : is_black(t, t.child[side][w])
             THEN tree' = t /\ cur' = cur
             ELSE \E u \in {RaiseInner(t, s, w)} : tree' = Borrow(u, s) /\ cur' = tree'.root
  /\ UNCHANGED <<phase, client>>

\* \E over one value, for TLC to evaluate it once where ENABLED is asked for.
DeleteFixup ==
  /\ phase = "delete" /\ DeleteFixupNeeded
  /\ \E s \in {SideOf(tree, cur)} : \E t \in {RaiseSibling(tree, s)} :
       LET w == t.child[Opposite(s)][t.parent[cur]]
       IN  IF \A side \in Sides : is_black(t, t.child[side][w])
             THEN tree' = Paint(t, w, RED) /\ cur' = t.parent[cur]
             ELSE \E u \in {RaiseInner(t, s, w)} : tree' = Borrow(u, s) /\ cur' = tree'.root
  /\ UNCHANGED <<phase, client>>

DeleteDone ==
  /\ phase = "delete" /\ ~DeleteFixupNeeded
  /\ tree' = Paint(tree, cur, BLACK)
  /\ phase' = "idle"
  /\ cur' = NULL
  /\ UNCHANGED client

-----------------------------------------------------------------------------
Rebalance == InsertFixup \/ InsertDone \/ DeleteFixup \/ DeleteDone

Next ==
  \/ \E node \in Nodes : nc_rbtree_insert(node) \/ nc_rbtree_delete(node)
  \/ Rebalance

Spec == Init /\ [][Next]_vars

\* The loops are part of the calls: nothing can stop between two rounds.
FairSpec == Spec /\ WF_vars(Rebalance)
-----------------------------------------------------------------------------
(* Properties                                                              *)

Pointers == Linked \cup {NULL}

\* The fields of struct nc_rbtree and struct nc_rbnode.
TypeOK ==
  /\ tree.root \in Linked
  /\ tree.child \in [Sides -> [Linked -> Pointers]]
  /\ tree.parent \in [Linked -> Pointers]
  /\ tree.color \in [Linked -> {RED, BLACK, Unset}]
  /\ tree.key \in [Linked -> Int]
  /\ phase \in {"idle", "insert", "delete"}
  /\ cur \in Pointers /\ client \in {"mixed", "growing", "shrinking"}

\* Every child link has its parent link, and no link of the tree leads to a
\* deleted node, to NULL or to a node without a colour.  The root's own parent link is left stale by a
\* delete and may name a deleted node: nothing depends on it.
ParentLinks ==
  LET in == InTree(tree)
  IN  /\ \A n \in in : tree.color[n] \in {RED, BLACK}
      /\ \A n \in in, s \in Sides :
           LET c == tree.child[s][n]
           IN  c # Sentinel => c \in in /\ tree.parent[c] = n

\* During a delete's loop, the side where a black node is missing.
Missing(t, n, s) ==
  IF phase = "delete" /\ t.child[s][n] = cur /\ t.parent[cur] = n THEN 1 ELSE 0

\* Black nodes on the leftmost path from n down.
BlackHeight(t) ==
  LET of[d \in 0 .. Cardinality(Nodes)] == [n \in Linked |->
        IF d = 0 \/ n = Sentinel THEN 0
        ELSE (IF is_black(t, n) THEN 1 ELSE 0) + of[d - 1][t.child["left"][n]]
               + Missing(t, n, "left")]
  IN  [n \in InTree(t) \cup {Sentinel} |-> of[Cardinality(Nodes)][n]]

\* A red-black tree at every step: between calls the root is black, no red node
\* has a red child and all paths have as many black nodes; in a loop the only
\* exception is at cur: in an insert it may be red under a red parent, in a delete
\* it counts one black node too few and, if red, is about to be painted black.
RedBlack ==
  LET height == BlackHeight(tree)
  IN  \A n \in InTree(tree) :
        /\ n = tree.root /\ n # cur => is_black(tree, n)
        /\ \A s \in Sides :
             LET c == tree.child[s][n]
             IN  is_red(tree, n) /\ is_red(tree, c) =>
                   \/ phase = "insert" /\ c = cur
                   \/ phase = "delete" /\ cur \in {n, c}
        /\ height[tree.child["left"][n]] + Missing(tree, n, "left") =
             height[tree.child["right"][n]] + Missing(tree, n, "right")

\* The loops only follow links that lead to a node: the sentinel stays black and
\* childless, cur is in the tree (or the sentinel, below a node), an insert finds
\* a grandparent and a delete a sibling that is not the sentinel.
FixupDefined ==
  /\ is_black(tree, Sentinel) /\ \A s \in Sides : tree.child[s][Sentinel] = NULL
  /\ phase = "insert" => cur \in InTree(tree)
  /\ phase = "insert" /\ InsertFixupNeeded => tree.parent[cur] # tree.root
  /\ phase = "delete" /\ DeleteFixupNeeded =>
       /\ tree.parent[cur] \in InTree(tree)
       /\ tree.child[Opposite(SideOf(tree, cur))][tree.parent[cur]] \in InTree(tree)

\* Rebalancing ends: cur climbs, or the loop is over.
RebalanceEnds == (phase # "idle") ~> (phase = "idle")

\* nc_rbtree_min finds the first node from left to right.
Queue == INSTANCE SortedQueue WITH
  queue <- InOrder(tree), min <- nc_rbtree_min(tree)

\* The tree is a queue sorted by key: equal keys stay in the order in which they
\* were inserted, across every rotation and substitution, and the minimum is the
\* oldest node of the least key.
RefinesQueue == Queue!Spec
=============================================================================
