--------------------------- MODULE NcRbtreeProofs ---------------------------
(***************************************************************************)
(* The tree stays a red-black tree for any nodes and keys.  InOrder and    *)
(* BlackHeight are recursive, so the invariant says what they find without *)
(* them: each node has a position in the order of the keys and a subtree   *)
(* that covers an interval of positions, and each child covers what its    *)
(* parent leaves it.  That fixes the whole shape by conditions on a node   *)
(* and its neighbours, which a rotation changes for two nodes only.        *)
(***************************************************************************)
EXTENDS NcRbtree, NatSets, FiniteSetTheorems, SequenceTheorems, TLAPS

Trees ==
  [root : Linked, child : [Sides -> [Linked -> Pointers]], parent : [Linked -> Pointers],
   color : [Linked -> {RED, BLACK, Unset}], key : [Linked -> Int]]

\* A node that is not in the tree has position 0.
In(at, n) == n \in Nodes /\ at[n] # 0

\* The way to go for a side.
Off(s) == IF s = "left" THEN -1 ELSE 1

\* The child of n on side s covers the positions between that of n and the
\* end of what n covers.
Fits(t, at, e, n, s) ==
  LET c == t.child[s][n]
  IN  IF e[s][n] = at[n] THEN c = Sentinel
      ELSE /\ In(at, c) /\ t.parent[c] = n
           /\ e[s][c] = e[s][n] /\ e[Opposite(s)][c] = at[n] + Off(s)

\* The nodes have the positions 1 to M, and that of each is at; e gives the
\* first (left) and the last position of its subtree.
Shape(t, at, e, M) ==
  /\ M \in Nat /\ at \in [Nodes -> Int] /\ e \in [Sides -> [Nodes -> Int]]
  /\ \A n \in Nodes : In(at, n) =>
       1 <= e["left"][n] /\ e["left"][n] <= at[n] /\ at[n] <= e["right"][n] /\ e["right"][n] <= M
  /\ \A m, n \in Nodes : In(at, m) /\ at[m] = at[n] => m = n
  /\ IF M = 0 THEN t.root = Sentinel
     ELSE In(at, t.root) /\ e["left"][t.root] = 1 /\ e["right"][t.root] = M
  /\ \A n \in Nodes, s \in Sides : In(at, n) => Fits(t, at, e, n, s)
  /\ \A n \in Nodes : In(at, n) /\ n # t.root =>
       In(at, t.parent[n]) /\ \E s \in Sides : t.child[s][t.parent[n]] = n

-----------------------------------------------------------------------------
(* What the helpers write                                                  *)

\* The two sides and the helpers that choose one.
LEMMA SideFacts ==
  /\ \A s \in Sides : Opposite(s) \in Sides /\ Opposite(s) # s /\ Opposite(Opposite(s)) = s
  /\ \A s, u \in Sides : u = s \/ u = Opposite(s)
  /\ "left" \in Sides /\ "right" \in Sides
  /\ Opposite("left") = "right" /\ Opposite("right") = "left"
  /\ Off("left") = -1 /\ Off("right") = 1
  /\ \A t, n : SideOf(t, n) \in Sides
BY DEF Sides, Opposite, Off, SideOf

Painted(r, t, n, c) ==
  /\ r \in Trees /\ r.root = t.root /\ r.child = t.child /\ r.parent = t.parent /\ r.key = t.key
  /\ r.color[n] = c /\ \A x \in Linked : x # n => r.color[x] = t.color[x]

\* Setting a colour writes that one field.
LEMMA PaintFields ==
  ASSUME NEW t \in Trees, NEW n \in Linked, NEW c \in {RED, BLACK, Unset}
  PROVE  Painted(Paint(t, n, c), t, n, c)
BY DEF Trees, Paint, Painted

\* r is t with new under the parent of node, or as the root.
Replaced(r, t, node, new) ==
  /\ r \in Trees /\ r.parent = t.parent /\ r.color = t.color /\ r.key = t.key
  /\ r.root = IF node = t.root THEN new ELSE t.root
  /\ \A u \in Sides, n \in Linked :
       r.child[u][n] =
         IF node # t.root /\ u = SideOf(t, node) /\ n = t.parent[node] THEN new
         ELSE t.child[u][n]

\* A rotation first puts temp in the place of node.
LEMMA PutInPlaceFields ==
  ASSUME NEW t \in Trees, NEW node \in Linked, NEW new \in Linked
  PROVE  Replaced(PutInPlace(t, node, new), t, node, new)
<1>1. SideOf(t, node) \in Sides
  BY SideFacts
<1>2. CASE node = t.root
  BY <1>2 DEF Trees, PutInPlace, Replaced
<1>3. CASE node # t.root
  BY <1>1, <1>3 DEF Trees, PutInPlace, Pointers, Replaced
<1> QED
  BY <1>2, <1>3

\* r is t with node rotated down to side s, below temp, which gives it inner.
Rotated(r, t, s, node, temp, inner) ==
  /\ r \in Trees /\ r.color = t.color /\ r.key = t.key
  /\ r.root = IF node = t.root THEN temp ELSE t.root
  /\ \A u \in Sides, n \in Linked :
       r.child[u][n] =
         IF u = Opposite(s) /\ n = node THEN inner
         ELSE IF u = s /\ n = temp THEN node
         ELSE IF node # t.root /\ u = SideOf(t, node) /\ n = t.parent[node] THEN temp
         ELSE t.child[u][n]
  /\ \A n \in Linked :
       r.parent[n] =
         IF n = node THEN temp ELSE IF n = temp THEN t.parent[node]
         ELSE IF n = inner /\ n # Sentinel THEN node ELSE t.parent[n]

\* All that rbtree_left_rotate and rbtree_right_rotate write.
LEMMA RotateFields ==
  ASSUME NEW t \in Trees, NEW s \in Sides, NEW node \in Linked,
         NEW temp \in Linked, temp = t.child[Opposite(s)][node]
  PROVE  Rotated(rotate(t, s, node), t, s, node, temp, t.child[s][temp])
<1> DEFINE inner == t.child[s][temp]
           put == PutInPlace(t, node, temp)
           moved == SetParent(put, inner, node)
           r == rotate(t, s, node)
<1>1. /\ temp \in Linked /\ inner \in Pointers /\ Opposite(s) \in Sides /\ Opposite(s) # s
      /\ t.parent[node] \in Pointers
  BY SideFacts DEF Trees
<1>2. Replaced(put, t, node, temp)
  BY PutInPlaceFields
<1> HIDE DEF put
<1>3. /\ moved \in Trees /\ moved.root = put.root /\ moved.child = put.child
      /\ moved.color = put.color /\ moved.key = put.key
      /\ \A n \in Linked :
           moved.parent[n] = IF n = inner /\ n # Sentinel THEN node ELSE put.parent[n]
  BY <1>1, <1>2 DEF SetParent, Trees, Pointers, Replaced
<1> HIDE DEF moved
<1>4. r = [moved EXCEPT !.child[Opposite(s)][node] = inner,
                        !.child[s][temp] = node,
                        !.parent = [@ EXCEPT ![temp] = t.parent[node], ![node] = temp]]
  BY DEF rotate, moved, put
<1> HIDE DEF r, inner
<1>5. r \in Trees /\ r.root = moved.root /\ r.color = moved.color /\ r.key = moved.key
  BY <1>1, <1>3, <1>4, Zenon DEF Trees, Pointers
<1>6. \A u \in Sides, n \in Linked :
        r.child[u][n] = IF u = Opposite(s) /\ n = node THEN inner
                        ELSE IF u = s /\ n = temp THEN node ELSE moved.child[u][n]
  BY <1>1, <1>3, <1>4 DEF Trees, Pointers
<1>7. \A n \in Linked :
        r.parent[n] = IF n = node THEN temp ELSE IF n = temp THEN t.parent[node]
                      ELSE moved.parent[n]
  BY <1>1, <1>3, <1>4 DEF Trees, Pointers
<1>8. Rotated(r, t, s, node, temp, inner)
  BY <1>1, <1>2, <1>3, <1>5, <1>6, <1>7 DEF Replaced, Rotated
<1> QED
  BY <1>8 DEF inner, r

-----------------------------------------------------------------------------
(* What a shape says of a node and its neighbours                          *)

\* c is the child of n on side s.
Kin(t, at, e, n, s, c) ==
  /\ In(at, n) /\ In(at, c) /\ c # n /\ c # t.root /\ c # Sentinel /\ n # Sentinel
  /\ t.child[s][n] = c /\ t.parent[c] = n /\ SideOf(t, c) = s
  /\ e[s][n] # at[n] /\ e[s][c] = e[s][n] /\ e[Opposite(s)][c] = at[n] + Off(s)
  /\ at[c] # at[n]
  /\ e["right"][c] - e["left"][c] < e["right"][n] - e["left"][n]

\* The positions and the ends of intervals are numbers in their order.
LEMMA Numbers ==
  ASSUME NEW t, NEW at, NEW e, NEW M, Shape(t, at, e, M), NEW n, In(at, n)
  PROVE  /\ n \in Nodes /\ n \in Linked /\ n # Sentinel
         /\ M \in Nat /\ at[n] \in Int /\ e["left"][n] \in Int /\ e["right"][n] \in Int
         /\ 1 <= e["left"][n] /\ e["left"][n] <= at[n]
         /\ at[n] <= e["right"][n] /\ e["right"][n] <= M /\ M # 0 /\ M > 0
BY RbtreeAssumption, SideFacts DEF Shape, In, Linked

\* A child covers less than its parent.
Wide(e, n) == e["right"][n] - e["left"][n]

\* A child covers less than its parent, so every walk down or up ends.
LEMMA Narrower ==
  ASSUME NEW t, NEW at, NEW e, NEW M, Shape(t, at, e, M), NEW n, NEW u, NEW c, Kin(t, at, e, n, u, c)
  PROVE  Wide(e, c) \in Nat /\ Wide(e, n) \in Nat /\ Wide(e, c) < Wide(e, n)
<1>1. In(at, n) /\ In(at, c) /\ e["right"][c] - e["left"][c] < e["right"][n] - e["left"][n]
  BY DEF Kin
<1> QED
  BY <1>1, Numbers DEF Wide

\* No node is its own grandchild.
LEMMA NotAbove ==
  ASSUME NEW t, NEW at, NEW e, NEW M, Shape(t, at, e, M), NEW n, NEW u, NEW c, Kin(t, at, e, n, u, c),
         NEW v, NEW g, Kin(t, at, e, c, v, g)
  PROVE  g # n
<1>1. Wide(e, c) \in Nat /\ Wide(e, n) \in Nat /\ Wide(e, c) < Wide(e, n)
  BY Narrower, Zenon
<1>2. Wide(e, g) \in Nat /\ Wide(e, g) < Wide(e, c)
  BY Narrower, Zenon
<1>3. Wide(e, g) # Wide(e, n)
  BY <1>1, <1>2
<1> QED
  BY <1>3

\* Nor a grandchild of its child.
LEMMA NotTwoAbove ==
  ASSUME NEW t, NEW at, NEW e, NEW M, Shape(t, at, e, M), NEW n, NEW u, NEW c, Kin(t, at, e, n, u, c),
         NEW v, NEW g, Kin(t, at, e, c, v, g), NEW w, NEW k, Kin(t, at, e, g, w, k)
  PROVE  k # n
<1>1. Wide(e, c) \in Nat /\ Wide(e, n) \in Nat /\ Wide(e, c) < Wide(e, n)
  BY Narrower, Zenon
<1>2. Wide(e, g) \in Nat /\ Wide(e, g) < Wide(e, c)
  BY Narrower, Zenon
<1>3. Wide(e, k) \in Nat /\ Wide(e, k) < Wide(e, g)
  BY Narrower, Zenon
<1>4. Wide(e, k) # Wide(e, n)
  BY <1>1, <1>2, <1>3
<1> QED
  BY <1>4

\* What the shape says of a child and its node.
LEMMA ChildIsKin ==
  ASSUME NEW t, NEW at, NEW e, NEW M, Shape(t, at, e, M),
         NEW n, In(at, n), NEW s \in Sides, t.child[s][n] # Sentinel
  PROVE  Kin(t, at, e, n, s, t.child[s][n])
<1> DEFINE c == t.child[s][n]
<1>1. /\ In(at, c) /\ t.parent[c] = n
      /\ e[s][n] # at[n] /\ e[s][c] = e[s][n] /\ e[Opposite(s)][c] = at[n] + Off(s)
  BY DEF Shape, Fits, In
<1> HIDE DEF c
<1>2. s = "left" \/ s = "right"
  BY DEF Sides
<1>3. e["right"][c] - e["left"][c] < e["right"][n] - e["left"][n] /\ at[c] # at[n]
  BY <1>1, <1>2, Numbers, SideFacts
<1>4. c # n
  BY <1>3
<1>5. c # t.root
  <2>1. M \in Nat /\ M # 0 /\ 1 <= e["left"][n] /\ e["right"][n] <= M
        /\ e["left"][n] \in Int /\ e["right"][n] \in Int
    BY Numbers
  <2>2. e["left"][t.root] = 1 /\ e["right"][t.root] = M
    BY <2>1 DEF Shape
  <2> QED
    BY <1>3, <2>1, <2>2
<1>6. SideOf(t, c) = s
  <2>1. CASE s = "left"
    BY <1>1, <2>1 DEF SideOf, c
  <2>2. CASE s = "right"
    <3>1. ASSUME t.child["left"][n] = c PROVE FALSE
      <4>1. Fits(t, at, e, n, "left") /\ c # Sentinel
        BY SideFacts DEF Shape, In, c
      <4>2. e["right"][c] = at[n] - 1
        BY <3>1, <4>1, SideFacts, Numbers DEF Fits
      <4> QED
        BY <1>1, <2>2, <4>2, SideFacts, Numbers
    <3> QED
      BY <1>1, <2>2, <3>1 DEF SideOf
  <2> QED
    BY <1>2, <2>1, <2>2
<1>7. c # Sentinel /\ n # Sentinel
  BY Numbers DEF c
<1> QED
  BY <1>1, <1>3, <1>4, <1>5, <1>6, <1>7 DEF Kin, c

\* The child on a side is the sentinel where the subtree ends at the node.
LEMMA EmptySide ==
  ASSUME NEW t, NEW at, NEW e, NEW M, Shape(t, at, e, M), NEW n, In(at, n), NEW s \in Sides
  PROVE  t.child[s][n] = Sentinel <=> e[s][n] = at[n]
<1>1. Fits(t, at, e, n, s)
  BY DEF Shape, In
<1>2. ~In(at, Sentinel)
  BY RbtreeAssumption DEF In
<1> QED
  BY <1>1, <1>2 DEF Fits

\* The same from the child: its parent, and the side it is on.
LEMMA ParentIsKin ==
  ASSUME NEW t, NEW at, NEW e, NEW M, Shape(t, at, e, M), NEW n, In(at, n), n # t.root
  PROVE  Kin(t, at, e, t.parent[n], SideOf(t, n), n)
<1>1. In(at, t.parent[n]) /\ \E s \in Sides : t.child[s][t.parent[n]] = n
  BY DEF Shape, In
<1>2. PICK s \in Sides : t.child[s][t.parent[n]] = n
  BY <1>1
<1>3. n # Sentinel
  BY Numbers
<1>4. Kin(t, at, e, t.parent[n], s, n)
  BY <1>1, <1>2, <1>3, ChildIsKin
<1> QED
  BY <1>4 DEF Kin

-----------------------------------------------------------------------------
(* Rotations keep the order                                                *)

\* What a rotation does to the neighbours of the two nodes, and what it leaves.
Turned(r, t, at, s, node, temp) ==
  LET o == Opposite(s)
      inner == t.child[s][temp]
      above == t.parent[node]
      w == SideOf(t, node)
  IN  /\ node # temp /\ inner # node /\ inner # temp
      /\ node # t.root =>
           /\ In(at, above) /\ above # node /\ above # temp /\ above # inner
           /\ t.child[w][above] = node /\ r.child[w][above] = temp
      /\ r.root = IF node = t.root THEN temp ELSE t.root
      /\ r.child[o][node] = inner /\ r.child[s][node] = t.child[s][node]
      /\ r.child[s][temp] = node /\ r.child[o][temp] = t.child[o][temp]
      /\ \A u \in Sides, n \in Linked :
           n # node /\ n # temp /\ ~(node # t.root /\ u = w /\ n = above)
             => r.child[u][n] = t.child[u][n]
      /\ r.parent[node] = temp /\ r.parent[temp] = above
      /\ inner # Sentinel => r.parent[inner] = node
      /\ \A n \in Linked :
           n # node /\ n # temp /\ (n # inner \/ n = Sentinel) => r.parent[n] = t.parent[n]

\* The links around the two nodes of a rotation, before and after it.
LEMMA RotatePicture ==
  ASSUME NEW t \in Trees, NEW at, NEW e, NEW M, Shape(t, at, e, M),
         NEW s \in Sides, NEW node, In(at, node),
         NEW temp, temp = t.child[Opposite(s)][node], temp # Sentinel,
         NEW r, Rotated(r, t, s, node, temp, t.child[s][temp])
  PROVE  Turned(r, t, at, s, node, temp)
<1> DEFINE o == Opposite(s)
           inner == t.child[s][temp]
           above == t.parent[node]
           w == SideOf(t, node)
<1>s. /\ s \in Sides /\ o \in Sides /\ o # s /\ Opposite(o) = s
      /\ (s = "left" /\ o = "right") \/ (s = "right" /\ o = "left")
      /\ Off(o) = 0 - Off(s) /\ Off(s) \in {-1, 1}
  BY SideFacts DEF Sides
<1>1. Kin(t, at, e, node, o, temp)
  BY <1>s, ChildIsKin
<1>2. inner = Sentinel \/ Kin(t, at, e, temp, s, inner)
  BY <1>1, ChildIsKin, Zenon DEF Kin
<1>3. node = t.root \/ Kin(t, at, e, above, w, node)
  BY ParentIsKin
<1>4. node \in Nodes /\ temp \in Nodes /\ node # temp /\ node # Sentinel
  BY <1>1, Numbers DEF Kin
<1>7. node # t.root => above # temp /\ above # node /\ above # inner
  <2> HIDE DEF above, w, o, inner
  <2>1. ASSUME Kin(t, at, e, above, w, node) PROVE above # temp
    BY <1>1, <2>1, Narrower
  <2>2. ASSUME Kin(t, at, e, above, w, node), Kin(t, at, e, temp, s, inner) PROVE above # inner
    BY <1>1, <2>2, Narrower
  <2> QED
    BY <1>2, <1>3, <2>1, <2>2 DEF Kin
<1>8. inner # node
  <2> HIDE DEF o, inner
  <2>1. ASSUME Kin(t, at, e, temp, s, inner) PROVE inner # node
    BY <1>1, <2>1, NotAbove, Zenon
  <2> QED
    BY <1>2, <1>4, <2>1
<1>9. inner # temp
  BY <1>1, <1>2, Zenon DEF Kin
<1> HIDE DEF o, inner, above, w
<1>10. /\ \A u \in Sides, n \in Linked :
            r.child[u][n] = IF u = o /\ n = node THEN inner ELSE IF u = s /\ n = temp THEN node
                            ELSE IF node # t.root /\ u = w /\ n = above THEN temp ELSE t.child[u][n]
       /\ \A n \in Linked :
            r.parent[n] = IF n = node THEN temp ELSE IF n = temp THEN above
                          ELSE IF n = inner /\ n # Sentinel THEN node ELSE t.parent[n]
       /\ r.root = IF node = t.root THEN temp ELSE t.root
  BY DEF Rotated, o, inner, above, w
<1>11. node \in Linked /\ temp \in Linked
  BY <1>4 DEF Linked
<1>12. node # t.root => w \in Sides /\ above \in Linked /\ In(at, above) /\ t.child[w][above] = node
  BY <1>3, SideFacts DEF Kin, In, Linked, w
<1>13. inner # Sentinel => inner \in Linked
  BY <1>2 DEF Kin, In, Linked
<1>14. /\ r.child[o][node] = inner /\ r.child[s][node] = t.child[s][node]
       /\ r.child[s][temp] = node /\ r.child[o][temp] = t.child[o][temp]
       /\ node # t.root => r.child[w][above] = temp
       /\ \A u \in Sides, n \in Linked :
            n # node /\ n # temp /\ ~(node # t.root /\ u = w /\ n = above)
              => r.child[u][n] = t.child[u][n]
  BY <1>s, <1>4, <1>7, <1>10, <1>11, <1>12
<1>15. /\ r.parent[node] = temp /\ r.parent[temp] = above
       /\ inner # Sentinel => r.parent[inner] = node
       /\ \A n \in Linked :
            n # node /\ n # temp /\ (n # inner \/ n = Sentinel) => r.parent[n] = t.parent[n]
  BY <1>4, <1>8, <1>9, <1>10, <1>11, <1>13
<1> QED
  BY <1>4, <1>7, <1>8, <1>9, <1>10, <1>12, <1>14, <1>15, Zenon DEF Turned, o, inner, above, w

\* The intervals of the two nodes that a rotation turns.
TurnedEnds(at, e, s, node, temp) ==
  [u \in Sides |-> [n \in Nodes |->
     IF u = Opposite(s) /\ n = node THEN at[temp] + Off(s)
     ELSE IF u = s /\ n = temp THEN e[s][node] ELSE e[u][n]]]

\* A rotation keeps every position, and changes two intervals.
LEMMA RotateShape ==
  ASSUME NEW t \in Trees, NEW at, NEW e, NEW M, Shape(t, at, e, M),
         NEW s \in Sides, NEW node, In(at, node),
         NEW temp, temp = t.child[Opposite(s)][node], temp # Sentinel,
         NEW r, Rotated(r, t, s, node, temp, t.child[s][temp])
  PROVE  Shape(r, at, TurnedEnds(at, e, s, node, temp), M)
<1> DEFINE o == Opposite(s)
           inner == t.child[s][temp]
           above == t.parent[node]
           w == SideOf(t, node)
           f == TurnedEnds(at, e, s, node, temp)
<1>s. /\ s \in Sides /\ o \in Sides /\ o # s /\ Opposite(o) = s
      /\ (s = "left" /\ o = "right") \/ (s = "right" /\ o = "left")
      /\ Off(o) = 0 - Off(s) /\ Off(s) \in {-1, 1}
  BY SideFacts DEF Sides
<1>1. Kin(t, at, e, node, o, temp)
  BY <1>s, ChildIsKin
<1>2. inner = Sentinel \/ Kin(t, at, e, temp, s, inner)
  BY <1>1, ChildIsKin DEF Kin
<1>3. node = t.root \/ Kin(t, at, e, above, w, node)
  BY ParentIsKin
<1>4. node \in Nodes /\ temp \in Nodes /\ node # temp /\ node # Sentinel
  BY <1>1, Numbers DEF Kin
<1>5. \A n, u, c, v : Kin(t, at, e, n, u, c) /\ Kin(t, at, e, n, v, c) => u = v
  BY DEF Kin
<1>6. \A n, u, c, m, v : Kin(t, at, e, n, u, c) /\ Kin(t, at, e, m, v, c) => n = m
  BY DEF Kin
<1>7. Turned(r, t, at, s, node, temp)
  BY RotatePicture, Zenon
<1>8. /\ inner # node /\ inner # temp
      /\ node # t.root => above # temp /\ above # node /\ above # inner
  BY <1>7, Zenon DEF Turned
<1> HIDE DEF o, inner, above, w
\* What the rotation writes.
<1>c. /\ r.child[o][node] = inner /\ r.child[s][temp] = node
      /\ node # t.root => r.child[w][above] = temp
      /\ \A u \in Sides, n \in Nodes :
           /\ ~(u = o /\ n = node) /\ ~(u = s /\ n = temp)
           /\ ~(node # t.root /\ u = w /\ n = above)
           => r.child[u][n] = t.child[u][n]
  <2>1. \A n \in Nodes : n \in Linked
    BY DEF Linked
  <2>2. \A u \in Sides : u = o \/ u = s
    BY SideFacts, Zenon DEF o
  <2> QED
    BY <1>7, <2>1, <2>2 DEF Turned, o, inner, above, w
<1>p. /\ r.parent[node] = temp /\ r.parent[temp] = above
      /\ inner # Sentinel => r.parent[inner] = node
      /\ \A n \in Nodes : n # node /\ n # temp /\ n # inner => r.parent[n] = t.parent[n]
  BY <1>7, Zenon DEF Turned, Linked, inner, above
<1>r. r.root = IF node = t.root THEN temp ELSE t.root
  BY <1>7 DEF Turned
<1>f. /\ f \in [Sides -> [Nodes -> Int]]
      /\ f[o][node] = at[temp] + Off(s) /\ f[s][temp] = e[s][node]
      /\ \A u \in Sides, n \in Nodes :
           ~(u = o /\ n = node) /\ ~(u = s /\ n = temp) => f[u][n] = e[u][n]
  <2>1. at \in [Nodes -> Int] /\ e \in [Sides -> [Nodes -> Int]]
    BY DEF Shape
  <2>2. \A u \in Sides, n \in Nodes :
          f[u][n] = IF u = o /\ n = node THEN at[temp] + Off(s)
                    ELSE IF u = s /\ n = temp THEN e[s][node] ELSE e[u][n]
    BY DEF TurnedEnds, o
  <2>3. f = [u \in Sides |-> [n \in Nodes |->
               IF u = o /\ n = node THEN at[temp] + Off(s)
               ELSE IF u = s /\ n = temp THEN e[s][node] ELSE e[u][n]]]
    BY DEF TurnedEnds, o
  <2> QED
    BY <1>s, <1>4, <2>1, <2>2, <2>3
<1> HIDE DEF f
<1>n. /\ at[node] \in Int /\ at[temp] \in Int
      /\ e["left"][node] \in Int /\ e["right"][node] \in Int
      /\ e["left"][node] <= at[node] /\ at[node] <= e["right"][node]
      /\ e["left"][temp] \in Int /\ e["right"][temp] \in Int
      /\ e["left"][temp] <= at[temp] /\ at[temp] <= e["right"][temp]
  BY <1>1, Numbers DEF Kin
<1>k. e[o][temp] = e[o][node] /\ e[s][temp] = at[node] + Off(o)
  BY <1>1, <1>s DEF Kin
\* The new shape, node by node.
<1>10. ASSUME NEW n \in Nodes, In(at, n)
       PROVE  1 <= f["left"][n] /\ f["left"][n] <= at[n] /\ at[n] <= f["right"][n] /\ f["right"][n] <= M
  <2>1. n = node \/ n = temp \/ (n # node /\ n # temp)
    OBVIOUS
  <2>2. CASE n # node /\ n # temp
    BY <1>f, <1>10, <2>2, Numbers, SideFacts
  <2>3. /\ 1 <= e["left"][node] /\ e["right"][node] <= M
        /\ 1 <= e["left"][temp] /\ e["right"][temp] <= M /\ M \in Nat
    BY <1>1, Numbers, Zenon DEF Kin
  <2>s. \/ s = "left" /\ o = "right" /\ Off(s) = -1 /\ Off(o) = 1
        \/ s = "right" /\ o = "left" /\ Off(s) = 1 /\ Off(o) = -1
    BY <1>s, SideFacts, Zenon
  <2>4. CASE n = node
    <3>1. f[s][node] = e[s][node] /\ f[o][node] = at[temp] + Off(s)
      BY <1>f, <1>s, <1>4, Zenon
    <3> QED
      BY <1>n, <1>k, <2>3, <2>4, <2>s, <3>1
  <2>5. CASE n = temp
    <3>1. f[s][temp] = e[s][node] /\ f[o][temp] = e[o][temp]
      BY <1>f, <1>s, <1>4, Zenon
    <3> QED
      BY <1>n, <1>k, <2>3, <2>5, <2>s, <3>1
  <2> QED
    BY <2>2, <2>4, <2>5
<1>11. IF M = 0 THEN r.root = Sentinel
       ELSE In(at, r.root) /\ f["left"][r.root] = 1 /\ f["right"][r.root] = M
  <2>0. M # 0
    BY Numbers
  <2>1. In(at, t.root) /\ e["left"][t.root] = 1 /\ e["right"][t.root] = M /\ t.root \in Nodes
    BY <2>0, Zenon DEF Shape, In
  <2>2. CASE node = t.root
    <3>1. f[s][temp] = e[s][node] /\ f[o][temp] = e[o][node]
      BY <1>f, <1>k, <1>s, <1>4
    <3>2. f["left"][temp] = e["left"][node] /\ f["right"][temp] = e["right"][node]
      BY <1>s, <3>1
    <3> QED
      BY <1>r, <1>1, <2>0, <2>1, <2>2, <3>2 DEF Kin
  <2>3. CASE node # t.root
    <3>1. t.root # temp
      BY <1>1 DEF Kin
    <3> QED
      BY <1>r, <1>f, <2>0, <2>1, <2>3, <3>1, SideFacts
  <2> QED
    BY <2>2, <2>3
<1>12. Fits(r, at, f, node, o)
  <2>1. CASE inner = Sentinel
    <3>1. e[s][temp] = at[temp]
      BY <1>1, <2>1, EmptySide DEF Kin, inner
    <3>2. f[o][node] = at[node]
      BY <1>f, <1>k, <1>n, <1>s, <3>1
    <3> QED
      BY <1>c, <2>1, <3>2 DEF Fits
  <2>2. CASE inner # Sentinel
    <3>1. Kin(t, at, e, temp, s, inner) /\ inner \in Nodes
      BY <1>2, <2>2 DEF Kin, In
    <3>2. f[o][inner] = at[temp] + Off(s) /\ f[s][inner] = at[node] + Off(o)
      <4>1. f[o][inner] = e[o][inner] /\ f[s][inner] = e[s][inner]
        BY <1>f, <1>s, <1>8, <3>1
      <4>2. e[o][inner] = at[temp] + Off(s) /\ e[s][inner] = e[s][temp]
        BY <3>1 DEF Kin, o
      <4> QED
        BY <1>k, <4>1, <4>2
    <3>3. f[o][node] # at[node]
      BY <1>f, <1>k, <1>n, <1>s, <3>1 DEF Kin
    <3> QED
      BY <1>c, <1>p, <1>f, <1>s, <2>2, <3>1, <3>2, <3>3 DEF Fits, Kin
  <2> QED
    BY <2>1, <2>2
<1>13. Fits(r, at, f, temp, s)
  <2>1. f[s][temp] # at[temp]
    <3>1. CASE s = "left"
      BY <1>f, <1>k, <1>n, <3>1, SideFacts DEF o
    <3>2. CASE s = "right"
      BY <1>f, <1>k, <1>n, <3>2, SideFacts DEF o
    <3> QED
      BY <3>1, <3>2 DEF Sides
  <2>2. f[s][node] = e[s][node] /\ f[o][node] = at[temp] + Off(s)
    BY <1>f, <1>s, <1>4, Zenon
  <2> QED
    BY <1>c, <1>p, <1>f, <1>s, <2>1, <2>2 DEF Fits, o
<1>14. ASSUME node # t.root PROVE Fits(r, at, f, above, w)
  <2>1. Kin(t, at, e, above, w, node) /\ above \in Nodes /\ w \in Sides
    BY <1>3, <1>14, SideFacts DEF Kin, In, w
  <2>2. f[w][above] = e[w][above]
    BY <1>f, <1>8, <1>14, <2>1
  <2>3. f[s][temp] = e[s][node] /\ f[o][temp] = e[o][node]
    BY <1>f, <1>k, <1>s, <1>4
  <2>4. f[w][temp] = e[w][node] /\ f[Opposite(w)][temp] = e[Opposite(w)][node]
    BY <1>s, <2>1, <2>3, SideFacts DEF Sides
  <2> QED
    BY <1>1, <1>c, <1>p, <1>14, <2>1, <2>2, <2>4 DEF Fits, Kin
<1>15. ASSUME NEW n \in Nodes, In(at, n), NEW u \in Sides,
              ~(u = o /\ n = node), ~(u = s /\ n = temp), ~(node # t.root /\ u = w /\ n = above)
       PROVE  Fits(r, at, f, n, u)
  <2> DEFINE c == t.child[u][n]
  <2>1. r.child[u][n] = c /\ f[u][n] = e[u][n]
    BY <1>c, <1>f, <1>15
  <2>2. CASE c = Sentinel
    <3>1. e[u][n] = at[n]
      BY <1>15, <2>2, EmptySide
    <3> QED
      BY <2>1, <2>2, <3>1 DEF Fits
  <2>3. CASE c # Sentinel
    <3>1. Kin(t, at, e, n, u, c)
      BY <1>15, <2>3, ChildIsKin
    <3> HIDE DEF c
    <3>2. c # node
      BY <1>3, <1>5, <1>6, <1>15, <3>1 DEF Kin
    <3>3. c # temp
      BY <1>1, <1>5, <1>6, <1>15, <3>1
    <3>4. c # inner
      BY <1>2, <1>5, <1>6, <1>15, <2>3, <3>1
    <3>5. c \in Nodes /\ Opposite(u) \in Sides
      BY <3>1, SideFacts DEF Kin, In
    <3>6. r.parent[c] = n /\ f[u][c] = e[u][c] /\ f[Opposite(u)][c] = e[Opposite(u)][c]
      BY <1>p, <1>f, <3>1, <3>2, <3>3, <3>4, <3>5 DEF Kin
    <3> QED
      BY <2>1, <3>1, <3>6 DEF Fits, Kin
  <2> QED
    BY <2>2, <2>3
<1>16. ASSUME NEW n \in Nodes, In(at, n), n # r.root
       PROVE  In(at, r.parent[n]) /\ \E u \in Sides : r.child[u][r.parent[n]] = n
  <2>1. CASE n = node
    <3>1. r.parent[node] = temp /\ r.child[s][temp] = node
      BY <1>c, <1>p, Zenon
    <3>2. In(at, temp) /\ s \in Sides
      BY <1>1, <1>s, Zenon DEF Kin
    <3> QED
      BY <2>1, <3>1, <3>2, Zenon
  <2>2. CASE n = temp
    BY <1>3, <1>c, <1>p, <1>r, <1>16, <2>2, SideFacts DEF Kin, w
  <2>3. CASE n = inner /\ n # temp
    BY <1>c, <1>p, <1>s, <2>3, Numbers, <1>16
  <2>4. CASE n # node /\ n # temp /\ n # inner
    <3>1. n # t.root
      BY <1>r, <1>16, <2>4
    <3> DEFINE a == t.parent[n]
               v == SideOf(t, n)
    <3>2. Kin(t, at, e, a, v, n) /\ v \in Sides
      BY <1>16, <3>1, ParentIsKin, SideFacts
    <3> HIDE DEF a, v
    <3>3. r.parent[n] = a
      BY <1>p, <2>4 DEF a
    <3>4. ~(v = o /\ a = node) /\ ~(v = s /\ a = temp) /\ ~(node # t.root /\ v = w /\ a = above)
      BY <1>1, <1>3, <2>4, <3>2 DEF Kin, inner, o
    <3>5. r.child[v][a] = n
      BY <1>c, <3>2, <3>4 DEF Kin, In
    <3> QED
      BY <3>2, <3>3, <3>5 DEF Kin
  <2> QED
    BY <2>1, <2>2, <2>3, <2>4, Zenon
<1>17. \A n \in Nodes, u \in Sides : In(at, n) => Fits(r, at, f, n, u)
  BY <1>12, <1>13, <1>14, <1>15
<1>18. Shape(r, at, f, M)
  <2>1. /\ M \in Nat /\ at \in [Nodes -> Int]
        /\ \A m, n \in Nodes : In(at, m) /\ at[m] = at[n] => m = n
    BY DEF Shape
  <2> QED
    BY <1>f, <1>10, <1>11, <1>16, <1>17, <2>1 DEF Shape
<1> QED
  BY <1>18 DEF f

-----------------------------------------------------------------------------
(* A new leaf                                                              *)

\* Of two neighbours one is above the other.
LEMMA Neighbours ==
  ASSUME NEW t, NEW at, NEW e, NEW M, Shape(t, at, e, M),
         NEW x, In(at, x), NEW y, In(at, y), at[y] = at[x] + 1
  PROVE  ~(e["right"][x] = at[x] /\ e["left"][y] = at[y])
<1> SUFFICES ASSUME e["right"][x] = at[x], e["left"][y] = at[y] PROVE FALSE
  OBVIOUS
<1> DEFINE Over(z) == In(at, z) /\ e["left"][z] <= at[x] /\ at[y] <= e["right"][z]
           W == {Wide(e, z) : z \in {z \in Nodes : Over(z)}}
<1>1. \A z : In(at, z) => Wide(e, z) \in Nat
  BY Numbers DEF Wide
<1>2. W \in SUBSET Nat
  BY <1>1
<1>3. W # {}
  <2>1. M # 0
    BY Numbers
  <2>2. In(at, t.root) /\ e["left"][t.root] = 1 /\ e["right"][t.root] = M
    BY <2>1 DEF Shape
  <2>3. Over(t.root)
    BY <2>2, Numbers
  <2>4. t.root \in Nodes
    BY <2>2 DEF In
  <2> QED
    BY <2>3, <2>4
<1>4. PICK k \in W : \A j \in W : k <= j
  <2> HIDE DEF W
  <2> QED
    BY <1>2, <1>3, LeastNumber
<1>5. PICK z \in Nodes : Over(z) /\ k = Wide(e, z)
  BY <1>4
<1>6. \A c \in Nodes : Over(c) => ~(Wide(e, c) < Wide(e, z))
  <2>1. ASSUME NEW c \in Nodes, Over(c) PROVE ~(Wide(e, c) < Wide(e, z))
    <3>1. Wide(e, c) \in W
      BY <2>1
    <3>2. Wide(e, c) \in Nat /\ Wide(e, z) \in Nat
      BY <1>1, <1>5, <2>1
    <3> HIDE DEF W, Over
    <3> QED
      BY <1>4, <1>5, <3>1, <3>2
  <2> QED
    BY <2>1
<1> HIDE DEF W
<1>7. z # x /\ z # y
  BY <1>5, Numbers
<1>8. at[z] # at[x] /\ at[z] # at[y]
  BY <1>5, <1>7 DEF Shape, In
<1>9. CASE at[z] < at[x]
  <2>1. e["right"][z] # at[z]
    BY <1>5, <1>9, Numbers
  <2>2. PICK c : Kin(t, at, e, z, "right", c)
    BY <1>5, <2>1, EmptySide, ChildIsKin, SideFacts
  <2>3. Over(c) /\ c \in Nodes
    BY <1>5, <1>9, <2>2, Numbers, SideFacts DEF Kin, In
  <2> QED
    BY <1>6, <2>2, <2>3, Narrower
<1>10. CASE at[z] > at[y]
  <2>1. e["left"][z] # at[z]
    BY <1>5, <1>10, Numbers
  <2>2. PICK c : Kin(t, at, e, z, "left", c)
    BY <1>5, <2>1, EmptySide, ChildIsKin, SideFacts
  <2>3. Over(c) /\ c \in Nodes
    BY <1>5, <1>10, <2>2, Numbers, SideFacts DEF Kin, In
  <2> QED
    BY <1>6, <2>2, <2>3, Narrower
<1>11. at[z] < at[x] \/ at[z] > at[y]
  BY <1>5, <1>8, Numbers
<1> QED
  BY <1>9, <1>10, <1>11

\* r is t with node as a leaf on side s of temp.
Attached(r, t, node, temp, s) ==
  /\ r \in Trees /\ r.root = t.root
  /\ \A u \in Sides, n \in Linked :
       r.child[u][n] = IF u = s /\ n = temp THEN node
                       ELSE IF n = node THEN Sentinel ELSE t.child[u][n]
  /\ \A n \in Linked :
       /\ r.parent[n] = IF n = node THEN temp ELSE t.parent[n]
       /\ r.color[n] = IF n = node THEN RED ELSE t.color[n]
       /\ r.key[n] = IF n = node THEN Key[node] ELSE t.key[n]

\* l is t with node as a leaf that nobody links yet.
Written(l, t, node, temp, color) ==
  /\ l \in Trees /\ l.root = t.root
  /\ \A u \in Sides, n \in Linked :
       l.child[u][n] = IF n = node THEN Sentinel ELSE t.child[u][n]
  /\ \A n \in Linked :
       /\ l.parent[n] = IF n = node THEN temp ELSE t.parent[n]
       /\ l.color[n] = IF n = node THEN color ELSE t.color[n]
       /\ l.key[n] = IF n = node THEN Key[node] ELSE t.key[n]

\* What nc_rbtree_insert writes in the fields of its node.
LEMMA LeafWrites ==
  ASSUME NEW t \in Trees, NEW node \in Nodes, NEW temp \in Nodes \cup {NULL},
         NEW color \in {RED, BLACK}
  PROVE  Written(Leaf(t, node, temp, color), t, node, temp, color)
<1>1. /\ node \in Linked /\ Sentinel \in Pointers /\ temp \in Pointers
      /\ color \in {RED, BLACK, Unset} /\ Key[node] \in Int
  BY RbtreeAssumption DEF Linked, Pointers
<1> DEFINE l == Leaf(t, node, temp, color)
<1>2. l \in Trees
  BY <1>1, Zenon DEF Leaf, Trees
<1>3. l.root = t.root
  BY DEF Leaf, Trees
<1>4. \A u \in Sides, n \in Linked : l.child[u][n] = IF n = node THEN Sentinel ELSE t.child[u][n]
  BY <1>1 DEF Leaf, Trees
<1>5. \A n \in Linked :
        /\ l.parent[n] = IF n = node THEN temp ELSE t.parent[n]
        /\ l.color[n] = IF n = node THEN color ELSE t.color[n]
        /\ l.key[n] = IF n = node THEN Key[node] ELSE t.key[n]
  BY <1>1 DEF Leaf, Trees
<1> QED
  BY <1>2, <1>3, <1>4, <1>5 DEF Written

\* And in the link of the parent it found.
LEMMA LeafFields ==
  ASSUME NEW t \in Trees, NEW node \in Nodes, NEW temp \in Nodes, temp # node, NEW s \in Sides
  PROVE  Attached([Leaf(t, node, temp, RED) EXCEPT !.child[s][temp] = node], t, node, temp, s)
<1> DEFINE l == Leaf(t, node, temp, RED)
<1>1. /\ l \in Trees /\ l.root = t.root
      /\ \A u \in Sides, n \in Linked :
           l.child[u][n] = IF n = node THEN Sentinel ELSE t.child[u][n]
      /\ \A n \in Linked :
           /\ l.parent[n] = IF n = node THEN temp ELSE t.parent[n]
           /\ l.color[n] = IF n = node THEN RED ELSE t.color[n]
           /\ l.key[n] = IF n = node THEN Key[node] ELSE t.key[n]
  <2>1. temp \in Nodes \cup {NULL} /\ RED \in {RED, BLACK}
    OBVIOUS
  <2>2. Written(l, t, node, temp, RED)
    BY <2>1, LeafWrites
  <2> HIDE DEF l
  <2> QED
    BY <2>2 DEF Written
<1> HIDE DEF l
<1> DEFINE r == [l EXCEPT !.child[s][temp] = node]
<1>2. /\ r \in Trees /\ r.root = l.root
      /\ \A u \in Sides, n \in Linked :
           r.child[u][n] = IF u = s /\ n = temp THEN node ELSE l.child[u][n]
      /\ r.parent = l.parent /\ r.color = l.color /\ r.key = l.key
  BY <1>1 DEF Trees, Linked, Pointers
<1> HIDE DEF r
<1>3. Attached(r, t, node, temp, s)
  BY <1>1, <1>2 DEF Attached
<1> QED
  BY <1>3 DEF r, l

\* Positions and intervals when a node comes in at position p.
OpenedAt(at, node, p) ==
  [n \in Nodes |-> IF n = node THEN p ELSE IF at[n] >= p THEN at[n] + 1 ELSE at[n]]
OpenedEnds(e, node, p) ==
  [u \in Sides |-> [n \in Nodes |->
     IF n = node THEN p
     ELSE IF u = "left" THEN IF e[u][n] > p THEN e[u][n] + 1 ELSE e[u][n]
     ELSE IF e[u][n] >= p - 1 THEN e[u][n] + 1 ELSE e[u][n]]]

\* A leaf put where its position falls keeps the shape.
LEMMA AttachShape ==
  ASSUME NEW t \in Trees, NEW at, NEW e, NEW M, Shape(t, at, e, M),
         NEW node \in Nodes, ~In(at, node), NEW temp, In(at, temp),
         NEW s \in Sides, t.child[s][temp] = Sentinel,
         NEW r, Attached(r, t, node, temp, s),
         NEW p, p = IF s = "left" THEN at[temp] ELSE at[temp] + 1
  PROVE  Shape(r, OpenedAt(at, node, p), OpenedEnds(e, node, p), M + 1)
<1> DEFINE a == OpenedAt(at, node, p)
           f == OpenedEnds(e, node, p)
<1>1. /\ at \in [Nodes -> Int] /\ e \in [Sides -> [Nodes -> Int]] /\ M \in Nat /\ M # 0
      /\ temp \in Nodes /\ temp # node /\ at[node] = 0 /\ at[temp] \in 1 .. M
      /\ p \in 1 .. M + 1 /\ M + 1 # 0 /\ node # Sentinel
  <2>1. at \in [Nodes -> Int] /\ e \in [Sides -> [Nodes -> Int]]
    BY DEF Shape
  <2>2. M \in Nat /\ M # 0 /\ temp \in Nodes /\ at[temp] \in 1 .. M
    BY Numbers
  <2>3. temp # node /\ at[node] = 0 /\ node # Sentinel
    BY RbtreeAssumption DEF In
  <2>4. p \in 1 .. M + 1 /\ M + 1 # 0
    BY <2>2
  <2> QED
    BY <2>1, <2>2, <2>3, <2>4
<1>2. a \in [Nodes -> Int] /\ f \in [Sides -> [Nodes -> Int]]
  BY <1>1 DEF OpenedAt, OpenedEnds
<1>3. /\ a[node] = p /\ f["left"][node] = p /\ f["right"][node] = p
      /\ \A n \in Nodes : n # node =>
           /\ a[n] = IF at[n] >= p THEN at[n] + 1 ELSE at[n]
           /\ f["left"][n] = IF e["left"][n] > p THEN e["left"][n] + 1 ELSE e["left"][n]
           /\ f["right"][n] = IF e["right"][n] >= p - 1 THEN e["right"][n] + 1 ELSE e["right"][n]
  BY <1>1, SideFacts DEF OpenedAt, OpenedEnds
<1> HIDE DEF a, f
<1>4. \A n \in Nodes : n # node => (In(a, n) <=> In(at, n)) /\ at[n] \in Int
  BY <1>1, <1>3 DEF In
<1>5. In(a, node)
  BY <1>1, <1>3 DEF In
<1>6. /\ \A n \in Nodes : In(at, n) => n # node
      /\ \A n, u, c : Kin(t, at, e, n, u, c) => c # node /\ n # node
  BY DEF Kin
<1>w. /\ r.root = t.root /\ r.child[s][temp] = node /\ r.parent[node] = temp
      /\ \A u \in Sides : r.child[u][node] = Sentinel
      /\ \A u \in Sides, n \in Nodes : n # node /\ ~(u = s /\ n = temp) => r.child[u][n] = t.child[u][n]
      /\ \A n \in Nodes : n # node => r.parent[n] = t.parent[n]
  BY <1>1 DEF Attached, Linked
<1>7. ASSUME NEW n \in Nodes, In(a, n)
      PROVE  1 <= f["left"][n] /\ f["left"][n] <= a[n] /\ a[n] <= f["right"][n] /\ f["right"][n] <= M + 1
  <2>1. CASE n = node
    BY <1>1, <1>3, <2>1
  <2>2. CASE n # node
    BY <1>1, <1>3, <1>4, <1>7, <2>2, Numbers
  <2> QED
    BY <2>1, <2>2
<1>8. ASSUME NEW m \in Nodes, NEW n \in Nodes, In(a, m), a[m] = a[n] PROVE m = n
  <2>1. CASE m = node
    BY <1>1, <1>3, <1>4, <1>8, <2>1
  <2>2. CASE n = node
    BY <1>1, <1>3, <1>4, <1>8, <2>2
  <2>3. CASE m # node /\ n # node
    <3>1. In(at, m)
      BY <1>4, <1>8, <2>3
    <3>2. at[m] = at[n]
      <4>1. at[m] \in Int /\ at[n] \in Int /\ p \in Int
        BY <1>1
      <4>2. /\ a[m] = IF at[m] >= p THEN at[m] + 1 ELSE at[m]
            /\ a[n] = IF at[n] >= p THEN at[n] + 1 ELSE at[n]
        BY <1>3, <2>3
      <4>3. \A x, y, z \in Int :
              (IF x >= z THEN x + 1 ELSE x) = (IF y >= z THEN y + 1 ELSE y) => x = y
        OBVIOUS
      <4>4. (IF at[m] >= p THEN at[m] + 1 ELSE at[m]) = (IF at[n] >= p THEN at[n] + 1 ELSE at[n])
        BY <1>8, <4>2, Zenon
      <4> QED
        BY <4>1, <4>3, <4>4, Zenon
    <3>3. \A x, y \in Nodes : In(at, x) /\ at[x] = at[y] => x = y
      BY DEF Shape
    <3> QED
      BY <3>1, <3>2, <3>3
  <2> QED
    BY <2>1, <2>2, <2>3
<1>9. In(a, r.root) /\ f["left"][r.root] = 1 /\ f["right"][r.root] = M + 1
  <2>1. In(at, t.root) /\ e["left"][t.root] = 1 /\ e["right"][t.root] = M /\ t.root \in Nodes
    BY <1>1 DEF Shape, In
  <2>2. t.root # node /\ r.root = t.root
    BY <1>6, <1>w, <2>1, Zenon
  <2>3. In(a, t.root)
    BY <1>4, <2>1, <2>2, Zenon
  <2>4. /\ f["left"][t.root] = IF e["left"][t.root] > p THEN e["left"][t.root] + 1 ELSE e["left"][t.root]
        /\ f["right"][t.root] =
             IF e["right"][t.root] >= p - 1 THEN e["right"][t.root] + 1 ELSE e["right"][t.root]
    BY <1>3, <2>1, <2>2, Zenon
  <2>5. p \in 1 .. M + 1 /\ M \in Nat
    BY <1>1
  <2>6. f["left"][t.root] = 1 /\ f["right"][t.root] = M + 1
    BY <2>1, <2>4, <2>5
  <2> QED
    BY <2>2, <2>3, <2>6
\* No other node has an empty side where node comes in.
<1>10. ASSUME NEW n \in Nodes, In(at, n), NEW u \in Sides, f[u][n] = a[n]
       PROVE  e[u][n] = at[n] /\ ~(u = s /\ n = temp)
  <2>0. /\ n # node /\ at[n] \in Int /\ e["left"][n] \in Int /\ e["right"][n] \in Int
        /\ e["left"][n] <= at[n] /\ at[n] <= e["right"][n]
    BY <1>6, <1>10, Numbers
  <2>1. CASE u = "left"
    <3>1. e[u][n] = at[n] /\ at[n] # p
      BY <1>1, <1>3, <1>10, <2>0, <2>1
    <3> QED
      BY <2>1, <3>1
  <2>2. CASE u = "right"
    <3>1. e[u][n] = at[n] /\ at[n] # p - 1
      BY <1>1, <1>3, <1>10, <2>0, <2>2
    <3>2. s # "left" => p = at[temp] + 1
      OBVIOUS
    <3>3. u = s => at[temp] = p - 1
      BY <1>1, <2>2, <3>2
    <3> QED
      BY <3>1, <3>3
  <2> QED
    BY <2>1, <2>2 DEF Sides
<1>11. ASSUME NEW n \in Nodes, In(at, n), NEW u \in Sides, e[u][n] = at[n], ~(u = s /\ n = temp)
       PROVE  f[u][n] = a[n]
  <2>0. /\ n # node /\ at[n] \in Int /\ e["left"][n] \in Int /\ e["right"][n] \in Int
        /\ e["left"][n] <= at[n] /\ at[n] <= e["right"][n]
    BY <1>6, <1>11, Numbers
  <2>s. e[s][temp] = at[temp] /\ (s = "left" \/ s = "right")
    BY EmptySide DEF Sides
  <2>i. at[n] = at[temp] => n = temp
    BY <1>1, <1>11 DEF Shape
  <2>1. CASE u = "left"
    <3>1. at[n] # p
      <4>1. CASE s = "left"
        BY <1>11, <2>1, <2>i, <4>1
      <4>2. CASE s = "right"
        BY <1>1, <1>11, <2>1, <2>s, <4>2, Neighbours
      <4> QED
        BY <2>s, <4>1, <4>2
    <3> QED
      BY <1>1, <1>3, <1>11, <2>0, <2>1, <3>1
  <2>2. CASE u = "right"
    <3>1. at[n] # p - 1
      <4>1. CASE s = "right"
        BY <1>1, <1>11, <2>2, <2>i, <4>1
      <4>2. CASE s = "left"
        <5>1. ASSUME at[n] = p - 1 PROVE FALSE
          <6>1. at[temp] = at[n] + 1
            BY <1>1, <2>0, <4>2, <5>1
          <6> QED
            BY <1>11, <2>2, <2>s, <4>2, <6>1, Neighbours
        <5> QED
          BY <5>1
      <4> QED
        BY <2>s, <4>1, <4>2
    <3> QED
      BY <1>1, <1>3, <1>11, <2>0, <2>2, <3>1
  <2> QED
    BY <2>1, <2>2 DEF Sides
<1>12. \A u \in Sides : Fits(r, a, f, node, u)
  <2>1. \A u \in Sides : f[u][node] = a[node]
    BY <1>3 DEF Sides
  <2> QED
    BY <1>w, <2>1 DEF Fits
<1>13. Fits(r, a, f, temp, s)
  <2>1. f[s][temp] # a[temp]
    BY <1>1, <1>10
  <2>2. e[s][temp] = at[temp]
    BY EmptySide
  <2>3. CASE s = "left"
    BY <1>1, <1>3, <1>5, <1>w, <2>1, <2>2, <2>3, SideFacts DEF Fits
  <2>4. CASE s = "right"
    BY <1>1, <1>3, <1>5, <1>w, <2>1, <2>2, <2>4, SideFacts DEF Fits
  <2> QED
    BY <2>3, <2>4 DEF Sides
<1>14. ASSUME NEW n \in Nodes, In(at, n), NEW u \in Sides, ~(u = s /\ n = temp)
       PROVE  Fits(r, a, f, n, u)
  <2> DEFINE c == t.child[u][n]
  <2>1. r.child[u][n] = c /\ n # node
    BY <1>6, <1>w, <1>14
  <2>2. CASE c = Sentinel
    <3>1. f[u][n] = a[n]
      BY <1>11, <1>14, <2>2, EmptySide
    <3> QED
      BY <2>1, <2>2, <3>1 DEF Fits
  <2>3. CASE c # Sentinel
    <3>1. Kin(t, at, e, n, u, c)
      BY <1>14, <2>3, ChildIsKin
    <3> HIDE DEF c
    <3>2. c # node /\ c \in Nodes /\ In(a, c) /\ r.parent[c] = n
      BY <1>4, <1>6, <1>w, <3>1 DEF Kin, In
    <3>3. f[u][n] # a[n]
      BY <1>10, <1>14, <3>1 DEF Kin
    <3>4. /\ at[n] \in Int /\ at[c] \in Int /\ e["left"][n] \in Int /\ e["right"][n] \in Int
          /\ e["left"][c] \in Int /\ e["right"][c] \in Int
      BY <3>1, Numbers DEF Kin
    <3>5. f[u][c] = f[u][n] /\ f[Opposite(u)][c] = a[n] + Off(u)
      <4>1. CASE u = "left"
        <5>1. e["left"][c] = e["left"][n] /\ e["right"][c] = at[n] - 1
          BY <3>1, <3>4, <4>1, SideFacts DEF Kin
        <5> QED
          BY <1>1, <1>3, <2>1, <3>2, <3>4, <4>1, <5>1, SideFacts
      <4>2. CASE u = "right"
        <5>1. e["right"][c] = e["right"][n] /\ e["left"][c] = at[n] + 1
          BY <3>1, <3>4, <4>2, SideFacts DEF Kin
        <5> QED
          BY <1>1, <1>3, <2>1, <3>2, <3>4, <4>2, <5>1, SideFacts
      <4> QED
        BY <4>1, <4>2 DEF Sides
    <3> QED
      BY <2>1, <3>2, <3>3, <3>5 DEF Fits
  <2> QED
    BY <2>2, <2>3
<1>15. ASSUME NEW n \in Nodes, In(a, n), n # r.root
       PROVE  In(a, r.parent[n]) /\ \E u \in Sides : r.child[u][r.parent[n]] = n
  <2>1. CASE n = node
    <3>1. In(a, temp)
      BY <1>1, <1>4
    <3> QED
      BY <1>w, <2>1, <3>1
  <2>2. CASE n # node
    <3>1. Kin(t, at, e, t.parent[n], SideOf(t, n), n) /\ SideOf(t, n) \in Sides
      BY <1>4, <1>15, <1>w, <2>2, ParentIsKin, SideFacts
    <3> DEFINE x == t.parent[n]
               v == SideOf(t, n)
    <3> HIDE DEF x, v
    <3>2. Kin(t, at, e, x, v, n) /\ v \in Sides /\ r.parent[n] = x
      BY <1>w, <2>2, <3>1 DEF x, v
    <3>3. ~(v = s /\ x = temp) /\ x # node /\ x \in Nodes /\ In(a, x)
      BY <1>4, <1>6, <3>2 DEF Kin, In
    <3>4. r.child[v][x] = n
      BY <1>w, <3>2, <3>3 DEF Kin
    <3> QED
      BY <3>2, <3>3, <3>4
  <2> QED
    BY <2>1, <2>2
<1>16. \A n \in Nodes, u \in Sides : In(a, n) => Fits(r, a, f, n, u)
  BY <1>4, <1>12, <1>13, <1>14
<1>17. M + 1 \in Nat
  BY <1>1
<1>18. Shape(r, a, f, M + 1)
  BY <1>1, <1>2, <1>7, <1>8, <1>9, <1>15, <1>16, <1>17 DEF Shape
<1> QED
  BY <1>18 DEF a, f

-----------------------------------------------------------------------------
(* A node with at most one child goes                                      *)

\* r is t with temp in the place of gone.
Cut(r, t, gone, temp) ==
  /\ r \in Trees /\ r.color = t.color /\ r.key = t.key
  /\ r.root = IF gone = t.root THEN temp ELSE t.root
  /\ \A u \in Sides, n \in Linked :
       r.child[u][n] =
         IF gone # t.root /\ u = SideOf(t, gone) /\ n = t.parent[gone] THEN temp ELSE t.child[u][n]
  /\ gone # t.root => r.parent[temp] = t.parent[gone]
  /\ \A n \in Linked : n # temp => r.parent[n] = t.parent[n]

\* Positions and intervals when a node leaves.
ClosedAt(at, gone) ==
  [n \in Nodes |-> IF n = gone THEN 0 ELSE IF at[n] > at[gone] THEN at[n] - 1 ELSE at[n]]
ClosedEnds(at, e, gone) ==
  [u \in Sides |-> [n \in Nodes |->
     IF u = "left" THEN IF e[u][n] > at[gone] THEN e[u][n] - 1 ELSE e[u][n]
     ELSE IF e[u][n] >= at[gone] THEN e[u][n] - 1 ELSE e[u][n]]]

\* A node with at most one child taken out, with its child in its place, keeps the
\* shape.
LEMMA CutShape ==
  ASSUME NEW t \in Trees, NEW at, NEW e, NEW M, Shape(t, at, e, M),
         NEW gone, In(at, gone), NEW v \in Sides, t.child[Opposite(v)][gone] = Sentinel,
         NEW temp, temp = t.child[v][gone],
         NEW r, Cut(r, t, gone, temp)
  PROVE  Shape(r, ClosedAt(at, gone), ClosedEnds(at, e, gone), M - 1)
<1> DEFINE a == ClosedAt(at, gone)
           f == ClosedEnds(at, e, gone)
           p == at[gone]
           above == t.parent[gone]
           w == SideOf(t, gone)
<1>1. /\ at \in [Nodes -> Int] /\ e \in [Sides -> [Nodes -> Int]] /\ M \in Nat /\ M # 0
      /\ gone \in Nodes /\ p \in 1 .. M /\ gone # Sentinel
  <2>1. at \in [Nodes -> Int] /\ e \in [Sides -> [Nodes -> Int]]
    BY DEF Shape
  <2>2. M \in Nat /\ M # 0 /\ gone \in Nodes /\ gone # Sentinel /\ at[gone] \in 1 .. M
    BY Numbers
  <2> QED
    BY <2>1, <2>2
<1>2. a \in [Nodes -> Int] /\ f \in [Sides -> [Nodes -> Int]]
  BY <1>1 DEF ClosedAt, ClosedEnds
<1>3. /\ a[gone] = 0
      /\ \A n \in Nodes : n # gone => a[n] = IF at[n] > p THEN at[n] - 1 ELSE at[n]
      /\ \A n \in Nodes :
           /\ f["left"][n] = IF e["left"][n] > p THEN e["left"][n] - 1 ELSE e["left"][n]
           /\ f["right"][n] = IF e["right"][n] >= p THEN e["right"][n] - 1 ELSE e["right"][n]
  BY <1>1, SideFacts DEF ClosedAt, ClosedEnds
<1> HIDE DEF a, f, p
<1>4. /\ ~In(a, gone)
      /\ \A n \in Nodes : n # gone => (In(a, n) <=> In(at, n)) /\ at[n] \in Int
  BY <1>1, <1>3 DEF In
<1>5. \A m, n \in Nodes : In(at, m) /\ at[m] = at[n] => m = n
  BY DEF Shape
<1>6. \A n \in Nodes : n # gone => at[n] # p
  BY <1>1, <1>5 DEF p
<1>t. temp = Sentinel \/ Kin(t, at, e, gone, v, temp)
  BY ChildIsKin
<1>g. gone = t.root \/ Kin(t, at, e, above, w, gone)
  BY ParentIsKin
<1>v. e[Opposite(v)][gone] = p /\ Opposite(v) \in Sides
  BY EmptySide, SideFacts DEF p
<1> HIDE DEF above, w
<1>w. /\ r.root = IF gone = t.root THEN temp ELSE t.root
      /\ gone # t.root => r.child[w][above] = temp /\ r.parent[temp] = above
      /\ \A u \in Sides, n \in Nodes :
           ~(gone # t.root /\ u = w /\ n = above) => r.child[u][n] = t.child[u][n]
      /\ \A n \in Nodes : n # temp => r.parent[n] = t.parent[n]
  <2>1. gone # t.root => w \in Sides /\ above \in Linked
    BY <1>g, SideFacts DEF Kin, In, Linked, w
  <2> QED
    BY <2>1 DEF Cut, Linked, above, w
<1>7. ASSUME NEW n \in Nodes, In(a, n)
      PROVE  1 <= f["left"][n] /\ f["left"][n] <= a[n] /\ a[n] <= f["right"][n] /\ f["right"][n] <= M - 1
  <2>1. /\ n # gone /\ In(at, n) /\ at[n] # p
    BY <1>4, <1>6, <1>7
  <2>2. /\ at[n] \in Int /\ e["left"][n] \in Int /\ e["right"][n] \in Int
        /\ 1 <= e["left"][n] /\ e["left"][n] <= at[n] /\ at[n] <= e["right"][n] /\ e["right"][n] <= M
    BY <2>1, Numbers
  <2>3. 1 <= f["left"][n] /\ f["left"][n] <= a[n]
    BY <1>1, <1>3, <2>1, <2>2
  <2>4. a[n] <= f["right"][n] /\ f["right"][n] <= M - 1
    <3>1. /\ a[n] = IF at[n] > p THEN at[n] - 1 ELSE at[n]
          /\ f["right"][n] = IF e["right"][n] >= p THEN e["right"][n] - 1 ELSE e["right"][n]
      BY <1>3, <2>1
    <3>2. CASE e["right"][n] >= p
      BY <1>1, <2>1, <2>2, <3>1, <3>2
    <3>3. CASE ~(e["right"][n] >= p)
      BY <1>1, <2>1, <2>2, <3>1, <3>3
    <3> QED
      BY <3>2, <3>3
  <2> QED
    BY <2>3, <2>4
<1>m. \A n \in Nodes : In(a, n) => M - 1 # 0
  <2>1. ASSUME NEW n \in Nodes, In(a, n) PROVE M - 1 # 0
    <3>1. f["left"][n] \in Int /\ f["right"][n] \in Int /\ a[n] \in Int
      BY <1>2, SideFacts
    <3>2. 1 <= f["left"][n] /\ f["left"][n] <= a[n] /\ a[n] <= f["right"][n] /\ f["right"][n] <= M - 1
      BY <1>7, <2>1
    <3> QED
      BY <1>1, <3>1, <3>2
  <2> QED
    BY <2>1
<1>8. ASSUME NEW m \in Nodes, NEW n \in Nodes, In(a, m), a[m] = a[n] PROVE m = n
  <2>1. m # gone /\ In(at, m)
    BY <1>4, <1>8
  <2>2. n # gone
    BY <1>3, <1>8 DEF In
  <2>3. at[m] = at[n]
    <3>1. at[m] \in Int /\ at[n] \in Int /\ p \in Int /\ at[m] # p /\ at[n] # p
      BY <1>1, <1>6, <2>1, <2>2
    <3>2. \A x, y, z \in Int : x # z /\ y # z /\
            (IF x > z THEN x - 1 ELSE x) = (IF y > z THEN y - 1 ELSE y) => x = y
      OBVIOUS
    <3>3. (IF at[m] > p THEN at[m] - 1 ELSE at[m]) = (IF at[n] > p THEN at[n] - 1 ELSE at[n])
      BY <1>3, <1>8, <2>1, <2>2, Zenon
    <3> QED
      BY <3>1, <3>2, <3>3, Zenon
  <2> QED
    BY <1>5, <2>1, <2>3
<1>9. IF M - 1 = 0 THEN r.root = Sentinel
      ELSE In(a, r.root) /\ f["left"][r.root] = 1 /\ f["right"][r.root] = M - 1
  <2>1. In(at, t.root) /\ e["left"][t.root] = 1 /\ e["right"][t.root] = M /\ t.root \in Nodes
    BY <1>1 DEF Shape, In
  <2>2. CASE gone # t.root
    <3>0. /\ f["left"][t.root] = IF e["left"][t.root] > p THEN e["left"][t.root] - 1 ELSE e["left"][t.root]
          /\ f["right"][t.root] = IF e["right"][t.root] >= p THEN e["right"][t.root] - 1 ELSE e["right"][t.root]
          /\ In(a, t.root)
      BY <1>3, <1>4, <2>1, <2>2, Zenon
    <3>p. p \in 1 .. M /\ M \in Nat
      BY <1>1
    <3>1. In(a, t.root) /\ f["left"][t.root] = 1 /\ f["right"][t.root] = M - 1
      BY <2>1, <3>0, <3>p
    <3>2. M - 1 # 0
      BY <1>m, <2>1, <3>1
    <3> QED
      BY <1>w, <2>2, <3>1, <3>2
  <2>3. CASE gone = t.root /\ temp = Sentinel
    <3>1. e[v][gone] = p
      BY <2>3, EmptySide DEF p
    <3>2. e["left"][gone] = p /\ e["right"][gone] = p
      BY <1>v, <3>1, SideFacts DEF Sides
    <3> QED
      BY <1>1, <1>w, <2>1, <2>3, <3>2
  <2>4. CASE gone = t.root /\ temp # Sentinel
    <3>1. Kin(t, at, e, gone, v, temp) /\ temp \in Nodes /\ temp # gone /\ In(at, temp)
      BY <1>t, <2>4 DEF Kin, In
    <3>2. In(a, temp) /\ M - 1 # 0 /\ r.root = temp
      BY <1>4, <1>m, <1>w, <2>4, <3>1
    <3>3. CASE v = "left"
      <4>1. e["left"][temp] = 1 /\ e["right"][temp] = p - 1 /\ p = M
        BY <1>1, <1>v, <2>1, <2>4, <3>1, <3>3, SideFacts DEF Kin, p
      <4>2. f["left"][temp] = 1 /\ f["right"][temp] = M - 1
        BY <1>1, <1>3, <3>1, <4>1
      <4> QED
        BY <3>2, <4>2
    <3>4. CASE v = "right"
      <4>1. e["right"][temp] = M /\ e["left"][temp] = p + 1 /\ p = 1
        BY <1>1, <1>v, <2>1, <2>4, <3>1, <3>4, SideFacts DEF Kin, p
      <4>2. f["left"][temp] = 1 /\ f["right"][temp] = M - 1
        BY <1>1, <1>3, <3>1, <4>1
      <4> QED
        BY <3>2, <4>2
    <3> QED
      BY <3>3, <3>4 DEF Sides
  <2> QED
    BY <2>2, <2>3, <2>4
\* A side becomes empty only above gone.
<1>10. ASSUME NEW n \in Nodes, In(at, n), n # gone, NEW u \in Sides, e[u][n] = at[n]
       PROVE  f[u][n] = a[n]
  <2>1. at[n] \in Int /\ at[n] # p
    BY <1>6, <1>10, Numbers
  <2>2. CASE u = "left"
    BY <1>1, <1>3, <1>10, <2>1, <2>2
  <2>3. CASE u = "right"
    BY <1>1, <1>3, <1>10, <2>1, <2>3
  <2> QED
    BY <2>2, <2>3 DEF Sides
<1>11. ASSUME NEW n \in Nodes, n # gone, NEW u \in Sides, NEW c, Kin(t, at, e, n, u, c), c # gone
       PROVE  f[u][n] # a[n]
  <2>1. /\ In(at, n) /\ In(at, c) /\ c \in Nodes /\ at[n] # p /\ at[c] # p /\ p \in Int
        /\ e[u][n] # at[n] /\ e[u][c] = e[u][n] /\ e[Opposite(u)][c] = at[n] + Off(u)
    BY <1>1, <1>6, <1>11 DEF Kin, In
  <2>2. /\ at[n] \in Int /\ at[c] \in Int /\ e["left"][n] \in Int /\ e["right"][n] \in Int
        /\ e["left"][n] <= at[n] /\ at[n] <= e["right"][n]
        /\ e["left"][c] \in Int /\ e["right"][c] \in Int
        /\ e["left"][c] <= at[c] /\ at[c] <= e["right"][c]
    BY <2>1, Numbers
  <2>3. CASE u = "left"
    <3>1. e["left"][c] = e["left"][n] /\ e["right"][c] = at[n] - 1
      BY <2>1, <2>2, <2>3, SideFacts
    <3> QED
      BY <1>3, <1>11, <2>1, <2>2, <2>3, <3>1
  <2>4. CASE u = "right"
    <3>1. e["right"][c] = e["right"][n] /\ e["left"][c] = at[n] + 1
      BY <2>1, <2>2, <2>4, SideFacts
    <3> QED
      BY <1>3, <1>11, <2>1, <2>2, <2>4, <3>1
  <2> QED
    BY <2>3, <2>4 DEF Sides
<1>12. ASSUME NEW n \in Nodes, In(at, n), n # gone, NEW u \in Sides, ~(gone # t.root /\ u = w /\ n = above)
       PROVE  Fits(r, a, f, n, u)
  <2> DEFINE c == t.child[u][n]
  <2>1. r.child[u][n] = c
    BY <1>w, <1>12
  <2>2. CASE c = Sentinel
    <3>1. f[u][n] = a[n]
      BY <1>10, <1>12, <2>2, EmptySide
    <3> QED
      BY <2>1, <2>2, <3>1 DEF Fits
  <2>3. CASE c # Sentinel
    <3>1. Kin(t, at, e, n, u, c)
      BY <1>12, <2>3, ChildIsKin
    <3> HIDE DEF c
    <3>2. c # gone
      BY <1>12, <1>g, <3>1 DEF Kin
    <3>3. c # temp
      BY <1>12, <1>t, <2>3, <3>1 DEF Kin
    <3>4. c \in Nodes /\ In(a, c) /\ r.parent[c] = n
      BY <1>4, <1>w, <3>1, <3>2, <3>3 DEF Kin, In
    <3>5. f[u][n] # a[n]
      BY <1>11, <1>12, <3>1, <3>2
    <3>6. /\ at[n] \in Int /\ at[n] # p /\ e["left"][n] \in Int /\ e["right"][n] \in Int
          /\ e["left"][c] \in Int /\ e["right"][c] \in Int
      BY <1>6, <1>12, <3>1, Numbers DEF Kin
    <3>7. f[u][c] = f[u][n] /\ f[Opposite(u)][c] = a[n] + Off(u)
      <4>1. CASE u = "left"
        <5>1. e["left"][c] = e["left"][n] /\ e["right"][c] = at[n] - 1
          BY <3>1, <3>6, <4>1, SideFacts DEF Kin
        <5> QED
          BY <1>1, <1>3, <1>12, <3>4, <3>6, <4>1, <5>1, SideFacts
      <4>2. CASE u = "right"
        <5>1. e["right"][c] = e["right"][n] /\ e["left"][c] = at[n] + 1
          BY <3>1, <3>6, <4>2, SideFacts DEF Kin
        <5> QED
          BY <1>1, <1>3, <1>12, <3>4, <3>6, <4>2, <5>1, SideFacts
      <4> QED
        BY <4>1, <4>2 DEF Sides
    <3> QED
      BY <2>1, <3>4, <3>5, <3>7 DEF Fits
  <2> QED
    BY <2>2, <2>3
<1>13. ASSUME gone # t.root PROVE Fits(r, a, f, above, w)
  <2>1. Kin(t, at, e, above, w, gone) /\ above \in Nodes /\ w \in Sides /\ above # gone /\ In(at, above)
    BY <1>g, <1>13, SideFacts DEF Kin, In, w
  <2>2. /\ r.child[w][above] = temp /\ r.parent[temp] = above
    BY <1>w, <1>13
  <2>3. /\ at[above] \in Int /\ at[above] # p /\ p \in Int
        /\ e["left"][above] \in Int /\ e["right"][above] \in Int
        /\ e["left"][gone] \in Int /\ e["right"][gone] \in Int
        /\ e["left"][gone] <= p /\ p <= e["right"][gone]
    BY <1>1, <1>6, <2>1, Numbers DEF p
  <2>4. /\ w = "left" => e["left"][gone] = e["left"][above] /\ e["right"][gone] = at[above] - 1
        /\ w = "right" => e["right"][gone] = e["right"][above] /\ e["left"][gone] = at[above] + 1
    BY <2>1, <2>3, SideFacts DEF Kin
  <2>5. CASE temp = Sentinel
    <3>0. t.child[v][gone] = Sentinel
      BY <2>5
    <3>1. e[v][gone] = p
      BY <3>0, EmptySide DEF p
    <3>2. e["left"][gone] = p /\ e["right"][gone] = p
      BY <1>v, <3>1, SideFacts DEF Sides
    <3>3. f[w][above] = a[above]
      <4>1. CASE w = "left"
        BY <1>3, <2>1, <2>3, <2>4, <3>2, <4>1
      <4>2. CASE w = "right"
        BY <1>3, <2>1, <2>3, <2>4, <3>2, <4>2
      <4> QED
        BY <2>1, <4>1, <4>2 DEF Sides
    <3> QED
      BY <2>2, <2>5, <3>3 DEF Fits
  <2>6. CASE temp # Sentinel
    <3>1. Kin(t, at, e, gone, v, temp) /\ temp \in Nodes /\ temp # gone /\ In(at, temp)
      BY <1>t, <2>6 DEF Kin, In
    <3>2. In(a, temp)
      BY <1>4, <3>1
    <3>3. /\ at[temp] \in Int /\ e["left"][temp] \in Int /\ e["right"][temp] \in Int
          /\ e["left"][temp] <= at[temp] /\ at[temp] <= e["right"][temp]
      BY <3>1, Numbers
    <3>4. /\ v = "left" => /\ e["left"][temp] = e["left"][gone] /\ e["right"][temp] = p - 1
                           /\ e["right"][gone] = p
          /\ v = "right" => /\ e["right"][temp] = e["right"][gone] /\ e["left"][temp] = p + 1
                            /\ e["left"][gone] = p
      BY <1>v, <2>3, <3>1, SideFacts DEF Kin, p
    <3>5. CASE w = "left"
      <4>1. f["left"][temp] = f["left"][above] /\ f["right"][temp] = a[above] - 1 /\ f["left"][above] # a[above]
        <5>1. CASE v = "left"
          BY <1>3, <2>1, <2>3, <2>4, <3>1, <3>3, <3>4, <3>5, <5>1
        <5>2. CASE v = "right"
          BY <1>3, <2>1, <2>3, <2>4, <3>1, <3>3, <3>4, <3>5, <5>2
        <5> QED
          BY <5>1, <5>2 DEF Sides
      <4>2. f["right"][temp] = a[above] + Off("left")
        BY <1>2, <2>1, <4>1, SideFacts
      <4> QED
        BY <2>2, <3>2, <3>5, <4>1, <4>2, SideFacts DEF Fits
    <3>6. CASE w = "right"
      <4>1. f["right"][temp] = f["right"][above] /\ f["left"][temp] = a[above] + 1 /\ f["right"][above] # a[above]
        <5>1. CASE v = "left"
          BY <1>3, <2>1, <2>3, <2>4, <3>1, <3>3, <3>4, <3>6, <5>1
        <5>2. CASE v = "right"
          BY <1>3, <2>1, <2>3, <2>4, <3>1, <3>3, <3>4, <3>6, <5>2
        <5> QED
          BY <5>1, <5>2 DEF Sides
      <4>2. f["left"][temp] = a[above] + Off("right")
        BY <1>2, <2>1, <4>1, SideFacts
      <4> QED
        BY <2>2, <3>2, <3>6, <4>1, <4>2, SideFacts DEF Fits
    <3> QED
      BY <2>1, <3>5, <3>6 DEF Sides
  <2> QED
    BY <2>5, <2>6
<1>14. ASSUME NEW n \in Nodes, In(a, n), n # r.root
       PROVE  In(a, r.parent[n]) /\ \E u \in Sides : r.child[u][r.parent[n]] = n
  <2>1. n # gone /\ In(at, n)
    BY <1>4, <1>14
  <2>2. CASE n = temp
    <3>1. gone # t.root
      BY <1>w, <1>14, <2>2
    <3>2. Kin(t, at, e, above, w, gone) /\ above \in Nodes /\ w \in Sides
      BY <1>g, <3>1, SideFacts DEF Kin, In, w
    <3>3. In(a, above)
      BY <1>4, <3>2 DEF Kin
    <3> QED
      BY <1>w, <2>2, <3>1, <3>2, <3>3
  <2>3. CASE n # temp
    <3>1. n # t.root
      BY <1>w, <1>14, <2>1, <2>3
    <3> DEFINE x == t.parent[n]
               y == SideOf(t, n)
    <3>2. Kin(t, at, e, x, y, n) /\ y \in Sides
      BY <2>1, <3>1, ParentIsKin, SideFacts
    <3>3. r.parent[n] = x
      BY <1>w, <2>3
    <3> HIDE DEF x, y
    <3>4. x # gone
      <4>1. y = v \/ y = Opposite(v)
        BY <3>2, SideFacts
      <4> QED
        BY <2>3, <3>2, <4>1 DEF Kin
    <3>5. ~(gone # t.root /\ y = w /\ x = above)
      BY <1>g, <2>1, <3>2 DEF Kin
    <3>6. x \in Nodes /\ In(a, x)
      BY <1>4, <3>2, <3>4 DEF Kin, In
    <3>7. r.child[y][x] = n
      BY <1>w, <3>2, <3>5, <3>6 DEF Kin
    <3> QED
      BY <3>2, <3>3, <3>6, <3>7
  <2> QED
    BY <2>2, <2>3
<1>15. \A n \in Nodes, u \in Sides : In(a, n) => Fits(r, a, f, n, u)
  BY <1>4, <1>12, <1>13
<1>16. M - 1 \in Nat
  BY <1>1
<1>17. Shape(r, a, f, M - 1)
  BY <1>2, <1>7, <1>8, <1>9, <1>14, <1>15, <1>16 DEF Shape
<1> QED
  BY <1>17 DEF a, f

-----------------------------------------------------------------------------
(* A node takes the place of another                                       *)

TookOver(r, t, node, subst) ==
  /\ r \in Trees /\ r.key = t.key
  /\ r.root = IF node = t.root THEN subst ELSE t.root
  /\ \A u \in Sides, n \in Linked :
       r.child[u][n] =
         IF n = subst THEN t.child[u][node]
         ELSE IF node # t.root /\ u = SideOf(t, node) /\ n = t.parent[node] THEN subst
         ELSE t.child[u][n]
  /\ \A n \in Nodes :
       r.parent[n] = IF n = subst THEN t.parent[node]
                     ELSE IF \E u \in Sides : n = t.child[u][node] THEN subst
                     ELSE t.parent[n]
  /\ \A n \in Linked : r.color[n] = IF n = subst THEN t.color[node] ELSE t.color[n]

\* What nc_rbtree_delete writes when the substitute takes over the node's place.
LEMMA TakeOverFields ==
  ASSUME NEW t \in Trees, NEW node \in Nodes, NEW subst \in Nodes
  PROVE  /\ TookOver(TakeOver(t, node, subst), t, node, subst)
         /\ TakeOver(t, node, subst).parent[Sentinel] = t.parent[Sentinel]
<1> DEFINE left == t.child["left"][node]
           right == t.child["right"][node]
           put == PutInPlace(t, node, subst)
           half == SetParent(put, left, subst)
           placed == SetParent(half, right, subst)
           r == TakeOver(t, node, subst)
<1>1. /\ node \in Linked /\ subst \in Linked /\ left \in Pointers /\ right \in Pointers
      /\ t.parent[node] \in Pointers /\ t.color[node] \in {RED, BLACK, Unset}
      /\ \A u \in Sides : t.child[u][node] \in Pointers
  BY SideFacts DEF Trees, Linked
<1>2. Replaced(put, t, node, subst)
  BY <1>1, PutInPlaceFields
<1> HIDE DEF put
<1>3. /\ half \in Trees /\ half.root = put.root /\ half.child = put.child
      /\ half.color = put.color /\ half.key = put.key
      /\ \A n \in Linked :
           half.parent[n] = IF n = left /\ n # Sentinel THEN subst ELSE put.parent[n]
  BY <1>1, <1>2 DEF SetParent, Trees, Pointers, Replaced
<1> HIDE DEF half
<1>4. /\ placed \in Trees /\ placed.root = half.root /\ placed.child = half.child
      /\ placed.color = half.color /\ placed.key = half.key
      /\ \A n \in Linked :
           placed.parent[n] = IF n = right /\ n # Sentinel THEN subst ELSE half.parent[n]
  BY <1>1, <1>3 DEF SetParent, Trees, Pointers
<1> HIDE DEF placed
<1>5. r = [placed EXCEPT !.child = [s \in Sides |-> [@[s] EXCEPT ![subst] = t.child[s][node]]],
                         !.parent[subst] = t.parent[node],
                         !.color[subst] = t.color[node]]
  BY DEF TakeOver, placed, half, put
<1> HIDE DEF r, left, right
<1>6. /\ r \in Trees /\ r.root = placed.root /\ r.key = placed.key
      /\ \A n \in Linked :
           /\ r.parent[n] = IF n = subst THEN t.parent[node] ELSE placed.parent[n]
           /\ r.color[n] = IF n = subst THEN t.color[node] ELSE placed.color[n]
  BY <1>1, <1>4, <1>5, Zenon DEF Trees, Linked
<1>7. \A u \in Sides, n \in Linked :
         r.child[u][n] = IF n = subst THEN t.child[u][node] ELSE placed.child[u][n]
  BY <1>1, <1>4, <1>5 DEF Trees
<1>8. \A n : (\E u \in Sides : n = t.child[u][node]) <=> (n = left \/ n = right)
  BY DEF Sides, left, right
<1>9. \A n \in Nodes : n \in Linked /\ n # Sentinel
  BY RbtreeAssumption DEF Linked
<1>10. TookOver(r, t, node, subst)
  BY <1>2, <1>3, <1>4, <1>6, <1>7, <1>8, <1>9 DEF Replaced, TookOver
<1>11. r.parent[Sentinel] = t.parent[Sentinel]
  <2>1. Sentinel \in Linked /\ Sentinel # subst
    BY <1>9 DEF Linked
  <2> QED
    BY <1>2, <1>3, <1>4, <1>6, <2>1 DEF Replaced
<1> QED
  BY <1>10, <1>11 DEF r

RenamedAt(at, node, subst) ==
  [n \in Nodes |-> IF n = subst THEN at[node] ELSE IF n = node THEN 0 ELSE at[n]]
RenamedEnds(e, node, subst) ==
  [u \in Sides |-> [n \in Nodes |-> IF n = subst THEN e[u][node] ELSE e[u][n]]]

\* The substitute takes over the position of the node as well.
LEMMA TakeOverShape ==
  ASSUME NEW t \in Trees, NEW at, NEW e, NEW M, Shape(t, at, e, M),
         NEW node, In(at, node), NEW subst \in Nodes, ~In(at, subst),
         NEW r, TookOver(r, t, node, subst)
  PROVE  Shape(r, RenamedAt(at, node, subst), RenamedEnds(e, node, subst), M)
<1> DEFINE a == RenamedAt(at, node, subst)
           f == RenamedEnds(e, node, subst)
           above == t.parent[node]
           w == SideOf(t, node)
<1>1. /\ at \in [Nodes -> Int] /\ e \in [Sides -> [Nodes -> Int]] /\ M \in Nat /\ M # 0
      /\ node \in Nodes /\ node # subst /\ at[node] # 0 /\ subst # Sentinel
      /\ \A m, n \in Nodes : In(at, m) /\ at[m] = at[n] => m = n
  <2>1. /\ at \in [Nodes -> Int] /\ e \in [Sides -> [Nodes -> Int]]
        /\ \A m, n \in Nodes : In(at, m) /\ at[m] = at[n] => m = n
    BY DEF Shape
  <2>2. M \in Nat /\ M # 0
    BY Numbers
  <2>3. node \in Nodes /\ node # subst /\ at[node] # 0 /\ subst # Sentinel
    BY RbtreeAssumption DEF In
  <2> QED
    BY <2>1, <2>2, <2>3
<1>2. a \in [Nodes -> Int] /\ f \in [Sides -> [Nodes -> Int]]
  BY <1>1 DEF RenamedAt, RenamedEnds
<1>3. /\ a[subst] = at[node] /\ a[node] = 0
      /\ \A n \in Nodes : n # subst /\ n # node => a[n] = at[n]
      /\ \A u \in Sides : f[u][subst] = e[u][node]
      /\ \A u \in Sides, n \in Nodes : n # subst => f[u][n] = e[u][n]
  BY <1>1 DEF RenamedAt, RenamedEnds
<1> HIDE DEF a, f
<1>4. /\ In(a, subst) /\ ~In(a, node)
      /\ \A n \in Nodes : n # subst /\ n # node => (In(a, n) <=> In(at, n))
      /\ \A n, u, c : Kin(t, at, e, n, u, c) => n # subst /\ c # subst /\ n \in Nodes /\ c \in Nodes
  BY <1>1, <1>3 DEF In, Kin
<1>g. node = t.root \/ Kin(t, at, e, above, w, node)
  BY ParentIsKin
<1> HIDE DEF above, w
<1>w. /\ r.root = IF node = t.root THEN subst ELSE t.root
      /\ node # t.root => r.child[w][above] = subst
      /\ r.parent[subst] = above
      /\ \A u \in Sides : r.child[u][subst] = t.child[u][node]
      /\ \A u \in Sides, n \in Nodes :
           n # subst /\ ~(node # t.root /\ u = w /\ n = above) => r.child[u][n] = t.child[u][n]
  <2>1. node # t.root => w \in Sides /\ above \in Linked /\ above # subst
    BY <1>4, <1>g, SideFacts DEF Kin, In, Linked, w
  <2> QED
    BY <2>1 DEF TookOver, Linked, above, w
<1>p. /\ \A u, c : u \in Sides /\ Kin(t, at, e, node, u, c) => r.parent[c] = subst
      /\ \A n, u, c : Kin(t, at, e, n, u, c) /\ n # node => r.parent[c] = n
  <2>1. ASSUME NEW u \in Sides, NEW c, Kin(t, at, e, node, u, c) PROVE r.parent[c] = subst
    <3>1. c \in Nodes /\ c # subst /\ c # Sentinel /\ c = t.child[u][node]
      BY <1>4, <2>1 DEF Kin
    <3> QED
      BY <3>1 DEF TookOver
  <2>2. ASSUME NEW n, NEW u, NEW c, Kin(t, at, e, n, u, c), n # node PROVE r.parent[c] = n
    <3>1. c \in Nodes /\ c # subst /\ c # Sentinel /\ t.parent[c] = n
      BY <1>4, <2>2 DEF Kin
    <3>2. ASSUME NEW v \in Sides, c = t.child[v][node] PROVE FALSE
      <4>1. Kin(t, at, e, node, v, c)
        BY <3>1, <3>2, ChildIsKin
      <4> QED
        BY <2>2, <4>1 DEF Kin
    <3> QED
      BY <3>1, <3>2 DEF TookOver
  <2> QED
    BY <2>1, <2>2
<1>5. ASSUME NEW n \in Nodes, In(a, n)
      PROVE  1 <= f["left"][n] /\ f["left"][n] <= a[n] /\ a[n] <= f["right"][n] /\ f["right"][n] <= M
  <2>1. CASE n = subst
    BY <1>3, <2>1, Numbers, SideFacts
  <2>2. CASE n # subst
    BY <1>3, <1>4, <1>5, <2>2, Numbers, SideFacts
  <2> QED
    BY <2>1, <2>2
<1>6. ASSUME NEW m \in Nodes, NEW n \in Nodes, In(a, m), a[m] = a[n] PROVE m = n
  BY <1>1, <1>3, <1>4, <1>6 DEF In
<1>7. In(a, r.root) /\ f["left"][r.root] = 1 /\ f["right"][r.root] = M
  <2>1. In(at, t.root) /\ e["left"][t.root] = 1 /\ e["right"][t.root] = M /\ t.root \in Nodes
    BY <1>1 DEF Shape, In
  <2>2. CASE node = t.root
    BY <1>3, <1>4, <1>w, <2>1, <2>2, SideFacts
  <2>3. CASE node # t.root
    BY <1>3, <1>4, <1>w, <2>1, <2>3, SideFacts
  <2> QED
    BY <2>2, <2>3
<1>8. ASSUME NEW n, NEW u \in Sides, NEW c, Kin(t, at, e, n, u, c), c # node,
             NEW x \in Nodes, x = IF n = node THEN subst ELSE n, r.child[u][x] = c
      PROVE  Fits(r, a, f, x, u)
  <2>1. /\ c \in Nodes /\ c # subst /\ n \in Nodes /\ n # subst /\ In(at, c) /\ In(at, n)
        /\ e[u][n] # at[n] /\ e[u][c] = e[u][n] /\ e[Opposite(u)][c] = at[n] + Off(u)
    BY <1>4, <1>8 DEF Kin
  <2>2. In(a, c) /\ r.parent[c] = x
    BY <1>4, <1>p, <1>8, <2>1
  <2>3. a[x] = at[n] /\ f[u][x] = e[u][n]
    BY <1>3, <1>8, <2>1
  <2>4. f[u][c] = e[u][c] /\ f[Opposite(u)][c] = e[Opposite(u)][c]
    BY <1>3, <2>1, SideFacts
  <2> QED
    BY <1>8, <2>1, <2>2, <2>3, <2>4 DEF Fits
<1>9. ASSUME NEW u \in Sides PROVE Fits(r, a, f, subst, u)
  <2>1. r.child[u][subst] = t.child[u][node]
    BY <1>w
  <2>2. CASE t.child[u][node] = Sentinel
    <3>1. f[u][subst] = a[subst]
      BY <1>3, <2>2, EmptySide
    <3> QED
      BY <2>1, <2>2, <3>1 DEF Fits
  <2>3. CASE t.child[u][node] # Sentinel
    <3>1. Kin(t, at, e, node, u, t.child[u][node])
      BY <2>3, ChildIsKin
    <3>2. t.child[u][node] # node
      BY <3>1 DEF Kin
    <3> QED
      BY <1>8, <2>1, <3>1, <3>2
  <2> QED
    BY <2>2, <2>3
<1>10. ASSUME node # t.root PROVE Fits(r, a, f, above, w)
  <2>1. /\ Kin(t, at, e, above, w, node) /\ w \in Sides /\ above # node /\ above \in Nodes /\ above # subst
        /\ In(at, above)
    BY <1>4, <1>g, <1>10, SideFacts DEF Kin, w
  <2>2. r.child[w][above] = subst /\ r.parent[subst] = above
    BY <1>w, <1>10
  <2>3. /\ f[w][above] = e[w][above] /\ a[above] = at[above]
        /\ f[w][subst] = e[w][node] /\ f[Opposite(w)][subst] = e[Opposite(w)][node]
    BY <1>3, <2>1, SideFacts
  <2> QED
    BY <1>4, <2>1, <2>2, <2>3 DEF Fits, Kin
<1>11. ASSUME NEW n \in Nodes, In(at, n), n # node, NEW u \in Sides,
              ~(node # t.root /\ u = w /\ n = above)
       PROVE  Fits(r, a, f, n, u)
  <2>0. n # subst
    BY <1>11
  <2>1. r.child[u][n] = t.child[u][n]
    BY <1>w, <1>11, <2>0
  <2>2. CASE t.child[u][n] = Sentinel
    <3>1. f[u][n] = a[n]
      BY <1>3, <1>11, <2>0, <2>2, EmptySide
    <3> QED
      BY <2>1, <2>2, <3>1 DEF Fits
  <2>3. CASE t.child[u][n] # Sentinel
    <3>1. Kin(t, at, e, n, u, t.child[u][n])
      BY <1>11, <2>3, ChildIsKin
    <3>2. t.child[u][n] # node
      BY <1>g, <1>11, <3>1 DEF Kin
    <3> QED
      BY <1>8, <1>11, <2>1, <3>1, <3>2
  <2> QED
    BY <2>2, <2>3
<1>12. ASSUME NEW n \in Nodes, In(a, n), n # r.root
       PROVE  In(a, r.parent[n]) /\ \E u \in Sides : r.child[u][r.parent[n]] = n
  <2>1. CASE n = subst
    <3>1. node # t.root
      BY <1>w, <1>12, <2>1
    <3>2. Kin(t, at, e, above, w, node) /\ w \in Sides /\ above # node /\ above # subst /\ above \in Nodes
      BY <1>4, <1>g, <3>1, SideFacts DEF Kin, w
    <3> QED
      BY <1>4, <1>w, <2>1, <3>1, <3>2 DEF Kin
  <2>2. CASE n # subst
    <3> DEFINE x == t.parent[n]
               y == SideOf(t, n)
    <3>1. In(at, n) /\ n # t.root /\ n # node
      BY <1>4, <1>12, <1>w, <2>2
    <3>2. Kin(t, at, e, x, y, n) /\ y \in Sides
      BY <3>1, ParentIsKin, SideFacts
    <3> HIDE DEF x, y
    <3>3. CASE x = node
      <4>1. r.parent[n] = subst
        BY <1>p, <3>2, <3>3
      <4>2. r.child[y][subst] = n
        BY <1>w, <3>2, <3>3 DEF Kin
      <4> QED
        BY <1>4, <3>2, <4>1, <4>2
    <3>4. CASE x # node
      <4>1. r.parent[n] = x
        BY <1>p, <3>2, <3>4
      <4>2. x \in Nodes /\ x # subst /\ In(at, x) /\ ~(node # t.root /\ y = w /\ x = above)
        BY <1>4, <1>g, <3>1, <3>2 DEF Kin
      <4>3. r.child[y][x] = n
        BY <1>w, <3>2, <4>2 DEF Kin
      <4> QED
        BY <1>4, <3>2, <3>4, <4>1, <4>2, <4>3
    <3> QED
      BY <3>3, <3>4
  <2> QED
    BY <2>1, <2>2
<1>13. \A n \in Nodes, u \in Sides : In(a, n) => Fits(r, a, f, n, u)
  BY <1>4, <1>9, <1>10, <1>11
<1>14. Shape(r, a, f, M)
  BY <1>1, <1>2, <1>5, <1>6, <1>7, <1>12, <1>13 DEF Shape
<1> QED
  BY <1>14 DEF a, f

-----------------------------------------------------------------------------
(* Colours                                                                 *)

\* Missing and the exceptions of RedBlack, for any phase and node.
Lack(t, ph, c, n, s) ==
  IF ph = "delete" /\ c # t.root /\ n = t.parent[c] /\ s = SideOf(t, c) THEN 1 ELSE 0
Excused(ph, c, n, k) == (ph = "insert" /\ k = c) \/ (ph = "delete" /\ c \in {n, k})
Weight(t, n) == IF is_black(t, n) THEN 1 ELSE 0

\* What the colours ask of a node, when h is the number of black nodes from each
\* node down.
Ruled(t, h, ph, c, n) ==
  /\ t.color[n] \in {RED, BLACK} /\ h[n] \in Nat
  /\ \A s \in Sides :
       /\ h[n] = Weight(t, n) + h[t.child[s][n]] + Lack(t, ph, c, n, s)
       /\ is_red(t, n) /\ is_red(t, t.child[s][n]) => Excused(ph, c, n, t.child[s][n])

Leaves(t, h) ==
  t.color[Sentinel] = BLACK /\ h[Sentinel] = 0 /\ \A s \in Sides : t.child[s][Sentinel] = NULL

\* Where the loop's node may be.
Current(t, at, ph, c) ==
  /\ ph \in {"idle", "insert", "delete"}
  /\ ph = "idle" => c = NULL
  /\ ph = "insert" => In(at, c) /\ is_red(t, c)
  /\ ph = "delete" =>
       /\ c = Sentinel \/ In(at, c)
       /\ In(at, t.root)
       /\ c # t.root => In(at, t.parent[c]) /\ \E s \in Sides : t.child[s][t.parent[c]] = c

Rules(t, at, h, ph, c) ==
  /\ h \in [Linked -> Nat] /\ Leaves(t, h)
  /\ \A n \in Nodes : In(at, n) => Ruled(t, h, ph, c, n)
  /\ In(at, t.root) /\ t.root # c => is_black(t, t.root)
  /\ Current(t, at, ph, c)

\* The two nodes that a rotation turns and a third one, x, have new colours (p)
\* and numbers of black nodes (g), which suit them after it (r); to their
\* surroundings, temp is now what node was.
Repainted(t, at, h, ph, c, node, temp, x, p, r, g, ph2, c2) ==
  /\ p.root = t.root /\ p.child = t.child /\ p.parent = t.parent
  /\ \A n \in Linked : n \notin {node, temp, x} \/ n = Sentinel =>
       p.color[n] = t.color[n] /\ g[n] = h[n]
  /\ g[temp] = h[node] /\ (is_red(r, temp) => is_red(t, node))
  /\ node # t.root => ~(is_red(t, t.parent[node]) /\ is_red(t, node))
  /\ \A n \in Nodes, u \in Sides : In(at, n) /\ n \notin {node, temp, x} =>
       /\ Lack(r, ph2, c2, n, u) = Lack(t, ph, c, n, u)
       /\ is_red(t, n) /\ is_red(t, t.child[u][n]) /\ Excused(ph, c, n, t.child[u][n])
            => Excused(ph2, c2, n, t.child[u][n])
  /\ Ruled(r, g, ph2, c2, node) /\ Ruled(r, g, ph2, c2, temp)
  /\ x # Sentinel => Ruled(r, g, ph2, c2, x)

\* A rotation keeps the rules when the colours around it were set so that the two
\* nodes keep them.
LEMMA RotateRules ==
  ASSUME NEW t \in Trees, NEW at, NEW e, NEW M, Shape(t, at, e, M),
         NEW h, NEW ph, NEW c, \A n \in Nodes : In(at, n) => Ruled(t, h, ph, c, n),
         Leaves(t, h),
         NEW s \in Sides, NEW node, In(at, node),
         NEW temp, temp = t.child[Opposite(s)][node], temp # Sentinel,
         NEW x, x \in {temp, t.child[Opposite(s)][temp]},
         NEW p, NEW r, Rotated(r, p, s, node, temp, t.child[s][temp]),
         NEW g, NEW ph2, NEW c2, Repainted(t, at, h, ph, c, node, temp, x, p, r, g, ph2, c2)
  PROVE  (\A n \in Nodes : In(at, n) => Ruled(r, g, ph2, c2, n)) /\ Leaves(r, g)
<1> DEFINE o == Opposite(s)
           inner == t.child[s][temp]
           above == t.parent[node]
           w == SideOf(t, node)
<1>s. s \in Sides /\ o \in Sides /\ o # s
  BY SideFacts
<1>1. Kin(t, at, e, node, o, temp)
  BY <1>s, ChildIsKin
<1>x. x = Sentinel \/ x = temp \/ Kin(t, at, e, temp, o, x)
  <2>1. In(at, temp) /\ (x = temp \/ x = t.child[o][temp])
    BY <1>1 DEF Kin
  <2> HIDE DEF o
  <2> QED
    BY <1>s, <2>1, ChildIsKin
<1>3. node = t.root \/ Kin(t, at, e, above, w, node)
  BY ParentIsKin
<1>4. node \in Nodes /\ temp \in Nodes /\ node # temp /\ node # Sentinel /\ Sentinel \notin Nodes
  BY <1>1, Numbers, RbtreeAssumption DEF Kin
<1>p. /\ p.root = t.root /\ p.child = t.child /\ p.parent = t.parent
      /\ \A n \in Linked : n \notin {node, temp, x} \/ n = Sentinel =>
           p.color[n] = t.color[n] /\ g[n] = h[n]
      /\ g[temp] = h[node] /\ (is_red(r, temp) => is_red(t, node))
      /\ node # t.root => ~(is_red(t, above) /\ is_red(t, node))
  BY DEF Repainted
<1>q. \A n \in Nodes, u \in Sides : In(at, n) /\ n \notin {node, temp, x} =>
        /\ Lack(r, ph2, c2, n, u) = Lack(t, ph, c, n, u)
        /\ is_red(t, n) /\ is_red(t, t.child[u][n]) /\ Excused(ph, c, n, t.child[u][n])
             => Excused(ph2, c2, n, t.child[u][n])
  BY DEF Repainted
<1>z. /\ Ruled(r, g, ph2, c2, node) /\ Ruled(r, g, ph2, c2, temp)
      /\ x # Sentinel => Ruled(r, g, ph2, c2, x)
  BY DEF Repainted
<1>5. SideOf(p, node) = w
  BY <1>p DEF SideOf, w
<1> HIDE DEF o, inner, above, w
<1>6. \A u \in Sides, n \in Linked :
        r.child[u][n] = IF u = o /\ n = node THEN inner ELSE IF u = s /\ n = temp THEN node
                        ELSE IF node # t.root /\ u = w /\ n = above THEN temp ELSE t.child[u][n]
  BY <1>5, <1>p DEF Rotated, o, inner, above
<1>7. r.color = p.color
  BY DEF Rotated
<1>8. ASSUME NEW n \in Nodes, In(at, n), n \notin {node, temp, x}
      PROVE  Ruled(r, g, ph2, c2, n)
  <2>1. Ruled(t, h, ph, c, n) /\ n \in Linked
    BY <1>8 DEF Linked
  <2>2. r.color[n] = t.color[n] /\ g[n] = h[n] /\ is_red(r, n) = is_red(t, n) /\ Weight(r, n) = Weight(t, n)
    BY <1>7, <1>8, <1>p, <2>1 DEF is_red, is_black, Weight
  <2>3. ASSUME NEW u \in Sides
        PROVE  /\ g[n] = Weight(r, n) + g[r.child[u][n]] + Lack(r, ph2, c2, n, u)
               /\ is_red(r, n) /\ is_red(r, r.child[u][n]) => Excused(ph2, c2, n, r.child[u][n])
    <3>0. Lack(r, ph2, c2, n, u) = Lack(t, ph, c, n, u)
      BY <1>8, <1>q
    <3>1. CASE node # t.root /\ u = w /\ n = above
      <4>1. r.child[u][n] = temp /\ t.child[u][n] = node
        BY <1>3, <1>4, <1>6, <1>8, <2>1, <3>1 DEF Kin
      <4>2. ~(is_red(t, n) /\ is_red(t, node))
        BY <3>1, <1>p
      <4>3. g[temp] = h[node] /\ (is_red(r, temp) => is_red(t, node))
        BY <1>p
      <4>4. h[n] = Weight(t, n) + h[node] + Lack(t, ph, c, n, u)
        BY <2>1, <4>1 DEF Ruled
      <4>5. g[n] = Weight(r, n) + g[temp] + Lack(r, ph2, c2, n, u)
        BY <2>2, <3>0, <4>3, <4>4
      <4>6. ~(is_red(r, n) /\ is_red(r, temp))
        BY <2>2, <4>2, <4>3
      <4> QED
        BY <4>1, <4>5, <4>6
    <3>2. CASE ~(node # t.root /\ u = w /\ n = above)
      <4> DEFINE k == t.child[u][n]
      <4>1. r.child[u][n] = k
        BY <1>6, <1>8, <2>1, <3>2
      <4>2. k = Sentinel \/ Kin(t, at, e, n, u, k)
        BY <1>8, ChildIsKin
      <4> HIDE DEF k
      <4>3. k = Sentinel \/ k \notin {node, temp, x}
        <5>1. ASSUME Kin(t, at, e, n, u, node) PROVE FALSE
          <6>1. node # t.root /\ t.parent[node] = n /\ SideOf(t, node) = u
            BY <5>1, Zenon DEF Kin
          <6> QED
            BY <3>2, <6>1 DEF above, w
        <5>2. ASSUME Kin(t, at, e, n, u, temp) PROVE FALSE
          BY <1>1, <1>8, <5>2, Zenon DEF Kin
        <5>3. ASSUME Kin(t, at, e, n, u, x) PROVE FALSE
          BY <1>x, <1>8, <5>2, <5>3 DEF Kin
        <5> QED
          BY <4>2, <5>1, <5>2, <5>3
      <4>4. k \in Linked
        BY <4>2 DEF Kin, In, Linked
      <4>5. g[k] = h[k] /\ r.color[k] = t.color[k]
        BY <1>7, <1>p, <4>3, <4>4
      <4>6. is_red(r, k) = is_red(t, k)
        BY <4>5 DEF is_red
      <4>7. /\ h[n] = Weight(t, n) + h[k] + Lack(t, ph, c, n, u)
            /\ is_red(t, n) /\ is_red(t, k) => Excused(ph, c, n, k)
        BY <2>1 DEF Ruled, k
      <4>8. is_red(t, n) /\ is_red(t, k) => Excused(ph2, c2, n, k)
        BY <1>8, <1>q, <4>7 DEF k
      <4>9. is_red(r, n) /\ is_red(r, k) => Excused(ph2, c2, n, k)
        BY <2>2, <4>6, <4>8
      <4> QED
        BY <2>2, <3>0, <4>1, <4>5, <4>7, <4>9
    <3> QED
      BY <3>1, <3>2
  <2> QED
    BY <2>1, <2>2, <2>3 DEF Ruled
<1>9. \A n \in Nodes : In(at, n) => Ruled(r, g, ph2, c2, n)
  BY <1>4, <1>8, <1>z, Zenon
<1>10. Leaves(r, g)
  <2>1. Sentinel \in Linked
    BY DEF Linked
  <2>2. r.color[Sentinel] = BLACK /\ g[Sentinel] = 0
    BY <1>7, <1>p, <2>1 DEF Leaves
  <2>3. node # t.root => above # Sentinel
    BY <1>3 DEF Kin
  <2>4. temp # Sentinel
    OBVIOUS
  <2>5. \A u \in Sides : r.child[u][Sentinel] = t.child[u][Sentinel]
    BY <1>4, <1>6, <2>1, <2>3, <2>4
  <2> QED
    BY <2>2, <2>5 DEF Leaves
<1> QED
  BY <1>9, <1>10

\* Colours and keys are no part of the shape.
LEMMA SameShape ==
  ASSUME NEW t, NEW at, NEW e, NEW M, Shape(t, at, e, M),
         NEW r, r.root = t.root, r.child = t.child, r.parent = t.parent
  PROVE  Shape(r, at, e, M)
BY DEF Shape, Fits

\* A node is red or counts as black.
LEMMA RedIs ==
  /\ RED # BLACK
  /\ \A t, n : t.color[n] = RED => is_red(t, n) /\ ~is_black(t, n) /\ Weight(t, n) = 0
  /\ \A t, n : t.color[n] # RED => ~is_red(t, n) /\ is_black(t, n) /\ Weight(t, n) = 1
  /\ \A t, n : is_black(t, n) <=> ~is_red(t, n)
  /\ \A t, n : is_red(t, n) => t.color[n] = RED
  /\ \A t, r, n : t.color[n] = r.color[n] =>
       /\ Weight(t, n) = Weight(r, n) /\ (is_red(t, n) <=> is_red(r, n))
BY DEF RED, BLACK, is_red, is_black, Weight

\* A red-black tree at every step, with the loop's node where its phase has it.
Sound(t, at, e, M, h, ph, c) ==
  t \in Trees /\ Shape(t, at, e, M) /\ Rules(t, at, h, ph, c)

-----------------------------------------------------------------------------
(* The rounds of an insert                                                 *)

\* What a round finds around its node.
InsertNear(t, at, e, c, parent, grand, s, v) ==
  /\ Kin(t, at, e, parent, v, c) /\ Kin(t, at, e, grand, s, parent)
  /\ s \in Sides /\ v \in Sides /\ c # grand
  /\ t.color[c] = RED /\ t.color[parent] = RED /\ t.color[grand] = BLACK
  /\ t.color[t.child[Opposite(v)][parent]] # RED
  /\ parent # t.root /\ parent \in Nodes /\ grand \in Nodes /\ c \in Nodes
  /\ \A u \in Sides : t.color[t.child[u][c]] # RED

\* A round of an insert has a parent, a grandparent and an uncle's side.
LEMMA InsertRound ==
  ASSUME NEW t, NEW at, NEW e, NEW M, NEW h, NEW c, Sound(t, at, e, M, h, "insert", c),
         c # t.root, is_red(t, t.parent[c])
  PROVE  InsertNear(t, at, e, c, t.parent[c], t.parent[t.parent[c]], SideOf(t, t.parent[c]), SideOf(t, c))
<1> DEFINE parent == t.parent[c]
           grand == t.parent[parent]
           s == SideOf(t, parent)
           v == SideOf(t, c)
<1>1. In(at, c) /\ is_red(t, c)
  BY DEF Sound, Rules, Current
<1>2. Kin(t, at, e, parent, v, c) /\ v \in Sides
  BY <1>1, ParentIsKin, SideFacts DEF Sound
<1>3. In(at, parent) /\ In(at, t.root)
  <2>1. In(at, parent)
    BY <1>2 DEF Kin
  <2>2. M # 0
    BY <2>1, Numbers DEF Sound
  <2> QED
    BY <2>1, <2>2 DEF Sound, Shape
<1>4. parent # t.root
  BY <1>3 DEF Sound, Rules, is_black
<1>5. Kin(t, at, e, grand, s, parent) /\ s \in Sides
  BY <1>3, <1>4, ParentIsKin, SideFacts DEF Sound
<1>6. c # grand
  BY <1>2, <1>5, Narrower DEF Sound
<1>7. /\ c \in Nodes /\ parent \in Nodes /\ grand \in Nodes /\ parent # c
      /\ t.child[v][parent] = c /\ t.child[s][grand] = parent
  BY <1>2, <1>5 DEF Kin, In
<1>8. \A n \in Nodes : In(at, n) => Ruled(t, h, "insert", c, n)
  BY DEF Sound, Rules
<1> HIDE DEF parent, grand, s, v
<1>9. \A n \in Nodes, u \in Sides :
        In(at, n) /\ is_red(t, n) /\ t.child[u][n] # c => ~is_red(t, t.child[u][n])
  BY <1>8 DEF Ruled, Excused
<1>10. t.color[c] = RED /\ t.color[parent] = RED
  BY <1>1, RedIs DEF parent
<1>11. t.color[grand] = BLACK
  <2>1. Ruled(t, h, "insert", c, grand) /\ In(at, grand)
    BY <1>5, <1>7, <1>8 DEF Kin
  <2>2. t.color[grand] # RED
    BY <1>5, <1>7, <1>9, <1>10, <2>1, RedIs
  <2> QED
    BY <2>1, <2>2 DEF Ruled
<1>12. t.color[t.child[Opposite(v)][parent]] # RED
  <2>1. t.child[Opposite(v)][parent] # c
    <3>1. ASSUME t.child[Opposite(v)][parent] = c PROVE FALSE
      <4>1. Kin(t, at, e, parent, Opposite(v), c)
        <5>1. Opposite(v) \in Sides /\ c # Sentinel
          BY <1>2, SideFacts DEF Kin
        <5> QED
          BY <1>3, <3>1, <5>1, ChildIsKin DEF Sound
      <4> QED
        BY <1>2, <4>1, SideFacts, Zenon DEF Kin
    <3> QED
      BY <3>1
  <2> QED
    BY <1>2, <1>3, <1>7, <1>9, <1>10, <2>1, RedIs, SideFacts
<1>13. \A u \in Sides : t.color[t.child[u][c]] # RED
  <2>1. ASSUME NEW u \in Sides, t.child[u][c] = c PROVE FALSE
    BY <1>1, <1>2, <2>1, ChildIsKin DEF Sound, Kin
  <2> QED
    BY <1>1, <1>7, <1>9, <1>10, <2>1, RedIs
<1>14. InsertNear(t, at, e, c, parent, grand, s, v)
  BY <1>2, <1>4, <1>5, <1>6, <1>7, <1>10, <1>11, <1>12, <1>13 DEF InsertNear
<1> QED
  BY <1>14 DEF parent, grand, s, v

\* Case 1 of an insert: parent and uncle black, grandparent red, and on from there.
LEMMA RecolorSound ==
  ASSUME NEW t, NEW at, NEW e, NEW M, NEW h, NEW c, Sound(t, at, e, M, h, "insert", c),
         c # t.root,
         NEW parent, NEW grand, NEW uncle, NEW s, NEW v,
         uncle = t.child[Opposite(s)][grand],
         InsertNear(t, at, e, c, parent, grand, s, v), t.color[uncle] = RED,
         NEW p \in Trees, p.root = t.root, p.child = t.child, p.parent = t.parent, p.key = t.key,
         p.color[parent] = BLACK, p.color[uncle] = BLACK, p.color[grand] = RED,
         \A n \in Linked : n \notin {parent, uncle, grand} => p.color[n] = t.color[n]
  PROVE  \E g : Sound(p, at, e, M, g, "insert", grand)
<1> DEFINE g == [h EXCEPT ![parent] = h[parent] + 1, ![uncle] = h[uncle] + 1]
<1>1. /\ Kin(t, at, e, grand, s, parent) /\ Kin(t, at, e, parent, v, c) /\ s \in Sides
      /\ t.color[parent] = RED /\ t.color[grand] = BLACK /\ RED # BLACK
      /\ parent \in Nodes /\ grand \in Nodes /\ c \in Nodes
  BY RedIs DEF InsertNear
<1>2. /\ h \in [Linked -> Nat] /\ Leaves(t, h) /\ Shape(t, at, e, M)
      /\ \A n \in Nodes : In(at, n) => Ruled(t, h, "insert", c, n)
      /\ In(at, t.root) /\ t.root # c => is_black(t, t.root)
  BY DEF Sound, Rules
<1>3. Kin(t, at, e, grand, Opposite(s), uncle) /\ uncle \in Nodes
  <2>1. uncle # Sentinel
    BY <1>1, <1>2 DEF Leaves
  <2>2. In(at, grand) /\ Opposite(s) \in Sides
    BY <1>1, SideFacts DEF Kin
  <2>3. Kin(t, at, e, grand, Opposite(s), uncle)
    BY <1>2, <2>1, <2>2, ChildIsKin
  <2> QED
    BY <2>3 DEF Kin, In
<1>4. /\ parent # uncle /\ parent # grand /\ uncle # grand /\ c # parent
      /\ Sentinel \notin Nodes
  <2>1. parent # grand /\ uncle # grand /\ c # parent
    BY <1>1, <1>3 DEF Kin
  <2>2. SideOf(t, parent) = s /\ SideOf(t, uncle) = Opposite(s) /\ s # Opposite(s)
    BY <1>1, <1>3, SideFacts DEF Kin
  <2>3. Sentinel \notin Nodes
    BY RbtreeAssumption
  <2> QED
    BY <2>1, <2>2, <2>3
<1>5. /\ g \in [Linked -> Nat] /\ g[parent] = h[parent] + 1 /\ g[uncle] = h[uncle] + 1
      /\ \A n \in Linked : n # parent /\ n # uncle => g[n] = h[n]
  <2>1. h \in [Linked -> Nat] /\ parent \in Linked /\ uncle \in Linked /\ parent # uncle
    BY <1>1, <1>2, <1>3, <1>4 DEF Linked
  <2>2. h[parent] + 1 \in Nat /\ h[uncle] + 1 \in Nat
    BY <2>1
  <2>3. \A x, y : x \in Nat /\ y \in Nat => [h EXCEPT ![parent] = x, ![uncle] = y] \in [Linked -> Nat]
    BY <2>1
  <2>4. g \in [Linked -> Nat]
    BY <2>2, <2>3
  <2> QED
    BY <2>1, <2>4
<1> HIDE DEF g
<1>6. Leaves(p, g)
  <2>1. Sentinel \in Linked /\ Sentinel # parent /\ Sentinel # uncle /\ Sentinel # grand
    BY <1>1, <1>3, <1>4 DEF Linked
  <2> QED
    BY <1>2, <1>5, <2>1 DEF Leaves
<1>7. ASSUME NEW n \in Nodes, In(at, n) PROVE Ruled(p, g, "insert", grand, n)
  <2>0. Ruled(t, h, "insert", c, n) /\ n \in Linked
    BY <1>2, <1>7 DEF Linked
  <2>1. \A u \in Sides : Lack(t, "insert", c, n, u) = 0 /\ Lack(p, "insert", grand, n, u) = 0
    BY DEF Lack
  <2>k. \A u \in Sides : t.child[u][n] = Sentinel \/ Kin(t, at, e, n, u, t.child[u][n])
    BY <1>2, <1>7, ChildIsKin
  <2>l. \A u \in Sides : t.child[u][n] \in Linked
    BY <2>k DEF Kin, In, Linked
  <2>2. CASE n = grand
    <3>1. g[n] = h[n] /\ Weight(p, n) = 0 /\ Weight(t, n) = 1
      <4>1. p.color[n] = RED /\ t.color[n] # RED /\ n # parent /\ n # uncle
        BY <1>1, <1>4, <2>2
      <4> QED
        BY <1>5, <2>0, <4>1, RedIs
    <3>2. \A u \in Sides : t.child[u][n] = parent \/ t.child[u][n] = uncle
      BY <1>1, <1>3, <2>2, SideFacts DEF Kin
    <3>3. \A u \in Sides : g[t.child[u][n]] = h[t.child[u][n]] + 1 /\ ~is_red(p, t.child[u][n])
      <4>1. ~is_red(p, parent) /\ ~is_red(p, uncle)
        BY <1>1 DEF is_red
      <4> QED
        BY <1>5, <3>2, <4>1
    <3>4. \A u \in Sides : g[n] = Weight(p, n) + g[t.child[u][n]] + Lack(p, "insert", grand, n, u)
      <4>1. ASSUME NEW u \in Sides
            PROVE  g[n] = Weight(p, n) + g[t.child[u][n]] + Lack(p, "insert", grand, n, u)
        <5>1. h[n] = 1 + h[t.child[u][n]] + 0 /\ h[t.child[u][n]] \in Nat
          BY <1>2, <2>0, <2>1, <2>l, <3>1 DEF Ruled
        <5> QED
          BY <2>1, <3>1, <3>3, <5>1
      <4> QED
        BY <4>1
    <3> QED
      BY <1>5, <2>0, <2>2, <3>3, <3>4 DEF Ruled
  <2>3. CASE n = parent \/ n = uncle
    <3>1. t.color[n] = RED /\ p.color[n] = BLACK /\ g[n] = h[n] + 1 /\ g[n] \in Nat
      BY <1>1, <1>5, <2>0, <2>3
    <3>2. Weight(t, n) = 0 /\ Weight(p, n) = 1 /\ ~is_red(p, n)
      BY <1>1, <3>1, RedIs
    <3>3. \A u \in Sides : g[t.child[u][n]] = h[t.child[u][n]]
      <4>1. ASSUME NEW u \in Sides PROVE t.child[u][n] # parent /\ t.child[u][n] # uncle
        <5>1. t.parent[parent] = grand /\ t.parent[uncle] = grand
          BY <1>1, <1>3 DEF Kin
        <5>2. parent # Sentinel /\ uncle # Sentinel /\ n # grand
          BY <1>1, <1>3, <1>4, <2>3 DEF Kin
        <5>3. t.child[u][n] = Sentinel \/ t.parent[t.child[u][n]] = n
          BY <2>k DEF Kin
        <5> QED
          BY <5>1, <5>2, <5>3
      <4> QED
        BY <1>5, <2>l, <4>1
    <3>4. \A u \in Sides : g[n] = Weight(p, n) + g[t.child[u][n]] + Lack(p, "insert", grand, n, u)
      <4>1. ASSUME NEW u \in Sides
            PROVE  g[n] = Weight(p, n) + g[t.child[u][n]] + Lack(p, "insert", grand, n, u)
        <5>1. h[n] = 0 + h[t.child[u][n]] + 0 /\ h[t.child[u][n]] \in Nat
          BY <1>2, <2>0, <2>1, <2>l, <3>2 DEF Ruled
        <5> QED
          BY <2>1, <3>1, <3>2, <3>3, <5>1
      <4> QED
        BY <4>1
    <3> QED
      BY <3>1, <3>2, <3>4 DEF Ruled
  <2>4. CASE n # grand /\ n # parent /\ n # uncle
    <3>1. p.color[n] = t.color[n] /\ g[n] = h[n] /\ Weight(p, n) = Weight(t, n) /\ (is_red(p, n) <=> is_red(t, n))
      <4>1. p.color[n] = t.color[n]
        BY <2>0, <2>4
      <4> QED
        BY <1>5, <2>0, <2>4, <4>1 DEF Weight, is_red, is_black
    <3>2. ASSUME NEW u \in Sides
          PROVE  /\ g[n] = Weight(p, n) + g[t.child[u][n]] + Lack(p, "insert", grand, n, u)
                 /\ is_red(p, n) /\ is_red(p, t.child[u][n]) => Excused("insert", grand, n, t.child[u][n])
      <4>1. t.child[u][n] # parent /\ t.child[u][n] # uncle
        BY <1>1, <1>3, <1>4, <2>4, <2>k DEF Kin
      <4>2. g[t.child[u][n]] = h[t.child[u][n]]
        BY <1>5, <2>l, <4>1
      <4>3. t.child[u][n] # grand => p.color[t.child[u][n]] = t.color[t.child[u][n]]
        BY <2>l, <4>1
      <4>4. t.child[u][n] # c
        BY <1>1, <2>4, <2>k DEF Kin, In
      <4>5. ~(is_red(t, n) /\ is_red(t, t.child[u][n]))
        BY <2>0, <4>4 DEF Ruled, Excused
      <4>6. t.child[u][n] = grand \/ ~(is_red(p, n) /\ is_red(p, t.child[u][n]))
        BY <3>1, <4>3, <4>5, RedIs
      <4>7. h[n] = Weight(t, n) + h[t.child[u][n]] + Lack(t, "insert", c, n, u)
        BY <2>0 DEF Ruled
      <4> QED
        BY <2>1, <3>1, <4>2, <4>6, <4>7, Zenon DEF Excused
    <3> QED
      BY <2>0, <3>1, <3>2 DEF Ruled
  <2> QED
    BY <2>2, <2>3, <2>4
<1>8. In(at, p.root) /\ p.root # grand => is_black(p, p.root)
  <2>1. ASSUME In(at, t.root), t.root # grand PROVE is_black(p, t.root)
    <3>1. t.root # parent /\ t.root # uncle /\ t.root \in Linked /\ is_black(t, t.root)
      BY <1>1, <1>2, <1>3, <2>1 DEF Kin, In, Linked
    <3>2. p.color[t.root] = t.color[t.root]
      BY <2>1, <3>1
    <3> QED
      BY <3>1, <3>2, RedIs
  <2> QED
    BY <2>1
<1>9. Current(p, at, "insert", grand)
  BY <1>1, RedIs DEF Current, Kin
<1>10. Shape(p, at, e, M)
  BY <1>2, SameShape
<1>11. Sound(p, at, e, M, g, "insert", grand)
  BY <1>5, <1>6, <1>7, <1>8, <1>9, <1>10 DEF Sound, Rules
<1> QED
  BY <1>11

\* Two nodes trade their numbers of black nodes.
LEMMA Traded ==
  ASSUME NEW h \in [Linked -> Nat], NEW x \in Linked, NEW y \in Linked, x # y,
         NEW g, g = [h EXCEPT ![x] = h[y], ![y] = h[x]]
  PROVE  /\ g \in [Linked -> Nat] /\ g[x] = h[y] /\ g[y] = h[x]
         /\ \A n \in Linked : n # x /\ n # y => g[n] = h[n]
OBVIOUS

\* The inner rotation leaves the violation where the outer one expects it.
LEMMA TurnInnerSound ==
  ASSUME NEW t, NEW at, NEW e, NEW M, NEW h, NEW c, Sound(t, at, e, M, h, "insert", c),
         NEW parent, NEW grand, NEW s,
         InsertNear(t, at, e, c, parent, grand, s, Opposite(s)),
         NEW r, Rotated(r, t, s, parent, c, t.child[s][c])
  PROVE  \E f : /\ Sound(r, at, f, M, h, "insert", parent)
                /\ parent # r.root /\ r.parent[parent] = c /\ r.parent[c] = grand
                /\ InsertNear(r, at, f, parent, c, grand, s, s)
                /\ r.child[Opposite(s)][grand] = t.child[Opposite(s)][grand]
<1> DEFINE o == Opposite(s)
           f == TurnedEnds(at, e, s, parent, c)
           x == t.child[o][c]
<1>1. /\ t \in Trees /\ Shape(t, at, e, M) /\ h \in [Linked -> Nat] /\ Leaves(t, h)
      /\ \A n \in Nodes : In(at, n) => Ruled(t, h, "insert", c, n)
      /\ In(at, t.root) /\ t.root # c => is_black(t, t.root)
  BY DEF Sound, Rules
<1>2. /\ Kin(t, at, e, parent, o, c) /\ Kin(t, at, e, grand, s, parent)
      /\ s \in Sides /\ o \in Sides /\ s # o /\ Opposite(o) = s
      /\ t.color[c] = RED /\ t.color[parent] = RED /\ t.color[grand] = BLACK
      /\ t.color[t.child[s][parent]] # RED
      /\ parent # t.root /\ parent \in Nodes /\ grand \in Nodes /\ c \in Nodes
      /\ \A u \in Sides : t.color[t.child[u][c]] # RED
      /\ c # grand
  BY SideFacts DEF InsertNear
<1>3. /\ In(at, parent) /\ In(at, c) /\ c # Sentinel /\ c # parent /\ c = t.child[o][parent]
      /\ parent # Sentinel /\ grand # parent /\ t.child[s][grand] = parent
  BY <1>2, Zenon DEF Kin
<1> HIDE DEF o
<1>0. /\ s \in Sides /\ In(at, parent) /\ c = t.child[Opposite(s)][parent] /\ c # Sentinel
      /\ t \in Trees /\ Shape(t, at, e, M) /\ Rotated(r, t, s, parent, c, t.child[s][c])
  BY <1>1, <1>2, <1>3 DEF o
<1>4. Shape(r, at, f, M)
  BY <1>0, RotateShape
<1>5. Turned(r, t, at, s, parent, c)
  BY <1>0, RotatePicture
<1> HIDE DEF f
<1>6. /\ r.color = t.color /\ r \in Trees
  BY DEF Rotated
<1>7. /\ r.child[o][parent] = t.child[s][c] /\ r.child[s][parent] = t.child[s][parent]
      /\ r.child[s][c] = parent /\ r.child[o][c] = x
      /\ r.parent[parent] = c /\ r.parent[c] = grand
      /\ r.root = t.root /\ r.child[s][grand] = c
  <2>1. /\ r.child[o][parent] = t.child[s][c] /\ r.child[s][parent] = t.child[s][parent]
        /\ r.child[s][c] = parent /\ r.child[o][c] = x
        /\ r.parent[parent] = c /\ r.parent[c] = t.parent[parent]
    BY <1>5 DEF Turned, o
  <2>2. t.parent[parent] = grand /\ SideOf(t, parent) = s /\ parent # t.root
    BY <1>2 DEF Kin
  <2>3. r.root = t.root /\ r.child[s][grand] = c
    BY <1>5, <2>2 DEF Turned
  <2> QED
    BY <2>1, <2>2, <2>3
<1>8. /\ h[parent] = h[c] /\ h[parent] \in Nat /\ h[c] \in Nat
      /\ \A u \in Sides : h[c] = h[t.child[u][c]] /\ h[parent] = h[t.child[u][parent]]
  <2>1. Ruled(t, h, "insert", c, parent) /\ Ruled(t, h, "insert", c, c)
    BY <1>1, <1>2, <1>3
  <2>2. Weight(t, parent) = 0 /\ Weight(t, c) = 0
    BY <1>2, RedIs
  <2>3. \A n, u : Lack(t, "insert", c, n, u) = 0
    BY Zenon DEF Lack
  <2>4. \A u \in Sides : t.child[u][parent] \in Linked /\ t.child[u][c] \in Linked
    BY <1>1, <1>3, ChildIsKin DEF Kin, In, Linked
  <2>5. ASSUME NEW u \in Sides PROVE h[c] = h[t.child[u][c]] /\ h[parent] = h[t.child[u][parent]]
    <3>0. /\ h[c] = Weight(t, c) + h[t.child[u][c]] + Lack(t, "insert", c, c, u)
          /\ h[parent] = Weight(t, parent) + h[t.child[u][parent]] + Lack(t, "insert", c, parent, u)
      BY <2>1, Zenon DEF Ruled
    <3>h. h[t.child[u][c]] \in Nat /\ h[t.child[u][parent]] \in Nat
      <4>1. t.child[u][c] \in Linked /\ t.child[u][parent] \in Linked
        BY <2>4
      <4> QED
        BY <1>1, <4>1
    <3>1. /\ h[c] = 0 + h[t.child[u][c]] + 0 /\ h[parent] = 0 + h[t.child[u][parent]] + 0
          /\ h[t.child[u][c]] \in Nat /\ h[t.child[u][parent]] \in Nat
      BY <2>2, <2>3, <3>0, <3>h, Zenon
    <3> QED
      BY <3>1
  <2>6. h[parent] = h[c]
    BY <1>2, <1>3, <2>5
  <2> QED
    BY <2>1, <2>5, <2>6, Zenon DEF Ruled
<1>l. \A q, k, n, u : Lack(q, "insert", k, n, u) = 0
  BY DEF Lack
<1>9. Ruled(r, h, "insert", parent, parent)
  <2>1. Weight(r, parent) = 0 /\ r.color[parent] = RED
    BY <1>2, <1>6, RedIs
  <2>2. \A u \in Sides : h[r.child[u][parent]] = h[parent] /\ ~is_red(r, r.child[u][parent])
    BY <1>2, <1>6, <1>7, <1>8, SideFacts DEF is_red, o
  <2> QED
    BY <1>8, <1>l, <2>1, <2>2 DEF Ruled
<1>10. Ruled(r, h, "insert", parent, c)
  <2>1. Weight(r, c) = 0 /\ r.color[c] = RED
    BY <1>2, <1>6, RedIs
  <2>2. \A u \in Sides : h[r.child[u][c]] = h[c] /\ (r.child[u][c] = parent \/ ~is_red(r, r.child[u][c]))
    <3>1. CASE r.child[o][c] = t.child[o][c]
      <4>1. h[r.child[s][c]] = h[c] /\ r.child[s][c] = parent
        BY <1>7, <1>8, Zenon
      <4>2. h[r.child[o][c]] = h[c] /\ ~is_red(r, r.child[o][c])
        BY <1>2, <1>6, <1>8, <3>1, Zenon DEF is_red
      <4>3. \A u \in Sides : u = s \/ u = o
        BY <1>2, SideFacts, Zenon DEF o
      <4> QED
        BY <4>1, <4>2, <4>3, Zenon
    <3> QED
      BY <1>7, <3>1 DEF x
  <2> QED
    BY <1>8, <1>l, <2>1, <2>2 DEF Ruled, Excused
<1>11. x # Sentinel => Ruled(r, h, "insert", parent, x)
  <2>1. SUFFICES ASSUME x # Sentinel PROVE Ruled(r, h, "insert", parent, x)
    OBVIOUS
  <2>2. Kin(t, at, e, c, o, x) /\ x \in Nodes
    BY <1>1, <1>2, <1>3, <2>1, ChildIsKin DEF Kin, In
  <2>3. x # parent /\ x # c /\ x # grand
    BY <1>1, <1>2, <2>2, Narrower DEF Kin
  <2>4. \A u \in Sides : r.child[u][x] = t.child[u][x]
    <3>1. x \in Linked /\ t.parent[parent] = grand
      BY <1>2, <2>2 DEF Kin, Linked
    <3> HIDE DEF x
    <3> QED
      BY <2>3, <1>5, <3>1 DEF Turned
  <2>5. Ruled(t, h, "insert", c, x) /\ t.color[x] # RED
    BY <1>1, <1>2, <2>2 DEF Kin, x
  <2>6. ~is_red(r, x) /\ Weight(r, x) = Weight(t, x) /\ r.color[x] = t.color[x]
    BY <1>6, <2>5 DEF is_red, is_black, Weight
  <2> QED
    BY <1>l, <2>4, <2>5, <2>6 DEF Ruled
<1>12. Repainted(t, at, h, "insert", c, parent, c, x, t, r, h, "insert", parent)
  <2>1. is_red(r, c) => is_red(t, parent)
    BY <1>2, RedIs
  <2>2. ~is_red(t, t.parent[parent])
    BY <1>2, RedIs DEF Kin
  <2>3. ASSUME NEW n \in Nodes, NEW u \in Sides, In(at, n), n # parent,
               Excused("insert", c, n, t.child[u][n])
        PROVE  FALSE
    <3>1. Kin(t, at, e, n, u, c)
      BY <1>1, <1>3, <2>3, ChildIsKin DEF Excused
    <3> QED
      BY <1>2, <2>3, <3>1 DEF Kin
  <2>4. h[c] = h[parent]
    BY <1>8
  <2> QED
    BY <1>l, <1>9, <1>10, <1>11, <2>1, <2>2, <2>3, <2>4 DEF Repainted
<1>13. (\A n \in Nodes : In(at, n) => Ruled(r, h, "insert", parent, n)) /\ Leaves(r, h)
  <2>1. /\ t \in Trees /\ Shape(t, at, e, M) /\ Leaves(t, h)
        /\ \A n \in Nodes : In(at, n) => Ruled(t, h, "insert", c, n)
        /\ s \in Sides /\ In(at, parent) /\ c = t.child[Opposite(s)][parent] /\ c # Sentinel
        /\ x = t.child[Opposite(s)][c] /\ Rotated(r, t, s, parent, c, t.child[s][c])
    BY <1>0, <1>1 DEF x, o
  <2> HIDE DEF x
  <2> QED
    BY <1>12, <2>1, RotateRules
<1>14. Sound(r, at, f, M, h, "insert", parent)
  <2>1. Current(r, at, "insert", parent)
    BY <1>2, <1>3, <1>6, RedIs DEF Current
  <2>2. In(at, r.root) /\ r.root # parent => is_black(r, r.root)
    BY <1>1, <1>2, <1>6, <1>7, RedIs DEF Kin
  <2> QED
    BY <1>1, <1>4, <1>6, <1>13, <2>1, <2>2, Zenon DEF Sound, Rules
<1>15. InsertNear(r, at, f, parent, c, grand, s, s)
  <2>1. Kin(r, at, f, c, s, parent) /\ Kin(r, at, f, grand, s, c)
    <3>1. In(at, c) /\ In(at, grand) /\ r.child[s][c] = parent /\ r.child[s][grand] = c
      BY <1>2, <1>3, <1>7 DEF Kin
    <3> QED
      BY <1>2, <1>3, <1>4, <3>1, ChildIsKin
  <2>2. \A u \in Sides : r.color[r.child[u][parent]] # RED
    BY <1>2, <1>6, <1>7, SideFacts DEF o
  <2>3. r.color[r.child[o][c]] # RED
    BY <1>2, <1>6, <1>7 DEF x
  <2>4. c # r.root
    BY <1>2, <1>7 DEF Kin
  <2> QED
    BY <1>2, <1>3, <1>6, <1>7, <2>1, <2>2, <2>3, <2>4, Zenon DEF InsertNear, o
<1>16. r.child[Opposite(s)][grand] = t.child[Opposite(s)][grand]
  BY <1>2, <1>3, <1>5, SideFacts DEF Turned, Linked, Kin
<1> QED
  BY <1>2, <1>7, <1>14, <1>15, <1>16

-----------------------------------------------------------------------------
(* A rotation after some painting                                          *)

\* p is t with other colours in S.
Recolored(p, t, S) ==
  /\ p \in Trees /\ p.root = t.root /\ p.child = t.child /\ p.parent = t.parent /\ p.key = t.key
  /\ \A n \in Linked : n \notin S => p.color[n] = t.color[n]

\* A rotation after painting keeps the shape.
LEMMA PaintedTurn ==
  ASSUME NEW t \in Trees, NEW at, NEW e, NEW M, Shape(t, at, e, M),
         NEW s \in Sides, NEW node, NEW temp, Kin(t, at, e, node, Opposite(s), temp),
         NEW S, NEW p, Recolored(p, t, S),
         NEW r, Rotated(r, p, s, node, temp, p.child[s][temp])
  PROVE  /\ Turned(r, t, at, s, node, temp) /\ Shape(r, at, TurnedEnds(at, e, s, node, temp), M)
         /\ r \in Trees /\ r.color = p.color /\ r.key = t.key
<1>1. p \in Trees /\ p.root = t.root /\ p.child = t.child /\ p.parent = t.parent
  BY DEF Recolored
<1>2. Shape(p, at, e, M)
  BY <1>1, SameShape
<1>3. In(at, node) /\ temp = p.child[Opposite(s)][node] /\ temp # Sentinel
  BY <1>1 DEF Kin
<1>4. Turned(r, p, at, s, node, temp)
  BY <1>1, <1>2, <1>3, RotatePicture
<1>5. Shape(r, at, TurnedEnds(at, e, s, node, temp), M)
  BY <1>1, <1>2, <1>3, RotateShape
<1>6. SideOf(p, node) = SideOf(t, node)
  BY <1>1 DEF SideOf
<1>7. Turned(r, t, at, s, node, temp)
  BY <1>1, <1>4, <1>6 DEF Turned
<1> QED
  BY <1>5, <1>7 DEF Rotated, Recolored

\* And the rules.
LEMMA TurnRules ==
  ASSUME NEW t \in Trees, NEW at, NEW e, NEW M, Shape(t, at, e, M),
         NEW s \in Sides, NEW node, NEW temp, Kin(t, at, e, node, Opposite(s), temp),
         NEW S, NEW p, Recolored(p, t, S),
         NEW r, Rotated(r, p, s, node, temp, p.child[s][temp]),
         NEW h, NEW ph, NEW c, \A n \in Nodes : In(at, n) => Ruled(t, h, ph, c, n), Leaves(t, h),
         NEW x, x \in {temp, t.child[Opposite(s)][temp]}, NEW g, NEW ph2, NEW c2,
         Repainted(t, at, h, ph, c, node, temp, x, p, r, g, ph2, c2)
  PROVE  (\A n \in Nodes : In(at, n) => Ruled(r, g, ph2, c2, n)) /\ Leaves(r, g)
<1>1. p.child = t.child
  BY DEF Recolored
<1>2. /\ In(at, node) /\ temp = t.child[Opposite(s)][node] /\ temp # Sentinel
      /\ Rotated(r, p, s, node, temp, t.child[s][temp])
  BY <1>1 DEF Kin
<1> QED
  BY <1>2, RotateRules

-----------------------------------------------------------------------------
(* The last rotation of an insert                                          *)

\* The last rotation of an insert, of the grandparent, mends the tree.
LEMMA TurnOuterSound ==
  ASSUME NEW t, NEW at, NEW e, NEW M, NEW h, NEW c, Sound(t, at, e, M, h, "insert", c),
         NEW parent, NEW grand, NEW s, InsertNear(t, at, e, c, parent, grand, s, s),
         t.color[t.child[Opposite(s)][grand]] # RED,
         NEW p, Recolored(p, t, {parent, grand}), p.color[parent] = BLACK, p.color[grand] = RED,
         NEW r, Rotated(r, p, Opposite(s), grand, parent, p.child[Opposite(s)][parent])
  PROVE  \E f, g : Sound(r, at, f, M, g, "insert", c)
<1> DEFINE o == Opposite(s)
           f == TurnedEnds(at, e, o, grand, parent)
           g == [h EXCEPT ![grand] = h[parent], ![parent] = h[grand]]
           inner == t.child[o][parent]
           uncle == t.child[o][grand]
<1>1. /\ t \in Trees /\ Shape(t, at, e, M) /\ h \in [Linked -> Nat] /\ Leaves(t, h)
      /\ \A n \in Nodes : In(at, n) => Ruled(t, h, "insert", c, n)
      /\ In(at, t.root) /\ t.root # c => is_black(t, t.root)
  BY DEF Sound, Rules
<1>2. /\ Kin(t, at, e, parent, s, c) /\ Kin(t, at, e, grand, s, parent)
      /\ s \in Sides /\ o \in Sides /\ s # o /\ Opposite(o) = s
      /\ t.color[c] = RED /\ t.color[parent] = RED /\ t.color[grand] = BLACK
      /\ t.color[inner] # RED
      /\ parent # t.root /\ parent \in Nodes /\ grand \in Nodes /\ c \in Nodes
      /\ \A u \in Sides : t.color[t.child[u][c]] # RED
      /\ c # grand
  BY SideFacts DEF InsertNear
<1>3. /\ In(at, parent) /\ In(at, c) /\ In(at, grand)
      /\ c # parent /\ grand # parent /\ c # Sentinel /\ parent # Sentinel /\ grand # Sentinel
      /\ t.child[s][grand] = parent /\ t.child[s][parent] = c
      /\ parent \in Linked /\ grand \in Linked /\ c \in Linked
  BY <1>2 DEF Kin, Linked
<1>0. uncle = t.child[o][grand] /\ t.color[uncle] # RED
  OBVIOUS
<1>4. Turned(r, t, at, o, grand, parent) /\ Shape(r, at, f, M) /\ r \in Trees /\ r.color = p.color
  <2>1. Kin(t, at, e, grand, Opposite(o), parent) /\ Rotated(r, p, o, grand, parent, p.child[o][parent])
    BY <1>2
  <2> HIDE DEF o
  <2> QED
    BY <1>1, <1>2, <2>1, PaintedTurn
<1>5. /\ g \in [Linked -> Nat] /\ g[parent] = h[grand] /\ g[grand] = h[parent]
      /\ \A n \in Linked : n # parent /\ n # grand => g[n] = h[n]
  BY <1>1, <1>3, Traded
<1> HIDE DEF o, f, g, inner, uncle
<1>l. \A q, k, n, u : Lack(q, "insert", k, n, u) = 0
  BY DEF Lack
<1>6. /\ r.child[s][grand] = inner /\ r.child[o][grand] = uncle
      /\ r.child[o][parent] = grand /\ r.child[s][parent] = c
      /\ r.root = IF grand = t.root THEN parent ELSE t.root
      /\ inner # grand /\ inner # parent
  BY <1>2, <1>3, <1>4 DEF Turned, inner, uncle
<1>7. \A u \in Sides : r.child[u][c] = t.child[u][c]
  <2>1. grand # t.root => t.parent[grand] # c
    <3>1. ASSUME grand # t.root, t.parent[grand] = c PROVE FALSE
      <4>1. Kin(t, at, e, c, SideOf(t, grand), grand)
        BY <1>1, <1>3, <3>1, ParentIsKin
      <4> QED
        BY <1>1, <1>2, <4>1, Narrower
    <3> QED
      BY <3>1
  <2> QED
    BY <1>2, <1>3, <1>4, <2>1 DEF Turned
<1>8. /\ uncle = Sentinel \/ Kin(t, at, e, grand, o, uncle)
      /\ inner = Sentinel \/ Kin(t, at, e, parent, o, inner)
  BY <1>1, <1>2, <1>3, ChildIsKin DEF inner, uncle
<1>9. /\ inner \in Linked /\ inner # c
      /\ uncle \in Linked /\ uncle # c /\ uncle # grand /\ uncle # parent
  BY <1>2, <1>3, <1>8 DEF Kin, In, Linked
<1>10. /\ h[grand] \in Nat /\ h[parent] \in Nat /\ h[c] \in Nat
       /\ h[grand] = h[parent] + 1 /\ h[uncle] = h[parent]
       /\ h[parent] = h[inner] /\ h[parent] = h[c]
  <2>1. /\ Ruled(t, h, "insert", c, parent) /\ Ruled(t, h, "insert", c, grand)
    BY <1>1, <1>2, <1>3
  <2>2. Weight(t, parent) = 0 /\ Weight(t, grand) = 1
    BY <1>2, RedIs
  <2>3. h[inner] \in Nat /\ h[uncle] \in Nat /\ h[c] \in Nat /\ h[parent] \in Nat /\ h[grand] \in Nat
    BY <1>1, <1>3, <1>9
  <2>4. h[parent] = 0 + h[inner] + 0 /\ h[parent] = 0 + h[c] + 0
    BY <1>2, <1>3, <1>l, <2>1, <2>2 DEF Ruled, inner
  <2>5. h[grand] = 1 + h[parent] + 0 /\ h[grand] = 1 + h[uncle] + 0
    BY <1>0, <1>2, <1>3, <1>l, <2>1, <2>2 DEF Ruled
  <2> QED
    BY <2>3, <2>4, <2>5
<1>c. /\ r.color[parent] = BLACK /\ r.color[grand] = RED /\ RED # BLACK
      /\ \A n \in Linked : n # parent /\ n # grand => r.color[n] = t.color[n]
  BY <1>4, RedIs DEF Recolored
<1>11. Ruled(r, g, "insert", c, grand)
  <2>1. Weight(r, grand) = 0
    BY <1>c, RedIs
  <2>2. \A u \in Sides : g[r.child[u][grand]] = g[grand] /\ r.color[r.child[u][grand]] # RED
    <3>1. g[inner] = g[grand] /\ r.color[inner] # RED
      BY <1>2, <1>5, <1>6, <1>9, <1>10, <1>c
    <3>2. g[uncle] = g[grand] /\ r.color[uncle] # RED
      BY <1>0, <1>5, <1>9, <1>10, <1>c
    <3>3. \A u \in Sides : u = s \/ u = o
      BY <1>2, SideFacts DEF o
    <3> QED
      BY <1>6, <3>1, <3>2, <3>3
  <2> QED
    BY <1>5, <1>10, <1>c, <1>l, <2>1, <2>2, RedIs DEF Ruled
<1>12. Ruled(r, g, "insert", c, parent)
  <2>1. Weight(r, parent) = 1 /\ ~is_red(r, parent)
    BY <1>c, RedIs
  <2>2. \A u \in Sides : g[r.child[u][parent]] = h[parent]
    BY <1>2, <1>3, <1>5, <1>6, <1>10, SideFacts DEF o
  <2> QED
    BY <1>5, <1>10, <1>c, <1>l, <2>1, <2>2 DEF Ruled
<1>13. Ruled(r, g, "insert", c, c)
  <2>1. r.color[c] = RED /\ Weight(r, c) = 0 /\ Weight(t, c) = 0
    BY <1>2, <1>3, <1>c, RedIs
  <2>2. \A u \in Sides : t.child[u][c] = Sentinel \/ Kin(t, at, e, c, u, t.child[u][c])
    BY <1>1, <1>3, ChildIsKin
  <2>3. \A u \in Sides : t.child[u][c] \in Linked /\ t.child[u][c] # parent /\ t.child[u][c] # grand
    <3>1. ASSUME NEW u \in Sides, Kin(t, at, e, c, u, parent) PROVE FALSE
      BY <1>1, <1>2, <3>1, Narrower
    <3>2. ASSUME NEW u \in Sides, Kin(t, at, e, c, u, grand) PROVE FALSE
      BY <1>1, <1>2, <3>2, Narrower
    <3> QED
      BY <1>3, <2>2, <3>1, <3>2 DEF Kin, In, Linked
  <2>4. \A u \in Sides : g[r.child[u][c]] = h[t.child[u][c]] /\ r.color[r.child[u][c]] # RED
    BY <1>2, <1>5, <1>7, <1>c, <2>3
  <2>5. Ruled(t, h, "insert", c, c) /\ g[c] = h[c]
    BY <1>1, <1>2, <1>3, <1>5
  <2>6. \A u \in Sides : ~is_red(r, r.child[u][c])
    BY <2>4, RedIs
  <2> QED
    BY <1>5, <1>10, <1>l, <2>1, <2>4, <2>5, <2>6 DEF Ruled
<1>14. Repainted(t, at, h, "insert", c, grand, parent, c, p, r, g, "insert", c)
  <2>1. p.root = t.root /\ p.child = t.child /\ p.parent = t.parent
    BY DEF Recolored
  <2>2. ~is_red(r, parent) /\ ~is_red(t, grand)
    BY <1>2, <1>c, RedIs
  <2>3. \A n \in Linked : n \notin {grand, parent, c} \/ n = Sentinel => p.color[n] = t.color[n] /\ g[n] = h[n]
    BY <1>3, <1>5 DEF Recolored
  <2> QED
    BY <1>5, <1>11, <1>12, <1>13, <1>l, <2>1, <2>2, <2>3 DEF Repainted
<1>15. (\A n \in Nodes : In(at, n) => Ruled(r, g, "insert", c, n)) /\ Leaves(r, g)
  <2>1. /\ Kin(t, at, e, grand, Opposite(o), parent) /\ Rotated(r, p, o, grand, parent, p.child[o][parent])
        /\ c = t.child[Opposite(o)][parent]
    BY <1>2, <1>3 DEF o
  <2> QED
    BY <1>1, <1>2, <1>14, <2>1, TurnRules
<1>16. In(at, r.root) /\ r.root # c => is_black(r, r.root)
  <2>1. CASE grand = t.root
    BY <1>6, <1>c, <2>1, RedIs
  <2>2. CASE grand # t.root
    <3>1. ASSUME In(at, t.root), t.root # c PROVE is_black(r, t.root)
      <4>1. t.root # parent /\ t.root \in Linked /\ is_black(t, t.root)
        BY <1>1, <1>2, <3>1 DEF In, Linked
      <4> QED
        BY <1>c, <2>2, <4>1, RedIs
    <3> QED
      BY <1>6, <2>2, <3>1
  <2> QED
    BY <2>1, <2>2
<1>17. Current(r, at, "insert", c)
  BY <1>2, <1>3, <1>c, RedIs DEF Current
<1>18. Sound(r, at, f, M, g, "insert", c)
  BY <1>4, <1>5, <1>15, <1>16, <1>17 DEF Sound, Rules
<1> QED
  BY <1>18

-----------------------------------------------------------------------------
(* The rounds of a delete                                                  *)

\* What a round finds around its node: the parent P and the sibling w.
DeleteNear(t, at, e, h, c, P, w, s) ==
  /\ In(at, P) /\ s \in Sides /\ c # t.root /\ (c = Sentinel \/ In(at, c))
  /\ t.parent[c] = P /\ SideOf(t, c) = s /\ t.child[s][P] = c
  /\ Kin(t, at, e, P, Opposite(s), w) /\ c # w /\ c # P /\ t.color[c] # RED
  /\ \A n \in Nodes, u \in Sides : In(at, n) =>
       ~(t.color[n] = RED /\ t.color[t.child[u][n]] = RED)
  /\ h[c] \in Nat /\ h[w] = h[c] + 1 /\ h[P] = Weight(t, P) + h[w]

\* A round of a delete has a parent, and a sibling that is a node.
LEMMA DeleteRound ==
  ASSUME NEW t, NEW at, NEW e, NEW M, NEW h, NEW c, Sound(t, at, e, M, h, "delete", c),
         c # t.root, t.color[c] # RED
  PROVE  DeleteNear(t, at, e, h, c, t.parent[c],
                    t.child[Opposite(SideOf(t, c))][t.parent[c]], SideOf(t, c))
<1> DEFINE P == t.parent[c]
           s == SideOf(t, c)
           o == Opposite(s)
           w == t.child[o][P]
<1>1. /\ Shape(t, at, e, M) /\ h \in [Linked -> Nat] /\ Leaves(t, h)
      /\ \A n \in Nodes : In(at, n) => Ruled(t, h, "delete", c, n)
      /\ Current(t, at, "delete", c)
  BY DEF Sound, Rules
<1>2. /\ c = Sentinel \/ In(at, c)
      /\ In(at, P) /\ \E u \in Sides : t.child[u][P] = c
  BY <1>1 DEF Current
<1>3. t.child[s][P] = c /\ s \in Sides /\ o \in Sides /\ o # s
  <2>1. t.child[s][P] = c
    BY <1>2 DEF SideOf, Sides
  <2> QED
    BY <2>1, SideFacts
<1>4. c \in Linked /\ P \in Nodes /\ P \in Linked /\ c # P
  <2>1. c \in Linked /\ P \in Nodes /\ P \in Linked
    BY <1>2 DEF Linked, In
  <2>2. c # P
    <3>1. CASE c = Sentinel
      BY <1>2, <3>1, RbtreeAssumption DEF In
    <3>2. CASE c # Sentinel
      <4> HIDE DEF s, P
      <4>1. Kin(t, at, e, P, s, c)
        BY <1>1, <1>2, <1>3, <3>2, ChildIsKin
      <4> QED
        BY <4>1 DEF Kin
    <3> QED
      BY <3>1, <3>2
  <2> QED
    BY <2>1, <2>2
<1>5. Lack(t, "delete", c, P, s) = 1 /\ Lack(t, "delete", c, P, o) = 0
  BY <1>3 DEF Lack
<1>6. w = Sentinel \/ Kin(t, at, e, P, o, w)
  <2>1. w = t.child[o][P]
    OBVIOUS
  <2> HIDE DEF w, o, s, P
  <2> QED
    BY <1>1, <1>2, <1>3, <2>1, ChildIsKin
<1> HIDE DEF P, s, o
<1>7. /\ h[P] = Weight(t, P) + h[c] + 1 /\ h[P] = Weight(t, P) + h[w] + 0
  BY <1>1, <1>2, <1>3, <1>4, <1>5 DEF Ruled
<1> HIDE DEF w
<1>8. h[w] \in Nat /\ h[c] \in Nat /\ Weight(t, P) \in Nat
  <2>1. w \in Linked
    BY <1>6 DEF Kin, In, Linked
  <2> QED
    BY <1>1, <1>4, <2>1 DEF Weight
<1>9. h[w] = h[c] + 1 /\ h[P] = Weight(t, P) + h[w]
  BY <1>7, <1>8
<1>10. Kin(t, at, e, P, o, w)
  <2>1. h[Sentinel] = 0
    BY <1>1 DEF Leaves
  <2> QED
    BY <1>6, <1>8, <1>9, <2>1
<1>11. c # w
  BY <1>3, <1>10 DEF Kin, s
<1>12. ASSUME NEW n \in Nodes, NEW u \in Sides, In(at, n),
              t.color[n] = RED, t.color[t.child[u][n]] = RED
       PROVE  FALSE
  <2>1. Excused("delete", c, n, t.child[u][n])
    BY <1>1, <1>12, RedIs DEF Ruled
  <2> QED
    BY <1>12, <2>1 DEF Excused
<1>13. DeleteNear(t, at, e, h, c, P, w, s)
  BY <1>2, <1>3, <1>4, <1>8, <1>9, <1>10, <1>11, <1>12 DEF DeleteNear, P, s, o
<1> QED
  BY <1>13 DEF w, o, P, s

\* Where a black node is missing.
LEMMA Gap ==
  ASSUME NEW t, NEW c, NEW P, NEW s, c # t.root, t.parent[c] = P, SideOf(t, c) = s
  PROVE  \A n, u : Lack(t, "delete", c, n, u) = IF n = P /\ u = s THEN 1 ELSE 0
BY DEF Lack

\* A round that ends with the same node, its parent, and a new sibling.
SameGap(r, t, c, P, s) ==
  c # r.root /\ r.color[c] = t.color[c] /\ r.parent[c] = P /\ SideOf(r, c) = s

\* A red sibling is rotated up: the node has a black one after that.
LEMMA RaiseSiblingSound ==
  ASSUME NEW t, NEW at, NEW e, NEW M, NEW h, NEW c, Sound(t, at, e, M, h, "delete", c),
         NEW P, NEW w, NEW s, DeleteNear(t, at, e, h, c, P, w, s), t.color[w] = RED,
         NEW p, Recolored(p, t, {P, w}), p.color[w] = BLACK, p.color[P] = RED,
         NEW r, Rotated(r, p, s, P, w, p.child[s][w])
  PROVE  \E f, g : /\ Sound(r, at, f, M, g, "delete", c) /\ SameGap(r, t, c, P, s)
                   /\ r.color[r.child[Opposite(s)][P]] # RED
<1> DEFINE o == Opposite(s)
           f == TurnedEnds(at, e, s, P, w)
           g == [h EXCEPT ![P] = h[w], ![w] = h[P]]
           inner == t.child[s][w]
           outer == t.child[o][w]
<1>1. /\ t \in Trees /\ Shape(t, at, e, M) /\ h \in [Linked -> Nat] /\ Leaves(t, h)
      /\ \A n \in Nodes : In(at, n) => Ruled(t, h, "delete", c, n)
      /\ In(at, t.root) /\ t.root # c => is_black(t, t.root)
  BY DEF Sound, Rules
<1>2. /\ Kin(t, at, e, P, o, w) /\ In(at, P) /\ In(at, w) /\ P # w /\ w # Sentinel /\ P # Sentinel
      /\ s \in Sides /\ o \in Sides /\ s # o /\ Opposite(o) = s
      /\ P \in Nodes /\ w \in Nodes /\ P \in Linked /\ w \in Linked
      /\ c # w /\ c # P /\ c \in Linked /\ c # t.root /\ t.child[s][P] = c /\ t.child[o][P] = w
      /\ t.parent[c] = P /\ SideOf(t, c) = s /\ t.color[c] # RED
      /\ c = Sentinel \/ In(at, c)
  BY SideFacts DEF DeleteNear, Kin, In, Linked
<1>3. Turned(r, t, at, s, P, w) /\ Shape(r, at, f, M) /\ r \in Trees /\ r.color = p.color
  <2>1. Kin(t, at, e, P, Opposite(s), w)
    BY <1>2
  <2> QED
    BY <1>1, <1>2, <2>1, PaintedTurn
<1>4. /\ g \in [Linked -> Nat] /\ g[P] = h[w] /\ g[w] = h[P]
      /\ \A n \in Linked : n # P /\ n # w => g[n] = h[n]
  BY <1>1, <1>2, Traded
<1> HIDE DEF f, g
<1>5. t.color[P] # RED /\ t.color[inner] # RED /\ t.color[outer] # RED
  BY <1>2 DEF DeleteNear
<1>6. /\ inner = Sentinel \/ Kin(t, at, e, w, s, inner)
      /\ outer = Sentinel \/ Kin(t, at, e, w, o, outer)
  <2>1. inner = t.child[s][w] /\ outer = t.child[o][w]
    OBVIOUS
  <2> HIDE DEF inner, outer, o
  <2> QED
    BY <1>1, <1>2, <2>1, ChildIsKin
<1>i. inner = t.child[s][w] /\ outer = t.child[o][w]
  OBVIOUS
<1> HIDE DEF inner, outer, o
<1>g. \A n, u : Lack(t, "delete", c, n, u) = IF n = P /\ u = s THEN 1 ELSE 0
  BY <1>2, Gap
<1>7. inner \in Linked /\ inner # P /\ outer \in Linked /\ outer # P /\ outer # w
  <2>1. ASSUME NEW u, Kin(t, at, e, w, u, P) PROVE FALSE
    BY <1>1, <1>2, <2>1, Narrower
  <2> QED
    BY <1>2, <1>6, <2>1 DEF Kin, In, Linked
<1>8. /\ h[w] = h[c] + 1 /\ h[P] = 1 + h[w] /\ h[w] = h[inner] /\ h[w] = h[outer]
      /\ h[c] \in Nat /\ h[w] \in Nat /\ h[P] \in Nat
  <2>1. Weight(t, P) = 1 /\ Weight(t, w) = 0
    BY <1>5, RedIs
  <2>2. Ruled(t, h, "delete", c, w)
    BY <1>1, <1>2
  <2>3. h[w] = 0 + h[inner] + 0 /\ h[w] = 0 + h[outer] + 0
    BY <1>2, <1>g, <1>i, <2>1, <2>2 DEF Ruled
  <2>4. h[inner] \in Nat /\ h[outer] \in Nat /\ h[w] \in Nat /\ h[P] \in Nat
    BY <1>1, <1>2, <1>7
  <2> QED
    BY <2>1, <2>3, <2>4 DEF DeleteNear
<1>9. inner # c
  <2>1. h[Sentinel] = 0
    BY <1>1 DEF Leaves
  <2>a. h[inner] # 0
    <3>1. h[inner] = h[c] + 1 /\ h[c] \in Nat
      BY <1>8
    <3> QED
      BY <3>1
  <2>2. inner # Sentinel
    BY <2>1, <2>a
  <2>3. t.parent[inner] = w
    BY <1>6, <2>2 DEF Kin
  <2> QED
    BY <1>2, <2>3
<1>10. /\ r.child[o][P] = inner /\ r.child[s][P] = c /\ r.child[s][w] = P /\ r.child[o][w] = outer
       /\ r.root = IF P = t.root THEN w ELSE t.root
       /\ inner # w
  BY <1>2, <1>3, <1>i DEF Turned, o
<1>11. r.parent[c] = P
  <2>1. r.parent[c] = t.parent[c]
    BY <1>2, <1>3, <1>9, <1>i DEF Turned
  <2> QED
    BY <1>2, <2>1
<1>12. SideOf(r, c) = s
  BY <1>2, <1>9, <1>10, <1>11, SideFacts DEF SideOf, Sides, o
<1>13. c # r.root
  BY <1>2, <1>10
<1>14. \A n, u : Lack(r, "delete", c, n, u) = IF n = P /\ u = s THEN 1 ELSE 0
  BY <1>11, <1>12, <1>13, Gap
<1>c. /\ r.color[w] = BLACK /\ r.color[P] = RED /\ RED # BLACK
      /\ \A n \in Linked : n # w /\ n # P => r.color[n] = t.color[n]
  BY <1>3, RedIs DEF Recolored
<1>15. Ruled(r, g, "delete", c, P)
  <2>1. Weight(r, P) = 0 /\ ~is_red(r, c) /\ ~is_red(r, inner)
    BY <1>2, <1>5, <1>7, <1>10, <1>c, RedIs
  <2>2. g[c] = h[c] /\ g[inner] = h[inner] /\ g[P] = h[w]
    BY <1>2, <1>4, <1>7, <1>10
  <2>a. h[w] = 0 + h[c] + 1 /\ h[w] = 0 + h[inner] + 0
    BY <1>8
  <2>3. g[P] = Weight(r, P) + g[c] + 1 /\ g[P] = Weight(r, P) + g[inner] + 0
    BY <2>1, <2>2, <2>a
  <2>4. Lack(r, "delete", c, P, s) = 1 /\ Lack(r, "delete", c, P, o) = 0
    BY <1>2, <1>14
  <2>5. \A u \in Sides : u = s \/ u = o
    BY <1>2, SideFacts DEF o
  <2> QED
    BY <1>4, <1>8, <1>10, <1>c, <2>1, <2>3, <2>4, <2>5 DEF Ruled
<1>16. Ruled(r, g, "delete", c, w)
  <2>1. Weight(r, w) = 1 /\ ~is_red(r, w)
    BY <1>c, RedIs
  <2>2. g[outer] = h[outer]
    BY <1>4, <1>7
  <2>3. g[w] = Weight(r, w) + g[P] + 0 /\ g[w] = Weight(r, w) + g[outer] + 0
    BY <1>4, <1>8, <2>1, <2>2
  <2>4. \A u : Lack(r, "delete", c, w, u) = 0
    BY <1>2, <1>14
  <2>5. \A u \in Sides : u = s \/ u = o
    BY <1>2, SideFacts DEF o
  <2> QED
    BY <1>4, <1>8, <1>10, <1>c, <2>1, <2>3, <2>4, <2>5 DEF Ruled
<1>17. Repainted(t, at, h, "delete", c, P, w, w, p, r, g, "delete", c)
  <2>1. p.root = t.root /\ p.child = t.child /\ p.parent = t.parent
    BY DEF Recolored
  <2>2. ~is_red(r, w) /\ ~is_red(t, P)
    BY <1>5, <1>c, RedIs
  <2>3. \A n \in Linked : n \notin {P, w} \/ n = Sentinel => p.color[n] = t.color[n] /\ g[n] = h[n]
    BY <1>2, <1>4 DEF Recolored
  <2>4. \A n, u : Lack(r, "delete", c, n, u) = Lack(t, "delete", c, n, u)
    BY <1>g, <1>14
  <2> QED
    BY <1>4, <1>15, <1>16, <2>1, <2>2, <2>3, <2>4 DEF Repainted
<1>18. (\A n \in Nodes : In(at, n) => Ruled(r, g, "delete", c, n)) /\ Leaves(r, g)
  <2>1. Kin(t, at, e, P, Opposite(s), w) /\ w \in {w, t.child[Opposite(s)][w]}
    BY <1>2 DEF o
  <2> QED
    BY <1>1, <1>2, <1>17, <2>1, TurnRules
<1>19. In(at, r.root)
  <2>1. M # 0
    BY <1>1, <1>2, Numbers
  <2> QED
    BY <1>3, <2>1 DEF Shape
<1>20. r.root # c => is_black(r, r.root)
  <2>1. P # t.root => t.root # w /\ t.root \in Linked /\ is_black(t, t.root)
    BY <1>1, <1>2, <1>10, <1>19 DEF Kin, In, Linked
  <2> QED
    BY <1>10, <1>c, <2>1, RedIs
<1>21. Current(r, at, "delete", c)
  BY <1>2, <1>10, <1>11, <1>19 DEF Current
<1>22. Sound(r, at, f, M, g, "delete", c)
  BY <1>3, <1>4, <1>18, <1>20, <1>21 DEF Sound, Rules
<1>23. SameGap(r, t, c, P, s)
  BY <1>2, <1>11, <1>12, <1>13, <1>c DEF SameGap
<1>24. r.color[r.child[o][P]] # RED
  BY <1>5, <1>7, <1>10, <1>c, Zenon
<1> QED
  BY <1>22, <1>23, <1>24 DEF o

\* A red inner child of the sibling is rotated up to be the sibling.
LEMMA RaiseInnerSound ==
  ASSUME NEW t, NEW at, NEW e, NEW M, NEW h, NEW c, Sound(t, at, e, M, h, "delete", c),
         NEW P, NEW w, NEW s, DeleteNear(t, at, e, h, c, P, w, s), t.color[w] # RED,
         NEW inner, inner = t.child[s][w], t.color[inner] = RED,
         t.color[t.child[Opposite(s)][w]] # RED,
         NEW p, Recolored(p, t, {inner, w}), p.color[inner] = BLACK, p.color[w] = RED,
         NEW r, Rotated(r, p, Opposite(s), w, inner, p.child[Opposite(s)][inner])
  PROVE  \E f, g : /\ Sound(r, at, f, M, g, "delete", c) /\ SameGap(r, t, c, P, s)
                   /\ r.child[Opposite(s)][P] = inner /\ r.color[inner] # RED
                   /\ r.child[Opposite(s)][inner] = w /\ r.color[w] = RED
<1> DEFINE o == Opposite(s)
           f == TurnedEnds(at, e, o, w, inner)
           g == [h EXCEPT ![w] = h[inner], ![inner] = h[w]]
           x == t.child[s][inner]
           k == t.child[o][inner]
           outer == t.child[o][w]
<1>1. /\ t \in Trees /\ Shape(t, at, e, M) /\ h \in [Linked -> Nat] /\ Leaves(t, h)
      /\ \A n \in Nodes : In(at, n) => Ruled(t, h, "delete", c, n)
      /\ In(at, t.root) /\ t.root # c => is_black(t, t.root)
  BY DEF Sound, Rules
<1>2. /\ Kin(t, at, e, P, o, w) /\ In(at, P) /\ In(at, w) /\ P # w /\ w # Sentinel /\ P # Sentinel
      /\ s \in Sides /\ o \in Sides /\ s # o /\ Opposite(o) = s
      /\ P \in Nodes /\ w \in Nodes /\ P \in Linked /\ w \in Linked
      /\ c # w /\ c # P /\ c \in Linked /\ c # t.root /\ t.child[s][P] = c /\ t.child[o][P] = w
      /\ t.parent[c] = P /\ SideOf(t, c) = s /\ t.color[c] # RED /\ w # t.root
      /\ t.parent[w] = P /\ SideOf(t, w) = o
      /\ c = Sentinel \/ In(at, c)
  BY SideFacts, Zenon DEF DeleteNear, Kin, In, Linked
<1>3. /\ Kin(t, at, e, w, s, inner) /\ In(at, inner) /\ inner # Sentinel /\ inner # w /\ inner # P
      /\ inner \in Nodes /\ inner \in Linked /\ inner # c
  <2>1. inner # Sentinel
    BY <1>1, RedIs DEF Leaves
  <2>2. Kin(t, at, e, w, s, inner)
    BY <1>1, <1>2, <2>1, ChildIsKin
  <2>3. inner # P
    BY <1>1, <1>2, <2>2, Narrower
  <2>4. inner # c
    BY <1>2, Zenon
  <2> QED
    BY <2>1, <2>2, <2>3, <2>4 DEF Kin, In, Linked
<1>4. Turned(r, t, at, o, w, inner) /\ Shape(r, at, f, M) /\ r \in Trees /\ r.color = p.color
  <2>1. Kin(t, at, e, w, Opposite(o), inner) /\ Rotated(r, p, o, w, inner, p.child[o][inner])
    BY <1>2, <1>3, Zenon
  <2> HIDE DEF o
  <2> QED
    BY <1>1, <1>2, <2>1, PaintedTurn
<1>5. /\ g \in [Linked -> Nat] /\ g[w] = h[inner] /\ g[inner] = h[w]
      /\ \A n \in Linked : n # w /\ n # inner => g[n] = h[n]
  BY <1>1, <1>2, <1>3, Traded
<1>i. /\ outer = t.child[o][w] /\ x = t.child[s][inner] /\ k = t.child[o][inner]
      /\ t.color[outer] # RED
  OBVIOUS
<1> HIDE DEF f, g, x, k, outer, o
<1>6. t.color[x] # RED /\ t.color[k] # RED
  BY <1>2, <1>3, <1>i, Zenon DEF DeleteNear
<1>7. /\ x = Sentinel \/ Kin(t, at, e, inner, s, x)
      /\ k = Sentinel \/ Kin(t, at, e, inner, o, k)
      /\ outer = Sentinel \/ Kin(t, at, e, w, o, outer)
  BY <1>1, <1>2, <1>3, <1>i, ChildIsKin
<1>g. \A n, u : Lack(t, "delete", c, n, u) = IF n = P /\ u = s THEN 1 ELSE 0
  BY <1>2, Gap
<1>8. /\ x \in Linked /\ x # w /\ x # inner
      /\ k \in Linked /\ k # w /\ k # inner /\ k # P
      /\ outer \in Linked /\ outer # w /\ outer # inner
  <2>1. ASSUME NEW u, Kin(t, at, e, inner, u, w) PROVE FALSE
    BY <1>1, <1>3, <2>1, Narrower
  <2>2. ASSUME NEW u, Kin(t, at, e, inner, u, P) PROVE FALSE
    BY <1>1, <1>2, <1>3, <2>2, NotTwoAbove, Zenon
  <2>3. outer # inner
    BY <1>2, <1>3, <1>7 DEF Kin
  <2>4. \A n, u, m : Kin(t, at, e, n, u, m) => m \in Linked /\ m # n /\ m # Sentinel
    BY DEF Kin, In, Linked
  <2>5. /\ x \in Linked /\ k \in Linked /\ outer \in Linked
        /\ x # inner /\ k # inner /\ outer # w
    BY <1>2, <1>3, <1>7, <2>4 DEF Linked
  <2>6. x # w /\ k # w /\ k # P
    BY <1>2, <1>7, <2>1, <2>2
  <2> QED
    BY <2>3, <2>5, <2>6
<1>9. /\ h[w] = 1 + h[inner] /\ h[inner] = h[x] /\ h[inner] = h[k] /\ h[inner] = h[outer]
      /\ h[inner] \in Nat /\ h[w] \in Nat
  <2>1. Weight(t, w) = 1 /\ Weight(t, inner) = 0
    BY RedIs
  <2>2. Ruled(t, h, "delete", c, w) /\ Ruled(t, h, "delete", c, inner)
    BY <1>1, <1>2, <1>3, Zenon
  <2>3. /\ h[w] = 1 + h[inner] + 0 /\ h[w] = 1 + h[outer] + 0
        /\ h[inner] = 0 + h[x] + 0 /\ h[inner] = 0 + h[k] + 0
    BY <1>2, <1>3, <1>g, <1>i, <2>1, <2>2 DEF Ruled
  <2>4. h[inner] \in Nat /\ h[outer] \in Nat /\ h[w] \in Nat /\ h[x] \in Nat /\ h[k] \in Nat
    BY <1>1, <1>2, <1>3, <1>8, Zenon
  <2> QED
    BY <2>3, <2>4
<1>10. /\ r.child[s][w] = k /\ r.child[o][w] = outer /\ r.child[o][inner] = w /\ r.child[s][inner] = x
       /\ r.root = t.root /\ r.child[o][P] = inner /\ r.child[s][P] = c
  BY <1>2, <1>3, <1>4, <1>i DEF Turned
<1>11. r.parent[c] = P
  <2>1. c # k \/ c = Sentinel
    <3>1. ASSUME k # Sentinel PROVE t.parent[k] = inner
      BY <1>7, <3>1, Zenon DEF Kin
    <3>2. t.parent[c] = P /\ inner # P
      BY <1>2, <1>3, Zenon
    <3> QED
      BY <3>1, <3>2, Zenon
  <2>2. r.parent[c] = t.parent[c]
    BY <1>2, <1>3, <1>4, <1>i, <2>1, Zenon DEF Turned
  <2> QED
    BY <1>2, <2>2, Zenon
<1>12. SideOf(r, c) = s
  BY <1>2, <1>3, <1>10, <1>11, SideFacts DEF SideOf, Sides, o
<1>14. \A n, u : Lack(r, "delete", c, n, u) = IF n = P /\ u = s THEN 1 ELSE 0
  BY <1>2, <1>10, <1>11, <1>12, Gap
<1>c. /\ r.color[inner] = BLACK /\ r.color[w] = RED /\ RED # BLACK
      /\ \A n \in Linked : n # w /\ n # inner => r.color[n] = t.color[n]
  BY <1>4, RedIs DEF Recolored
<1>s. \A u \in Sides : u = s \/ u = o
  BY <1>2, SideFacts, Zenon DEF o
<1>15. Ruled(r, g, "delete", c, w)
  <2>1. Weight(r, w) = 0 /\ ~is_red(r, k) /\ ~is_red(r, outer)
    BY <1>6, <1>8, <1>c, <1>i, RedIs
  <2>2. g[k] = h[k] /\ g[outer] = h[outer]
    BY <1>5, <1>8
  <2>a. h[inner] = 0 + h[k] + 0 /\ h[inner] = 0 + h[outer] + 0
    BY <1>9
  <2>b. g[w] = h[inner]
    BY <1>5
  <2>3. g[w] = Weight(r, w) + g[k] + 0 /\ g[w] = Weight(r, w) + g[outer] + 0
    BY <2>1, <2>2, <2>a, <2>b
  <2>4. \A u : Lack(r, "delete", c, w, u) = 0
    BY <1>2, <1>14
  <2> QED
    BY <1>5, <1>9, <1>10, <1>c, <1>s, <2>1, <2>3, <2>4, Zenon DEF Ruled
<1>16. Ruled(r, g, "delete", c, inner)
  <2>1. Weight(r, inner) = 1 /\ ~is_red(r, inner)
    BY <1>c, RedIs
  <2>2. g[x] = h[x]
    BY <1>5, <1>8
  <2>a. h[w] = 1 + h[inner] + 0 /\ h[w] = 1 + h[x] + 0
    BY <1>9
  <2>b. g[w] = h[inner] /\ g[inner] = h[w]
    BY <1>5
  <2>3. g[inner] = Weight(r, inner) + g[w] + 0 /\ g[inner] = Weight(r, inner) + g[x] + 0
    BY <2>1, <2>2, <2>a, <2>b
  <2>4. \A u : Lack(r, "delete", c, inner, u) = 0
    BY <1>3, <1>14
  <2> QED
    BY <1>5, <1>9, <1>10, <1>c, <1>s, <2>1, <2>3, <2>4, Zenon DEF Ruled
<1>17. Repainted(t, at, h, "delete", c, w, inner, inner, p, r, g, "delete", c)
  <2>1. p.root = t.root /\ p.child = t.child /\ p.parent = t.parent
    BY DEF Recolored
  <2>2. ~is_red(r, inner) /\ ~is_red(t, w)
    BY <1>c, RedIs
  <2>3. \A n \in Linked : n \notin {w, inner} \/ n = Sentinel => p.color[n] = t.color[n] /\ g[n] = h[n]
    BY <1>2, <1>3, <1>5 DEF Recolored
  <2>4. \A n, u : Lack(r, "delete", c, n, u) = Lack(t, "delete", c, n, u)
    BY <1>g, <1>14, Zenon
  <2> QED
    BY <1>5, <1>15, <1>16, <2>1, <2>2, <2>3, <2>4 DEF Repainted
<1>18. (\A n \in Nodes : In(at, n) => Ruled(r, g, "delete", c, n)) /\ Leaves(r, g)
  <2>1. /\ Kin(t, at, e, w, Opposite(o), inner) /\ inner \in {inner, t.child[Opposite(o)][inner]}
        /\ Rotated(r, p, o, w, inner, p.child[o][inner])
    BY <1>2, <1>3 DEF o
  <2> QED
    BY <1>1, <1>2, <1>17, <2>1, TurnRules, SMTT(30)
<1>19. In(at, r.root) /\ is_black(r, r.root)
  <2>1. M # 0
    BY <1>1, <1>2, Numbers, Zenon
  <2>2. In(at, t.root) /\ t.root \in Linked
    BY <1>1, <2>1, Zenon DEF Shape, In, Linked
  <2>3. t.root # w /\ t.root # inner /\ is_black(t, t.root)
    BY <1>1, <1>2, <1>3, <2>2, Zenon DEF Kin
  <2> QED
    BY <1>10, <1>c, <2>2, <2>3, RedIs
<1>21. Current(r, at, "delete", c)
  BY <1>2, <1>10, <1>11, <1>19 DEF Current
<1>22. Sound(r, at, f, M, g, "delete", c)
  BY <1>4, <1>5, <1>18, <1>19, <1>21, Zenon DEF Sound, Rules
<1>23. SameGap(r, t, c, P, s)
  BY <1>2, <1>3, <1>10, <1>11, <1>12, <1>c DEF SameGap
<1> QED
  BY <1>10, <1>22, <1>23, <1>c DEF o

\* With a black sibling that has black children the lack moves up to the parent.
LEMMA MoveUpSound ==
  ASSUME NEW t, NEW at, NEW e, NEW M, NEW h, NEW c, Sound(t, at, e, M, h, "delete", c),
         NEW P, NEW w, NEW s, DeleteNear(t, at, e, h, c, P, w, s), t.color[w] # RED,
         \A u \in Sides : t.color[t.child[u][w]] # RED,
         NEW p, Recolored(p, t, {w}), p.color[w] = RED
  PROVE  \E g : Sound(p, at, e, M, g, "delete", P)
<1> DEFINE o == Opposite(s)
           g == [h EXCEPT ![w] = h[w] - 1, ![P] = h[P] - 1]
<1>1. /\ t \in Trees /\ Shape(t, at, e, M) /\ h \in [Linked -> Nat] /\ Leaves(t, h)
      /\ \A n \in Nodes : In(at, n) => Ruled(t, h, "delete", c, n)
      /\ In(at, t.root) /\ t.root # c => is_black(t, t.root)
  BY DEF Sound, Rules
<1>2. /\ Kin(t, at, e, P, o, w) /\ In(at, P) /\ In(at, w) /\ P # w /\ w # Sentinel /\ P # Sentinel
      /\ s \in Sides /\ o \in Sides /\ s # o /\ Opposite(o) = s
      /\ P \in Nodes /\ w \in Nodes /\ P \in Linked /\ w \in Linked
      /\ c # w /\ c # P /\ c \in Linked /\ c # t.root /\ t.child[s][P] = c /\ t.child[o][P] = w
      /\ t.parent[c] = P /\ SideOf(t, c) = s /\ t.color[c] # RED /\ w # t.root
      /\ c = Sentinel \/ In(at, c)
  BY SideFacts DEF DeleteNear, Kin, In, Linked
<1>3. /\ h[c] \in Nat /\ h[w] = h[c] + 1 /\ h[P] = Weight(t, P) + h[w] /\ Weight(t, P) \in Nat
      /\ h[w] - 1 \in Nat /\ h[P] - 1 \in Nat
  <2>1. h[c] \in Nat /\ h[w] = h[c] + 1 /\ h[P] = Weight(t, P) + h[w] /\ Weight(t, P) \in Nat
    BY DEF DeleteNear, Weight
  <2> QED
    BY <2>1
<1>4. /\ g \in [Linked -> Nat] /\ g[w] = h[w] - 1 /\ g[P] = h[P] - 1
      /\ \A n \in Linked : n # P /\ n # w => g[n] = h[n]
  <2>1. \A a, b \in Nat : [h EXCEPT ![w] = a, ![P] = b] \in [Linked -> Nat]
    BY <1>1, <1>2
  <2>2. g \in [Linked -> Nat]
    BY <1>3, <2>1
  <2>3. h \in [Linked -> Nat]
    BY <1>1
  <2> QED
    BY <1>2, <2>2, <2>3
<1> HIDE DEF g, o
<1>5. p \in Trees /\ p.root = t.root /\ p.child = t.child /\ p.parent = t.parent
  BY DEF Recolored
<1>c. /\ p.color[w] = RED /\ RED # BLACK
      /\ \A n \in Linked : n # w => p.color[n] = t.color[n]
  BY RedIs DEF Recolored
<1>s. \A u \in Sides : u = s \/ u = o
  BY <1>2, SideFacts DEF o
<1>g. \A n, u : Lack(t, "delete", c, n, u) = IF n = P /\ u = s THEN 1 ELSE 0
  BY <1>2, Gap
<1>6. P = t.root \/ Kin(t, at, e, t.parent[P], SideOf(t, P), P)
  BY <1>1, <1>2, ParentIsKin
<1>7. \A n, u : Lack(p, "delete", P, n, u) =
                  IF P # t.root /\ n = t.parent[P] /\ u = SideOf(t, P) THEN 1 ELSE 0
  BY <1>5 DEF Lack, SideOf
<1>8. P # t.root => t.parent[P] # P /\ t.parent[P] # w
  <2>1. ASSUME Kin(t, at, e, t.parent[P], SideOf(t, P), P), t.parent[P] = w PROVE FALSE
    BY <1>1, <1>2, <2>1, Narrower
  <2> QED
    BY <1>6, <2>1 DEF Kin
<1>9. Ruled(p, g, "delete", P, w)
  <2>1. Weight(p, w) = 0 /\ Weight(t, w) = 1
    BY <1>c, RedIs
  <2>2. ASSUME NEW u \in Sides
        PROVE  g[w] = Weight(p, w) + g[p.child[u][w]] + 0 /\ ~is_red(p, p.child[u][w])
    <3>1. t.child[u][w] = Sentinel \/ Kin(t, at, e, w, u, t.child[u][w])
      BY <1>1, <1>2, <2>2, ChildIsKin
    <3>2. t.child[u][w] # P
      <4>1. ASSUME Kin(t, at, e, w, u, P) PROVE FALSE
        BY <1>1, <1>2, <4>1, Narrower
      <4> QED
        BY <1>2, <3>1, <4>1
    <3>3. t.child[u][w] # w /\ t.child[u][w] \in Linked
      BY <1>2, <3>1 DEF Kin, In, Linked
    <3>4. h[w] = 1 + h[t.child[u][w]] + 0 /\ h[t.child[u][w]] \in Nat
      BY <1>1, <1>2, <1>g, <2>1, <3>3 DEF Ruled
    <3>5. g[w] = 0 + h[t.child[u][w]] + 0
      BY <1>4, <3>4
    <3>6. ~is_red(p, t.child[u][w]) /\ g[t.child[u][w]] = h[t.child[u][w]]
      BY <1>4, <1>c, <3>2, <3>3, RedIs
    <3> QED
      BY <1>5, <2>1, <3>5, <3>6
  <2>3. \A u : Lack(p, "delete", P, w, u) = 0
    BY <1>7, <1>8
  <2> QED
    BY <1>3, <1>4, <1>c, <2>2, <2>3 DEF Ruled
<1>10. Ruled(p, g, "delete", P, P)
  <2>1. p.color[P] = t.color[P] /\ p.color[P] \in {RED, BLACK} /\ Weight(p, P) = Weight(t, P)
    BY <1>1, <1>2, <1>c, RedIs DEF Ruled
  <2>2. g[c] = h[c]
    BY <1>2, <1>4
  <2>3. g[P] = Weight(p, P) + g[c] + 0 /\ g[P] = Weight(p, P) + g[w] + 0
    BY <1>3, <1>4, <2>1, <2>2
  <2>4. \A u : Lack(p, "delete", P, P, u) = 0
    BY <1>7, <1>8
  <2>5. p.child[s][P] = c /\ p.child[o][P] = w
    BY <1>2, <1>5
  <2> QED
    BY <1>3, <1>4, <1>s, <2>1, <2>3, <2>4, <2>5 DEF Ruled, Excused
<1>11. ASSUME NEW n \in Nodes, In(at, n), n # P, n # w PROVE Ruled(p, g, "delete", P, n)
  <2>1. n \in Linked /\ Ruled(t, h, "delete", c, n)
    BY <1>1, <1>11 DEF Linked
  <2>2. p.color[n] = t.color[n] /\ Weight(p, n) = Weight(t, n) /\ (is_red(p, n) <=> is_red(t, n)) /\ g[n] = h[n]
    BY <1>4, <1>11, <1>c, <2>1, RedIs
  <2>3. ASSUME NEW u \in Sides
        PROVE  /\ g[n] = Weight(p, n) + g[t.child[u][n]] + Lack(p, "delete", P, n, u)
               /\ is_red(p, n) /\ is_red(p, t.child[u][n]) => Excused("delete", P, n, t.child[u][n])
    <3> DEFINE k == t.child[u][n]
    <3>1. k = Sentinel \/ Kin(t, at, e, n, u, k)
      BY <1>1, <1>11, ChildIsKin
    <3>2. h[n] = Weight(t, n) + h[k] + 0
      BY <1>11, <1>g, <2>1 DEF Ruled
    <3>3. t.color[n] # RED \/ t.color[k] # RED
      BY <1>11 DEF DeleteNear
    <3> HIDE DEF k
    <3>4. k \in Linked
      BY <3>1 DEF Kin, In, Linked
    <3>5. CASE k = P
      <4>1. Kin(t, at, e, n, u, P)
        BY <1>2, <3>1, <3>5
      <4>2. Lack(p, "delete", P, n, u) = 1
        BY <1>7, <4>1 DEF Kin
      <4>3. g[n] = Weight(p, n) + g[P] + 1
        BY <1>1, <1>2, <1>3, <1>4, <2>2, <3>2, <3>5, <4>2 DEF Weight
      <4> QED
        BY <3>5, <4>2, <4>3 DEF k, Excused
    <3>6. CASE k # P
      <4>1. k # w
        BY <1>2, <1>11, <3>1 DEF Kin
      <4>2. g[k] = h[k] /\ ~(is_red(p, n) /\ is_red(p, k))
        BY <1>4, <1>c, <2>2, <3>3, <3>4, <3>6, <4>1, RedIs
      <4>3. Lack(p, "delete", P, n, u) = 0
        <5>1. ASSUME P # t.root, n = t.parent[P], u = SideOf(t, P) PROVE k = P
          BY <1>6, <5>1 DEF Kin, k
        <5> QED
          BY <1>7, <3>6, <5>1
      <4> QED
        BY <2>2, <3>2, <4>2, <4>3 DEF k
    <3> QED
      BY <3>5, <3>6
  <2>4. h[n] \in Nat /\ t.color[n] \in {RED, BLACK}
    BY <2>1 DEF Ruled
  <2> QED
    BY <1>5, <2>2, <2>3, <2>4 DEF Ruled
<1>12. Leaves(p, g)
  <2>1. Sentinel \in Linked
    BY DEF Linked
  <2> QED
    BY <1>1, <1>2, <1>4, <1>5, <1>c, <2>1 DEF Leaves
<1>13. In(at, p.root) /\ is_black(p, p.root)
  <2>1. M # 0
    BY <1>1, <1>2, Numbers
  <2>2. In(at, t.root) /\ t.root \in Linked
    BY <1>1, <2>1 DEF Shape, In, Linked
  <2>3. t.root # w /\ is_black(t, t.root)
    BY <1>1, <1>2, <2>2
  <2> QED
    BY <1>5, <1>c, <2>2, <2>3, RedIs
<1>14. Current(p, at, "delete", P)
  <2>1. P # p.root => In(at, p.parent[P]) /\ \E u \in Sides : p.child[u][p.parent[P]] = P
    BY <1>5, <1>6, SideFacts DEF Kin
  <2> QED
    BY <1>2, <1>13, <2>1 DEF Current
<1>15. Shape(p, at, e, M)
  BY <1>1, <1>5, SameShape
<1>16. Sound(p, at, e, M, g, "delete", P)
  BY <1>4, <1>5, <1>9, <1>10, <1>11, <1>12, <1>13, <1>14, <1>15 DEF Sound, Rules
<1> QED
  BY <1>16

\* The last rotation of a delete gives the short side its black node.
LEMMA BorrowSound ==
  ASSUME NEW t, NEW at, NEW e, NEW M, NEW h, NEW c, Sound(t, at, e, M, h, "delete", c),
         NEW P, NEW w, NEW s, DeleteNear(t, at, e, h, c, P, w, s), t.color[w] # RED,
         NEW outer, outer = t.child[Opposite(s)][w], t.color[outer] = RED,
         NEW p, Recolored(p, t, {w, P, outer}),
         p.color[w] = t.color[P], p.color[P] = BLACK, p.color[outer] = BLACK,
         NEW r, Rotated(r, p, s, P, w, p.child[s][w])
  PROVE  \E f, g : Sound(r, at, f, M, g, "delete", r.root)
<1> DEFINE o == Opposite(s)
           f == TurnedEnds(at, e, s, P, w)
           g == [h EXCEPT ![w] = h[P], ![P] = h[w], ![outer] = h[w]]
           inner == t.child[s][w]
<1>1. /\ t \in Trees /\ Shape(t, at, e, M) /\ h \in [Linked -> Nat] /\ Leaves(t, h)
      /\ \A n \in Nodes : In(at, n) => Ruled(t, h, "delete", c, n)
  BY DEF Sound, Rules
<1>2. /\ Kin(t, at, e, P, o, w) /\ In(at, P) /\ In(at, w) /\ P # w /\ w # Sentinel /\ P # Sentinel
      /\ s \in Sides /\ o \in Sides /\ s # o /\ Opposite(o) = s
      /\ P \in Nodes /\ w \in Nodes /\ P \in Linked /\ w \in Linked
      /\ c # w /\ c # P /\ c \in Linked /\ c # t.root /\ t.child[s][P] = c /\ t.child[o][P] = w
      /\ t.parent[c] = P /\ SideOf(t, c) = s /\ t.color[c] # RED
      /\ c = Sentinel \/ In(at, c)
  BY SideFacts DEF DeleteNear, Kin, In, Linked
<1>3. /\ Kin(t, at, e, w, o, outer) /\ In(at, outer) /\ outer # Sentinel /\ outer # w /\ outer # P
      /\ outer \in Nodes /\ outer \in Linked /\ outer # c
  <2>1. outer # Sentinel
    BY <1>1, RedIs DEF Leaves
  <2>2. Kin(t, at, e, w, o, outer)
    BY <1>1, <1>2, <2>1, ChildIsKin
  <2>3. outer # P
    BY <1>1, <1>2, <2>2, Narrower
  <2>4. outer # c
    BY <1>2
  <2> QED
    BY <2>1, <2>2, <2>3, <2>4 DEF Kin, In, Linked
<1>4. Turned(r, t, at, s, P, w) /\ Shape(r, at, f, M) /\ r \in Trees /\ r.color = p.color
  <2>1. Kin(t, at, e, P, Opposite(s), w)
    BY <1>2
  <2> QED
    BY <1>1, <1>2, <2>1, PaintedTurn
<1>5. /\ g \in [Linked -> Nat] /\ g[w] = h[P] /\ g[P] = h[w] /\ g[outer] = h[w]
      /\ \A n \in Linked : n # w /\ n # P /\ n # outer => g[n] = h[n]
  <2>1. \A a, b, d \in Nat : [h EXCEPT ![w] = a, ![P] = b, ![outer] = d] \in [Linked -> Nat]
    BY <1>1, <1>2, <1>3
  <2>2. h[P] \in Nat /\ h[w] \in Nat /\ h \in [Linked -> Nat]
    BY <1>1, <1>2
  <2>3. g \in [Linked -> Nat]
    BY <2>1, <2>2
  <2> QED
    BY <1>2, <1>3, <2>2, <2>3
<1>i. inner = t.child[s][w]
  OBVIOUS
<1> HIDE DEF f, g, inner, o
<1>6. inner = Sentinel \/ Kin(t, at, e, w, s, inner)
  BY <1>1, <1>2, <1>i, ChildIsKin
<1>7. inner \in Linked /\ inner # w /\ inner # P /\ inner # outer
  <2>1. ASSUME Kin(t, at, e, w, s, P) PROVE FALSE
    BY <1>1, <1>2, <2>1, Narrower
  <2>2. inner # outer
    BY <1>2, <1>3, <1>6 DEF Kin
  <2>3. inner \in Linked /\ inner # w
    BY <1>2, <1>6 DEF Kin, In, Linked
  <2> QED
    BY <1>2, <1>6, <2>1, <2>2, <2>3
<1>g. \A n, u : Lack(t, "delete", c, n, u) = IF n = P /\ u = s THEN 1 ELSE 0
  BY <1>2, Gap
<1>l. \A n, u : Lack(r, "delete", r.root, n, u) = 0
  BY DEF Lack
<1>n. \A n \in Nodes, u \in Sides : In(at, n) =>
        ~(t.color[n] = RED /\ t.color[t.child[u][n]] = RED)
  BY DEF DeleteNear
<1>s. \A u \in Sides : u = s \/ u = o
  BY <1>2, SideFacts DEF o
<1>c. /\ r.color[w] = t.color[P] /\ r.color[P] = BLACK /\ r.color[outer] = BLACK /\ RED # BLACK
      /\ \A n \in Linked : n # w /\ n # P /\ n # outer => r.color[n] = t.color[n]
  BY <1>4, RedIs DEF Recolored
<1>8. /\ h[c] \in Nat /\ h[w] \in Nat /\ h[P] \in Nat /\ h[outer] \in Nat /\ h[inner] \in Nat
      /\ h[w] = 1 + h[c] /\ h[w] = 1 + h[inner] /\ h[w] = 1 + h[outer]
      /\ h[P] = Weight(t, P) + h[w]
  <2>1. Ruled(t, h, "delete", c, w) /\ Weight(t, w) = 1
    BY <1>1, <1>2, RedIs
  <2>2. h[w] = 1 + h[outer] + 0 /\ h[w] = 1 + h[inner] + 0
    BY <1>2, <1>3, <1>g, <1>i, <2>1 DEF Ruled, Kin
  <2>3. h[c] \in Nat /\ h[w] \in Nat /\ h[P] \in Nat /\ h[outer] \in Nat /\ h[inner] \in Nat
    BY <1>1, <1>2, <1>3, <1>7
  <2>4. h[w] = h[c] + 1 /\ h[P] = Weight(t, P) + h[w]
    BY DEF DeleteNear
  <2> QED
    BY <2>2, <2>3, <2>4
<1>10. /\ r.child[o][P] = inner /\ r.child[s][P] = c /\ r.child[s][w] = P /\ r.child[o][w] = outer
  BY <1>2, <1>3, <1>4, <1>i DEF Turned, o, Kin
<1>11. \A u \in Sides : r.child[u][outer] = t.child[u][outer]
  <2>1. P # t.root => t.parent[P] # outer
    <3>1. ASSUME P # t.root, t.parent[P] = outer PROVE FALSE
      <4>1. Kin(t, at, e, outer, SideOf(t, P), P)
        BY <1>1, <1>2, <3>1, ParentIsKin
      <4> QED
        BY <1>1, <1>2, <1>3, <4>1, Narrower
    <3> QED
      BY <3>1
  <2> QED
    BY <1>3, <1>4, <2>1 DEF Turned
<1>12. Ruled(r, g, "delete", r.root, P)
  <2>1. Weight(r, P) = 1 /\ ~is_red(r, P)
    BY <1>c, RedIs
  <2>2. g[c] = h[c] /\ g[inner] = h[inner] /\ g[P] = h[w]
    BY <1>2, <1>3, <1>5, <1>7
  <2>3. h[w] = 1 + h[c] + 0 /\ h[w] = 1 + h[inner] + 0
    BY <1>8
  <2>4. g[P] = Weight(r, P) + g[c] + 0 /\ g[P] = Weight(r, P) + g[inner] + 0
    BY <2>1, <2>2, <2>3
  <2> QED
    BY <1>5, <1>8, <1>10, <1>c, <1>l, <1>s, <2>1, <2>4 DEF Ruled
<1>13. Ruled(r, g, "delete", r.root, w)
  <2>1. Weight(r, w) = Weight(t, P) /\ ~is_red(r, P) /\ ~is_red(r, outer)
    BY <1>c, RedIs
  <2>2. g[w] = h[P] /\ g[P] = h[w] /\ g[outer] = h[w]
    BY <1>5
  <2>3. h[P] = Weight(t, P) + h[w] + 0
    BY <1>8 DEF Weight
  <2>4. g[w] = Weight(r, w) + g[P] + 0 /\ g[w] = Weight(r, w) + g[outer] + 0
    BY <2>1, <2>2, <2>3
  <2>5. t.color[P] \in {RED, BLACK}
    BY <1>1, <1>2, Zenon DEF Ruled
  <2> QED
    BY <1>5, <1>8, <1>10, <1>c, <1>l, <1>s, <2>1, <2>4, <2>5 DEF Ruled
<1>14. Ruled(r, g, "delete", r.root, outer)
  <2>1. Weight(r, outer) = 1 /\ ~is_red(r, outer) /\ Weight(t, outer) = 0
    BY <1>c, RedIs
  <2>2. ASSUME NEW u \in Sides PROVE g[outer] = 1 + g[t.child[u][outer]] + 0
    <3> DEFINE k == t.child[u][outer]
    <3>1. k = Sentinel \/ Kin(t, at, e, outer, u, k)
      BY <1>1, <1>3, ChildIsKin
    <3>2. h[outer] = 0 + h[k] + 0
      <4>1. Ruled(t, h, "delete", c, outer)
        BY <1>1, <1>3
      <4> QED
        BY <1>3, <1>g, <2>1, <4>1 DEF Ruled
    <3> HIDE DEF k
    <3>3. k \in Linked /\ k # outer
      BY <1>3, <3>1 DEF Kin, In, Linked
    <3>4. k # w /\ k # P
      <4>1. ASSUME Kin(t, at, e, outer, u, w) PROVE FALSE
        BY <1>1, <1>3, <4>1, Narrower
      <4>2. ASSUME Kin(t, at, e, outer, u, P) PROVE FALSE
        BY <1>1, <1>2, <1>3, <4>2, Narrower
      <4> QED
        BY <1>2, <3>1, <4>1, <4>2
    <3>5. g[k] = h[k] /\ h[k] \in Nat
      BY <1>1, <1>5, <3>3, <3>4
    <3>6. g[outer] = 1 + h[outer]
      BY <1>5, <1>8
    <3>7. g[outer] = 1 + g[k] + 0
      BY <3>2, <3>5, <3>6
    <3> QED
      BY <3>7 DEF k
  <2>3. r.color[outer] \in {RED, BLACK} /\ g[outer] \in Nat
    <3> HIDE DEF g
    <3> QED
      BY <1>5, <1>8, <1>c
  <2>4. ASSUME NEW u \in Sides
        PROVE  g[outer] = Weight(r, outer) + g[r.child[u][outer]] + Lack(r, "delete", r.root, outer, u)
    <3>1. r.child[u][outer] = t.child[u][outer] /\ Lack(r, "delete", r.root, outer, u) = 0
      BY <1>11, <1>l, Zenon
    <3>2. g[outer] = 1 + g[t.child[u][outer]] + 0
      BY <2>2
    <3> QED
      BY <2>1, <3>1, <3>2, Zenon
  <2> QED
    BY <2>1, <2>3, <2>4, Zenon DEF Ruled
<1>15. Repainted(t, at, h, "delete", c, P, w, outer, p, r, g, "delete", r.root)
  <2>1. p.root = t.root /\ p.child = t.child /\ p.parent = t.parent
    BY DEF Recolored
  <2>2. \A n \in Linked : n \notin {P, w, outer} \/ n = Sentinel => p.color[n] = t.color[n] /\ g[n] = h[n]
    BY <1>2, <1>3, <1>5 DEF Recolored
  <2>3. is_red(r, w) => is_red(t, P)
    BY <1>c, RedIs
  <2>4. P # t.root => ~(is_red(t, t.parent[P]) /\ is_red(t, P))
    <3>1. ASSUME P # t.root PROVE ~(is_red(t, t.parent[P]) /\ is_red(t, P))
      <4>1. Kin(t, at, e, t.parent[P], SideOf(t, P), P) /\ SideOf(t, P) \in Sides
        BY <1>1, <1>2, <3>1, ParentIsKin, SideFacts
      <4>2. ~(t.color[t.parent[P]] = RED /\ t.color[P] = RED)
        BY <1>n, <4>1 DEF Kin, In
      <4> QED
        BY <4>2, RedIs
    <3> QED
      BY <3>1
  <2>5. \A n \in Nodes, u \in Sides : In(at, n) => ~(is_red(t, n) /\ is_red(t, t.child[u][n]))
    BY <1>n, RedIs
  <2>6. \A n, u : n # P => Lack(r, "delete", r.root, n, u) = Lack(t, "delete", c, n, u)
    BY <1>g, <1>l
  <2> QED
    BY <1>5, <1>12, <1>13, <1>14, <2>1, <2>2, <2>3, <2>4, <2>5, <2>6 DEF Repainted
<1>16. (\A n \in Nodes : In(at, n) => Ruled(r, g, "delete", r.root, n)) /\ Leaves(r, g)
  <2>1. Kin(t, at, e, P, Opposite(s), w) /\ outer \in {w, t.child[Opposite(s)][w]}
    BY <1>2 DEF o
  <2> QED
    BY <1>1, <1>2, <1>15, <2>1, TurnRules
<1>17. In(at, r.root)
  <2>1. M # 0
    BY <1>1, <1>2, Numbers
  <2> QED
    BY <1>4, <2>1 DEF Shape
<1>18. Current(r, at, "delete", r.root)
  BY <1>17 DEF Current
<1>19. Sound(r, at, f, M, g, "delete", r.root)
  BY <1>4, <1>5, <1>16, <1>18 DEF Sound, Rules
<1> QED
  BY <1>19

-----------------------------------------------------------------------------
(* The ends of the loops                                                   *)

\* Painting the root black makes a red-black tree of one that has nothing wrong but
\* a red root.
LEMMA PaintRootSound ==
  ASSUME NEW t \in Trees, NEW at, NEW e, NEW M, Shape(t, at, e, M), In(at, t.root),
         NEW h \in [Linked -> Nat], Leaves(t, h),
         \A n \in Nodes : In(at, n) => t.color[n] \in {RED, BLACK},
         \A n \in Nodes, u \in Sides : In(at, n) =>
           /\ h[n] = Weight(t, n) + h[t.child[u][n]]
           /\ n = t.root \/ ~(t.color[n] = RED /\ t.color[t.child[u][n]] = RED),
         NEW p, Recolored(p, t, {t.root}), p.color[t.root] = BLACK
  PROVE  \E g : Sound(p, at, e, M, g, "idle", NULL)
<1> DEFINE k == 1 - Weight(t, t.root)
           g == [h EXCEPT ![t.root] = h[t.root] + k]
<1>1. p \in Trees /\ p.root = t.root /\ p.child = t.child /\ p.parent = t.parent
  BY DEF Recolored
<1>2. t.root \in Linked /\ t.root \in Nodes /\ t.root # Sentinel /\ Sentinel \in Linked
  BY RbtreeAssumption DEF In, Linked
<1>3. k \in Nat /\ Weight(t, t.root) + k = 1 /\ Weight(t, t.root) \in Nat
  BY DEF Weight
<1> HIDE DEF k
<1>4. /\ g \in [Linked -> Nat] /\ g[t.root] = h[t.root] + k
      /\ \A n \in Linked : n # t.root => g[n] = h[n]
  BY <1>2, <1>3
<1> HIDE DEF g
<1>c. /\ RED # BLACK /\ \A n \in Linked : n # t.root => p.color[n] = t.color[n]
  BY RedIs DEF Recolored
<1>5. ASSUME NEW n \in Nodes, In(at, n) PROVE Ruled(p, g, "idle", NULL, n)
  <2>1. ASSUME NEW u \in Sides
        PROVE  g[n] = Weight(p, n) + g[t.child[u][n]] /\ ~(is_red(p, n) /\ is_red(p, t.child[u][n]))
    <3> DEFINE d == t.child[u][n]
    <3>1. d = Sentinel \/ Kin(t, at, e, n, u, d)
      BY <1>5, ChildIsKin
    <3>2. /\ h[n] = Weight(t, n) + h[d]
          /\ n = t.root \/ ~(t.color[n] = RED /\ t.color[d] = RED)
      BY <1>5
    <3> HIDE DEF d
    <3>3. d # t.root /\ d \in Linked /\ n \in Linked
      BY <1>2, <1>5, <3>1 DEF Kin, In, Linked
    <3>4. g[d] = h[d] /\ p.color[d] = t.color[d] /\ h[d] \in Nat
      BY <1>4, <1>c, <3>3
    <3>5. CASE n = t.root
      <4>1. Weight(p, n) = 1 /\ ~is_red(p, n)
        BY <1>c, <3>5, RedIs
      <4>2. g[n] = 1 + h[d]
        BY <1>3, <1>4, <3>2, <3>4, <3>5
      <4> QED
        BY <3>4, <4>1, <4>2 DEF d
    <3>6. CASE n # t.root
      <4>1. g[n] = h[n] /\ p.color[n] = t.color[n] /\ Weight(p, n) = Weight(t, n)
        BY <1>4, <1>c, <3>3, <3>6, RedIs
      <4>2. ~(is_red(p, n) /\ is_red(p, d))
        BY <3>2, <3>4, <3>6, <4>1, RedIs
      <4> QED
        BY <3>2, <3>4, <4>1, <4>2 DEF d
    <3> QED
      BY <3>5, <3>6
  <2>2. ASSUME NEW u \in Sides PROVE Lack(p, "idle", NULL, n, u) = 0 /\ g[t.child[u][n]] \in Nat
    <3>1. t.child[u][n] = Sentinel \/ Kin(t, at, e, n, u, t.child[u][n])
      BY <1>5, ChildIsKin
    <3>2. t.child[u][n] \in Linked
      BY <3>1 DEF Kin, In, Linked
    <3> QED
      BY <1>4, <3>2 DEF Lack
  <2>3. g[n] = Weight(p, n) + g[t.child["left"][n]] /\ n \in Linked
    BY <2>1, SideFacts, <1>5 DEF Linked
  <2>4. g[n] \in Nat /\ p.color[n] \in {RED, BLACK}
    <3>1. n = t.root \/ p.color[n] = t.color[n]
      BY <1>c, <2>3
    <3> QED
      BY <1>4, <1>5, <2>3, <3>1
  <2>5. ASSUME NEW u \in Sides
        PROVE  /\ g[n] = Weight(p, n) + g[p.child[u][n]] + Lack(p, "idle", NULL, n, u)
               /\ is_red(p, n) /\ is_red(p, p.child[u][n]) => Excused("idle", NULL, n, p.child[u][n])
    BY <1>1, <2>1, <2>2, <2>4 DEF Weight
  <2> QED
    BY <2>4, <2>5 DEF Ruled
<1>6. Leaves(p, g)
  BY <1>1, <1>2, <1>4, <1>c DEF Leaves
<1>7. is_black(p, p.root)
  BY <1>1, <1>c, RedIs
<1>8. Current(p, at, "idle", NULL)
  BY DEF Current
<1>9. Shape(p, at, e, M)
  BY <1>1, SameShape
<1>10. Sound(p, at, e, M, g, "idle", NULL)
  BY <1>1, <1>4, <1>5, <1>6, <1>7, <1>8, <1>9 DEF Sound, Rules
<1> QED
  BY <1>10

\* The end of an insert paints the root black.
LEMMA InsertDoneSound ==
  ASSUME NEW t, NEW at, NEW e, NEW M, NEW h, NEW c, Sound(t, at, e, M, h, "insert", c),
         c = t.root \/ t.color[t.parent[c]] # RED,
         NEW p, Recolored(p, t, {t.root}), p.color[t.root] = BLACK
  PROVE  \E g : Sound(p, at, e, M, g, "idle", NULL)
<1>1. /\ t \in Trees /\ Shape(t, at, e, M) /\ h \in [Linked -> Nat] /\ Leaves(t, h)
      /\ \A n \in Nodes : In(at, n) => Ruled(t, h, "insert", c, n)
      /\ In(at, c)
  BY DEF Sound, Rules, Current
<1>2. In(at, t.root)
  <2>1. M # 0
    BY <1>1, Numbers
  <2> QED
    BY <1>1, <2>1 DEF Shape
<1>3. \A n \in Nodes : In(at, n) => t.color[n] \in {RED, BLACK}
  BY <1>1 DEF Ruled
<1>4. ASSUME NEW n \in Nodes, NEW u \in Sides, In(at, n)
      PROVE  /\ h[n] = Weight(t, n) + h[t.child[u][n]]
             /\ n = t.root \/ ~(t.color[n] = RED /\ t.color[t.child[u][n]] = RED)
  <2>0. /\ h[n] = Weight(t, n) + h[t.child[u][n]] + Lack(t, "insert", c, n, u)
        /\ is_red(t, n) /\ is_red(t, t.child[u][n]) => Excused("insert", c, n, t.child[u][n])
    BY <1>1, <1>4 DEF Ruled
  <2>1. t.child[u][n] = Sentinel \/ Kin(t, at, e, n, u, t.child[u][n])
    BY <1>1, <1>4, ChildIsKin
  <2>2. h[t.child[u][n]] \in Nat /\ Weight(t, n) \in Nat
    <3>1. t.child[u][n] \in Linked
      BY <2>1 DEF Kin, In, Linked
    <3> QED
      BY <1>1, <3>1 DEF Weight
  <2>3. h[n] = Weight(t, n) + h[t.child[u][n]]
    BY <2>0, <2>2 DEF Lack
  <2>4. ASSUME t.color[n] = RED, t.color[t.child[u][n]] = RED PROVE FALSE
    <3>1. t.child[u][n] = c
      BY <2>0, <2>4, RedIs DEF Excused
    <3>2. Kin(t, at, e, n, u, c)
      BY <1>1, <1>4, <3>1, Numbers, ChildIsKin
    <3> QED
      BY <2>4, <3>2 DEF Kin
  <2> QED
    BY <2>3, <2>4
<1> QED
  BY <1>1, <1>2, <1>3, <1>4, PaintRootSound

\* The end of a delete paints its node black, which fills the lack.
LEMMA DeleteDoneSound ==
  ASSUME NEW t, NEW at, NEW e, NEW M, NEW h, NEW c, Sound(t, at, e, M, h, "delete", c),
         c = t.root \/ t.color[c] = RED,
         NEW p, Recolored(p, t, {c}), p.color[c] = BLACK
  PROVE  \E g : Sound(p, at, e, M, g, "idle", NULL)
<1>1. /\ t \in Trees /\ Shape(t, at, e, M) /\ h \in [Linked -> Nat] /\ Leaves(t, h)
      /\ \A n \in Nodes : In(at, n) => Ruled(t, h, "delete", c, n)
      /\ In(at, t.root) /\ (t.root # c => is_black(t, t.root))
      /\ c = Sentinel \/ In(at, c)
      /\ c # t.root => In(at, t.parent[c]) /\ \E s \in Sides : t.child[s][t.parent[c]] = c
  BY DEF Sound, Rules, Current
<1>2. \A n \in Nodes : In(at, n) => t.color[n] \in {RED, BLACK}
  BY <1>1 DEF Ruled
<1>3. ASSUME NEW n \in Nodes, NEW u \in Sides, In(at, n)
      PROVE  /\ t.child[u][n] = Sentinel \/ Kin(t, at, e, n, u, t.child[u][n])
             /\ t.child[u][n] \in Linked /\ h[t.child[u][n]] \in Nat /\ Weight(t, n) \in Nat
             /\ h[n] = Weight(t, n) + h[t.child[u][n]] + Lack(t, "delete", c, n, u)
             /\ t.color[n] = RED /\ t.color[t.child[u][n]] = RED => c \in {n, t.child[u][n]}
  <2>1. t.child[u][n] = Sentinel \/ Kin(t, at, e, n, u, t.child[u][n])
    BY <1>1, <1>3, ChildIsKin
  <2>2. t.child[u][n] \in Linked
    BY <2>1 DEF Kin, In, Linked
  <2>3. h[t.child[u][n]] \in Nat /\ Weight(t, n) \in Nat
    BY <1>1, <2>2 DEF Weight
  <2>4. /\ h[n] = Weight(t, n) + h[t.child[u][n]] + Lack(t, "delete", c, n, u)
        /\ is_red(t, n) /\ is_red(t, t.child[u][n]) => Excused("delete", c, n, t.child[u][n])
    BY <1>1, <1>3 DEF Ruled
  <2>5. t.color[n] = RED /\ t.color[t.child[u][n]] = RED => c \in {n, t.child[u][n]}
    BY <2>4, RedIs DEF Excused
  <2> QED
    BY <2>1, <2>2, <2>3, <2>4, <2>5
<1>4. CASE c = t.root
  <2>1. ASSUME NEW n \in Nodes, NEW u \in Sides, In(at, n)
        PROVE  /\ h[n] = Weight(t, n) + h[t.child[u][n]]
               /\ n = t.root \/ ~(t.color[n] = RED /\ t.color[t.child[u][n]] = RED)
    <3>1. h[n] = Weight(t, n) + h[t.child[u][n]]
      BY <1>3, <1>4, <2>1 DEF Lack
    <3>2. t.child[u][n] # c
      BY <1>1, <1>3, <1>4, <2>1, Numbers DEF Kin
    <3> QED
      BY <1>3, <1>4, <2>1, <3>1, <3>2
  <2>2. Recolored(p, t, {t.root}) /\ p.color[t.root] = BLACK
    BY <1>4
  <2> QED
    BY <1>1, <1>2, <2>1, <2>2, PaintRootSound
<1>5. CASE c # t.root
  <2> DEFINE g == [h EXCEPT ![c] = h[c] + 1]
  <2>1. c # Sentinel /\ In(at, c) /\ c \in Nodes /\ c \in Linked /\ Sentinel \in Linked
    BY <1>1, <1>5, RedIs DEF Leaves, In, Linked
  <2>2. g \in [Linked -> Nat] /\ g[c] = h[c] + 1 /\ \A n \in Linked : n # c => g[n] = h[n]
    BY <1>1, <2>1
  <2> HIDE DEF g
  <2>3. p \in Trees /\ p.root = t.root /\ p.child = t.child /\ p.parent = t.parent
    BY DEF Recolored
  <2>c. /\ RED # BLACK /\ \A n \in Linked : n # c => p.color[n] = t.color[n]
    BY RedIs DEF Recolored
  <2>4. Kin(t, at, e, t.parent[c], SideOf(t, c), c) /\ SideOf(t, c) \in Sides
    BY <1>1, <1>5, <2>1, ParentIsKin, SideFacts
  <2>5. ASSUME NEW n \in Nodes, In(at, n) PROVE Ruled(p, g, "idle", NULL, n)
    <3>1. n \in Linked
      BY DEF Linked
    <3>2. ASSUME NEW u \in Sides
          PROVE  /\ g[n] = Weight(p, n) + g[t.child[u][n]]
                 /\ ~(is_red(p, n) /\ is_red(p, t.child[u][n]))
                 /\ g[t.child[u][n]] \in Nat
      <4> DEFINE d == t.child[u][n]
      <4>1. /\ d = Sentinel \/ Kin(t, at, e, n, u, d)
            /\ d \in Linked /\ h[d] \in Nat /\ Weight(t, n) \in Nat
            /\ h[n] = Weight(t, n) + h[d] + Lack(t, "delete", c, n, u)
            /\ t.color[n] = RED /\ t.color[d] = RED => c \in {n, d}
        BY <1>3, <2>5
      <4>l. d # c => Lack(t, "delete", c, n, u) = 0
        BY <2>4 DEF Lack, Kin
      <4>m. d = c => Lack(t, "delete", c, n, u) = 1
        BY <1>5, <2>1, <4>1 DEF Lack, Kin
      <4> HIDE DEF d
      <4>2. CASE d = c
        <5>1. n # c
          BY <2>1, <4>1, <4>2 DEF Kin
        <5>2. g[n] = h[n] /\ Weight(p, n) = Weight(t, n) /\ ~is_red(p, d)
          BY <2>2, <2>c, <3>1, <4>2, <5>1, RedIs
        <5>3. g[d] = h[d] + 1
          BY <2>2, <4>2
        <5>4. h[n] = Weight(t, n) + (h[d] + 1)
          BY <4>1, <4>2, <4>m
        <5>5. g[n] = Weight(p, n) + g[d] /\ g[d] \in Nat
          BY <4>1, <5>2, <5>3, <5>4
        <5> QED
          BY <5>2, <5>5 DEF d
      <4>3. CASE d # c /\ n = c
        <5>1. Weight(p, n) = 1 /\ Weight(t, n) = 0 /\ ~is_red(p, n)
          BY <1>5, <2>c, <4>3, RedIs
        <5>2. g[d] = h[d] /\ g[n] = h[n] + 1
          BY <2>2, <4>1, <4>3
        <5>3. h[n] = 0 + h[d] + 0
          BY <4>1, <4>3, <4>l, <5>1
        <5>4. g[n] = Weight(p, n) + g[d] /\ g[d] \in Nat
          BY <4>1, <5>1, <5>2, <5>3
        <5> QED
          BY <5>1, <5>4 DEF d
      <4>4. CASE d # c /\ n # c
        <5>1. g[d] = h[d] /\ g[n] = h[n] /\ p.color[n] = t.color[n] /\ p.color[d] = t.color[d]
          BY <2>2, <2>c, <3>1, <4>1, <4>4
        <5>2. Weight(p, n) = Weight(t, n) /\ ~(is_red(p, n) /\ is_red(p, d))
          BY <4>1, <4>4, <5>1, RedIs
        <5>3. h[n] = Weight(t, n) + h[d]
          BY <4>1, <4>4, <4>l
        <5> QED
          BY <4>1, <5>1, <5>2, <5>3 DEF d
      <4> QED
        BY <4>2, <4>3, <4>4
    <3>3. p.color[n] \in {RED, BLACK} /\ g[n] \in Nat
      BY <1>2, <2>2, <2>5, <2>c, <3>1
    <3>4. \A u : Lack(p, "idle", NULL, n, u) = 0
      BY DEF Lack
    <3>5. \A x, y \in Nat : x + y = x + y + 0
      OBVIOUS
    <3>6. Weight(p, n) \in Nat
      BY DEF Weight
    <3>7. ASSUME NEW u \in Sides
          PROVE  /\ g[n] = Weight(p, n) + g[p.child[u][n]] + Lack(p, "idle", NULL, n, u)
                 /\ is_red(p, n) /\ is_red(p, p.child[u][n]) => Excused("idle", NULL, n, p.child[u][n])
      <4>1. p.child[u][n] = t.child[u][n]
        BY <2>3
      <4> QED
        BY <3>2, <3>4, <3>5, <3>6, <4>1
    <3> QED
      BY <3>3, <3>7 DEF Ruled
  <2>6. Leaves(p, g)
    BY <1>1, <2>1, <2>2, <2>3, <2>c DEF Leaves
  <2>7. is_black(p, p.root)
    <3>1. t.root \in Linked
      BY <1>1 DEF In, Linked
    <3> QED
      BY <1>1, <1>5, <2>3, <2>c, <3>1, RedIs
  <2>8. Current(p, at, "idle", NULL)
    BY DEF Current
  <2>9. Shape(p, at, e, M)
    BY <1>1, <2>3, SameShape
  <2>10. Sound(p, at, e, M, g, "idle", NULL)
    BY <2>2, <2>3, <2>5, <2>6, <2>7, <2>8, <2>9 DEF Sound, Rules
  <2> QED
    BY <2>10
<1> QED
  BY <1>4, <1>5

-----------------------------------------------------------------------------
(* The colours of a new leaf                                               *)

\* The node comes into the tree, and no other.
LEMMA OpenedIn ==
  ASSUME NEW at \in [Nodes -> Int], NEW node \in Nodes, NEW p \in Nat, p # 0
  PROVE  \A n : In(OpenedAt(at, node, p), n) <=> (n = node \/ In(at, n))
BY DEF In, OpenedAt

\* A red leaf breaks no rule, except that its parent may be red.
LEMMA AttachSound ==
  ASSUME NEW t, NEW at, NEW e, NEW M, NEW h, Sound(t, at, e, M, h, "idle", NULL),
         NEW node \in Nodes, ~In(at, node), NEW temp, In(at, temp),
         NEW s \in Sides, t.child[s][temp] = Sentinel,
         NEW r, Attached(r, t, node, temp, s),
         NEW p, p = IF s = "left" THEN at[temp] ELSE at[temp] + 1
  PROVE  \E f, g : Sound(r, OpenedAt(at, node, p), f, M + 1, g, "insert", node)
<1> DEFINE a == OpenedAt(at, node, p)
           f == OpenedEnds(e, node, p)
           g == [h EXCEPT ![node] = 0]
<1>1. /\ t \in Trees /\ Shape(t, at, e, M) /\ h \in [Linked -> Nat] /\ Leaves(t, h)
      /\ \A n \in Nodes : In(at, n) => Ruled(t, h, "idle", NULL, n)
      /\ In(at, t.root) /\ t.root # NULL => is_black(t, t.root)
  BY DEF Sound, Rules
<1>2. /\ at \in [Nodes -> Int] /\ p \in Nat /\ p # 0 /\ node # temp /\ node # Sentinel
      /\ temp \in Nodes /\ temp \in Linked /\ node \in Linked /\ temp # Sentinel /\ M # 0
  <2>1. at \in [Nodes -> Int]
    BY <1>1 DEF Shape
  <2>2. /\ at[temp] \in Int /\ e["left"][temp] \in Int
        /\ 1 <= e["left"][temp] /\ e["left"][temp] <= at[temp] /\ M # 0
        /\ temp \in Nodes /\ temp \in Linked /\ temp # Sentinel
    BY <1>1, Numbers
  <2>3. p \in Nat /\ p # 0
    BY <2>2
  <2>4. node \in Linked /\ node # Sentinel
    BY RbtreeAssumption DEF Linked
  <2> QED
    BY <2>1, <2>2, <2>3, <2>4
<1>3. Shape(r, a, f, M + 1)
  BY <1>1, AttachShape
<1>4. \A n : In(a, n) <=> (n = node \/ In(at, n))
  BY <1>2, OpenedIn
<1>5. /\ g \in [Linked -> Nat] /\ g[node] = 0
      /\ \A n \in Linked : n # node => g[n] = h[n]
  BY <1>1, <1>2
<1> HIDE DEF a, f, g
<1>6. /\ r \in Trees /\ r.root = t.root
      /\ \A u \in Sides, n \in Linked :
           r.child[u][n] = IF u = s /\ n = temp THEN node
                           ELSE IF n = node THEN Sentinel ELSE t.child[u][n]
      /\ r.color[node] = RED /\ \A n \in Linked : n # node => r.color[n] = t.color[n]
  BY <1>2 DEF Attached
<1>l. \A q, k, n, u : Lack(q, "insert", k, n, u) = 0 /\ Lack(q, "idle", k, n, u) = 0
  BY DEF Lack
<1>s. Sentinel \in Linked /\ h[Sentinel] = 0 /\ g[Sentinel] = 0 /\ r.color[Sentinel] = BLACK
      /\ \A u \in Sides : r.child[u][Sentinel] = NULL
  <2>1. Sentinel \in Linked
    BY DEF Linked
  <2> QED
    BY <1>1, <1>2, <1>5, <1>6, <2>1 DEF Leaves
<1>7. Ruled(r, g, "insert", node, node)
  <2>1. Weight(r, node) = 0
    BY <1>6, RedIs
  <2>2. \A u \in Sides : r.child[u][node] = Sentinel
    BY <1>2, <1>6
  <2>3. \A u \in Sides : g[node] = Weight(r, node) + g[r.child[u][node]] + Lack(r, "insert", node, node, u)
    BY <1>5, <1>l, <1>s, <2>1, <2>2
  <2>4. ~is_red(r, Sentinel)
    BY <1>s, RedIs
  <2> QED
    BY <1>5, <1>6, <2>2, <2>3, <2>4 DEF Ruled
<1>8. ASSUME NEW n \in Nodes, In(at, n) PROVE Ruled(r, g, "insert", node, n)
  <2>1. n \in Linked /\ n # node /\ Ruled(t, h, "idle", NULL, n)
    BY <1>1, <1>8 DEF Linked
  <2>2. g[n] = h[n] /\ r.color[n] = t.color[n] /\ Weight(r, n) = Weight(t, n) /\ (is_red(r, n) <=> is_red(t, n))
    BY <1>5, <1>6, <2>1, RedIs
  <2>3. ASSUME NEW u \in Sides
        PROVE  /\ g[n] = Weight(r, n) + g[r.child[u][n]] + Lack(r, "insert", node, n, u)
               /\ is_red(r, n) /\ is_red(r, r.child[u][n]) => Excused("insert", node, n, r.child[u][n])
    <3> DEFINE d == t.child[u][n]
    <3>1. d = Sentinel \/ Kin(t, at, e, n, u, d)
      BY <1>1, <1>8, ChildIsKin
    <3>2. /\ h[n] = Weight(t, n) + h[d] + Lack(t, "idle", NULL, n, u)
          /\ is_red(t, n) /\ is_red(t, d) => Excused("idle", NULL, n, d)
      BY <2>1 DEF Ruled
    <3>3. CASE u = s /\ n = temp
      <4>1. d = Sentinel /\ r.child[u][n] = node
        BY <1>2, <1>6, <3>3
      <4>2. g[n] = Weight(r, n) + g[node] + Lack(r, "insert", node, n, u)
        BY <1>5, <1>l, <1>s, <2>2, <3>2, <4>1
      <4> QED
        BY <4>1, <4>2 DEF Excused
    <3>4. CASE ~(u = s /\ n = temp)
      <4>1. r.child[u][n] = d
        BY <1>6, <2>1, <3>4
      <4> HIDE DEF d
      <4>2. d \in Linked /\ d # node
        BY <1>2, <3>1 DEF Kin, In, Linked
      <4>3. g[d] = h[d] /\ (is_red(r, d) <=> is_red(t, d))
        BY <1>5, <1>6, <4>2, RedIs
      <4> QED
        BY <1>l, <2>2, <3>2, <4>1, <4>3 DEF Excused
    <3> QED
      BY <3>3, <3>4
  <2>4. h[n] \in Nat /\ t.color[n] \in {RED, BLACK}
    BY <2>1 DEF Ruled
  <2> QED
    BY <2>2, <2>3, <2>4 DEF Ruled
<1>9. Leaves(r, g)
  BY <1>s DEF Leaves
<1>10. is_black(r, r.root)
  <2>1. In(at, t.root) /\ t.root \in Linked
    BY <1>1, <1>2 DEF Shape, In, Linked
  <2>2. t.root # NULL /\ t.root # node
    BY <2>1, RbtreeAssumption
  <2> QED
    BY <1>1, <1>6, <2>1, <2>2, RedIs
<1>11. Current(r, a, "insert", node)
  BY <1>4, <1>6, RedIs DEF Current
<1>12. Sound(r, a, f, M + 1, g, "insert", node)
  BY <1>3, <1>4, <1>5, <1>6, <1>7, <1>8, <1>9, <1>10, <1>11 DEF Sound, Rules
<1> QED
  BY <1>12 DEF a

\* The first node is the root.
LEMMA FirstSound ==
  ASSUME NEW t, NEW at, NEW e, NEW M, NEW h, Sound(t, at, e, M, h, "idle", NULL),
         t.root = Sentinel, NEW node \in Nodes
  PROVE  /\ M = 0
         /\ [Leaf(t, node, NULL, BLACK) EXCEPT !.root = node].key[node] = Key[node]
         /\ \E f, g : Sound([Leaf(t, node, NULL, BLACK) EXCEPT !.root = node],
                            OpenedAt(at, node, 1), f, M + 1, g, "idle", NULL)
<1> DEFINE r == [Leaf(t, node, NULL, BLACK) EXCEPT !.root = node]
           a == OpenedAt(at, node, 1)
           f == [u \in Sides |-> [n \in Nodes |-> 1]]
           g == [h EXCEPT ![node] = 1]
<1>1. /\ t \in Trees /\ Shape(t, at, e, M) /\ h \in [Linked -> Nat] /\ Leaves(t, h)
  BY DEF Sound, Rules
<1>2. M = 0 /\ \A n : ~In(at, n)
  <2>1. M = 0
    <3>1. ~In(at, Sentinel)
      BY RbtreeAssumption DEF In
    <3> QED
      BY <1>1, <3>1 DEF Shape
  <2> QED
    BY <1>1, <2>1, Numbers
<1>3. /\ node \in Linked /\ node # Sentinel /\ Sentinel \in Linked /\ NULL \in Pointers
      /\ Sentinel \in Pointers
  BY RbtreeAssumption DEF Linked, Pointers
<1>4. /\ r \in Trees /\ r.root = node /\ r.color[node] = BLACK
      /\ \A u \in Sides : r.child[u][node] = Sentinel
      /\ \A u \in Sides : r.child[u][Sentinel] = t.child[u][Sentinel]
      /\ r.color[Sentinel] = t.color[Sentinel] /\ r.key[node] = Key[node]
  <2> DEFINE l == Leaf(t, node, NULL, BLACK)
  <2>1. Written(l, t, node, NULL, BLACK)
    BY <1>1, LeafWrites
  <2> HIDE DEF l
  <2>2. r = [l EXCEPT !.root = node]
    BY DEF l
  <2> HIDE DEF r
  <2>3. r \in Trees /\ r.root = node /\ r.child = l.child /\ r.color = l.color /\ r.key = l.key
    BY <1>3, <2>1, <2>2 DEF Trees, Written
  <2> QED
    BY <1>3, <2>1, <2>3 DEF Written
<1> HIDE DEF r
<1>5. a \in [Nodes -> Int] /\ a[node] = 1 /\ \A n : In(a, n) <=> n = node
  <2>1. at \in [Nodes -> Int]
    BY <1>1 DEF Shape
  <2>2. \A n : In(a, n) <=> n = node
    BY <1>2, <2>1, OpenedIn
  <2>3. a \in [Nodes -> Int] /\ a[node] = 1
    BY <2>1 DEF OpenedAt
  <2> QED
    BY <2>2, <2>3
<1>6. f \in [Sides -> [Nodes -> Int]] /\ \A u \in Sides : f[u][node] = 1
  OBVIOUS
<1>7. g \in [Linked -> Nat] /\ g[node] = 1 /\ g[Sentinel] = 0
  BY <1>1, <1>3 DEF Leaves
<1> HIDE DEF a, f, g
<1>8. Shape(r, a, f, 1)
  <2>1. \A n \in Nodes, u \in Sides : In(a, n) => Fits(r, a, f, n, u)
    BY <1>4, <1>5, <1>6 DEF Fits
  <2>2. \A m, n \in Nodes : In(a, m) /\ a[m] = a[n] => m = n
    BY <1>5 DEF In
  <2> QED
    BY <1>4, <1>5, <1>6, <2>1, <2>2, SideFacts DEF Shape
<1>9. Ruled(r, g, "idle", NULL, node)
  <2>1. Weight(r, node) = 1 /\ ~is_red(r, node)
    BY <1>4, RedIs
  <2>2. \A u : Lack(r, "idle", NULL, node, u) = 0
    BY DEF Lack
  <2> QED
    BY <1>4, <1>7, <2>1, <2>2 DEF Ruled
<1>10. Leaves(r, g) /\ is_black(r, r.root)
  BY <1>1, <1>4, <1>7, RedIs DEF Leaves
<1>11. Current(r, a, "idle", NULL)
  BY DEF Current
<1>12. Sound(r, a, f, 1, g, "idle", NULL)
  BY <1>4, <1>5, <1>7, <1>8, <1>9, <1>10, <1>11 DEF Sound, Rules
<1>13. M + 1 = 1
  BY <1>2
<1> QED
  BY <1>2, <1>4, <1>12, <1>13 DEF r, a

-----------------------------------------------------------------------------
(* The colours when a node goes                                            *)

\* The node goes from the tree, and no other.
LEMMA ClosedIn ==
  ASSUME NEW t, NEW at, NEW e, NEW M, Shape(t, at, e, M), NEW gone, In(at, gone)
  PROVE  \A n : In(ClosedAt(at, gone), n) <=> (n # gone /\ In(at, n))
<1>1. /\ at \in [Nodes -> Int] /\ \A m, n \in Nodes : In(at, m) /\ at[m] = at[n] => m = n
  BY DEF Shape
<1>2. gone \in Nodes /\ at[gone] \in Int /\ 1 <= at[gone]
  BY Numbers
<1>3. ASSUME NEW n \in Nodes, n # gone PROVE In(ClosedAt(at, gone), n) <=> In(at, n)
  <2>1. ClosedAt(at, gone)[n] = IF at[n] > at[gone] THEN at[n] - 1 ELSE at[n]
    BY <1>3 DEF ClosedAt
  <2>2. at[n] \in Int
    BY <1>1
  <2> QED
    BY <1>2, <2>1, <2>2 DEF In
<1>4. ~In(ClosedAt(at, gone), gone)
  BY <1>2 DEF In, ClosedAt
<1> QED
  BY <1>3, <1>4 DEF In

\* After a node that is not the root a black one may be missing, and temp is where.
LEMMA CutSound ==
  ASSUME NEW t, NEW at, NEW e, NEW M, NEW h, Sound(t, at, e, M, h, "idle", NULL),
         NEW gone, In(at, gone), gone # t.root,
         NEW v \in Sides, t.child[Opposite(v)][gone] = Sentinel,
         NEW temp, temp = t.child[v][gone],
         NEW r, Cut(r, t, gone, temp),
         NEW ph, NEW c, IF t.color[gone] = RED THEN ph = "idle" /\ c = NULL
                                                ELSE ph = "delete" /\ c = temp
  PROVE  Sound(r, ClosedAt(at, gone), ClosedEnds(at, e, gone), M - 1, h, ph, c)
<1> DEFINE a == ClosedAt(at, gone)
           above == t.parent[gone]
           w == SideOf(t, gone)
<1>1. /\ t \in Trees /\ Shape(t, at, e, M) /\ h \in [Linked -> Nat] /\ Leaves(t, h)
      /\ \A n \in Nodes : In(at, n) => Ruled(t, h, "idle", NULL, n)
      /\ (In(at, t.root) /\ t.root # NULL => is_black(t, t.root))
  BY DEF Sound, Rules
<1>2. Shape(r, a, ClosedEnds(at, e, gone), M - 1)
  BY <1>1, CutShape
<1>3. \A n : In(a, n) <=> (n # gone /\ In(at, n))
  BY <1>1, ClosedIn
<1>4. Kin(t, at, e, above, w, gone) /\ w \in Sides
  BY <1>1, ParentIsKin, SideFacts
<1>5. temp = Sentinel \/ Kin(t, at, e, gone, v, temp)
  BY <1>1, ChildIsKin
<1>6. /\ r \in Trees /\ r.color = t.color /\ r.root = t.root
      /\ r.child[w][above] = temp /\ r.parent[temp] = above
      /\ \A u \in Sides, n \in Linked : ~(u = w /\ n = above) => r.child[u][n] = t.child[u][n]
  <2>1. above \in Linked
    BY <1>4 DEF Kin, In, Linked
  <2> QED
    BY <1>4, <2>1 DEF Cut
<1> HIDE DEF a, above, w
<1>7. /\ gone \in Nodes /\ gone \in Linked /\ above \in Nodes /\ above \in Linked /\ above # gone
      /\ Sentinel \in Linked /\ Sentinel \notin Nodes
      /\ In(at, above) /\ t.child[w][above] = gone /\ above # Sentinel /\ gone # Sentinel
  BY <1>4, RbtreeAssumption DEF Kin, In, Linked
<1>8. In(at, t.root) /\ t.root \in Nodes /\ is_black(t, t.root) /\ temp # t.root
  <2>1. In(at, t.root) /\ t.root \in Nodes
    <3>1. M # 0
      BY <1>1, Numbers
    <3> QED
      BY <1>1, <3>1 DEF Shape, In
  <2>2. t.root # NULL
    BY <2>1, RbtreeAssumption DEF Linked
  <2>3. temp # t.root
    BY <1>5, <1>7, <2>1 DEF Kin
  <2> QED
    BY <1>1, <2>1, <2>2, <2>3
\* What the rules say before.
<1>9. ASSUME NEW n \in Nodes, In(at, n), NEW u \in Sides
      PROVE  /\ t.child[u][n] \in Linked /\ h[t.child[u][n]] \in Nat /\ h[n] \in Nat
             /\ t.color[n] \in {RED, BLACK}
             /\ h[n] = Weight(t, n) + h[t.child[u][n]]
             /\ ~(t.color[n] = RED /\ t.color[t.child[u][n]] = RED)
             /\ t.child[u][n] = Sentinel \/ Kin(t, at, e, n, u, t.child[u][n])
  <2>1. t.child[u][n] = Sentinel \/ Kin(t, at, e, n, u, t.child[u][n])
    BY <1>1, <1>9, ChildIsKin
  <2>2. t.child[u][n] \in Linked
    BY <2>1 DEF Kin, In, Linked
  <2>3. /\ t.color[n] \in {RED, BLACK} /\ h[n] \in Nat
        /\ h[n] = Weight(t, n) + h[t.child[u][n]] + Lack(t, "idle", NULL, n, u)
        /\ is_red(t, n) /\ is_red(t, t.child[u][n]) => Excused("idle", NULL, n, t.child[u][n])
    BY <1>1, <1>9 DEF Ruled
  <2>4. h[t.child[u][n]] \in Nat /\ Weight(t, n) \in Nat /\ Lack(t, "idle", NULL, n, u) = 0
    BY <1>1, <2>2 DEF Weight, Lack
  <2>5. h[n] = Weight(t, n) + h[t.child[u][n]]
    BY <2>3, <2>4
  <2>6. ~(t.color[n] = RED /\ t.color[t.child[u][n]] = RED)
    BY <2>3, RedIs DEF Excused
  <2> QED
    BY <2>1, <2>2, <2>3, <2>4, <2>5, <2>6
<1>10. /\ h[above] = Weight(t, above) + h[gone] /\ h[gone] = Weight(t, gone) + h[temp]
       /\ h[temp] \in Nat /\ h[gone] \in Nat /\ h[above] \in Nat /\ temp \in Linked
       /\ ~(t.color[above] = RED /\ t.color[gone] = RED)
  <2>1. /\ h[above] = Weight(t, above) + h[t.child[w][above]]
        /\ ~(t.color[above] = RED /\ t.color[t.child[w][above]] = RED)
    BY <1>4, <1>7, <1>9
  <2>2. h[gone] = Weight(t, gone) + h[t.child[v][gone]] /\ h[t.child[v][gone]] \in Nat
        /\ t.child[v][gone] \in Linked
    BY <1>7, <1>9
  <2>3. h[gone] \in Nat /\ h[above] \in Nat
    BY <1>1, <1>7
  <2> QED
    BY <1>7, <2>1, <2>2, <2>3
\* The sibling of a black node is not a leaf.
<1>11. t.color[gone] # RED => SideOf(r, temp) = w
  <2>1. ASSUME t.color[gone] # RED, w = "right" PROVE t.child["left"][above] # temp
    <3>1. h[above] = Weight(t, above) + h[t.child["left"][above]] /\ h[t.child["left"][above]] \in Nat
      BY <1>7, <1>9, SideFacts
    <3>2. Weight(t, gone) = 1 /\ Weight(t, above) \in Nat
      BY <2>1, RedIs DEF Weight
    <3>3. h[t.child["left"][above]] = 1 + h[temp]
      BY <1>10, <3>1, <3>2
    <3> QED
      BY <1>10, <3>3
  <2>2. r.child["left"][above] = IF w = "left" THEN temp ELSE t.child["left"][above]
    BY <1>6, <1>7, SideFacts
  <2>3. w = "left" \/ w = "right"
    BY <1>4 DEF Sides
  <2> QED
    BY <1>6, <2>1, <2>2, <2>3 DEF SideOf
<1>12. \A n, u : Lack(r, ph, c, n, u) =
                   IF t.color[gone] # RED /\ n = above /\ u = w THEN 1 ELSE 0
  <2>1. CASE t.color[gone] = RED
    BY <2>1 DEF Lack
  <2>2. CASE t.color[gone] # RED
    <3>1. ph = "delete" /\ c = temp /\ temp # r.root /\ r.parent[temp] = above /\ SideOf(r, temp) = w
      BY <1>6, <1>8, <1>11, <2>2
    <3> QED
      BY <2>2, <3>1 DEF Lack
  <2> QED
    BY <2>1, <2>2
<1>13. \A x : (is_red(r, x) <=> t.color[x] = RED) /\ Weight(r, x) = Weight(t, x)
  BY <1>6 DEF is_red, is_black, Weight
<1>14. ASSUME NEW n \in Nodes, In(a, n) PROVE Ruled(r, h, ph, c, n)
  <2>1. n # gone /\ In(at, n) /\ n \in Linked
    BY <1>3, <1>14 DEF Linked
  <2>2. ASSUME NEW u \in Sides
        PROVE  /\ h[n] = Weight(r, n) + h[r.child[u][n]] + Lack(r, ph, c, n, u)
               /\ is_red(r, n) /\ is_red(r, r.child[u][n]) => Excused(ph, c, n, r.child[u][n])
    <3>1. CASE u = w /\ n = above
      <4>1. r.child[u][n] = temp
        BY <1>6, <3>1
      <4>2. Weight(t, above) \in Nat
        BY DEF Weight
      <4>3. CASE t.color[gone] = RED
        <5>1. Weight(t, gone) = 0 /\ Lack(r, ph, c, n, u) = 0
          BY <1>12, <4>3, RedIs
        <5>2. h[gone] = h[temp]
          BY <1>10, <5>1
        <5>3. h[n] = Weight(t, n) + h[temp] + 0
          BY <1>10, <3>1, <4>2, <5>2
        <5> QED
          BY <1>10, <1>13, <3>1, <4>1, <4>3, <5>1, <5>3
      <4>4. CASE t.color[gone] # RED
        <5>1. Weight(t, gone) = 1 /\ Lack(r, ph, c, n, u) = 1
          BY <1>12, <3>1, <4>4, RedIs
        <5>2. h[gone] = h[temp] + 1
          BY <1>10, <5>1
        <5>3. h[n] = Weight(t, n) + h[temp] + 1
          BY <1>10, <3>1, <4>2, <5>2
        <5>4. Excused(ph, c, n, temp)
          BY <4>4 DEF Excused
        <5> QED
          BY <1>13, <4>1, <5>1, <5>3, <5>4
      <4> QED
        BY <4>3, <4>4
    <3>2. CASE ~(u = w /\ n = above)
      <4>1. r.child[u][n] = t.child[u][n] /\ Lack(r, ph, c, n, u) = 0
        BY <1>6, <1>12, <2>1, <3>2
      <4>2. /\ h[n] = Weight(t, n) + h[t.child[u][n]] /\ h[t.child[u][n]] \in Nat
            /\ ~(t.color[n] = RED /\ t.color[t.child[u][n]] = RED)
        BY <1>9, <2>1
      <4>3. Weight(t, n) \in Nat
        BY DEF Weight
      <4>4. h[n] = Weight(t, n) + h[t.child[u][n]] + 0
        BY <4>2, <4>3
      <4> QED
        BY <1>13, <4>1, <4>2, <4>4
    <3> QED
      BY <3>1, <3>2
  <2>3. r.color[n] \in {RED, BLACK} /\ h[n] \in Nat
    BY <1>6, <1>9, <2>1, SideFacts
  <2> QED
    BY <2>2, <2>3 DEF Ruled
<1>15. Leaves(r, h)
  BY <1>1, <1>6, <1>7 DEF Leaves
<1>16. is_black(r, r.root) /\ In(a, r.root)
  BY <1>3, <1>6, <1>8, <1>13 DEF is_black, is_red
<1>17. Current(r, a, ph, c)
  <2>1. CASE t.color[gone] = RED
    BY <2>1 DEF Current
  <2>2. CASE t.color[gone] # RED
    <3>1. ph = "delete" /\ c = temp
      BY <2>2
    <3>2. temp = Sentinel \/ In(a, temp)
      BY <1>3, <1>5 DEF Kin
    <3>3. In(a, r.parent[temp]) /\ r.child[w][r.parent[temp]] = temp
      BY <1>3, <1>6, <1>7
    <3>4. In(a, r.parent[c]) /\ \E s \in Sides : r.child[s][r.parent[c]] = c
      BY <1>4, <3>1, <3>3, Zenon
    <3>5. c = Sentinel \/ In(a, c)
      BY <3>1, <3>2
    <3> QED
      BY <1>16, <3>1, <3>4, <3>5, Zenon DEF Current
  <2> QED
    BY <2>1, <2>2
<1>18. Sound(r, a, ClosedEnds(at, e, gone), M - 1, h, ph, c)
  BY <1>1, <1>2, <1>6, <1>14, <1>15, <1>16, <1>17 DEF Sound, Rules
<1> QED
  BY <1>18 DEF a

\* The substitute is in the tree where the node was.
LEMMA RenamedIn ==
  ASSUME NEW t, NEW at, NEW e, NEW M, Shape(t, at, e, M), NEW node, In(at, node),
         NEW subst \in Nodes, ~In(at, subst)
  PROVE  \A n : In(RenamedAt(at, node, subst), n) <=> (n = subst \/ (n # node /\ In(at, n)))
<1>1. node \in Nodes /\ at[node] # 0 /\ node # subst
  BY DEF In
<1> QED
  BY <1>1 DEF In, RenamedAt

\* Taking over the colour with the place keeps the rules.
LEMMA TakeOverSound ==
  ASSUME NEW t, NEW at, NEW e, NEW M, NEW h, NEW ph, NEW c, Sound(t, at, e, M, h, ph, c),
         ph \in {"idle", "delete"}, ph = "delete" => c # t.root,
         NEW node, In(at, node), c # node, NEW subst \in Nodes, ~In(at, subst),
         NEW r, TookOver(r, t, node, subst),
         ph = "delete" /\ c = Sentinel =>
           r.parent[c] = IF t.parent[c] = node THEN subst ELSE t.parent[c]
  PROVE  \E f, g : Sound(r, RenamedAt(at, node, subst), f, M, g, ph, c)
<1> DEFINE a == RenamedAt(at, node, subst)
           g == [h EXCEPT ![subst] = h[node]]
           above == t.parent[node]
           w == SideOf(t, node)
<1>1. /\ t \in Trees /\ Shape(t, at, e, M) /\ h \in [Linked -> Nat] /\ Leaves(t, h)
      /\ \A n \in Nodes : In(at, n) => Ruled(t, h, ph, c, n)
      /\ (In(at, t.root) /\ t.root # c => is_black(t, t.root))
      /\ Current(t, at, ph, c)
  BY DEF Sound, Rules
<1>2. Shape(r, a, RenamedEnds(e, node, subst), M)
  BY <1>1, TakeOverShape
<1>3. \A n : In(a, n) <=> (n = subst \/ (n # node /\ In(at, n)))
  BY <1>1, RenamedIn
<1>4. /\ node \in Nodes /\ node \in Linked /\ subst \in Linked /\ node # subst
      /\ node # Sentinel /\ subst # Sentinel /\ Sentinel \in Linked /\ Sentinel \notin Nodes
  BY RbtreeAssumption DEF In, Linked
<1>5. g \in [Linked -> Nat] /\ g[subst] = h[node] /\ \A n \in Linked : n # subst => g[n] = h[n]
  BY <1>1, <1>4
<1>g. node = t.root \/ Kin(t, at, e, above, w, node)
  BY <1>1, ParentIsKin
<1> HIDE DEF a, g, above, w
<1>w. /\ r \in Trees /\ r.root = IF node = t.root THEN subst ELSE t.root
      /\ \A u \in Sides, n \in Linked :
           r.child[u][n] =
             IF n = subst THEN t.child[u][node]
             ELSE IF node # t.root /\ u = w /\ n = above THEN subst
             ELSE t.child[u][n]
      /\ r.color[subst] = t.color[node] /\ \A n \in Linked : n # subst => r.color[n] = t.color[n]
  BY <1>4 DEF TookOver, w, above
\* Every child link but the one to node is kept.
<1>6. ASSUME NEW n \in Nodes, In(at, n), n # node, NEW u \in Sides
      PROVE  r.child[u][n] = IF t.child[u][n] = node THEN subst ELSE t.child[u][n]
  <2>1. n \in Linked /\ n # subst
    BY <1>6 DEF Linked
  <2>2. CASE t.child[u][n] = node
    <3>1. Kin(t, at, e, n, u, node)
      BY <1>1, <1>4, <1>6, <2>2, ChildIsKin
    <3>2. node # t.root /\ n = above /\ u = w
      BY <3>1 DEF Kin, above, w
    <3> QED
      BY <1>w, <2>1, <2>2, <3>2
  <2>3. CASE t.child[u][n] # node
    <3>1. ~(node # t.root /\ u = w /\ n = above)
      BY <1>g, <2>3 DEF Kin
    <3> QED
      BY <1>w, <2>1, <2>3, <3>1
  <2> QED
    BY <2>2, <2>3
\* Where the loop's node hangs.
<1>7. ASSUME ph = "delete"
      PROVE  /\ c # subst /\ c # r.root /\ In(at, t.parent[c])
             /\ r.parent[c] = IF t.parent[c] = node THEN subst ELSE t.parent[c]
             /\ t.child[SideOf(t, c)][t.parent[c]] = c
  <2>1. c = Sentinel \/ In(at, c)
    BY <1>1, <1>7 DEF Current
  <2>2. In(at, t.parent[c]) /\ \E s \in Sides : t.child[s][t.parent[c]] = c
    BY <1>1, <1>7 DEF Current
  <2>3. c # subst /\ c # r.root
    BY <1>4, <1>7, <1>w, <2>1
  <2>4. t.child[SideOf(t, c)][t.parent[c]] = c
    BY <2>2 DEF SideOf, Sides
  <2>5. CASE c = Sentinel
    BY <1>7, <2>2, <2>3, <2>4, <2>5
  <2>6. CASE c # Sentinel
    <3> DEFINE P == t.parent[c]
               s == SideOf(t, c)
    <3>1. Kin(t, at, e, P, s, c) /\ s \in Sides /\ c \in Nodes
      BY <1>1, <1>7, <2>1, <2>6, ParentIsKin, SideFacts DEF In
    <3> HIDE DEF s
    <3>2. ASSUME NEW u \in Sides, c = t.child[u][node] PROVE P = node
      <4>1. Kin(t, at, e, node, u, c)
        BY <1>1, <2>6, <3>2, ChildIsKin
      <4> QED
        BY <4>1 DEF Kin
    <3>3. P = node => \E u \in Sides : c = t.child[u][node]
      BY <3>1 DEF Kin
    <3>4. r.parent[c] = IF \E u \in Sides : c = t.child[u][node] THEN subst ELSE P
      BY <2>3, <3>1 DEF TookOver
    <3> QED
      BY <2>2, <2>3, <2>4, <3>2, <3>3, <3>4
  <2> QED
    BY <2>5, <2>6
\* The gap is at subst when it was at node, and where it was otherwise.
<1>8. /\ \A u \in Sides : Lack(r, ph, c, subst, u) = Lack(t, ph, c, node, u)
      /\ \A n \in Nodes, u \in Sides : In(at, n) /\ n # node => Lack(r, ph, c, n, u) = Lack(t, ph, c, n, u)
  <2>1. CASE ph # "delete"
    BY <2>1 DEF Lack
  <2>2. CASE ph = "delete"
    <3>1. c # subst /\ c # r.root /\ c # t.root /\ In(at, t.parent[c]) /\ t.parent[c] \in Linked
          /\ t.parent[c] \in Nodes
      BY <1>7, <2>2 DEF In, Linked
    <3>2. SideOf(r, c) = SideOf(t, c)
      <4>1. CASE t.parent[c] = node
        <5>1. r.child["left"][subst] = t.child["left"][node] /\ r.parent[c] = subst
          BY <1>4, <1>7, <1>w, <2>2, <4>1, SideFacts
        <5> QED
          BY <4>1, <5>1 DEF SideOf
      <4>2. CASE t.parent[c] # node
        <5> DEFINE P == t.parent[c]
        <5>1. r.parent[c] = P
          BY <1>7, <2>2, <4>2
        <5>2. r.child["left"][P] = IF t.child["left"][P] = node THEN subst ELSE t.child["left"][P]
          BY <1>6, <3>1, <4>2, SideFacts
        <5>3. c = r.child["left"][P] <=> c = t.child["left"][P]
          BY <3>1, <5>2
        <5> QED
          BY <5>1, <5>3 DEF SideOf
      <4> QED
        BY <4>1, <4>2
    <3>3. ASSUME NEW u \in Sides PROVE Lack(r, ph, c, subst, u) = Lack(t, ph, c, node, u)
      <4>1. subst = r.parent[c] <=> node = t.parent[c]
        BY <1>7, <2>2, <3>1
      <4> QED
        BY <2>2, <3>1, <3>2, <4>1 DEF Lack
    <3>4. ASSUME NEW n \in Nodes, NEW u \in Sides, In(at, n), n # node
          PROVE  Lack(r, ph, c, n, u) = Lack(t, ph, c, n, u)
      <4>1. n = r.parent[c] <=> n = t.parent[c]
        BY <1>7, <2>2, <3>1, <3>4
      <4> QED
        BY <2>2, <3>1, <3>2, <4>1 DEF Lack
    <3> QED
      BY <3>3, <3>4
  <2> QED
    BY <2>1, <2>2
<1>9. ASSUME NEW n \in Nodes, In(at, n), NEW u \in Sides
      PROVE  /\ t.child[u][n] \in Linked /\ t.child[u][n] # subst
             /\ h[n] = Weight(t, n) + h[t.child[u][n]] + Lack(t, ph, c, n, u)
             /\ t.color[n] \in {RED, BLACK} /\ h[n] \in Nat
             /\ is_red(t, n) /\ is_red(t, t.child[u][n]) => Excused(ph, c, n, t.child[u][n])
  <2>1. t.child[u][n] = Sentinel \/ Kin(t, at, e, n, u, t.child[u][n])
    BY <1>1, <1>9, ChildIsKin
  <2>2. t.child[u][n] \in Linked /\ t.child[u][n] # subst
    BY <1>4, <2>1 DEF Kin, In, Linked
  <2> QED
    BY <1>1, <1>9, <2>2 DEF Ruled
<1>10. Ruled(r, g, ph, c, subst)
  <2>1. Weight(r, subst) = Weight(t, node) /\ (is_red(r, subst) <=> is_red(t, node))
    BY <1>w DEF is_red, is_black, Weight
  <2>2. ASSUME NEW u \in Sides
        PROVE  /\ g[subst] = Weight(r, subst) + g[r.child[u][subst]] + Lack(r, ph, c, subst, u)
               /\ is_red(r, subst) /\ is_red(r, r.child[u][subst]) => Excused(ph, c, subst, r.child[u][subst])
    <3> DEFINE d == t.child[u][node]
    <3>1. r.child[u][subst] = d
      BY <1>4, <1>w
    <3>2. /\ d \in Linked /\ d # subst
          /\ h[node] = Weight(t, node) + h[d] + Lack(t, ph, c, node, u)
          /\ is_red(t, node) /\ is_red(t, d) => Excused(ph, c, node, d)
      BY <1>4, <1>9
    <3> HIDE DEF d
    <3>3. g[d] = h[d] /\ (is_red(r, d) <=> is_red(t, d))
      BY <1>5, <1>w, <3>2, RedIs
    <3>4. Excused(ph, c, node, d) => Excused(ph, c, subst, d)
      BY DEF Excused
    <3>5. Lack(r, ph, c, subst, u) = Lack(t, ph, c, node, u)
      BY <1>8
    <3> QED
      BY <1>5, <2>1, <3>1, <3>2, <3>3, <3>4, <3>5
  <2>3. r.color[subst] \in {RED, BLACK} /\ g[subst] \in Nat
    BY <1>4, <1>5, <1>9, <1>w, SideFacts
  <2> QED
    BY <2>2, <2>3 DEF Ruled
<1>11. ASSUME NEW n \in Nodes, In(at, n), n # node PROVE Ruled(r, g, ph, c, n)
  <2>0. n \in Linked /\ n # subst
    BY <1>11 DEF Linked
  <2>1. Weight(r, n) = Weight(t, n) /\ (is_red(r, n) <=> is_red(t, n)) /\ g[n] = h[n] /\ r.color[n] = t.color[n]
    BY <1>5, <1>w, <2>0, RedIs
  <2>2. ASSUME NEW u \in Sides
        PROVE  /\ g[n] = Weight(r, n) + g[r.child[u][n]] + Lack(r, ph, c, n, u)
               /\ is_red(r, n) /\ is_red(r, r.child[u][n]) => Excused(ph, c, n, r.child[u][n])
    <3> DEFINE d == t.child[u][n]
               k == r.child[u][n]
    <3>1. k = IF d = node THEN subst ELSE d
      BY <1>6, <1>11
    <3>2. /\ d \in Linked /\ d # subst
          /\ h[n] = Weight(t, n) + h[d] + Lack(t, ph, c, n, u)
          /\ is_red(t, n) /\ is_red(t, d) => Excused(ph, c, n, d)
      BY <1>9, <1>11
    <3> HIDE DEF d, k
    <3>3. g[k] = h[d] /\ (is_red(r, k) <=> is_red(t, d))
      <4>1. r.color[k] = t.color[d]
        BY <1>w, <3>1, <3>2
      <4>2. g[k] = h[d]
        BY <1>5, <3>1, <3>2
      <4> QED
        BY <4>1, <4>2 DEF is_red
    <3>4. Excused(ph, c, n, d) => Excused(ph, c, n, k)
      BY <3>1 DEF Excused
    <3>5. Lack(r, ph, c, n, u) = Lack(t, ph, c, n, u)
      BY <1>8, <1>11
    <3>6. r.child[u][n] = k
      BY DEF k
    <3> QED
      BY <2>1, <3>2, <3>3, <3>4, <3>5, <3>6
  <2>3. t.color[n] \in {RED, BLACK} /\ h[n] \in Nat
    BY <1>9, <1>11, SideFacts
  <2> QED
    BY <2>1, <2>2, <2>3 DEF Ruled
<1>12. Leaves(r, g)
  <2>1. ASSUME NEW u \in Sides PROVE r.child[u][Sentinel] = t.child[u][Sentinel]
    <3>1. node # t.root => above # Sentinel
      BY <1>g DEF Kin
    <3> QED
      BY <1>4, <1>w, <3>1
  <2> QED
    BY <1>1, <1>4, <1>5, <1>w, <2>1 DEF Leaves
<1>13. In(at, t.root) /\ t.root \in Linked
  <2>1. M # 0
    BY <1>1, Numbers
  <2> QED
    BY <1>1, <2>1 DEF Shape, In, Linked
<1>14. In(a, r.root) /\ is_black(r, r.root)
  <2>1. In(a, r.root)
    BY <1>3, <1>13, <1>w
  <2>2. t.root # c
    BY <1>1, <1>13, RbtreeAssumption DEF Current, Linked
  <2>3. r.color[r.root] = t.color[t.root]
    BY <1>13, <1>w
  <2> QED
    BY <1>1, <1>13, <2>1, <2>2, <2>3 DEF is_black, is_red
<1>15. Current(r, a, ph, c)
  <2>1. CASE ph = "idle"
    BY <1>1, <2>1 DEF Current
  <2>2. CASE ph = "delete"
    <3>1. c = Sentinel \/ In(a, c)
      BY <1>1, <1>3, <2>2 DEF Current
    <3>2. In(a, r.parent[c])
      BY <1>3, <1>7, <2>2
    <3>3. \E s \in Sides : r.child[s][r.parent[c]] = c
      <4>1. r.child[SideOf(t, c)][r.parent[c]] = c
        <5>1. CASE t.parent[c] = node
          BY <1>4, <1>7, <1>w, <2>2, <5>1, SideFacts
        <5>2. CASE t.parent[c] # node
          <6>1. t.parent[c] \in Nodes /\ In(at, t.parent[c]) /\ r.parent[c] = t.parent[c]
            BY <1>7, <2>2, <5>2 DEF In
          <6>2. t.child[SideOf(t, c)][t.parent[c]] = c /\ SideOf(t, c) \in Sides
            BY <1>7, <2>2, SideFacts
          <6> QED
            BY <1>6, <5>2, <6>1, <6>2
        <5> QED
          BY <5>1, <5>2
      <4> QED
        BY <4>1, SideFacts
    <3> QED
      BY <1>14, <2>2, <3>1, <3>2, <3>3 DEF Current
  <2> QED
    BY <2>1, <2>2
<1>16. \A n \in Nodes : In(a, n) => Ruled(r, g, ph, c, n)
  BY <1>3, <1>10, <1>11
<1>17. Sound(r, a, RenamedEnds(e, node, subst), M, g, ph, c)
  BY <1>2, <1>5, <1>w, <1>12, <1>14, <1>15, <1>16 DEF Sound, Rules
<1> QED
  BY <1>17 DEF a

\* r is t but for the fields of node.
Blanked(r, t, node) ==
  /\ r \in Trees /\ r.root = t.root
  /\ \A n \in Linked : n # node =>
       /\ r.parent[n] = t.parent[n] /\ r.color[n] = t.color[n] /\ r.key[n] = t.key[n]
       /\ \A u \in Sides : r.child[u][n] = t.child[u][n]

\* nc_rbtree_node_init blanks the node and nothing else.
LEMMA InitFields ==
  ASSUME NEW t \in Trees, NEW node \in Nodes
  PROVE  Blanked(nc_rbtree_node_init(t, node), t, node)
<1>1. node \in Linked /\ NULL \in Pointers /\ Unset \in {RED, BLACK, Unset} /\ 0 \in Int
  BY DEF Linked, Pointers
<1> DEFINE r == nc_rbtree_node_init(t, node)
<1>2. r \in Trees
  BY <1>1, Zenon DEF nc_rbtree_node_init, Trees
<1>3. r.root = t.root
  BY DEF nc_rbtree_node_init, Trees
<1>4. \A u \in Sides, n \in Linked : n # node => r.child[u][n] = t.child[u][n]
  BY <1>1 DEF nc_rbtree_node_init, Trees
<1>5. \A n \in Linked : n # node =>
        r.parent[n] = t.parent[n] /\ r.color[n] = t.color[n] /\ r.key[n] = t.key[n]
  BY <1>1 DEF nc_rbtree_node_init, Trees
<1> QED
  BY <1>2, <1>3, <1>4, <1>5 DEF Blanked

\* The fields of a node that is not in the tree say nothing of the tree.
LEMMA InitSound ==
  ASSUME NEW t, NEW at, NEW e, NEW M, NEW h, NEW ph, NEW c, Sound(t, at, e, M, h, ph, c),
         NEW node \in Nodes, ~In(at, node),
         NEW r, Blanked(r, t, node)
  PROVE  Sound(r, at, e, M, h, ph, c)
<1>1. /\ t \in Trees /\ Shape(t, at, e, M) /\ h \in [Linked -> Nat] /\ Leaves(t, h)
      /\ \A n \in Nodes : In(at, n) => Ruled(t, h, ph, c, n)
      /\ (In(at, t.root) /\ t.root # c => is_black(t, t.root))
      /\ Current(t, at, ph, c)
  BY DEF Sound, Rules
<1>2. /\ \A n : In(at, n) => n \in Linked /\ n # node
      /\ Sentinel \in Linked /\ Sentinel # node
  BY RbtreeAssumption DEF In, Linked
<1>3. /\ r \in Trees /\ r.root = t.root
      /\ \A n \in Linked : n # node =>
           /\ r.parent[n] = t.parent[n] /\ r.color[n] = t.color[n]
           /\ \A u \in Sides : r.child[u][n] = t.child[u][n]
  BY DEF Blanked
<1>4. ASSUME NEW n \in Nodes, In(at, n), NEW u \in Sides
      PROVE  /\ t.child[u][n] \in Linked /\ t.child[u][n] # node
             /\ t.child[u][n] = Sentinel \/ Kin(t, at, e, n, u, t.child[u][n])
  BY <1>1, <1>2, <1>4, ChildIsKin DEF Kin
<1>5. Shape(r, at, e, M)
  <2>1. ASSUME NEW n \in Nodes, In(at, n), NEW u \in Sides PROVE Fits(r, at, e, n, u)
    <3>1. Fits(t, at, e, n, u)
      BY <1>1, <2>1 DEF Shape
    <3>2. r.child[u][n] = t.child[u][n]
      BY <1>2, <1>3, <2>1
    <3>3. r.parent[t.child[u][n]] = t.parent[t.child[u][n]]
      BY <1>3, <1>4, <2>1
    <3> QED
      BY <3>1, <3>2, <3>3 DEF Fits
  <2>2. ASSUME NEW n \in Nodes, In(at, n), n # r.root
        PROVE  In(at, r.parent[n]) /\ \E s \in Sides : r.child[s][r.parent[n]] = n
    <3>1. In(at, t.parent[n]) /\ \E s \in Sides : t.child[s][t.parent[n]] = n
      BY <1>1, <1>3, <2>2 DEF Shape
    <3>2. r.parent[n] = t.parent[n] /\ t.parent[n] \in Linked /\ t.parent[n] # node
      BY <1>2, <1>3, <2>2, <3>1
    <3> QED
      BY <1>3, <3>1, <3>2
  <2> QED
    BY <1>1, <1>3, <2>1, <2>2 DEF Shape
<1>6. \A n, u : In(at, n) => Lack(r, ph, c, n, u) = Lack(t, ph, c, n, u)
  <2>1. CASE ph # "delete"
    BY <2>1 DEF Lack
  <2>2. CASE ph = "delete" /\ c = t.root
    BY <1>3, <2>2 DEF Lack
  <2>3. CASE ph = "delete" /\ c # t.root
    <3>1. (c = Sentinel \/ In(at, c)) /\ In(at, t.parent[c])
      BY <1>1, <2>3 DEF Current
    <3>2. c \in Linked /\ c # node /\ t.parent[c] \in Linked /\ t.parent[c] # node
      BY <1>2, <3>1
    <3>3. r.parent[c] = t.parent[c] /\ r.child["left"][t.parent[c]] = t.child["left"][t.parent[c]]
      BY <1>3, <3>2, SideFacts
    <3>4. SideOf(r, c) = SideOf(t, c)
      BY <3>3 DEF SideOf
    <3> QED
      BY <1>3, <3>3, <3>4 DEF Lack
  <2> QED
    BY <2>1, <2>2, <2>3
<1>7. ASSUME NEW n \in Nodes, In(at, n) PROVE Ruled(r, h, ph, c, n)
  <2>1. Ruled(t, h, ph, c, n) /\ r.color[n] = t.color[n] /\ Weight(r, n) = Weight(t, n)
        /\ (is_red(r, n) <=> is_red(t, n))
    BY <1>1, <1>2, <1>3, <1>7, RedIs
  <2>2. \A u \in Sides : r.child[u][n] = t.child[u][n] /\ (is_red(r, t.child[u][n]) <=> is_red(t, t.child[u][n]))
    BY <1>2, <1>3, <1>4, <1>7, RedIs
  <2>3. \A u \in Sides : Lack(r, ph, c, n, u) = Lack(t, ph, c, n, u)
    BY <1>6, <1>7
  <2> QED
    BY <2>1, <2>2, <2>3 DEF Ruled
<1>8. Leaves(r, h)
  BY <1>1, <1>2, <1>3 DEF Leaves
<1>9. In(at, r.root) /\ r.root # c => is_black(r, r.root)
  BY <1>1, <1>2, <1>3 DEF is_black, is_red
<1>10. Current(r, at, ph, c)
  <2>1. CASE ph = "idle"
    BY <1>1, <2>1 DEF Current
  <2>2. CASE ph = "insert"
    <3>1. In(at, c) /\ is_red(t, c)
      BY <1>1, <2>2 DEF Current
    <3> QED
      BY <1>2, <1>3, <2>2, <3>1 DEF Current, is_red
  <2>3. CASE ph = "delete"
    <3>1. /\ c = Sentinel \/ In(at, c)
          /\ In(at, t.root)
          /\ c # t.root => In(at, t.parent[c]) /\ \E s \in Sides : t.child[s][t.parent[c]] = c
      BY <1>1, <2>3 DEF Current
    <3>2. c \in Linked /\ c # node
      BY <1>2, <3>1
    <3>3. r.parent[c] = t.parent[c]
      BY <1>3, <3>2
    <3>4. c # t.root => \E s \in Sides : r.child[s][r.parent[c]] = c
      BY <1>2, <1>3, <3>1, <3>3
    <3> QED
      BY <1>3, <2>3, <3>1, <3>3, <3>4 DEF Current
  <2> QED
    BY <1>1, <2>1, <2>2, <2>3 DEF Current
<1> QED
  BY <1>1, <1>3, <1>5, <1>7, <1>8, <1>9, <1>10 DEF Sound, Rules

\* The root has at most one child, which becomes the root.
LEMMA DropRootSound ==
  ASSUME NEW t, NEW at, NEW e, NEW M, NEW h, Sound(t, at, e, M, h, "idle", NULL),
         NEW node, In(at, node), node = t.root,
         NEW v \in Sides, t.child[Opposite(v)][node] = Sentinel,
         NEW temp, temp = t.child[v][node]
  PROVE  /\ \E f, g : Sound(DropRoot(t, node, temp), ClosedAt(at, node), f, M - 1, g, "idle", NULL)
         /\ \A n \in Linked : n # node => DropRoot(t, node, temp).key[n] = t.key[n]
<1> DEFINE r == [t EXCEPT !.root = temp]
           p == Paint(r, temp, BLACK)
           z == nc_rbtree_node_init(p, node)
           a == ClosedAt(at, node)
           f == ClosedEnds(at, e, node)
<1>1. /\ t \in Trees /\ Shape(t, at, e, M) /\ h \in [Linked -> Nat] /\ Leaves(t, h)
      /\ \A n \in Nodes : In(at, n) => Ruled(t, h, "idle", NULL, n)
  BY DEF Sound, Rules
<1>2. temp = Sentinel \/ Kin(t, at, e, node, v, temp)
  BY <1>1, ChildIsKin
<1>3. temp \in Linked /\ node \in Nodes /\ BLACK \in {RED, BLACK, Unset} /\ Sentinel \in Linked
      /\ Sentinel \notin Nodes
  BY <1>2, RbtreeAssumption DEF Kin, In, Linked
<1>4. /\ r \in Trees /\ r.root = temp /\ r.child = t.child /\ r.parent = t.parent
      /\ r.color = t.color /\ r.key = t.key
  BY <1>1, <1>3 DEF Trees
<1>5. Painted(p, r, temp, BLACK)
  BY <1>3, <1>4, PaintFields
<1>6. DropRoot(t, node, temp) = z
  BY DEF DropRoot
<1> HIDE DEF r, p
<1>7. Cut(r, t, node, temp)
  BY <1>4 DEF Cut
<1>8. Shape(r, a, f, M - 1)
  BY <1>1, <1>7, CutShape
<1>9. \A n : In(a, n) <=> (n # node /\ In(at, n))
  BY <1>1, ClosedIn
<1> HIDE DEF a, f
<1>10. p \in Trees
  BY <1>5 DEF Painted
<1>11. Blanked(z, p, node)
  BY <1>3, <1>10, InitFields
<1> HIDE DEF z
<1>12. \E g : Sound(p, a, f, M - 1, g, "idle", NULL)
  <2>1. CASE temp = Sentinel
    <3>1. M - 1 = 0
      <4>1. ~In(a, Sentinel)
        BY <1>3 DEF In
      <4> QED
        BY <1>4, <1>8, <2>1, <4>1 DEF Shape
    <3>2. \A n : ~In(a, n)
      BY <1>8, <3>1, Numbers
    <3>3. Shape(p, a, f, M - 1)
      BY <1>5, <1>8, SameShape DEF Painted
    <3>4. Leaves(p, h)
      BY <1>1, <1>4, <1>5, <2>1 DEF Leaves, Painted
    <3>5. Current(p, a, "idle", NULL)
      BY DEF Current
    <3>6. Sound(p, a, f, M - 1, h, "idle", NULL)
      BY <1>1, <1>10, <3>2, <3>3, <3>4, <3>5 DEF Sound, Rules
    <3> QED
      BY <3>6
  <2>2. CASE temp # Sentinel
    <3>1. In(a, r.root)
      BY <1>2, <1>4, <1>9, <2>2 DEF Kin
    <3>2. Leaves(r, h)
      BY <1>1, <1>4 DEF Leaves
    <3>3. \A n \in Nodes : In(a, n) => r.color[n] \in {RED, BLACK}
      BY <1>1, <1>4, <1>9 DEF Ruled
    <3>4. ASSUME NEW n \in Nodes, NEW u \in Sides, In(a, n)
          PROVE  /\ h[n] = Weight(r, n) + h[r.child[u][n]]
                 /\ n = r.root \/ ~(r.color[n] = RED /\ r.color[r.child[u][n]] = RED)
      <4> DEFINE d == t.child[u][n]
      <4>1. In(at, n) /\ r.child[u][n] = d
        BY <1>4, <1>9, <3>4
      <4>2. d = Sentinel \/ Kin(t, at, e, n, u, d)
        BY <1>1, <4>1, ChildIsKin
      <4>3. /\ h[n] = Weight(t, n) + h[d] + Lack(t, "idle", NULL, n, u)
            /\ is_red(t, n) /\ is_red(t, d) => Excused("idle", NULL, n, d)
        BY <1>1, <4>1 DEF Ruled
      <4> HIDE DEF d
      <4>4. d \in Linked
        BY <1>3, <4>2 DEF Kin, In, Linked
      <4>5. h[d] \in Nat /\ Weight(t, n) \in Nat /\ Lack(t, "idle", NULL, n, u) = 0
        BY <1>1, <4>4 DEF Weight, Lack
      <4>6. h[n] = Weight(t, n) + h[d] /\ Weight(r, n) = Weight(t, n)
        BY <1>4, <4>3, <4>5, RedIs
      <4>7. ~(r.color[n] = RED /\ r.color[d] = RED)
        BY <1>4, <4>3, RedIs DEF Excused
      <4> QED
        BY <4>1, <4>6, <4>7
    <3>5. Recolored(p, r, {r.root}) /\ p.color[r.root] = BLACK
      BY <1>4, <1>5 DEF Painted, Recolored
    <3> QED
      BY <1>1, <1>4, <1>8, <3>1, <3>2, <3>3, <3>4, <3>5, PaintRootSound
  <2> QED
    BY <2>1, <2>2
<1>13. \E g : Sound(z, a, f, M - 1, g, "idle", NULL)
  <2>1. PICK g : Sound(p, a, f, M - 1, g, "idle", NULL)
    BY <1>12
  <2>2. ~In(a, node)
    BY <1>9
  <2>3. Sound(z, a, f, M - 1, g, "idle", NULL)
    BY <1>3, <1>11, <2>1, <2>2, InitSound
  <2> QED
    BY <2>3
<1>14. \A n \in Linked : n # node => z.key[n] = t.key[n]
  BY <1>4, <1>5, <1>11 DEF Painted, Blanked
<1> QED
  BY <1>6, <1>13, <1>14 DEF a

-----------------------------------------------------------------------------
(* A delete unlinks a node                                                 *)

\* The two writes that put temp in the place of gone.
Relinked(t, gone, temp, x) ==
  [t EXCEPT !.child[SideOf(t, gone)][t.parent[gone]] = temp, !.parent[temp] = x]

\* What unlinking a node writes.
LEMMA RelinkFields ==
  ASSUME NEW t \in Trees, NEW gone, NEW temp \in Linked, t.parent[gone] \in Linked, NEW x \in Linked
  PROVE  LET r == Relinked(t, gone, temp, x)
         IN  /\ r \in Trees /\ r.root = t.root /\ r.color = t.color /\ r.key = t.key
             /\ \A u \in Sides, n \in Linked :
                  r.child[u][n] = IF u = SideOf(t, gone) /\ n = t.parent[gone] THEN temp
                                  ELSE t.child[u][n]
             /\ r.parent[temp] = x
             /\ \A n \in Linked : n # temp => r.parent[n] = t.parent[n]
<1> DEFINE s == SideOf(t, gone)
           above == t.parent[gone]
           r == Relinked(t, gone, temp, x)
<1>1. s \in Sides /\ above \in Linked /\ temp \in Pointers /\ x \in Pointers
  BY SideFacts DEF Pointers
<1>2. r = [t EXCEPT !.child[s][above] = temp, !.parent[temp] = x]
  BY DEF Relinked
<1> HIDE DEF s, above, r
<1>3. r \in Trees
  BY <1>1, <1>2 DEF Trees
<1>4. r.root = t.root /\ r.color = t.color /\ r.key = t.key
  BY <1>2 DEF Trees
<1>5. \A u \in Sides, n \in Linked : r.child[u][n] = IF u = s /\ n = above THEN temp ELSE t.child[u][n]
  BY <1>1, <1>2 DEF Trees
<1>6. r.parent[temp] = x /\ \A n \in Linked : n # temp => r.parent[n] = t.parent[n]
  BY <1>1, <1>2 DEF Trees
<1> QED
  BY <1>3, <1>4, <1>5, <1>6 DEF s, above, r

\* gone has at most one child, temp.
LEMMA RelinkSound ==
  ASSUME NEW t, NEW at, NEW e, NEW M, NEW h, Sound(t, at, e, M, h, "idle", NULL),
         NEW gone, In(at, gone), gone # t.root,
         NEW v \in Sides, t.child[Opposite(v)][gone] = Sentinel,
         NEW temp, temp = t.child[v][gone],
         NEW ph, NEW c, IF t.color[gone] = RED THEN ph = "idle" /\ c = NULL
                                                ELSE ph = "delete" /\ c = temp
  PROVE  /\ Sound(Relinked(t, gone, temp, t.parent[gone]),
                  ClosedAt(at, gone), ClosedEnds(at, e, gone), M - 1, h, ph, c)
         /\ temp \in Linked /\ t.parent[gone] \in Nodes /\ temp # gone /\ temp # t.root
         /\ Kin(t, at, e, t.parent[gone], SideOf(t, gone), gone)
         /\ temp = Sentinel \/ Kin(t, at, e, gone, v, temp)
<1> DEFINE r == Relinked(t, gone, temp, t.parent[gone])
<1>1. t \in Trees /\ Shape(t, at, e, M) /\ M # 0
  BY Numbers DEF Sound
<1>2. Kin(t, at, e, t.parent[gone], SideOf(t, gone), gone)
  BY <1>1, ParentIsKin
<1>3. temp = Sentinel \/ Kin(t, at, e, gone, v, temp)
  BY <1>1, ChildIsKin
<1>4. /\ temp \in Linked /\ t.parent[gone] \in Nodes /\ t.parent[gone] \in Linked /\ temp # gone
      /\ gone \in Nodes
  BY <1>2, <1>3, RbtreeAssumption DEF Kin, In, Linked
<1>5. temp # t.root
  <2>1. In(at, t.root)
    BY <1>1 DEF Shape
  <2>2. t.root # Sentinel
    BY <2>1, RbtreeAssumption DEF In
  <2> QED
    BY <1>3, <2>2 DEF Kin
<1>6. Cut(r, t, gone, temp)
  <2> HIDE DEF r
  <2>1. /\ r \in Trees /\ r.root = t.root /\ r.color = t.color /\ r.key = t.key
        /\ \A u \in Sides, n \in Linked :
             r.child[u][n] = IF u = SideOf(t, gone) /\ n = t.parent[gone] THEN temp
                             ELSE t.child[u][n]
        /\ r.parent[temp] = t.parent[gone]
        /\ \A n \in Linked : n # temp => r.parent[n] = t.parent[n]
    BY <1>1, <1>4, RelinkFields DEF r
  <2> QED
    BY <2>1 DEF Cut
<1> HIDE DEF r
<1>7. Sound(r, ClosedAt(at, gone), ClosedEnds(at, e, gone), M - 1, h, ph, c)
  BY <1>6, CutSound
<1> QED
  BY <1>2, <1>3, <1>4, <1>5, <1>7 DEF r

\* node itself is unlinked.
LEMMA UnlinkSelfSound ==
  ASSUME NEW t, NEW at, NEW e, NEW M, NEW h, Sound(t, at, e, M, h, "idle", NULL),
         NEW node, In(at, node), node # t.root,
         NEW v \in Sides, t.child[Opposite(v)][node] = Sentinel,
         NEW temp, temp = t.child[v][node],
         NEW ph, NEW c, IF t.color[node] = RED THEN ph = "idle" /\ c = NULL
                                                ELSE ph = "delete" /\ c = temp
  PROVE  LET r == nc_rbtree_node_init(Unlink(t, node, node, temp), node)
         IN  /\ \E f, g : Sound(r, ClosedAt(at, node), f, M - 1, g, ph, c)
             /\ \A n \in Linked : n # node => r.key[n] = t.key[n]
<1> DEFINE p == Relinked(t, node, temp, t.parent[node])
           a == ClosedAt(at, node)
           f == ClosedEnds(at, e, node)
           r == nc_rbtree_node_init(p, node)
<1>1. t \in Trees /\ Shape(t, at, e, M) /\ node \in Nodes
  BY DEF Sound, In
<1>2. Unlink(t, node, node, temp) = p
  BY DEF Unlink, Relinked
<1>3. Sound(p, a, f, M - 1, h, ph, c) /\ temp \in Linked /\ t.parent[node] \in Nodes
  BY RelinkSound
<1>4. p.key = t.key
  <2>1. t.parent[node] \in Linked
    BY <1>3 DEF Linked
  <2> QED
    BY <1>1, <1>3, <2>1, RelinkFields
<1> HIDE DEF p
<1>5. ~In(a, node)
  BY <1>1, ClosedIn
<1> HIDE DEF a, f
<1>6. p \in Trees
  BY <1>3 DEF Sound
<1>7. Blanked(r, p, node)
  BY <1>1, <1>6, InitFields
<1> HIDE DEF r
<1>8. Sound(r, a, f, M - 1, h, ph, c)
  BY <1>1, <1>3, <1>5, <1>7, InitSound
<1>9. \A n \in Linked : n # node => r.key[n] = t.key[n]
  BY <1>4, <1>7 DEF Blanked
<1>10. (\E y, g : Sound(r, a, y, M - 1, g, ph, c)) /\ r = nc_rbtree_node_init(Unlink(t, node, node, temp), node)
  BY <1>2, <1>8 DEF r
<1> QED
  BY <1>9, <1>10 DEF a

\* node has two children: the next node in order is unlinked and takes its place.
LEMMA UnlinkNextSound ==
  ASSUME NEW t, NEW at, NEW e, NEW M, NEW h, Sound(t, at, e, M, h, "idle", NULL),
         NEW node, In(at, node), NEW subst, In(at, subst), at[subst] = at[node] + 1,
         subst # t.root, t.child["left"][subst] = Sentinel,
         NEW temp, temp = t.child["right"][subst],
         NEW ph, NEW c, IF t.color[subst] = RED THEN ph = "idle" /\ c = NULL
                                                ELSE ph = "delete" /\ c = temp
  PROVE  LET r == nc_rbtree_node_init(Unlink(t, node, subst, temp), node)
         IN  /\ \E f, g : Sound(r, ClosedAt(at, node), f, M - 1, g, ph, c)
             /\ \A n \in Linked : n # node => r.key[n] = t.key[n]
<1> DEFINE above == t.parent[subst]
           x == IF above = node THEN subst ELSE above
           p == Relinked(t, subst, temp, above)
           q == Relinked(t, subst, temp, x)
           r == TakeOver(q, node, subst)
           z == nc_rbtree_node_init(r, node)
           b == ClosedAt(at, subst)
           f == ClosedEnds(at, e, subst)
           a == RenamedAt(b, node, subst)
<1>1. /\ t \in Trees /\ Shape(t, at, e, M) /\ node \in Nodes /\ subst \in Nodes /\ node # subst
      /\ node \in Linked /\ subst \in Linked /\ node # Sentinel
  <2>1. at[node] \in Int /\ node \in Nodes /\ node \in Linked /\ node # Sentinel
    BY Numbers DEF Sound
  <2> QED
    BY <2>1 DEF Sound, In, Linked
<1>2. z = nc_rbtree_node_init(Unlink(t, node, subst, temp), node)
  BY <1>1 DEF Unlink, Relinked
<1>o. Opposite("right") = "left" /\ "right" \in Sides /\ Opposite("left") = "right"
  BY SideFacts
<1>3. /\ Sound(p, b, f, M - 1, h, ph, c) /\ temp \in Linked /\ above \in Nodes
      /\ temp # subst /\ temp # t.root
      /\ Kin(t, at, e, above, SideOf(t, subst), subst)
      /\ temp = Sentinel \/ Kin(t, at, e, subst, "right", temp)
  <2>1. t.child[Opposite("right")][subst] = Sentinel /\ "right" \in Sides
    BY <1>o
  <2> QED
    BY <2>1, RelinkSound, SMTT(30)
<1>4. temp # node
  <2>1. ASSUME temp = node PROVE FALSE
    <3>1. Kin(t, at, e, subst, "right", node)
      BY <1>1, <1>3, <2>1
    <3>2. e["left"][node] = at[subst] + 1 /\ e["left"][node] <= at[node]
      BY <1>1, <1>o, <3>1, Numbers, SideFacts DEF Kin
    <3> QED
      BY <1>1, <3>2, Numbers
  <2> QED
    BY <2>1
<1>5. above \in Linked /\ x \in Linked
  BY <1>1, <1>3 DEF Linked
<1>6. /\ p \in Trees /\ p.root = t.root /\ p.color = t.color /\ p.key = t.key
      /\ p.parent[temp] = above /\ p.child[SideOf(t, subst)][above] = temp
      /\ \A n \in Linked : n # temp => p.parent[n] = t.parent[n]
  BY <1>1, <1>3, <1>5, RelinkFields, SideFacts, SMTT(30)
<1>7. /\ q \in Trees /\ q.root = t.root /\ q.color = t.color /\ q.key = t.key
      /\ q.parent[temp] = x
      /\ \A n \in Linked : n # temp => q.parent[n] = t.parent[n]
  BY <1>1, <1>3, <1>5, RelinkFields
<1>8. q.child = p.child
  BY <1>1 DEF Relinked, Trees
<1>9. TookOver(r, q, node, subst) /\ r.parent[Sentinel] = q.parent[Sentinel]
  BY <1>1, <1>7, TakeOverFields
<1> HIDE DEF p, q, r, x
<1>10. q.parent[node] = p.parent[node] /\ SideOf(q, node) = SideOf(p, node)
  BY <1>1, <1>4, <1>6, <1>7, <1>8 DEF SideOf
<1>11. TookOver(r, p, node, subst)
  <2>1. ASSUME NEW n \in Nodes
        PROVE  r.parent[n] = IF n = subst THEN p.parent[node]
                             ELSE IF \E u \in Sides : n = p.child[u][node] THEN subst
                             ELSE p.parent[n]
    <3>1. n \in Linked
      BY DEF Linked
    <3>2. r.parent[n] = IF n = subst THEN q.parent[node]
                        ELSE IF \E u \in Sides : n = p.child[u][node] THEN subst
                        ELSE q.parent[n]
      BY <1>8, <1>9 DEF TookOver
    <3>3. q.parent[n] = p.parent[n] \/ \E u \in Sides : n = p.child[u][node]
      <4>1. CASE n # temp
        BY <1>6, <1>7, <3>1, <4>1
      <4>2. CASE n = temp /\ above = node
        BY <1>6, <4>2, SideFacts
      <4>3. CASE n = temp /\ above # node
        BY <1>6, <1>7, <4>3 DEF x
      <4> QED
        BY <4>1, <4>2, <4>3
    <3> QED
      BY <1>10, <3>2, <3>3
  <2>2. /\ r \in Trees /\ r.key = q.key /\ r.root = IF node = q.root THEN subst ELSE q.root
        /\ \A u \in Sides, n \in Linked :
             r.child[u][n] =
               IF n = subst THEN q.child[u][node]
               ELSE IF node # q.root /\ u = SideOf(q, node) /\ n = q.parent[node] THEN subst
               ELSE q.child[u][n]
        /\ \A n \in Linked : r.color[n] = IF n = subst THEN q.color[node] ELSE q.color[n]
    BY <1>9 DEF TookOver
  <2>3. q.root = p.root /\ q.key = p.key /\ q.color = p.color
    BY <1>6, <1>7
  <2> QED
    BY <1>8, <1>10, <2>1, <2>2, <2>3 DEF TookOver
<1>12. \A n : In(b, n) <=> (n # subst /\ In(at, n))
  BY <1>1, ClosedIn
<1>13. a = ClosedAt(at, node)
  <2>1. /\ at \in [Nodes -> Int] /\ at[node] \in Int /\ at[node] # 0 /\ 1 <= at[node]
        /\ \A m, n \in Nodes : In(at, m) /\ at[m] = at[n] => m = n
    <3>1. at[node] \in Int /\ 1 <= e["left"][node] /\ e["left"][node] <= at[node] /\ e["left"][node] \in Int
      BY <1>1, Numbers
    <3> QED
      BY <1>1, <3>1 DEF Shape
  <2>2. b[node] = at[node]
    BY <1>1, <2>1 DEF ClosedAt
  <2>3. ASSUME NEW n \in Nodes PROVE a[n] = ClosedAt(at, node)[n]
    <3>1. CASE n = subst
      <4>1. a[n] = at[node]
        BY <2>2, <3>1 DEF RenamedAt
      <4>2. ClosedAt(at, node)[n] = at[n] - 1
        BY <1>1, <2>1, <3>1 DEF ClosedAt
      <4> QED
        BY <2>1, <3>1, <4>1, <4>2
    <3>2. CASE n = node
      BY <1>1, <3>2 DEF ClosedAt, RenamedAt
    <3>3. CASE n # node /\ n # subst
      <4>1. a[n] = IF at[n] > at[subst] THEN at[n] - 1 ELSE at[n]
        BY <3>3 DEF RenamedAt, ClosedAt
      <4>2. ClosedAt(at, node)[n] = IF at[n] > at[node] THEN at[n] - 1 ELSE at[n]
        BY <3>3 DEF ClosedAt
      <4>3. at[n] # at[subst] /\ at[n] \in Int
        BY <1>1, <2>1, <3>3
      <4> QED
        BY <2>1, <4>1, <4>2, <4>3
    <3> QED
      BY <3>1, <3>2, <3>3
  <2>4. a = [n \in Nodes |-> a[n]] /\ ClosedAt(at, node) = [n \in Nodes |-> ClosedAt(at, node)[n]]
    BY DEF RenamedAt, ClosedAt
  <2> QED
    BY <2>3, <2>4
<1> HIDE DEF a, b, f
<1>14. \E y, g : Sound(r, a, y, M - 1, g, ph, c)
  <2>1. ph \in {"idle", "delete"} /\ (ph = "delete" => c # p.root) /\ c # node
    BY <1>1, <1>3, <1>4, <1>6, RbtreeAssumption DEF Linked
  <2>2. In(b, node) /\ ~In(b, subst)
    BY <1>1, <1>12
  <2>3. ph = "delete" /\ c = Sentinel =>
          r.parent[c] = IF p.parent[c] = node THEN subst ELSE p.parent[c]
    <3>1. ASSUME ph = "delete", c = Sentinel PROVE c = temp
      BY <3>1
    <3> QED
      BY <1>6, <1>7, <1>9, <3>1 DEF x
  <2> QED
    BY <1>1, <1>3, <1>11, <2>1, <2>2, <2>3, TakeOverSound DEF a
<1>15. r \in Trees
  BY <1>9 DEF TookOver
<1>16. Blanked(z, r, node)
  BY <1>1, <1>15, InitFields
<1> HIDE DEF z
<1>17. ~In(a, node)
  BY <1>1, <1>13, ClosedIn
<1>18. \E y, g : Sound(z, a, y, M - 1, g, ph, c)
  BY <1>1, <1>14, <1>16, <1>17, InitSound
<1>19. \A n \in Linked : n # node => z.key[n] = t.key[n]
  BY <1>7, <1>9, <1>16 DEF Blanked, TookOver
<1> QED
  BY <1>2, <1>13, <1>18, <1>19

-----------------------------------------------------------------------------
(* What the loops' rounds write                                            *)

\* x is painted c, then y is painted d.
TwoPainted(p, t, x, y, c, d) ==
  Recolored(p, t, {x, y}) /\ p.color[y] = d /\ (x # y => p.color[x] = c)

\* Two colours set, one after the other.
LEMMA PaintTwo ==
  ASSUME NEW t \in Trees, NEW x \in Linked, NEW y \in Linked,
         NEW c \in {RED, BLACK}, NEW d \in {RED, BLACK}
  PROVE  TwoPainted(Paint(Paint(t, x, c), y, d), t, x, y, c, d)
<1> DEFINE q == Paint(t, x, c)
           p == Paint(q, y, d)
<1>0. c \in {RED, BLACK, Unset} /\ d \in {RED, BLACK, Unset}
  OBVIOUS
<1>1. Painted(q, t, x, c)
  BY <1>0, PaintFields
<1> HIDE DEF q
<1>2. Painted(p, q, y, d)
  <2>1. q \in Trees
    BY <1>1 DEF Painted
  <2> QED
    BY <1>0, <2>1, PaintFields
<1> HIDE DEF p
<1>3. TwoPainted(p, t, x, y, c, d)
  BY <1>1, <1>2 DEF Painted, Recolored, TwoPainted
<1> QED
  BY <1>3 DEF p, q

ThreePainted(p, t, x, y, z, c, d, k) ==
  /\ Recolored(p, t, {x, y, z}) /\ p.color[z] = k /\ (y # z => p.color[y] = d)
  /\ (x # y /\ x # z => p.color[x] = c)

\* Three colours set, one after the other.
LEMMA PaintThree ==
  ASSUME NEW t \in Trees, NEW x \in Linked, NEW y \in Linked, NEW z \in Linked,
         NEW c \in {RED, BLACK}, NEW d \in {RED, BLACK}, NEW k \in {RED, BLACK}
  PROVE  ThreePainted(Paint(Paint(Paint(t, x, c), y, d), z, k), t, x, y, z, c, d, k)
<1> DEFINE q == Paint(Paint(t, x, c), y, d)
           p == Paint(q, z, k)
<1>1. TwoPainted(q, t, x, y, c, d)
  BY PaintTwo
<1> HIDE DEF q
<1>2. Painted(p, q, z, k)
  <2>1. k \in {RED, BLACK, Unset} /\ q \in Trees
    BY <1>1 DEF Recolored, TwoPainted
  <2> QED
    BY <2>1, PaintFields
<1> HIDE DEF p
<1>3. ThreePainted(p, t, x, y, z, c, d, k)
  BY <1>1, <1>2 DEF Painted, Recolored, TwoPainted, ThreePainted
<1> QED
  BY <1>3 DEF p, q

\* The last rotation of an insert.
LEMMA TurnUp ==
  ASSUME NEW t, NEW at, NEW e, NEW M, NEW h, NEW c, Sound(t, at, e, M, h, "insert", c),
         NEW parent, NEW grand, NEW s, InsertNear(t, at, e, c, parent, grand, s, s),
         t.color[t.child[Opposite(s)][grand]] # RED
  PROVE  LET r == rotate(Paint(Paint(t, parent, BLACK), grand, RED), Opposite(s), grand)
         IN  (\E f, g : Sound(r, at, f, M, g, "insert", c)) /\ r.key = t.key
<1> DEFINE p == Paint(Paint(t, parent, BLACK), grand, RED)
           r == rotate(p, Opposite(s), grand)
<1>1. /\ t \in Trees /\ Kin(t, at, e, grand, s, parent) /\ s \in Sides /\ parent # grand
      /\ parent \in Linked /\ grand \in Linked /\ t.child[s][grand] = parent
      /\ Opposite(s) \in Sides /\ Opposite(Opposite(s)) = s
  BY SideFacts DEF Sound, InsertNear, Kin, In, Linked
<1>2. RED \in {RED, BLACK} /\ BLACK \in {RED, BLACK}
  OBVIOUS
<1>3. Recolored(p, t, {parent, grand}) /\ p.color[grand] = RED /\ p.color[parent] = BLACK
  BY <1>1, <1>2, PaintTwo DEF TwoPainted
<1> HIDE DEF p
<1>4. Rotated(r, p, Opposite(s), grand, parent, p.child[Opposite(s)][parent])
  <2>1. p \in Trees /\ parent = p.child[Opposite(Opposite(s))][grand]
    BY <1>1, <1>3 DEF Recolored
  <2> QED
    BY <1>1, <2>1, RotateFields
<1> HIDE DEF r
<1>5. \E f, g : Sound(r, at, f, M, g, "insert", c)
  BY <1>3, <1>4, TurnOuterSound
<1>6. r.key = t.key
  BY <1>3, <1>4 DEF Rotated, Recolored
<1> QED
  BY <1>5, <1>6 DEF p, r

-----------------------------------------------------------------------------
(* The steps of the loops                                                  *)

\* The tree is sound, with the M nodes at the positions at.
Holds(at, M) == \E e, h : Sound(tree, at, e, M, h, phase, cur)

\* A round of the loop of nc_rbtree_insert.
LEMMA InsertFixupStep ==
  ASSUME NEW at, NEW M, Holds(at, M), InsertFixup
  PROVE  Holds(at, M)' /\ tree'.key = tree.key
<1> DEFINE parent == tree.parent[cur]
           grand == tree.parent[parent]
           s == SideOf(tree, parent)
           v == SideOf(tree, cur)
           o == Opposite(s)
           uncle == tree.child[o][grand]
<1>1. PICK e, h : Sound(tree, at, e, M, h, "insert", cur)
  BY DEF Holds, InsertFixup
<1>2. InsertNear(tree, at, e, cur, parent, grand, s, v)
  <2>1. cur # tree.root /\ is_red(tree, tree.parent[cur])
    BY DEF InsertFixup, InsertFixupNeeded
  <2> QED
    BY <1>1, <2>1, InsertRound
<1>3. /\ phase' = "insert"
      /\ IF is_red(tree, uncle) THEN RecolorUp(parent, grand, uncle) ELSE RotateUp(parent, grand, s)
  BY DEF InsertFixup
<1>p. tree.parent[cur] = parent
  OBVIOUS
<1> HIDE DEF parent, grand, s, v
<1>4. /\ tree \in Trees /\ Shape(tree, at, e, M)
      /\ Kin(tree, at, e, grand, s, parent) /\ Kin(tree, at, e, parent, v, cur)
      /\ s \in Sides /\ v \in Sides /\ o \in Sides /\ Opposite(o) = s /\ s # o
      /\ tree.child[v][parent] = cur /\ tree.child[s][grand] = parent
      /\ tree.color[cur] = RED /\ tree.color[tree.child[Opposite(v)][parent]] # RED
      /\ In(at, grand) /\ parent # grand /\ parent \in Linked /\ grand \in Linked /\ cur \in Linked
      /\ cur # tree.root
  BY <1>1, <1>2, SideFacts DEF Sound, InsertNear, Kin, In, Linked
<1>5. RED \in {RED, BLACK} /\ BLACK \in {RED, BLACK}
  OBVIOUS
<1>6. CASE is_red(tree, uncle)
  <2> DEFINE p == Paint(Paint(Paint(tree, parent, BLACK), uncle, BLACK), grand, RED)
  <2>1. tree' = p /\ cur' = grand
    BY <1>3, <1>6 DEF RecolorUp
  <2>2. tree.color[uncle] = RED
    BY <1>6 DEF is_red
  <2>3. Kin(tree, at, e, grand, o, uncle)
    <3>1. uncle # Sentinel
      BY <1>1, <2>2, RedIs DEF Sound, Rules, Leaves
    <3> QED
      BY <1>4, <3>1, ChildIsKin
  <2>4. uncle \in Linked /\ uncle # grand /\ uncle # parent
    BY <1>4, <2>3 DEF Kin, In, Linked
  <2>u. uncle = tree.child[Opposite(s)][grand]
    OBVIOUS
  <2> HIDE DEF uncle
  <2>5. /\ Recolored(p, tree, {parent, uncle, grand})
        /\ p.color[grand] = RED /\ p.color[uncle] = BLACK /\ p.color[parent] = BLACK
    BY <1>4, <1>5, <2>4, PaintThree DEF ThreePainted
  <2> HIDE DEF p, o
  <2>6. /\ p \in Trees /\ p.root = tree.root /\ p.child = tree.child /\ p.parent = tree.parent
        /\ p.key = tree.key /\ p.color[parent] = BLACK /\ p.color[uncle] = BLACK /\ p.color[grand] = RED
        /\ \A n \in Linked : n \notin {parent, uncle, grand} => p.color[n] = tree.color[n]
    BY <2>5 DEF Recolored
  <2>7. \E g : Sound(p, at, e, M, g, "insert", grand)
    BY <1>1, <1>2, <1>4, <2>2, <2>6, <2>u, RecolorSound
  <2> QED
    BY <1>3, <2>1, <2>6, <2>7 DEF Holds
<1>7. CASE ~is_red(tree, uncle) /\ v = s
  <2>1. cur # tree.child[o][parent]
    BY <1>4, <1>7 DEF o
  <2>2. RotateUp(parent, grand, s)
    BY <1>3, <1>7
  <2>3. tree' = rotate(Paint(Paint(tree, parent, BLACK), grand, RED), o, grand) /\ cur' = cur
    BY <1>p, <2>1, <2>2 DEF RotateUp
  <2>4. tree.color[tree.child[Opposite(s)][grand]] # RED
    BY <1>7 DEF is_red
  <2>5. InsertNear(tree, at, e, cur, parent, grand, s, s)
    BY <1>2, <1>7
  <2>6. (\E f, g : Sound(tree', at, f, M, g, "insert", cur)) /\ tree'.key = tree.key
    BY <1>1, <2>3, <2>4, <2>5, TurnUp
  <2> QED
    BY <1>3, <2>3, <2>6 DEF Holds
<1>8. CASE ~is_red(tree, uncle) /\ v # s
  <2> DEFINE t == rotate(tree, s, parent)
  <2>0. v = o
    BY <1>4, <1>8, SideFacts
  <2>1. cur = tree.child[o][parent]
    BY <1>4, <2>0
  <2>2. RotateUp(parent, grand, s)
    BY <1>3, <1>8
  <2>3. tree' = rotate(Paint(Paint(t, t.parent[parent], BLACK), grand, RED), o, grand) /\ cur' = parent
    BY <2>1, <2>2 DEF RotateUp
  <2>4. Rotated(t, tree, s, parent, cur, tree.child[s][cur])
    BY <1>4, <2>1, RotateFields
  <2>5. InsertNear(tree, at, e, cur, parent, grand, s, Opposite(s))
    BY <1>2, <2>0
  <2> HIDE DEF t
  <2>6. PICK f : /\ Sound(t, at, f, M, h, "insert", parent)
                 /\ parent # t.root /\ t.parent[parent] = cur /\ t.parent[cur] = grand
                 /\ InsertNear(t, at, f, parent, cur, grand, s, s)
                 /\ t.child[Opposite(s)][grand] = tree.child[Opposite(s)][grand]
    BY <1>1, <2>4, <2>5, TurnInnerSound
  <2>7. t.color[t.child[Opposite(s)][grand]] # RED
    <3>1. t.color = tree.color
      BY <2>4 DEF Rotated
    <3> QED
      BY <1>8, <2>6, <3>1 DEF is_red
  <2>8. tree' = rotate(Paint(Paint(t, cur, BLACK), grand, RED), Opposite(s), grand)
    BY <2>3, <2>6
  <2>9. (\E y, g : Sound(tree', at, y, M, g, "insert", parent)) /\ tree'.key = t.key
    BY <2>6, <2>7, <2>8, TurnUp
  <2>10. tree'.key = tree.key
    BY <2>4, <2>9 DEF Rotated
  <2> QED
    BY <1>3, <2>3, <2>9, <2>10 DEF Holds
<1> QED
  BY <1>6, <1>7, <1>8

\* The end of nc_rbtree_insert.
LEMMA InsertDoneStep ==
  ASSUME NEW at, NEW M, Holds(at, M), InsertDone
  PROVE  Holds(at, M)' /\ tree'.key = tree.key
<1> DEFINE p == Paint(tree, tree.root, BLACK)
<1>1. PICK e, h : Sound(tree, at, e, M, h, "insert", cur)
  BY DEF Holds, InsertDone
<1>2. tree' = p /\ phase' = "idle" /\ cur' = NULL /\ (cur = tree.root \/ tree.color[tree.parent[cur]] # RED)
  BY DEF InsertDone, InsertFixupNeeded, is_red
<1>3. tree \in Trees /\ tree.root \in Linked /\ BLACK \in {RED, BLACK, Unset}
  BY <1>1 DEF Sound, Trees
<1>4. Painted(p, tree, tree.root, BLACK)
  BY <1>3, PaintFields
<1> HIDE DEF p
<1>5. Recolored(p, tree, {tree.root}) /\ p.color[tree.root] = BLACK
  BY <1>4 DEF Painted, Recolored
<1>6. \E g : Sound(p, at, e, M, g, "idle", NULL)
  BY <1>1, <1>2, <1>5, InsertDoneSound
<1> QED
  BY <1>2, <1>5, <1>6 DEF Holds, Recolored

\* The end of nc_rbtree_delete.
LEMMA DeleteDoneStep ==
  ASSUME NEW at, NEW M, Holds(at, M), DeleteDone
  PROVE  Holds(at, M)' /\ tree'.key = tree.key
<1> DEFINE p == Paint(tree, cur, BLACK)
<1>1. PICK e, h : Sound(tree, at, e, M, h, "delete", cur)
  BY DEF Holds, DeleteDone
<1>2. tree' = p /\ phase' = "idle" /\ cur' = NULL /\ (cur = tree.root \/ tree.color[cur] = RED)
  BY DEF DeleteDone, DeleteFixupNeeded, is_red, is_black
<1>3. tree \in Trees /\ cur \in Linked /\ BLACK \in {RED, BLACK, Unset}
  BY <1>1 DEF Sound, Rules, Current, In, Linked
<1>4. Painted(p, tree, cur, BLACK)
  BY <1>3, PaintFields
<1> HIDE DEF p
<1>5. Recolored(p, tree, {cur}) /\ p.color[cur] = BLACK
  BY <1>4 DEF Painted, Recolored
<1>6. \E g : Sound(p, at, e, M, g, "idle", NULL)
  BY <1>1, <1>2, <1>5, DeleteDoneSound
<1> QED
  BY <1>2, <1>5, <1>6 DEF Holds, Recolored

\* After the first rotation of a round the sibling is black.
LEMMA RaiseSiblingStep ==
  ASSUME NEW t, NEW at, NEW e, NEW M, NEW h, Sound(t, at, e, M, h, "delete", cur),
         NEW P, NEW w, NEW s, DeleteNear(t, at, e, h, cur, P, w, s)
  PROVE  /\ \E f, g : Sound(RaiseSibling(t, s), at, f, M, g, "delete", cur)
         /\ SameGap(RaiseSibling(t, s), t, cur, P, s)
         /\ RaiseSibling(t, s).color[RaiseSibling(t, s).child[Opposite(s)][P]] # RED
         /\ RaiseSibling(t, s).key = t.key
<1> DEFINE r == RaiseSibling(t, s)
           p == Paint(Paint(t, w, BLACK), P, RED)
           o == Opposite(s)
<1>1. /\ t \in Trees /\ s \in Sides /\ t.parent[cur] = P /\ w = t.child[o][P] /\ w # P
      /\ w \in Linked /\ P \in Linked /\ cur # t.root /\ SideOf(t, cur) = s
  BY DEF Sound, DeleteNear, Kin, In, Linked
<1>2. r = IF is_red(t, w) THEN rotate(p, s, P) ELSE t
  BY <1>1 DEF RaiseSibling
<1>3. RED \in {RED, BLACK} /\ BLACK \in {RED, BLACK}
  OBVIOUS
<1>4. TwoPainted(p, t, w, P, BLACK, RED)
  BY <1>1, <1>3, PaintTwo
<1> HIDE DEF p, r, o
<1>5. CASE t.color[w] = RED
  <2>1. Recolored(p, t, {P, w}) /\ p.color[w] = BLACK /\ p.color[P] = RED
    BY <1>1, <1>4 DEF TwoPainted, Recolored
  <2>2. p \in Trees /\ w = p.child[o][P]
    BY <1>1, <2>1 DEF Recolored
  <2>3. r = rotate(p, s, P)
    BY <1>2, <1>5 DEF is_red
  <2>4. Rotated(r, p, s, P, w, p.child[s][w])
    BY <1>1, <2>2, <2>3, RotateFields DEF o
  <2>5. \E f, g : /\ Sound(r, at, f, M, g, "delete", cur) /\ SameGap(r, t, cur, P, s)
                  /\ r.color[r.child[Opposite(s)][P]] # RED
    BY <1>5, <2>1, <2>4, RaiseSiblingSound
  <2>6. r.key = t.key
    BY <2>1, <2>4 DEF Rotated, Recolored
  <2> QED
    BY <2>5, <2>6 DEF r
<1>6. CASE t.color[w] # RED
  <2>1. r = t
    BY <1>2, <1>6 DEF is_red
  <2>2. SameGap(r, t, cur, P, s)
    BY <1>1, <2>1 DEF SameGap
  <2>3. r.color[r.child[Opposite(s)][P]] # RED
    BY <1>1, <1>6, <2>1 DEF o
  <2>4. Sound(r, at, e, M, h, "delete", cur)
    BY <2>1
  <2> QED
    BY <2>1, <2>2, <2>3, <2>4 DEF r
<1> QED
  BY <1>5, <1>6

\* After the second one the sibling's outer child is red.
LEMMA RaiseInnerStep ==
  ASSUME NEW t, NEW at, NEW e, NEW M, NEW h, Sound(t, at, e, M, h, "delete", cur),
         NEW P, NEW w, NEW s, DeleteNear(t, at, e, h, cur, P, w, s), t.color[w] # RED,
         ~\A u \in Sides : is_black(t, t.child[u][w])
  PROVE  /\ \E f, g : Sound(RaiseInner(t, s, w), at, f, M, g, "delete", cur)
         /\ SameGap(RaiseInner(t, s, w), t, cur, P, s)
         /\ LET x == RaiseInner(t, s, w).child[Opposite(s)][P]
            IN  /\ RaiseInner(t, s, w).color[x] # RED
                /\ RaiseInner(t, s, w).color[RaiseInner(t, s, w).child[Opposite(s)][x]] = RED
         /\ RaiseInner(t, s, w).key = t.key
<1> DEFINE r == RaiseInner(t, s, w)
           o == Opposite(s)
           inner == t.child[s][w]
           p == Paint(Paint(t, inner, BLACK), w, RED)
<1>1. /\ t \in Trees /\ s \in Sides /\ o \in Sides /\ Opposite(o) = s
      /\ t.parent[cur] = P /\ w = t.child[o][P] /\ In(at, w) /\ Shape(t, at, e, M)
      /\ w \in Linked /\ P \in Linked /\ cur # t.root /\ SideOf(t, cur) = s
  BY SideFacts DEF Sound, DeleteNear, Kin, In, Linked
<1>2. r = IF is_black(t, t.child[o][w]) THEN rotate(p, o, w) ELSE t
  BY DEF RaiseInner
<1>3. RED \in {RED, BLACK} /\ BLACK \in {RED, BLACK} /\ RED # BLACK
  BY RedIs
<1>4. CASE t.color[t.child[o][w]] # RED
  <2>1. t.color[inner] = RED
    <3>1. PICK u \in Sides : ~is_black(t, t.child[u][w])
      OBVIOUS
    <3>2. t.color[t.child[u][w]] = RED
      BY <3>1 DEF is_black, is_red
    <3>3. u = s \/ u = o
      BY <1>1, SideFacts
    <3> QED
      BY <1>4, <3>2, <3>3
  <2>2. Kin(t, at, e, w, s, inner)
    <3>1. inner # Sentinel
      BY <1>3, <2>1 DEF Sound, Rules, Leaves
    <3> QED
      BY <1>1, <3>1, ChildIsKin
  <2>i. inner = t.child[s][w] /\ inner \in Linked /\ inner # w
    BY <2>2 DEF Kin, In, Linked
  <2> HIDE DEF inner
  <2>3. TwoPainted(p, t, inner, w, BLACK, RED)
    BY <1>1, <1>3, <2>i, PaintTwo
  <2> HIDE DEF p, r, o
  <2>4. Recolored(p, t, {inner, w}) /\ p.color[inner] = BLACK /\ p.color[w] = RED
    BY <2>3, <2>i DEF TwoPainted
  <2>5. p \in Trees /\ inner = p.child[Opposite(o)][w]
    BY <1>1, <2>4, <2>i DEF Recolored
  <2>6. r = rotate(p, o, w)
    BY <1>2, <1>4, Zenon DEF is_black, is_red
  <2>7. Rotated(r, p, Opposite(s), w, inner, p.child[Opposite(s)][inner])
    BY <1>1, <2>5, <2>6, <2>i, RotateFields DEF o
  <2>8. \E f, g : /\ Sound(r, at, f, M, g, "delete", cur) /\ SameGap(r, t, cur, P, s)
                  /\ r.child[Opposite(s)][P] = inner /\ r.color[inner] # RED
                  /\ r.child[Opposite(s)][inner] = w /\ r.color[w] = RED
    BY <1>4, <2>1, <2>4, <2>7, <2>i, RaiseInnerSound DEF o
  <2>9. r.key = t.key
    BY <2>4, <2>7 DEF Rotated, Recolored
  <2> QED
    BY <2>8, <2>9 DEF r
<1>5. CASE t.color[t.child[o][w]] = RED
  <2> HIDE DEF p, r
  <2>1. r = t
    BY <1>2, <1>5 DEF is_black, is_red
  <2>2. SameGap(r, t, cur, P, s)
    BY <1>1, <2>1 DEF SameGap
  <2>3. r.child[o][P] = w /\ r.color[w] # RED /\ r.color[r.child[o][w]] = RED
    BY <1>1, <1>5, <2>1
  <2>4. Sound(r, at, e, M, h, "delete", cur)
    BY <2>1
  <2> QED
    BY <2>1, <2>2, <2>3, <2>4 DEF r
<1> QED
  BY <1>4, <1>5

\* The third one ends the loop.
LEMMA BorrowStep ==
  ASSUME NEW t, NEW at, NEW e, NEW M, NEW h, Sound(t, at, e, M, h, "delete", cur),
         NEW P, NEW w, NEW s, DeleteNear(t, at, e, h, cur, P, w, s), t.color[w] # RED,
         t.color[t.child[Opposite(s)][w]] = RED
  PROVE  /\ \E f, g : Sound(Borrow(t, s), at, f, M, g, "delete", Borrow(t, s).root)
         /\ Borrow(t, s).key = t.key
<1> DEFINE r == Borrow(t, s)
           o == Opposite(s)
           outer == t.child[o][w]
           p == Paint(Paint(Paint(t, w, t.color[P]), P, BLACK), outer, BLACK)
<1>1. /\ t \in Trees /\ s \in Sides /\ o \in Sides
      /\ t.parent[cur] = P /\ w = t.child[o][P] /\ In(at, w) /\ In(at, P) /\ Shape(t, at, e, M)
      /\ w \in Linked /\ P \in Linked /\ P # w /\ P \in Nodes
      /\ Kin(t, at, e, P, o, w)
  BY SideFacts DEF Sound, DeleteNear, Kin, In, Linked
<1>2. RED # BLACK /\ BLACK \in {RED, BLACK}
  BY RedIs
<1>3. t.color[P] \in {RED, BLACK}
  BY <1>1 DEF Sound, Rules, Ruled
<1>4. Kin(t, at, e, w, o, outer)
  <2>1. outer # Sentinel
    BY <1>2 DEF Sound, Rules, Leaves
  <2> QED
    BY <1>1, <2>1, ChildIsKin
<1>5. outer = t.child[o][w] /\ outer \in Linked /\ outer # w /\ outer # P /\ t.color[outer] = RED
  <2>1. outer # P
    BY <1>1, <1>4, Narrower
  <2> QED
    BY <1>4, <2>1 DEF Kin, In, Linked
<1>6. r = rotate(p, s, P)
  BY <1>1, Zenon DEF Borrow
<1> HIDE DEF outer
<1>7. Recolored(p, t, {w, P, outer}) /\ p.color[w] = t.color[P] /\ p.color[P] = BLACK /\ p.color[outer] = BLACK
  <2>1. ThreePainted(p, t, w, P, outer, t.color[P], BLACK, BLACK)
    BY <1>1, <1>2, <1>3, <1>5, PaintThree
  <2> HIDE DEF p
  <2> QED
    BY <1>1, <1>5, <2>1 DEF ThreePainted
<1> HIDE DEF p, r, o
<1>8. p \in Trees /\ w = p.child[o][P]
  BY <1>1, <1>7 DEF Recolored
<1>9. Rotated(r, p, s, P, w, p.child[s][w])
  BY <1>1, <1>6, <1>8, RotateFields DEF o
<1>10. \E f, g : Sound(r, at, f, M, g, "delete", r.root)
  BY <1>5, <1>7, <1>9, BorrowSound DEF o
<1>11. r.key = t.key
  BY <1>7, <1>9 DEF Rotated, Recolored
<1> QED
  BY <1>10, <1>11 DEF r

\* After a rotation the node of the loop still has a parent and a sibling.
LEMMA NextRound ==
  ASSUME NEW t, NEW at, NEW e, NEW M, NEW h, Sound(t, at, e, M, h, "delete", cur),
         NEW q, NEW P, NEW s, SameGap(t, q, cur, P, s), q.color[cur] # RED
  PROVE  DeleteNear(t, at, e, h, cur, P, t.child[Opposite(s)][P], s)
<1>1. cur # t.root /\ t.color[cur] # RED /\ t.parent[cur] = P /\ SideOf(t, cur) = s
  BY DEF SameGap
<1> QED
  BY <1>1, DeleteRound

\* A round of the loop of nc_rbtree_delete.
LEMMA DeleteFixupStep ==
  ASSUME NEW at, NEW M, Holds(at, M), DeleteFixup
  PROVE  Holds(at, M)' /\ tree'.key = tree.key
<1> DEFINE P == tree.parent[cur]
           s == SideOf(tree, cur)
           t == RaiseSibling(tree, s)
           w == t.child[Opposite(s)][P]
           u == RaiseInner(t, s, w)
           x == u.child[Opposite(s)][P]
           p == Paint(t, w, RED)
<1>1. PICK e, h : Sound(tree, at, e, M, h, "delete", cur)
  BY Zenon DEF Holds, DeleteFixup
<1>2. cur # tree.root /\ tree.color[cur] # RED /\ phase' = "delete"
  BY DEF DeleteFixup, DeleteFixupNeeded, is_black, is_red
<1>3. DeleteNear(tree, at, e, h, cur, P, tree.child[Opposite(s)][P], s)
  BY <1>1, <1>2, DeleteRound
<1>4. IF \A side \in Sides : is_black(t, t.child[side][t.child[Opposite(s)][t.parent[cur]]])
        THEN tree' = Paint(t, t.child[Opposite(s)][t.parent[cur]], RED) /\ cur' = t.parent[cur]
        ELSE /\ tree' = Borrow(RaiseInner(t, s, t.child[Opposite(s)][t.parent[cur]]), s)
             /\ cur' = tree'.root
  BY DEF DeleteFixup
<1>5. /\ \E f, g : Sound(t, at, f, M, g, "delete", cur)
      /\ SameGap(t, tree, cur, P, s) /\ t.color[w] # RED /\ t.key = tree.key
  <2> HIDE DEF P, s
  <2> QED
    BY <1>1, <1>3, RaiseSiblingStep
<1>6. IF \A side \in Sides : is_black(t, t.child[side][w])
        THEN tree' = p /\ cur' = P
        ELSE tree' = Borrow(u, s) /\ cur' = tree'.root
  <2>1. t.parent[cur] = P
    BY <1>5 DEF SameGap
  <2> HIDE DEF t, P, s
  <2> QED
    BY <1>4, <2>1
<1> HIDE DEF P, s, t
<1>7. PICK f, g : Sound(t, at, f, M, g, "delete", cur)
  BY <1>5
<1>8. DeleteNear(t, at, f, g, cur, P, w, s)
  BY <1>2, <1>5, <1>7, NextRound
<1>9. CASE \A side \in Sides : is_black(t, t.child[side][w])
  <2>0. w = t.child[Opposite(s)][P]
    OBVIOUS
  <2> HIDE DEF w
  <2>1. w \in Linked /\ t \in Trees /\ RED \in {RED, BLACK, Unset}
    BY <1>7, <1>8 DEF DeleteNear, Kin, In, Linked, Sound
  <2>2. Painted(p, t, w, RED)
    BY <2>1, PaintFields
  <2> HIDE DEF p
  <2>3. Recolored(p, t, {w}) /\ p.color[w] = RED
    BY <2>2 DEF Painted, Recolored
  <2>4. \A side \in Sides : t.color[t.child[side][w]] # RED
    BY <1>9 DEF is_black, is_red
  <2>5. \E y : Sound(p, at, f, M, y, "delete", P)
    BY <1>5, <1>7, <1>8, <2>3, <2>4, MoveUpSound
  <2>6. tree' = p /\ cur' = P /\ p.key = tree.key
    BY <1>5, <1>6, <1>9, <2>3 DEF Recolored
  <2> QED
    BY <1>2, <2>5, <2>6 DEF Holds
<1>10. CASE ~\A side \in Sides : is_black(t, t.child[side][w])
  <2>1. tree' = Borrow(u, s) /\ cur' = tree'.root
    BY <1>6, <1>10
  <2>c. t.color[cur] # RED
    BY <1>2, <1>5 DEF SameGap
  <2> HIDE DEF w
  <2>r. /\ \E y, z : Sound(RaiseInner(t, s, w), at, y, M, z, "delete", cur)
        /\ SameGap(RaiseInner(t, s, w), t, cur, P, s)
        /\ LET k == RaiseInner(t, s, w).child[Opposite(s)][P]
           IN  /\ RaiseInner(t, s, w).color[k] # RED
               /\ RaiseInner(t, s, w).color[RaiseInner(t, s, w).child[Opposite(s)][k]] = RED
        /\ RaiseInner(t, s, w).key = t.key
    <3>1. t.color[w] # RED
      BY <1>5
    <3> HIDE DEF u, x, p
    <3> QED
      BY <1>7, <1>8, <1>10, <3>1, RaiseInnerStep
  <2>2. /\ \E y, z : Sound(u, at, y, M, z, "delete", cur)
        /\ SameGap(u, t, cur, P, s) /\ u.color[x] # RED /\ u.color[u.child[Opposite(s)][x]] = RED
        /\ u.key = t.key
    BY <2>r
  <2> HIDE DEF u
  <2>3. PICK y, z : Sound(u, at, y, M, z, "delete", cur)
    BY <2>2
  <2>4. DeleteNear(u, at, y, z, cur, P, x, s)
    BY <2>2, <2>3, <2>c, NextRound
  <2> HIDE DEF x
  <2>5. /\ \E f1, g1 : Sound(Borrow(u, s), at, f1, M, g1, "delete", Borrow(u, s).root)
        /\ Borrow(u, s).key = u.key
    BY <2>2, <2>3, <2>4, BorrowStep
  <2> QED
    BY <1>2, <1>5, <2>1, <2>2, <2>5 DEF Holds
<1> QED
  BY <1>9, <1>10

-----------------------------------------------------------------------------
(* The positions as a queue                                                *)

\* Every position up to M is some node's.
LEMMA Occupied ==
  ASSUME NEW t, NEW at, NEW e, NEW M, Shape(t, at, e, M), NEW i \in 1 .. M
  PROVE  \E n \in Nodes : In(at, n) /\ at[n] = i
<1> SUFFICES ASSUME \A n \in Nodes : In(at, n) => at[n] # i PROVE FALSE
  OBVIOUS
<1>m. M \in Nat /\ M # 0 /\ i \in Nat /\ 1 <= i /\ i <= M
  BY DEF Shape
<1> DEFINE Over(z) == In(at, z) /\ e["left"][z] <= i /\ i <= e["right"][z]
           W == {Wide(e, z) : z \in {z \in Nodes : Over(z)}}
<1>1. \A z : In(at, z) => Wide(e, z) \in Nat
  BY Numbers DEF Wide
<1>2. W \in SUBSET Nat
  BY <1>1
<1>3. W # {}
  <2>1. In(at, t.root) /\ e["left"][t.root] = 1 /\ e["right"][t.root] = M
    BY <1>m DEF Shape
  <2>2. Over(t.root) /\ t.root \in Nodes
    BY <1>m, <2>1 DEF In
  <2> QED
    BY <2>2
<1>4. PICK k \in W : \A j \in W : k <= j
  <2> HIDE DEF W
  <2> QED
    BY <1>2, <1>3, LeastNumber
<1>5. PICK z \in Nodes : Over(z) /\ k = Wide(e, z)
  BY <1>4
<1>6. ASSUME NEW c \in Nodes, Over(c) PROVE ~(Wide(e, c) < Wide(e, z))
  <2>1. Wide(e, c) \in W
    BY <1>6
  <2>2. Wide(e, c) \in Nat /\ Wide(e, z) \in Nat
    BY <1>1, <1>5, <1>6
  <2> HIDE DEF W, Over
  <2> QED
    BY <1>4, <1>5, <2>1, <2>2
<1> HIDE DEF W
<1>7. CASE at[z] < i
  <2>1. e["right"][z] # at[z]
    BY <1>m, <1>5, <1>7, Numbers
  <2>2. PICK c : Kin(t, at, e, z, "right", c)
    BY <1>5, <2>1, EmptySide, ChildIsKin, SideFacts
  <2>3. Over(c) /\ c \in Nodes
    BY <1>m, <1>5, <1>7, <2>2, Numbers, SideFacts DEF Kin, In
  <2> QED
    BY <1>6, <2>2, <2>3, Narrower
<1>8. CASE at[z] > i
  <2>1. e["left"][z] # at[z]
    BY <1>m, <1>5, <1>8, Numbers
  <2>2. PICK c : Kin(t, at, e, z, "left", c)
    BY <1>5, <2>1, EmptySide, ChildIsKin, SideFacts
  <2>3. Over(c) /\ c \in Nodes
    BY <1>m, <1>5, <1>8, <2>2, Numbers, SideFacts DEF Kin, In
  <2> QED
    BY <1>6, <2>2, <2>3, Narrower
<1>9. at[z] < i \/ at[z] > i
  BY <1>m, <1>5, Numbers
<1> QED
  BY <1>7, <1>8, <1>9

QueueOf(at, M) == [i \in 1 .. M |-> CHOOSE n \in Nodes : at[n] = i]

\* q lists the nodes by their positions.
Lists(q, at, M) ==
  /\ q \in Seq(Nodes) /\ Len(q) = M /\ M \in Nat
  /\ \A i \in 1 .. M : q[i] \in Nodes /\ at[q[i]] = i /\ In(at, q[i])
  /\ \A n : In(at, n) => at[n] \in 1 .. M /\ q[at[n]] = n

\* The nodes by their positions are a sequence of them all.
LEMMA QueueLists ==
  ASSUME NEW t, NEW at, NEW e, NEW M, Shape(t, at, e, M)
  PROVE  Lists(QueueOf(at, M), at, M) /\ M <= Cardinality(Nodes)
<1> DEFINE q == QueueOf(at, M)
<1>1. /\ M \in Nat /\ at \in [Nodes -> Int]
      /\ \A m, n \in Nodes : In(at, m) /\ at[m] = at[n] => m = n
  BY DEF Shape
<1>2. ASSUME NEW i \in 1 .. M PROVE q[i] \in Nodes /\ at[q[i]] = i /\ In(at, q[i])
  <2>1. \E n \in Nodes : at[n] = i
    BY Occupied
  <2>2. q[i] = CHOOSE n \in Nodes : at[n] = i
    BY DEF QueueOf
  <2>3. q[i] \in Nodes /\ at[q[i]] = i
    BY <2>1, <2>2
  <2> QED
    BY <2>3 DEF In
<1>3. q \in [1 .. M -> Nodes] /\ DOMAIN q = 1 .. M
  BY <1>2 DEF QueueOf
<1> HIDE DEF q
<1>4. q \in Seq(Nodes) /\ Len(q) = M
  BY <1>1, <1>3
<1>5. ASSUME NEW n, In(at, n) PROVE at[n] \in 1 .. M /\ q[at[n]] = n
  <2>1. at[n] \in 1 .. M /\ n \in Nodes
    BY <1>5, Numbers
  <2>2. q[at[n]] \in Nodes /\ at[q[at[n]]] = at[n]
    BY <1>2, <2>1
  <2> QED
    BY <1>1, <1>5, <2>1, <2>2
<1>6. Lists(q, at, M)
  BY <1>1, <1>2, <1>4, <1>5 DEF Lists
<1>7. M <= Cardinality(Nodes)
  <2>1. \A i, j \in 1 .. M : q[i] = q[j] => i = j
    BY <1>2
  <2>2. q \in Injection(1 .. M, Nodes)
    BY <1>3, <2>1 DEF Injection, IsInjective
  <2>3. Cardinality(1 .. M) <= Cardinality(Nodes)
    BY <2>2, RbtreeAssumption, FS_Injection
  <2>4. Cardinality(1 .. M) = M
    BY <1>1, FS_Interval
  <2> QED
    BY <2>3, <2>4
<1> QED
  BY <1>6, <1>7 DEF q

\* InOrder is what its definition says: the subtrees of a depth from the ones below.
LEMMA InOrderStepwise ==
  ASSUME NEW t
  PROVE  \E f : /\ InOrder(t) = f[Cardinality(Nodes)][t.root]
                /\ \A d \in 0 .. Cardinality(Nodes), n \in Linked :
                     f[d][n] = IF d = 0 \/ n = Sentinel THEN <<>>
                               ELSE f[d - 1][t.child["left"][n]] \o <<n>>
                                      \o f[d - 1][t.child["right"][n]]
<1> DEFINE N == Cardinality(Nodes)
           Step(f, d) == [n \in Linked |->
             IF d = 0 \/ n = Sentinel THEN <<>>
             ELSE f[d - 1][t.child["left"][n]] \o <<n>> \o f[d - 1][t.child["right"][n]]]
           Flat(f, k) == f = [d \in 0 .. k |-> Step(f, d)]
           S == {k \in 0 .. N : \E f : Flat(f, k)}
<1>n. N \in Nat
  BY RbtreeAssumption, FS_CardinalityType
<1>1. 0 \in S
  <2> DEFINE f == [d \in 0 .. 0 |-> [n \in Linked |-> <<>>]]
  <2>1. \A d \in 0 .. 0 : f[d] = Step(f, d)
    OBVIOUS
  <2>2. f = [d \in 0 .. 0 |-> f[d]]
    OBVIOUS
  <2>3. Flat(f, 0)
    <3> HIDE DEF f, Step
    <3> QED
      BY <2>1, <2>2
  <2> HIDE DEF f, Flat
  <2> QED
    BY <1>n, <2>3
<1>2. ASSUME NEW k \in 0 .. N - 1, k \in S PROVE k + 1 \in S
  <2>k. k \in Nat /\ k <= N - 1 /\ 0 \in 0 .. k /\ k + 1 \in 0 .. N
    BY <1>n
  <2>1. PICK f : Flat(f, k)
    BY <1>2, Zenon
  <2> DEFINE g == [d \in 0 .. k + 1 |-> IF d <= k THEN f[d] ELSE Step(f, d)]
  <2>2. \A d \in 0 .. k : f[d] = Step(f, d) /\ g[d] = f[d]
    <3> HIDE DEF Step
    <3>1. \A d \in 0 .. k : f[d] = Step(f, d)
      BY <2>1, Zenon
    <3>2. \A d \in 0 .. k : d \in 0 .. k + 1 /\ d <= k
      BY <2>k
    <3>3. \A d \in 0 .. k : g[d] = f[d]
      BY <3>2, Zenon
    <3> QED
      BY <3>1, <3>3, Zenon
  <2>3. g[k + 1] = Step(f, k + 1)
    <3> HIDE DEF Step
    <3> QED
      BY <2>k
  <2> HIDE DEF g
  <2>4. ASSUME NEW d \in 0 .. k + 1 PROVE g[d] = Step(g, d)
    <3>1. CASE d = 0
      <4>2. g[0] = Step(f, 0)
        <5> HIDE DEF Step
        <5> QED
          BY <2>2, <2>k, Zenon
      <4>3. Step(f, 0) = Step(g, 0)
        OBVIOUS
      <4> HIDE DEF Step
      <4> QED
        BY <3>1, <4>2, <4>3
    <3>2. CASE d # 0
      <4>1. g[d] = Step(f, d)
        <5> HIDE DEF Step
        <5> QED
          BY <2>2, <2>3, <2>k
      <4>2. d - 1 \in 0 .. k
        BY <2>k, <3>2
      <4>3. f[d - 1] = g[d - 1]
        BY <2>2, <4>2, Zenon
      <4>4. Step(f, d) = Step(g, d)
        BY <4>3
      <4> HIDE DEF Step
      <4> QED
        BY <4>1, <4>4
    <3> QED
      BY <3>1, <3>2, Zenon
  <2>5. Flat(g, k + 1)
    <3>1. g = [d \in 0 .. k + 1 |-> g[d]]
      BY DEF g
    <3> HIDE DEF Step
    <3> QED
      BY <2>4, <3>1
  <2>6. k + 1 \in 0 .. N
    BY <1>n, <2>k
  <2> HIDE DEF Flat
  <2> QED
    BY <2>5, <2>6
<1>3. N \in S
  <2> HIDE DEF S, N
  <2>1. \A k \in 0 .. N : k \in S
    BY <1>n, <1>1, <1>2, IntervalInduction
  <2> QED
    BY <1>n, <2>1
<1> DEFINE flat == CHOOSE f : Flat(f, N)
<1>4. Flat(flat, N)
  <2>1. \E f : Flat(f, N)
    BY <1>3, Zenon
  <2> HIDE DEF Flat
  <2> QED
    BY <2>1
<1>5. InOrder(t) = flat[N][t.root]
  BY DEF InOrder
<1> HIDE DEF flat
<1>6. \A d \in 0 .. N : flat[d] = Step(flat, d)
  <2> HIDE DEF Step, N
  <2> QED
    BY <1>4
<1>7. ASSUME NEW d \in 0 .. N, NEW n \in Linked
      PROVE  flat[d][n] = IF d = 0 \/ n = Sentinel THEN <<>>
                          ELSE flat[d - 1][t.child["left"][n]] \o <<n>>
                                 \o flat[d - 1][t.child["right"][n]]
  BY <1>6, Zenon
<1> QED
  BY <1>5, <1>7

\* The nodes at the positions from a to b.
Slice(q, a, b) == [i \in 1 .. b - a + 1 |-> q[a + i - 1]]

\* What a node covers is what its left child covers, itself, and what its right
\* child covers.
LEMMA JoinedSlices ==
  ASSUME NEW q \in Seq(Nodes), NEW a \in Int, NEW m \in Int, NEW b \in Int,
         1 <= a, a <= m, m <= b, b <= Len(q)
  PROVE  Slice(q, a, m - 1) \o <<q[m]>> \o Slice(q, m + 1, b) = Slice(q, a, b)
<1> DEFINE x == Slice(q, a, m - 1)
           y == Slice(q, m + 1, b)
           z == Slice(q, a, b)
<1>1. x \in Seq(Nodes) /\ Len(x) = m - a /\ \A i \in 1 .. m - a : x[i] = q[a + i - 1]
  BY DEF Slice
<1>2. y \in Seq(Nodes) /\ Len(y) = b - m /\ \A i \in 1 .. b - m : y[i] = q[m + i]
  BY DEF Slice
<1>3. z \in Seq(Nodes) /\ Len(z) = b - a + 1 /\ \A i \in 1 .. b - a + 1 : z[i] = q[a + i - 1]
  BY DEF Slice
<1>4. q[m] \in Nodes
  OBVIOUS
<1> HIDE DEF x, y, z
<1> DEFINE u == x \o <<q[m]>> \o y
<1>5. /\ u \in Seq(Nodes) /\ Len(u) = b - a + 1
      /\ \A i \in 1 .. b - a + 1 :
           u[i] = IF i <= m - a THEN x[i] ELSE IF i = m - a + 1 THEN q[m] ELSE y[i - (m - a + 1)]
  <2> DEFINE c == <<q[m]>>
             v == x \o c
  <2>1. c \in Seq(Nodes) /\ Len(c) = 1 /\ c[1] = q[m]
    BY <1>4
  <2> HIDE DEF c
  <2>2. /\ v \in Seq(Nodes) /\ Len(v) = m - a + 1
        /\ \A i \in 1 .. m - a + 1 : v[i] = IF i <= m - a THEN x[i] ELSE c[i - (m - a)]
    <3>1. /\ v \in Seq(Nodes) /\ Len(v) = Len(x) + Len(c)
          /\ \A i \in 1 .. Len(x) + Len(c) : v[i] = IF i <= Len(x) THEN x[i] ELSE c[i - Len(x)]
      <4>1. x \in Seq(Nodes) /\ c \in Seq(Nodes)
        BY <1>1, <2>1
      <4> QED
        BY <4>1, ConcatProperties, Zenon
    <3>2. Len(x) = m - a /\ Len(x) + Len(c) = m - a + 1
      BY <1>1, <2>1
    <3> HIDE DEF v
    <3> QED
      BY <3>1, <3>2
  <2> HIDE DEF v
  <2>3. /\ v \o y \in Seq(Nodes) /\ Len(v \o y) = m - a + 1 + (b - m)
        /\ \A i \in 1 .. m - a + 1 + (b - m) :
             (v \o y)[i] = IF i <= m - a + 1 THEN v[i] ELSE y[i - (m - a + 1)]
    <3> DEFINE vy == v \o y
    <3>1. /\ vy \in Seq(Nodes) /\ Len(vy) = Len(v) + Len(y)
          /\ \A i \in 1 .. Len(v) + Len(y) : vy[i] = IF i <= Len(v) THEN v[i] ELSE y[i - Len(v)]
      <4>1. v \in Seq(Nodes) /\ y \in Seq(Nodes)
        BY <1>2, <2>2
      <4> QED
        BY <4>1, ConcatProperties, Zenon
    <3>2. Len(v) = m - a + 1 /\ Len(v) + Len(y) = m - a + 1 + (b - m)
      BY <1>2, <2>2
    <3> HIDE DEF vy
    <3>3. /\ vy \in Seq(Nodes) /\ Len(vy) = m - a + 1 + (b - m)
          /\ \A i \in 1 .. m - a + 1 + (b - m) :
               vy[i] = IF i <= m - a + 1 THEN v[i] ELSE y[i - (m - a + 1)]
      BY <3>1, <3>2
    <3> QED
      BY <3>3 DEF vy
  <2>4. u = v \o y /\ m - a + 1 + (b - m) = b - a + 1
    BY DEF u, v, c
  <2> HIDE DEF u
  <2>5. v[m - a + 1] = q[m] /\ \A i \in 1 .. m - a : v[i] = x[i]
    <3>1. m - a + 1 \in 1 .. m - a + 1 /\ ~(m - a + 1 <= m - a) /\ m - a + 1 - (m - a) = 1
      OBVIOUS
    <3>2. v[m - a + 1] = c[1]
      BY <2>2, <3>1
    <3>3. \A i \in 1 .. m - a : i \in 1 .. m - a + 1 /\ i <= m - a
      OBVIOUS
    <3> QED
      BY <2>1, <2>2, <3>2, <3>3
  <2>6. ASSUME NEW i \in 1 .. b - a + 1
        PROVE  u[i] = IF i <= m - a THEN x[i] ELSE IF i = m - a + 1 THEN q[m] ELSE y[i - (m - a + 1)]
    <3>0. u[i] = IF i <= m - a + 1 THEN v[i] ELSE y[i - (m - a + 1)]
      BY <2>3, <2>4
    <3>1. CASE i <= m - a
      <4>1. i \in 1 .. m - a /\ i <= m - a + 1
        BY <3>1
      <4>2. v[i] = x[i]
        BY <2>5, <4>1
      <4> QED
        BY <3>0, <3>1, <4>1, <4>2
    <3>2. CASE i = m - a + 1
      BY <2>5, <3>0, <3>2
    <3>3. CASE i > m - a + 1
      BY <3>0, <3>3
    <3> QED
      BY <3>1, <3>2, <3>3
  <2> QED
    BY <2>3, <2>4, <2>6
<1> HIDE DEF u
<1>6. ASSUME NEW i \in 1 .. b - a + 1 PROVE u[i] = z[i]
  <2>0. z[i] = q[a + i - 1]
    BY <1>3
  <2>1. CASE i <= m - a
    <3>1. i \in 1 .. m - a
      BY <2>1
    <3>2. u[i] = x[i]
      BY <1>5, <2>1
    <3>3. x[i] = q[a + i - 1]
      BY <1>1, <3>1
    <3> QED
      BY <2>0, <3>2, <3>3
  <2>2. CASE i = m - a + 1
    <3>1. a + i - 1 = m /\ ~(i <= m - a)
      BY <2>2
    <3>2. u[i] = q[m]
      BY <1>5, <2>2, <3>1
    <3> QED
      BY <2>0, <3>1, <3>2
  <2>3. CASE i > m - a + 1
    <3>1. i - (m - a + 1) \in 1 .. b - m /\ m + (i - (m - a + 1)) = a + i - 1
      BY <2>3
    <3>2. u[i] = y[i - (m - a + 1)] /\ y[i - (m - a + 1)] = q[m + (i - (m - a + 1))]
      BY <1>2, <1>5, <2>3, <3>1
    <3> QED
      BY <1>3, <3>1, <3>2
  <2> QED
    BY <2>1, <2>2, <2>3
<1>7. u = z
  BY <1>3, <1>5, <1>6
<1> QED
  BY <1>7 DEF u, x, y, z

\* The subtree of a child, in order.
LEMMA ChildSlice ==
  ASSUME NEW t, NEW at, NEW e, NEW M, Shape(t, at, e, M), NEW q \in Seq(Nodes),
         NEW n, In(at, n), NEW s \in Sides, NEW d \in Nat, Wide(e, n) <= d, NEW g,
         g[Sentinel] = <<>>,
         \A c : In(at, c) /\ Wide(e, c) + 1 <= d => g[c] = Slice(q, e["left"][c], e["right"][c])
  PROVE  g[t.child[s][n]] = IF s = "left" THEN Slice(q, e["left"][n], at[n] - 1)
                            ELSE Slice(q, at[n] + 1, e["right"][n])
<1> DEFINE c == t.child[s][n]
<1>1. at[n] \in Int /\ e["left"][n] \in Int /\ e["right"][n] \in Int
  BY Numbers
<1>2. s = "left" \/ s = "right"
  BY DEF Sides
<1>3. \A a, b \in Int : b = a - 1 => Slice(q, a, b) = <<>>
  <2>1. ASSUME NEW a \in Int, NEW b \in Int, b = a - 1 PROVE Slice(q, a, b) = <<>>
    <3>1. b - a + 1 = 0
      BY <2>1
    <3> QED
      BY <3>1 DEF Slice
  <2> QED
    BY <2>1
<1>4. CASE c = Sentinel
  <2>1. e[s][n] = at[n]
    BY <1>4, EmptySide
  <2>2. CASE s = "left"
    <3>1. Slice(q, e["left"][n], at[n] - 1) = <<>>
      <4>1. at[n] - 1 = e["left"][n] - 1 /\ at[n] - 1 \in Int
        BY <1>1, <2>1, <2>2
      <4> QED
        BY <1>1, <1>3, <4>1, Zenon
    <3> QED
      BY <1>4, <2>2, <3>1
  <2>3. CASE s = "right"
    <3>1. Slice(q, at[n] + 1, e["right"][n]) = <<>>
      <4> DEFINE k == at[n] + 1
      <4>1. e["right"][n] = k - 1 /\ k \in Int
        BY <1>1, <2>1, <2>3
      <4> HIDE DEF k
      <4>2. Slice(q, k, e["right"][n]) = <<>>
        BY <1>1, <1>3, <4>1, Zenon
      <4> QED
        BY <4>2 DEF k
    <3> QED
      BY <1>4, <2>3, <3>1
  <2> QED
    BY <1>2, <2>2, <2>3
<1>5. CASE c # Sentinel
  <2>1. Kin(t, at, e, n, s, c)
    BY <1>5, ChildIsKin
  <2> HIDE DEF c
  <2>2. In(at, c) /\ Wide(e, c) + 1 <= d
    <3>1. Wide(e, c) \in Nat /\ Wide(e, n) \in Nat /\ Wide(e, c) < Wide(e, n)
      BY <2>1, Narrower
    <3> QED
      BY <2>1, <3>1 DEF Kin
  <2>3. g[c] = Slice(q, e["left"][c], e["right"][c])
    BY <2>2
  <2>4. e[s][c] = e[s][n] /\ e[Opposite(s)][c] = at[n] + Off(s)
    BY <2>1 DEF Kin
  <2>5. CASE s = "left"
    <3>1. e["left"][c] = e["left"][n] /\ e["right"][c] = at[n] + (-1)
      BY <2>4, <2>5, SideFacts
    <3>2. e["right"][c] = at[n] - 1
      BY <1>1, <3>1
    <3> QED
      BY <2>3, <2>5, <3>1, <3>2 DEF c
  <2>6. CASE s = "right"
    <3>1. e["right"][c] = e["right"][n] /\ e["left"][c] = at[n] + 1 /\ s # "left"
      BY <2>4, <2>6, SideFacts
    <3> QED
      BY <2>3, <2>6, <3>1 DEF c
  <2> QED
    BY <1>2, <2>5, <2>6
<1> QED
  BY <1>4, <1>5

\* The nodes from left to right are the ones by position.
LEMMA InOrderIs ==
  ASSUME NEW t, NEW at, NEW e, NEW M, Shape(t, at, e, M)
  PROVE  InOrder(t) = QueueOf(at, M)
<1> DEFINE N == Cardinality(Nodes)
           q == QueueOf(at, M)
<1>n. N \in Nat
  BY RbtreeAssumption, FS_CardinalityType
<1>q. Lists(q, at, M) /\ M <= N /\ M \in Nat
  BY QueueLists DEF Lists
<1>1. PICK f : /\ InOrder(t) = f[N][t.root]
               /\ \A d \in 0 .. N, n \in Linked :
                    f[d][n] = IF d = 0 \/ n = Sentinel THEN <<>>
                              ELSE f[d - 1][t.child["left"][n]] \o <<n>>
                                     \o f[d - 1][t.child["right"][n]]
  BY InOrderStepwise
<1> DEFINE Listed(d) == \A n : In(at, n) /\ Wide(e, n) + 1 <= d =>
                          f[d][n] = Slice(q, e["left"][n], e["right"][n])
           G == {d \in 0 .. N : Listed(d)}
<1>2. \A d \in 0 .. N : f[d][Sentinel] = <<>>
  BY <1>1 DEF Linked
<1>3. 0 \in G
  <2>1. ASSUME NEW n, In(at, n) PROVE ~(Wide(e, n) + 1 <= 0)
    BY <2>1, Numbers DEF Wide
  <2> QED
    BY <1>n, <2>1
<1>4. ASSUME NEW d \in 0 .. N - 1, d \in G PROVE d + 1 \in G
  <2>1. d \in Nat /\ d + 1 \in 0 .. N /\ d \in 0 .. N /\ d + 1 # 0 /\ d + 1 - 1 = d
    BY <1>n
  <2>2. Listed(d)
    BY <1>4, Zenon
  <2>3. ASSUME NEW n, In(at, n), Wide(e, n) + 1 <= d + 1
        PROVE  f[d + 1][n] = Slice(q, e["left"][n], e["right"][n])
    <3>1. Wide(e, n) <= d
      BY <2>1, <2>3, Numbers DEF Wide
    <3>2. n \in Linked /\ n # Sentinel
      BY <2>3, Numbers
    <3>3. f[d + 1][n] = f[d][t.child["left"][n]] \o <<n>> \o f[d][t.child["right"][n]]
      <4> DEFINE k == d + 1
      <4>1. k \in 0 .. N /\ k # 0 /\ k - 1 = d
        BY <2>1
      <4> HIDE DEF k
      <4>2. f[k][n] = f[k - 1][t.child["left"][n]] \o <<n>> \o f[k - 1][t.child["right"][n]]
        BY <1>1, <3>2, <4>1, Zenon
      <4> QED
        BY <4>1, <4>2, Zenon DEF k
    <3> DEFINE g == f[d]
    <3>4. \A c : In(at, c) /\ Wide(e, c) + 1 <= d => g[c] = Slice(q, e["left"][c], e["right"][c])
      BY <2>2
    <3>5. g[Sentinel] = <<>>
      BY <1>2, <2>1
    <3> HIDE DEF g, q
    <3>s. q \in Seq(Nodes)
      BY <1>q DEF Lists
    <3>6. \A s \in Sides : g[t.child[s][n]] = IF s = "left" THEN Slice(q, e["left"][n], at[n] - 1)
                                             ELSE Slice(q, at[n] + 1, e["right"][n])
      BY <2>1, <2>3, <3>1, <3>4, <3>5, <3>s, ChildSlice
    <3>7. /\ g[t.child["left"][n]] = Slice(q, e["left"][n], at[n] - 1)
          /\ g[t.child["right"][n]] = Slice(q, at[n] + 1, e["right"][n])
      BY <3>6 DEF Sides
    <3>8. q[at[n]] = n
      BY <1>q, <2>3 DEF Lists
    <3>9. Slice(q, e["left"][n], at[n] - 1) \o <<q[at[n]]>> \o Slice(q, at[n] + 1, e["right"][n])
            = Slice(q, e["left"][n], e["right"][n])
      <4>1. /\ at[n] \in Int /\ e["left"][n] \in Int /\ e["right"][n] \in Int
            /\ 1 <= e["left"][n] /\ e["left"][n] <= at[n] /\ at[n] <= e["right"][n]
            /\ e["right"][n] <= Len(q)
        BY <1>q, <2>3, Numbers DEF Lists
      <4> QED
        BY <3>s, <4>1, JoinedSlices
    <3> QED
      BY <3>3, <3>7, <3>8, <3>9 DEF g
  <2> QED
    BY <2>1, <2>3
<1>5. Listed(N)
  <2> HIDE DEF N, Listed
  <2>1. \A d \in 0 .. N : d \in G
    <3> HIDE DEF G
    <3> QED
      BY <1>n, <1>3, <1>4, IntervalInduction
  <2> QED
    BY <1>n, <2>1
<1>6. q \in Seq(Nodes) /\ Len(q) = M
  BY <1>q DEF Lists
<1>7. CASE M = 0
  <2>1. t.root = Sentinel
    BY <1>7 DEF Shape
  <2>2. InOrder(t) = <<>>
    BY <1>1, <1>2, <1>n, <2>1
  <2> HIDE DEF q
  <2>3. q = <<>>
    BY <1>6, <1>7
  <2> QED
    BY <2>2, <2>3 DEF q
<1>8. CASE M # 0
  <2>1. In(at, t.root) /\ e["left"][t.root] = 1 /\ e["right"][t.root] = M
    BY <1>8 DEF Shape
  <2>2. Wide(e, t.root) + 1 <= N
    BY <1>n, <1>q, <2>1 DEF Wide
  <2>3. f[N][t.root] = Slice(q, 1, M)
    BY <1>5, <2>1, <2>2
  <2> HIDE DEF q
  <2>4. Slice(q, 1, M) = q
    <3>1. M - 1 + 1 = M /\ \A i \in 1 .. M : 1 + i - 1 = i
      BY <1>q
    <3>2. Slice(q, 1, M) = [i \in 1 .. M |-> q[i]]
      BY <3>1 DEF Slice
    <3> QED
      BY <1>6, <3>2
  <2> QED
    BY <1>1, <2>3, <2>4 DEF q
<1> QED
  BY <1>7, <1>8

\* The nodes that InOrder finds are those with a position.
LEMMA InTreeIs ==
  ASSUME NEW t, NEW at, NEW e, NEW M, Shape(t, at, e, M)
  PROVE  \A n : n \in InTree(t) <=> In(at, n)
<1> DEFINE q == QueueOf(at, M)
<1>1. Lists(q, at, M)
  BY QueueLists
<1>2. InTree(t) = Range(q)
  BY InOrderIs DEF InTree
<1> HIDE DEF q
<1>3. DOMAIN q = 1 .. M
  BY <1>1 DEF Lists
<1>4. \A n : n \in Range(q) <=> \E i \in 1 .. M : n = q[i]
  BY <1>3 DEF Range
<1> QED
  BY <1>1, <1>2, <1>4 DEF Lists

\* BlackHeight is what its definition says: the heights at a depth from the ones below.
LEMMA HeightStepwise ==
  ASSUME NEW t
  PROVE  \E f : /\ BlackHeight(t) = [n \in InTree(t) \cup {Sentinel} |-> f[Cardinality(Nodes)][n]]
                /\ \A d \in 0 .. Cardinality(Nodes), n \in Linked :
                     f[d][n] = IF d = 0 \/ n = Sentinel THEN 0
                               ELSE (IF is_black(t, n) THEN 1 ELSE 0) + f[d - 1][t.child["left"][n]]
                                 + Missing(t, n, "left")
<1> DEFINE N == Cardinality(Nodes)
           Step(f, d) == [n \in Linked |->
             IF d = 0 \/ n = Sentinel THEN 0
             ELSE (IF is_black(t, n) THEN 1 ELSE 0) + f[d - 1][t.child["left"][n]]
               + Missing(t, n, "left")]
           Flat(f, k) == f = [d \in 0 .. k |-> Step(f, d)]
           S == {k \in 0 .. N : \E f : Flat(f, k)}
<1>n. N \in Nat
  BY RbtreeAssumption, FS_CardinalityType
<1>1. 0 \in S
  <2> DEFINE f == [d \in 0 .. 0 |-> [n \in Linked |-> 0]]
  <2>1. \A d \in 0 .. 0 : f[d] = Step(f, d)
    OBVIOUS
  <2>2. f = [d \in 0 .. 0 |-> f[d]]
    OBVIOUS
  <2>3. Flat(f, 0)
    <3> HIDE DEF f, Step
    <3> QED
      BY <2>1, <2>2
  <2> HIDE DEF f, Flat
  <2> QED
    BY <1>n, <2>3
<1>2. ASSUME NEW k \in 0 .. N - 1, k \in S PROVE k + 1 \in S
  <2>k. k \in Nat /\ k <= N - 1 /\ 0 \in 0 .. k /\ k + 1 \in 0 .. N
    BY <1>n
  <2>1. PICK f : Flat(f, k)
    BY <1>2
  <2> DEFINE g == [d \in 0 .. k + 1 |-> IF d <= k THEN f[d] ELSE Step(f, d)]
  <2>2. \A d \in 0 .. k : f[d] = Step(f, d) /\ g[d] = f[d]
    <3> HIDE DEF Step
    <3>1. \A d \in 0 .. k : f[d] = Step(f, d)
      BY <2>1, Zenon
    <3>2. \A d \in 0 .. k : d \in 0 .. k + 1 /\ d <= k
      BY <2>k
    <3>3. \A d \in 0 .. k : g[d] = f[d]
      BY <3>2, Zenon
    <3> QED
      BY <3>1, <3>3, Zenon
  <2>3. g[k + 1] = Step(f, k + 1)
    <3> HIDE DEF Step
    <3> QED
      BY <2>k
  <2> HIDE DEF g
  <2>4. ASSUME NEW d \in 0 .. k + 1 PROVE g[d] = Step(g, d)
    <3>1. CASE d = 0
      <4>2. g[0] = Step(f, 0)
        <5> HIDE DEF Step
        <5> QED
          BY <2>2, <2>k, Zenon
      <4>3. Step(f, 0) = Step(g, 0)
        OBVIOUS
      <4> HIDE DEF Step
      <4> QED
        BY <3>1, <4>2, <4>3
    <3>2. CASE d # 0
      <4>1. g[d] = Step(f, d)
        <5> HIDE DEF Step
        <5> QED
          BY <2>2, <2>3, <2>k
      <4>2. d - 1 \in 0 .. k
        BY <2>k, <3>2
      <4>3. f[d - 1] = g[d - 1]
        BY <2>2, <4>2, Zenon
      <4>4. Step(f, d) = Step(g, d)
        BY <4>3
      <4> HIDE DEF Step
      <4> QED
        BY <4>1, <4>4
    <3> QED
      BY <3>1, <3>2
  <2>5. Flat(g, k + 1)
    <3>1. g = [d \in 0 .. k + 1 |-> g[d]]
      BY DEF g
    <3> HIDE DEF Step
    <3> QED
      BY <2>4, <3>1
  <2>6. k + 1 \in 0 .. N
    BY <1>n, <2>k
  <2> HIDE DEF Flat
  <2> QED
    BY <2>5, <2>6
<1>3. N \in S
  <2> HIDE DEF S, N
  <2>1. \A k \in 0 .. N : k \in S
    BY <1>n, <1>1, <1>2, IntervalInduction
  <2> QED
    BY <1>n, <2>1
<1> DEFINE flat == CHOOSE f : Flat(f, N)
<1>4. Flat(flat, N)
  <2>1. \E f : Flat(f, N)
    BY <1>3
  <2> HIDE DEF Flat
  <2> QED
    BY <2>1
<1>5. BlackHeight(t) = [n \in InTree(t) \cup {Sentinel} |-> flat[N][n]]
  BY DEF BlackHeight
<1> HIDE DEF flat
<1>6. \A d \in 0 .. N : flat[d] = Step(flat, d)
  <2> HIDE DEF Step, N
  <2> QED
    BY <1>4
<1>7. ASSUME NEW d \in 0 .. N, NEW n \in Linked
      PROVE  flat[d][n] = IF d = 0 \/ n = Sentinel THEN 0
                          ELSE (IF is_black(t, n) THEN 1 ELSE 0) + flat[d - 1][t.child["left"][n]]
                            + Missing(t, n, "left")
  BY <1>6
<1> QED
  BY <1>5, <1>7

\* Where RedBlack counts a black node that is missing.
LEMMA MissingIs ==
  ASSUME NEW at, NEW e, NEW M, NEW h, Sound(tree, at, e, M, h, phase, cur),
         NEW n, In(at, n), NEW s \in Sides
  PROVE  Missing(tree, n, s) = Lack(tree, phase, cur, n, s)
<1>1. CASE phase # "delete"
  BY <1>1 DEF Missing, Lack
<1>2. CASE phase = "delete"
  <2>1. /\ Shape(tree, at, e, M) /\ Leaves(tree, h) /\ Current(tree, at, "delete", cur)
        /\ Sound(tree, at, e, M, h, "delete", cur)
    BY <1>2 DEF Sound, Rules
  <2>2. In(at, tree.root) /\ tree.root # Sentinel
    BY <2>1, RbtreeAssumption DEF Current, In
  <2>3. cur = Sentinel \/ In(at, cur)
    BY <2>1 DEF Current
  <2>4. tree.child[s][n] = cur /\ cur # Sentinel =>
          Kin(tree, at, e, n, s, cur)
    BY <2>1, ChildIsKin
  <2>5. CASE cur = tree.root
    <3>1. ~(tree.child[s][n] = cur)
      BY <2>2, <2>4, <2>5 DEF Kin
    <3> QED
      BY <2>5, <3>1 DEF Missing, Lack
  <2>6. CASE cur # tree.root /\ cur # Sentinel
    <3>1. Kin(tree, at, e, tree.parent[cur], SideOf(tree, cur), cur)
      BY <2>1, <2>3, <2>6, ParentIsKin
    <3>2. tree.child[s][n] = cur /\ tree.parent[cur] = n <=> n = tree.parent[cur] /\ s = SideOf(tree, cur)
      BY <2>4, <2>6, <3>1 DEF Kin
    <3> QED
      BY <1>2, <2>6, <3>2 DEF Missing, Lack
  <2>7. CASE cur = Sentinel
    <3> DEFINE P == tree.parent[cur]
               u == SideOf(tree, cur)
               w == tree.child[Opposite(u)][P]
    <3>1. tree.color[cur] # RED
      BY <2>1, <2>7, RedIs DEF Leaves
    <3>2. DeleteNear(tree, at, e, h, cur, P, w, u)
      BY <2>1, <2>2, <2>7, <3>1, DeleteRound
    <3>3. tree.child[u][P] = cur /\ tree.child[Opposite(u)][P] # Sentinel /\ u \in Sides
      BY <3>2, Zenon DEF DeleteNear, Kin
    <3> HIDE DEF P, u
    <3>4. tree.child[s][P] = cur <=> s = u
      BY <2>7, <3>3, SideFacts
    <3> QED
      BY <1>2, <2>2, <2>7, <3>4 DEF Missing, Lack, P, u
  <2> QED
    BY <2>5, <2>6, <2>7
<1> QED
  BY <1>1, <1>2

\* The heights of RedBlack are the ones of the rules.
LEMMA HeightIs ==
  ASSUME NEW at, NEW e, NEW M, NEW h, Sound(tree, at, e, M, h, phase, cur)
  PROVE  \A n : In(at, n) \/ n = Sentinel => BlackHeight(tree)[n] = h[n]
<1> DEFINE N == Cardinality(Nodes)
<1>n. N \in Nat
  BY RbtreeAssumption, FS_CardinalityType
<1>s. Shape(tree, at, e, M) /\ h \in [Linked -> Nat] /\ Leaves(tree, h)
      /\ \A n \in Nodes : In(at, n) => Ruled(tree, h, phase, cur, n)
  BY DEF Sound, Rules
<1>q. M <= N /\ M \in Nat
  BY <1>s, QueueLists, Zenon DEF Shape
<1>1. PICK f :
        /\ BlackHeight(tree) = [n \in InTree(tree) \cup {Sentinel} |-> f[N][n]]
        /\ \A d \in 0 .. N, n \in Linked :
             f[d][n] = IF d = 0 \/ n = Sentinel THEN 0
                       ELSE (IF is_black(tree, n) THEN 1 ELSE 0) + f[d - 1][tree.child["left"][n]]
                              + Missing(tree, n, "left")
  BY HeightStepwise
<1> DEFINE Right(d) == \A n : In(at, n) /\ Wide(e, n) + 1 <= d => f[d][n] = h[n]
           G == {d \in 0 .. N : Right(d)}
<1>2. \A d \in 0 .. N : f[d][Sentinel] = 0
  BY <1>1 DEF Linked
<1>3. 0 \in G
  <2>1. ASSUME NEW n, In(at, n) PROVE ~(Wide(e, n) + 1 <= 0)
    BY <1>s, <2>1, Numbers DEF Wide
  <2> QED
    BY <1>n, <2>1
<1>4. ASSUME NEW d \in 0 .. N - 1, d \in G PROVE d + 1 \in G
  <2>1. d \in Nat /\ d + 1 \in 0 .. N /\ d \in 0 .. N /\ d + 1 # 0 /\ d + 1 - 1 = d
    BY <1>n
  <2>2. Right(d)
    BY <1>4
  <2>3. ASSUME NEW n, In(at, n), Wide(e, n) + 1 <= d + 1 PROVE f[d + 1][n] = h[n]
    <3> DEFINE c == tree.child["left"][n]
    <3>1. n \in Linked /\ n # Sentinel /\ n \in Nodes /\ Wide(e, n) <= d
      BY <1>s, <2>1, <2>3, Numbers DEF Wide
    <3>2. f[d + 1][n] = Weight(tree, n) + f[d][c] + Missing(tree, n, "left")
      <4> DEFINE k == d + 1
      <4>1. k \in 0 .. N /\ k # 0 /\ k - 1 = d
        BY <2>1
      <4> HIDE DEF k
      <4>2. f[k][n] = (IF is_black(tree, n) THEN 1 ELSE 0) + f[k - 1][c] + Missing(tree, n, "left")
        BY <1>1, <3>1, <4>1, Zenon
      <4> QED
        BY <4>1, <4>2 DEF k, Weight
    <3>3. f[d][c] = h[c]
      <4>1. CASE c = Sentinel
        BY <1>2, <1>s, <2>1, <4>1 DEF Leaves
      <4>2. CASE c # Sentinel
        <5>1. Kin(tree, at, e, n, "left", c)
          BY <1>s, <2>3, <4>2, ChildIsKin, SideFacts
        <5> HIDE DEF c
        <5>2. Wide(e, c) \in Nat /\ Wide(e, n) \in Nat /\ Wide(e, c) < Wide(e, n)
          BY <1>s, <5>1, Narrower
        <5>3. In(at, c) /\ Wide(e, c) + 1 <= d
          BY <2>1, <3>1, <5>1, <5>2 DEF Kin
        <5> QED
          BY <2>2, <5>3
      <4> QED
        BY <4>1, <4>2
    <3>4. Missing(tree, n, "left") = Lack(tree, phase, cur, n, "left")
      BY <2>3, MissingIs, SideFacts
    <3>5. h[n] = Weight(tree, n) + h[c] + Lack(tree, phase, cur, n, "left")
      BY <1>s, <2>3, <3>1, SideFacts DEF Ruled
    <3> QED
      BY <3>2, <3>3, <3>4, <3>5
  <2> QED
    BY <2>1, <2>3
<1>5. Right(N)
  <2> HIDE DEF N, Right
  <2>1. \A d \in 0 .. N : d \in G
    <3> HIDE DEF G
    <3> QED
      BY <1>n, <1>3, <1>4, IntervalInduction
  <2> QED
    BY <1>n, <2>1
<1>6. ASSUME NEW n, In(at, n) PROVE f[N][n] = h[n]
  <2>1. Wide(e, n) + 1 <= N
    BY <1>n, <1>q, <1>s, <1>6, Numbers DEF Wide
  <2> QED
    BY <1>5, <1>6, <2>1
<1>7. f[N][Sentinel] = h[Sentinel]
  BY <1>2, <1>n, <1>s DEF Leaves
<1> QED
  BY <1>1, <1>6, <1>7, <1>s, InTreeIs

-----------------------------------------------------------------------------
(* What a sound tree gives                                                 *)

\* A sound tree has its parent links.
LEMMA HoldsLinks ==
  ASSUME NEW at, NEW M, Holds(at, M)
  PROVE  ParentLinks
<1>1. PICK e, h : Sound(tree, at, e, M, h, phase, cur)
  BY DEF Holds
<1>2. Shape(tree, at, e, M) /\ \A n \in Nodes : In(at, n) => Ruled(tree, h, phase, cur, n)
  BY <1>1 DEF Sound, Rules
<1>3. \A n : n \in InTree(tree) <=> In(at, n)
  BY <1>2, InTreeIs
<1>4. ASSUME NEW n, In(at, n) PROVE tree.color[n] \in {RED, BLACK}
  BY <1>2, <1>4 DEF Ruled, In
<1>5. ASSUME NEW n, In(at, n), NEW s \in Sides, tree.child[s][n] # Sentinel
      PROVE  In(at, tree.child[s][n]) /\ tree.parent[tree.child[s][n]] = n
  BY <1>2, <1>5, ChildIsKin DEF Kin
<1> QED
  BY <1>3, <1>4, <1>5 DEF ParentLinks

\* A sound tree keeps the red-black rules.
LEMMA HoldsRedBlack ==
  ASSUME NEW at, NEW M, Holds(at, M)
  PROVE  RedBlack
<1>1. PICK e, h : Sound(tree, at, e, M, h, phase, cur)
  BY DEF Holds
<1>2. /\ Shape(tree, at, e, M) /\ h \in [Linked -> Nat]
      /\ \A n \in Nodes : In(at, n) => Ruled(tree, h, phase, cur, n)
      /\ In(at, tree.root) /\ tree.root # cur => is_black(tree, tree.root)
  BY <1>1 DEF Sound, Rules
<1>3. \A n : n \in InTree(tree) <=> In(at, n)
  BY <1>2, InTreeIs
<1>4. ASSUME NEW n, In(at, n), n = tree.root, n # cur PROVE is_black(tree, n)
  BY <1>2, <1>4
<1>5. ASSUME NEW n, In(at, n), NEW s \in Sides,
             is_red(tree, n), is_red(tree, tree.child[s][n])
      PROVE  \/ phase = "insert" /\ tree.child[s][n] = cur
             \/ phase = "delete" /\ cur \in {n, tree.child[s][n]}
  <2>1. Excused(phase, cur, n, tree.child[s][n])
    BY <1>2, <1>5 DEF Ruled, In
  <2> QED
    BY <2>1 DEF Excused
<1>6. ASSUME NEW n, In(at, n)
      PROVE  BlackHeight(tree)[tree.child["left"][n]] + Missing(tree, n, "left") =
               BlackHeight(tree)[tree.child["right"][n]] + Missing(tree, n, "right")
  <2>1. ASSUME NEW s \in Sides
        PROVE  /\ BlackHeight(tree)[tree.child[s][n]] = h[tree.child[s][n]]
               /\ Missing(tree, n, s) = Lack(tree, phase, cur, n, s)
               /\ h[n] = Weight(tree, n) + h[tree.child[s][n]] + Lack(tree, phase, cur, n, s)
               /\ h[tree.child[s][n]] \in Nat /\ Lack(tree, phase, cur, n, s) \in Nat
    <3> DEFINE c == tree.child[s][n]
    <3>1. c = Sentinel \/ In(at, c)
      BY <1>2, <1>6, ChildIsKin DEF Kin
    <3>2. c \in Linked
      BY <3>1 DEF In, Linked
    <3> HIDE DEF c
    <3>3. BlackHeight(tree)[c] = h[c]
      BY <1>1, <3>1, HeightIs
    <3>4. Missing(tree, n, s) = Lack(tree, phase, cur, n, s)
      BY <1>1, <1>6, MissingIs
    <3>5. h[n] = Weight(tree, n) + h[c] + Lack(tree, phase, cur, n, s)
      BY <1>2, <1>6 DEF Ruled, In, c
    <3>6. h[c] \in Nat /\ Lack(tree, phase, cur, n, s) \in Nat
      BY <1>2, <3>2 DEF Lack
    <3> QED
      BY <3>3, <3>4, <3>5, <3>6 DEF c
  <2>2. Weight(tree, n) \in Nat
    BY DEF Weight
  <2> DEFINE l == tree.child["left"][n]
             r == tree.child["right"][n]
  <2>3. /\ BlackHeight(tree)[l] = h[l] /\ BlackHeight(tree)[r] = h[r]
        /\ Missing(tree, n, "left") = Lack(tree, phase, cur, n, "left")
        /\ Missing(tree, n, "right") = Lack(tree, phase, cur, n, "right")
        /\ h[n] = Weight(tree, n) + h[l] + Lack(tree, phase, cur, n, "left")
        /\ h[n] = Weight(tree, n) + h[r] + Lack(tree, phase, cur, n, "right")
        /\ h[l] \in Nat /\ Lack(tree, phase, cur, n, "left") \in Nat
        /\ h[r] \in Nat /\ Lack(tree, phase, cur, n, "right") \in Nat
    BY <2>1, SideFacts, Zenon
  <2> HIDE DEF l, r
  <2>4. h[l] + Lack(tree, phase, cur, n, "left") = h[r] + Lack(tree, phase, cur, n, "right")
    BY <2>2, <2>3
  <2>5. BlackHeight(tree)[l] + Missing(tree, n, "left") = BlackHeight(tree)[r] + Missing(tree, n, "right")
    BY <2>3, <2>4
  <2> QED
    BY <2>5 DEF l, r
<1> HIDE DEF RedBlack
<1>7. \A n \in InTree(tree) :
        /\ n = tree.root /\ n # cur => is_black(tree, n)
        /\ \A s \in Sides :
             is_red(tree, n) /\ is_red(tree, tree.child[s][n]) =>
               \/ phase = "insert" /\ tree.child[s][n] = cur
               \/ phase = "delete" /\ cur \in {n, tree.child[s][n]}
        /\ BlackHeight(tree)[tree.child["left"][n]] + Missing(tree, n, "left") =
             BlackHeight(tree)[tree.child["right"][n]] + Missing(tree, n, "right")
  BY <1>3, <1>4, <1>5, <1>6
<1> QED
  BY <1>7, Zenon DEF RedBlack

\* The loops of a sound tree follow no link that leads nowhere.
LEMMA HoldsDefined ==
  ASSUME NEW at, NEW M, Holds(at, M)
  PROVE  FixupDefined
<1>1. PICK e, h : Sound(tree, at, e, M, h, phase, cur)
  BY DEF Holds
<1>2. Shape(tree, at, e, M) /\ Leaves(tree, h) /\ Current(tree, at, phase, cur)
  BY <1>1 DEF Sound, Rules
<1>3. \A n : n \in InTree(tree) <=> In(at, n)
  BY <1>2, InTreeIs
<1>4. is_black(tree, Sentinel) /\ \A s \in Sides : tree.child[s][Sentinel] = NULL
  BY <1>2, RedIs DEF Leaves
<1>5. phase = "insert" => cur \in InTree(tree)
  BY <1>2, <1>3 DEF Current
<1>6. ASSUME phase = "insert", InsertFixupNeeded PROVE tree.parent[cur] # tree.root
  <2>1. cur # tree.root /\ is_red(tree, tree.parent[cur]) /\ Sound(tree, at, e, M, h, "insert", cur)
    BY <1>1, <1>6 DEF InsertFixupNeeded
  <2>2. InsertNear(tree, at, e, cur, tree.parent[cur], tree.parent[tree.parent[cur]],
                   SideOf(tree, tree.parent[cur]), SideOf(tree, cur))
    BY <2>1, InsertRound
  <2> QED
    BY <2>2 DEF InsertNear
<1>7. ASSUME phase = "delete", DeleteFixupNeeded
      PROVE  /\ tree.parent[cur] \in InTree(tree)
             /\ tree.child[Opposite(SideOf(tree, cur))][tree.parent[cur]] \in InTree(tree)
  <2>1. cur # tree.root /\ tree.color[cur] # RED /\ Sound(tree, at, e, M, h, "delete", cur)
    BY <1>1, <1>7 DEF DeleteFixupNeeded, is_black, is_red
  <2>2. DeleteNear(tree, at, e, h, cur, tree.parent[cur],
                   tree.child[Opposite(SideOf(tree, cur))][tree.parent[cur]], SideOf(tree, cur))
    BY <2>1, DeleteRound
  <2> QED
    BY <1>3, <2>2, Zenon DEF DeleteNear, Kin
<1> QED
  BY <1>4, <1>5, <1>6, <1>7 DEF FixupDefined

-----------------------------------------------------------------------------
(* Walks down the tree                                                     *)

\* The walk from a node of P, which cannot leave P, ends at one of its nodes
\* above a leaf.
LEMMA FollowEnds ==
  ASSUME NEW t, NEW at, NEW e, NEW M, Shape(t, at, e, M),
         NEW P, \A n \in P : In(at, n), NEW node \in P, NEW dir,
         \A n \in P : dir[n] \in Sides /\ t.child[dir[n]][n] \in P \cup {Sentinel}
  PROVE  /\ Follow(t, node, dir) \in P
         /\ t.child[dir[Follow(t, node, dir)]][Follow(t, node, dir)] = Sentinel
<1> DEFINE N == Cardinality(Nodes)
           V == P \cup {Sentinel}
           step == [x \in V |-> IF x = Sentinel THEN Sentinel ELSE t.child[dir[x]][x]]
           Walk(f) == f = [i \in 0 .. N |-> IF i = 0 THEN node
                                            ELSE IF f[i - 1] = Sentinel THEN Sentinel
                                            ELSE t.child[dir[f[i - 1]]][f[i - 1]]]
           met == CHOOSE f : Walk(f)
           Last(i) == met[i] # Sentinel /\ (i + 1 \in DOMAIN met => met[i + 1] = Sentinel)
<1>n. N \in Nat /\ M \in Nat /\ M <= N
  BY RbtreeAssumption, FS_CardinalityType, QueueLists DEF Shape
<1>p. Sentinel \notin P
  BY RbtreeAssumption DEF In
<1>1. \E f : Walk(f)
  <2>1. node \in V /\ step \in [V -> V]
    <3>1. \A x \in V : x # Sentinel => t.child[dir[x]][x] \in V
      OBVIOUS
    <3> HIDE DEF V
    <3>2. Sentinel \in V /\ node \in V
      BY DEF V
    <3> QED
      BY <3>1, <3>2
  <2> DEFINE d == Iteration(V, node, step, N)
  <2>2. d \in [0 .. N -> V] /\ d[0] = node /\ \A n \in 1 .. N : d[n] = step[d[n - 1]]
    <3> HIDE DEF V, step, N
    <3>1. Iterated(d, V, node, step, N)
      BY <1>n, <2>1, Iterates
    <3> HIDE DEF d
    <3> QED
      BY <3>1 DEF Iterated
  <2> HIDE DEF d
  <2>3. ASSUME NEW i \in 0 .. N
        PROVE  d[i] = IF i = 0 THEN node ELSE IF d[i - 1] = Sentinel THEN Sentinel
                      ELSE t.child[dir[d[i - 1]]][d[i - 1]]
    <3>1. CASE i = 0
      BY <2>2, <3>1
    <3>2. CASE i # 0
      <4>1. i \in 1 .. N /\ i - 1 \in 0 .. N
        BY <1>n, <3>2
      <4>2. d[i] = step[d[i - 1]] /\ d[i - 1] \in V
        <5> HIDE DEF V, step
        <5> QED
          BY <2>2, <4>1
      <4>3. step[d[i - 1]] = IF d[i - 1] = Sentinel THEN Sentinel ELSE t.child[dir[d[i - 1]]][d[i - 1]]
        <5> HIDE DEF V
        <5> QED
          BY <4>2
      <4> HIDE DEF step, V
      <4> QED
        BY <3>2, <4>2, <4>3
    <3> QED
      BY <3>1, <3>2
  <2>4. Walk(d)
    <3>1. d = [i \in 0 .. N |-> d[i]]
      BY <2>2
    <3> HIDE DEF V, step, N
    <3> QED
      BY <2>3, <3>1
  <2> HIDE DEF Walk
  <2> QED
    BY <2>4
<1>2. Walk(met)
  <2> HIDE DEF Walk
  <2> QED
    BY <1>1
<1>3. Follow(t, node, dir) = met[CHOOSE i \in DOMAIN met : Last(i)]
  BY DEF Follow
<1> HIDE DEF met
<1>4. /\ DOMAIN met = 0 .. N
      /\ \A i \in 0 .. N : met[i] = IF i = 0 THEN node
                                    ELSE IF met[i - 1] = Sentinel THEN Sentinel
                                    ELSE t.child[dir[met[i - 1]]][met[i - 1]]
  <2> HIDE DEF N
  <2> QED
    BY <1>2, Zenon
<1>5. met[0] = node
  BY <1>4, <1>n
<1>6. \A i \in 0 .. N - 1 :
        met[i + 1] = IF met[i] = Sentinel THEN Sentinel ELSE t.child[dir[met[i]]][met[i]]
  <2>1. ASSUME NEW i \in 0 .. N - 1
        PROVE  met[i + 1] = IF met[i] = Sentinel THEN Sentinel ELSE t.child[dir[met[i]]][met[i]]
    <3> DEFINE k == i + 1
    <3>1. k \in 0 .. N /\ k # 0 /\ k - 1 = i
      BY <1>n
    <3> HIDE DEF k
    <3>2. met[k] = IF met[i] = Sentinel THEN Sentinel ELSE t.child[dir[met[i]]][met[i]]
      BY <1>4, <3>1, Zenon
    <3> QED
      BY <3>2 DEF k
  <2> QED
    BY <2>1
\* Each step goes to a smaller subtree of P.
<1> DEFINE Going(i) == met[i] = Sentinel \/ (met[i] \in P /\ Wide(e, met[i]) + i <= M - 1)
           G == {i \in 0 .. N : Going(i)}
<1>7. Going(0)
  <2>1. In(at, node)
    OBVIOUS
  <2>2. Wide(e, node) + 0 <= M - 1
    BY <1>n, <2>1, Numbers DEF Wide
  <2> QED
    BY <1>5, <2>2
<1>8. ASSUME NEW i \in 0 .. N - 1, i \in G PROVE i + 1 \in G
  <2>1. Going(i) /\ i + 1 \in 0 .. N /\ i \in Nat
    BY <1>n, <1>8
  <2>2. CASE met[i] = Sentinel
    BY <1>6, <2>1, <2>2
  <2>3. CASE met[i] # Sentinel
    <3> DEFINE n == met[i]
               c == t.child[dir[n]][n]
    <3>1. n \in P /\ Wide(e, n) + i <= M - 1 /\ met[i + 1] = c
      BY <1>6, <2>1, <2>3
    <3> HIDE DEF n
    <3>2. In(at, n) /\ dir[n] \in Sides /\ (c \in P \/ c = Sentinel)
      BY <3>1
    <3>3. c = Sentinel \/ Kin(t, at, e, n, dir[n], c)
      BY <3>2, ChildIsKin
    <3> HIDE DEF c
    <3>4. ASSUME Kin(t, at, e, n, dir[n], c) PROVE Wide(e, c) + (i + 1) <= M - 1
      <4>1. Wide(e, c) \in Nat /\ Wide(e, n) \in Nat /\ Wide(e, c) < Wide(e, n)
        BY <3>4, Narrower
      <4> QED
        BY <1>n, <2>1, <3>1, <4>1
    <3>5. Going(i + 1)
      BY <3>1, <3>2, <3>3, <3>4
    <3> QED
      BY <2>1, <3>5
  <2> QED
    BY <2>2, <2>3
<1>9. \A i \in 0 .. N : Going(i)
  <2>1. 0 \in G
    BY <1>n, <1>7
  <2> HIDE DEF N, Going
  <2>2. \A i \in 0 .. N : i \in G
    <3> HIDE DEF G
    <3> QED
      BY <1>n, <1>8, <2>1, IntervalInduction
  <2> QED
    BY <2>2
<1>10. met[N] = Sentinel
  <2>1. ASSUME met[N] \in P, Wide(e, met[N]) + N <= M - 1 PROVE FALSE
    <3>1. In(at, met[N])
      BY <2>1
    <3>2. Wide(e, met[N]) \in Int /\ 0 <= Wide(e, met[N])
      BY <3>1, Numbers DEF Wide
    <3> QED
      BY <1>n, <2>1, <3>2
  <2>2. N \in 0 .. N
    BY <1>n
  <2> HIDE DEF N
  <2> QED
    BY <1>9, <2>1, <2>2
<1>11. \E i \in 0 .. N : Last(i)
  <2> DEFINE S == {i \in 0 .. N : met[i] = Sentinel}
  <2>1. S \in SUBSET Nat /\ S # {}
    BY <1>n, <1>10
  <2>2. PICK x \in S : \A y \in S : x <= y
    <3> HIDE DEF S
    <3> QED
      BY <2>1, LeastNumber
  <2>3. x # 0
    BY <1>5, <1>p, <2>2
  <2>4. x - 1 \in 0 .. N /\ ~(x <= x - 1) /\ x - 1 + 1 = x
    BY <1>n, <2>2, <2>3
  <2>5. met[x - 1] # Sentinel
    BY <2>2, <2>4
  <2>6. Last(x - 1)
    BY <2>2, <2>4, <2>5
  <2> HIDE DEF Last
  <2> QED
    BY <2>4, <2>6
<1> DEFINE i == CHOOSE i \in DOMAIN met : Last(i)
<1>12. i \in 0 .. N /\ Last(i)
  <2> HIDE DEF Last
  <2> QED
    BY <1>4, <1>11
<1>13. Follow(t, node, dir) = met[i]
  BY <1>3
<1> HIDE DEF i
<1>14. i # N
  BY <1>10, <1>12
<1>15. i \in 0 .. N - 1 /\ i + 1 \in 0 .. N
  BY <1>n, <1>12, <1>14
<1>16. met[i] # Sentinel /\ met[i + 1] = Sentinel
  BY <1>4, <1>12, <1>15
<1>17. met[i] \in P /\ met[i + 1] = t.child[dir[met[i]]][met[i]]
  BY <1>6, <1>9, <1>12, <1>15, <1>16
<1> QED
  BY <1>13, <1>16, <1>17

\* rbtree_node_min finds the first position of what a node covers.
LEMMA LeastOf ==
  ASSUME NEW t, NEW at, NEW e, NEW M, Shape(t, at, e, M), NEW node, In(at, node)
  PROVE  LET r == rbtree_node_min(t, node)
         IN  In(at, r) /\ t.child["left"][r] = Sentinel /\ at[r] = e["left"][node]
<1> DEFINE dir == [n \in Nodes |-> "left"]
           P == {n \in Nodes : In(at, n) /\ e["left"][n] = e["left"][node]}
           r == rbtree_node_min(t, node)
<1>1. node \in P /\ \A n \in P : In(at, n)
  BY DEF In
<1>2. ASSUME NEW n \in P PROVE dir[n] \in Sides /\ t.child[dir[n]][n] \in P \cup {Sentinel}
  <2>1. dir[n] = "left" /\ "left" \in Sides /\ In(at, n)
    BY SideFacts
  <2> DEFINE c == t.child["left"][n]
  <2>2. c = Sentinel \/ Kin(t, at, e, n, "left", c)
    BY <2>1, ChildIsKin
  <2> HIDE DEF c
  <2>3. Kin(t, at, e, n, "left", c) => c \in P
    BY DEF Kin, In
  <2> HIDE DEF dir, P
  <2>4. t.child[dir[n]][n] = c
    BY <2>1 DEF c
  <2> QED
    BY <2>1, <2>2, <2>3, <2>4
<1>3. r = Follow(t, node, dir)
  BY DEF rbtree_node_min
<1> HIDE DEF r
<1>4. r \in P /\ t.child[dir[r]][r] = Sentinel
  <2> HIDE DEF P, dir
  <2> QED
    BY <1>1, <1>2, <1>3, FollowEnds
<1>5. In(at, r) /\ t.child["left"][r] = Sentinel /\ e["left"][r] = e["left"][node]
  BY <1>4
<1>6. e["left"][r] = at[r]
  BY <1>5, EmptySide, SideFacts
<1> QED
  BY <1>5, <1>6 DEF r

\* The keys never fall along the positions.
Ordered(t, at) ==
  /\ \A n : In(at, n) => t.key[n] = Key[n]
  /\ \A m, n : In(at, m) /\ In(at, n) /\ at[m] < at[n] => Key[m] <= Key[n]

\* A node of the key of node or a smaller one comes before position p, others do not.
Divided(at, node, p) == \A m : In(at, m) => (at[m] < p <=> Key[m] <= Key[node])

\* The node an insert hangs the new one under, and the side.
Found(t, at, node, temp, s, p) ==
  /\ In(at, temp) /\ s = Side(t, node, temp) /\ s \in Sides /\ t.child[s][temp] = Sentinel
  /\ p = IF s = "left" THEN at[temp] ELSE at[temp] + 1
  /\ Divided(at, node, p)

\* The search of nc_rbtree_insert ends at a free link behind the nodes of its key.
LEMMA SearchFinds ==
  ASSUME NEW t, NEW at, NEW e, NEW M, Shape(t, at, e, M), t.root # Sentinel, Ordered(t, at),
         NEW node \in Nodes, NEW temp,
         temp = Follow(t, t.root, [n \in Nodes |-> Side(t, node, n)])
  PROVE  \E s, p : Found(t, at, node, temp, s, p)
<1> DEFINE dir == [n \in Nodes |-> Side(t, node, n)]
           Around(n) == \A m : In(at, m) =>
                          /\ at[m] < e["left"][n] => Key[m] <= Key[node]
                          /\ at[m] > e["right"][n] => Key[node] < Key[m]
           P == {n \in Nodes : In(at, n) /\ Around(n)}
<1>1. /\ In(at, t.root) /\ e["left"][t.root] = 1 /\ e["right"][t.root] = M
      /\ \A m, n \in Nodes : In(at, m) /\ at[m] = at[n] => m = n
  BY DEF Shape
<1>2. \A n : In(at, n) =>
        /\ n \in Nodes /\ at[n] \in Int /\ 1 <= at[n] /\ at[n] <= M /\ M \in Nat
        /\ e["left"][n] \in Int /\ e["right"][n] \in Int
  BY Numbers
<1>k. Key[node] \in Int /\ \A n : In(at, n) => Key[n] \in Int /\ t.key[n] = Key[n]
  BY RbtreeAssumption DEF Ordered, In
\* What the comparison at a node says of all nodes on one side of it.
<1>3. ASSUME NEW n, In(at, n), NEW m, In(at, m)
      PROVE  /\ Side(t, node, n) = "left" /\ at[m] >= at[n] => Key[node] < Key[m]
             /\ Side(t, node, n) = "right" /\ at[m] <= at[n] => Key[m] <= Key[node]
             /\ Side(t, node, n) \in {"left", "right"}
  <2>1. /\ at[m] = at[n] => m = n
        /\ at[m] < at[n] => Key[m] <= Key[n]
        /\ at[n] < at[m] => Key[n] <= Key[m]
    BY <1>1, <1>3 DEF Ordered, In
  <2>2. Side(t, node, n) = IF Key[node] < Key[n] THEN "left" ELSE "right"
    BY <1>3, <1>k DEF Side
  <2>3. /\ at[m] \in Int /\ at[n] \in Int /\ Key[node] \in Int /\ Key[n] \in Int /\ Key[m] \in Int
    BY <1>2, <1>3, <1>k
  <2>4. at[m] >= at[n] => Key[n] <= Key[m]
    BY <2>1, <2>3
  <2>5. at[m] <= at[n] => Key[m] <= Key[n]
    BY <2>1, <2>3
  <2> QED
    BY <2>2, <2>3, <2>4, <2>5
<1>4. t.root \in P /\ \A n \in P : In(at, n)
  <2>1. Around(t.root)
    BY <1>1, <1>2
  <2> HIDE DEF Around
  <2> QED
    BY <1>1, <1>2, <2>1
<1>5. ASSUME NEW n \in P PROVE dir[n] \in Sides /\ t.child[dir[n]][n] \in P \cup {Sentinel}
  <2> DEFINE s == Side(t, node, n)
             c == t.child[s][n]
  <2>1. In(at, n) /\ Around(n) /\ dir[n] = s
    BY <1>5
  <2>2. s \in Sides /\ (s = "left" \/ s = "right")
    BY <1>3, <2>1 DEF Sides
  <2>3. ASSUME Kin(t, at, e, n, s, c) PROVE c \in P
    <3>1. /\ In(at, c) /\ e[s][c] = e[s][n] /\ e[Opposite(s)][c] = at[n] + Off(s)
      BY <2>3 DEF Kin
    <3>n. at[n] \in Int /\ c \in Nodes
      BY <1>2, <2>1, <3>1
    <3> HIDE DEF c
    <3>2. CASE s = "left"
      <4>1. e["left"][c] = e["left"][n] /\ e["right"][c] = at[n] - 1
        <5>1. e["right"][c] = at[n] + (-1) /\ e["left"][c] = e["left"][n]
          BY <3>1, <3>2, SideFacts
        <5> QED
          BY <3>n, <5>1
      <4>2. ASSUME NEW m, In(at, m), at[m] > e["right"][c] PROVE Key[node] < Key[m]
        <5>1. at[m] \in Int /\ at[m] >= at[n]
          BY <1>2, <3>n, <4>1, <4>2
        <5> QED
          BY <1>3, <2>1, <3>2, <4>2, <5>1
      <4>3. ASSUME NEW m, In(at, m), at[m] < e["left"][c] PROVE Key[m] <= Key[node]
        BY <2>1, <4>1, <4>3, Zenon
      <4>4. Around(c)
        BY <4>2, <4>3, Zenon
      <4> HIDE DEF Around
      <4> QED
        BY <3>1, <3>n, <4>4
    <3>3. CASE s = "right"
      <4>1. e["right"][c] = e["right"][n] /\ e["left"][c] = at[n] + 1
        BY <3>1, <3>3, SideFacts
      <4>2. ASSUME NEW m, In(at, m), at[m] < e["left"][c] PROVE Key[m] <= Key[node]
        <5>1. at[m] \in Int /\ at[m] <= at[n]
          BY <1>2, <3>n, <4>1, <4>2
        <5> QED
          BY <1>3, <2>1, <3>3, <4>2, <5>1
      <4>3. Around(c)
        BY <2>1, <4>1, <4>2
      <4> HIDE DEF Around
      <4> QED
        BY <3>1, <3>n, <4>3
    <3> QED
      BY <2>2, <3>2, <3>3
  <2>4. c = Sentinel \/ Kin(t, at, e, n, s, c)
    <3>1. In(at, n) /\ s \in Sides
      BY <2>1, <2>2
    <3> HIDE DEF s, Around, P
    <3> QED
      BY <3>1, ChildIsKin
  <2>5. t.child[dir[n]][n] = c
    BY <2>1
  <2> HIDE DEF P, dir, c, s
  <2> QED
    BY <2>1, <2>2, <2>3, <2>4, <2>5
<1>6. temp \in P /\ t.child[dir[temp]][temp] = Sentinel
  <2> HIDE DEF P
  <2>1. temp = Follow(t, t.root, dir)
    OBVIOUS
  <2> HIDE DEF dir
  <2> QED
    <3> DEFINE r == Follow(t, t.root, dir)
    <3>1. r \in P /\ t.child[dir[r]][r] = Sentinel
      BY <1>4, <1>5, FollowEnds
    <3> QED
      BY <2>1, <3>1
<1> DEFINE s == Side(t, node, temp)
           p == IF s = "left" THEN at[temp] ELSE at[temp] + 1
<1>7. In(at, temp) /\ Around(temp) /\ t.child[s][temp] = Sentinel
  BY <1>6
<1>8. s \in Sides /\ (s = "left" \/ s = "right")
  BY <1>3, <1>7 DEF Sides
<1>9. e[s][temp] = at[temp]
  <2> HIDE DEF Around, s
  <2> QED
    BY <1>7, <1>8, EmptySide
<1>10. ASSUME NEW m, In(at, m) PROVE at[m] < p <=> Key[m] <= Key[node]
  <2>1. at[m] \in Int /\ at[temp] \in Int /\ Key[m] \in Int /\ Key[node] \in Int
    BY <1>2, <1>7, <1>10, <1>k
  <2>2. /\ at[m] < e["left"][temp] => Key[m] <= Key[node]
        /\ at[m] > e["right"][temp] => Key[node] < Key[m]
    BY <1>7, <1>10, Zenon
  <2>3. /\ s = "left" /\ at[m] >= at[temp] => Key[node] < Key[m]
        /\ s = "right" /\ at[m] <= at[temp] => Key[m] <= Key[node]
    BY <1>3, <1>7, <1>10
  <2> HIDE DEF s
  <2>4. CASE s = "left"
    BY <1>9, <2>1, <2>2, <2>3, <2>4
  <2>5. CASE s = "right"
    BY <1>9, <2>1, <2>2, <2>3, <2>5
  <2> QED
    BY <1>8, <2>4, <2>5
<1>11. Divided(at, node, p)
  <2> HIDE DEF p
  <2> QED
    BY <1>10 DEF Divided
<1>12. Found(t, at, node, temp, s, p)
  <2> HIDE DEF Around
  <2> QED
    BY <1>7, <1>8, <1>11 DEF Found
<1> QED
  BY <1>12

-----------------------------------------------------------------------------
(* The steps of the calls                                                  *)

\* The order of the keys stays with a node that comes in at its place.
LEMMA OpenedOrdered ==
  ASSUME NEW t, NEW at \in [Nodes -> Int], Ordered(t, at), \A n : In(at, n) => at[n] >= 1,
         NEW node \in Nodes, ~In(at, node), NEW p \in Nat, p # 0, Divided(at, node, p),
         NEW r, r.key[node] = Key[node], \A n : In(at, n) => r.key[n] = t.key[n]
  PROVE  Ordered(r, OpenedAt(at, node, p))
<1> DEFINE a == OpenedAt(at, node, p)
<1>1. \A n : In(a, n) <=> (n = node \/ In(at, n))
  BY OpenedIn
<1>2. a[node] = p /\ \A n : In(at, n) => a[n] = IF at[n] >= p THEN at[n] + 1 ELSE at[n]
  BY DEF OpenedAt, In
<1> HIDE DEF a
<1>3. \A n : In(at, n) => n \in Nodes /\ at[n] \in Int /\ Key[n] \in Int /\ n # node
  BY RbtreeAssumption DEF In
<1>4. Key[node] \in Int
  BY RbtreeAssumption
<1>5. ASSUME NEW n, In(a, n) PROVE r.key[n] = Key[n]
  BY <1>1, <1>5 DEF Ordered
<1>6. ASSUME NEW m, NEW n, In(a, m), In(a, n), a[m] < a[n] PROVE Key[m] <= Key[n]
  <2>1. CASE In(at, m) /\ In(at, n)
    <3>1. at[m] \in Int /\ at[n] \in Int
      BY <1>3, <2>1
    <3>2. at[m] < at[n]
      BY <1>2, <1>6, <2>1, <3>1
    <3> QED
      BY <2>1, <3>2 DEF Ordered
  <2>2. CASE m = node /\ In(at, n)
    <3>1. at[n] \in Int /\ Key[n] \in Int
      BY <1>3, <2>2
    <3>2. ~(at[n] < p)
      BY <1>2, <1>6, <2>2, <3>1
    <3>3. ~(Key[n] <= Key[node])
      BY <2>2, <3>2 DEF Divided
    <3> QED
      BY <1>4, <2>2, <3>1, <3>3
  <2>3. CASE n = node /\ In(at, m)
    <3>1. at[m] \in Int
      BY <1>3, <2>3
    <3>2. at[m] < p
      BY <1>2, <1>6, <2>3, <3>1
    <3> QED
      BY <2>3, <3>2 DEF Divided
  <2>4. ~(m = node /\ n = node)
    BY <1>2, <1>6
  <2> QED
    BY <1>1, <1>6, <2>1, <2>2, <2>3, <2>4
<1>7. Ordered(r, a)
  BY <1>5, <1>6 DEF Ordered
<1> QED
  BY <1>7 DEF a

\* And without one that goes.
LEMMA ClosedOrdered ==
  ASSUME NEW t, NEW at, NEW e, NEW M, Shape(t, at, e, M), Ordered(t, at), NEW gone, In(at, gone),
         NEW r, \A n \in Linked : n # gone => r.key[n] = t.key[n]
  PROVE  Ordered(r, ClosedAt(at, gone))
<1> DEFINE a == ClosedAt(at, gone)
<1>1. \A n : In(a, n) <=> (n # gone /\ In(at, n))
  BY ClosedIn
<1>2. \A n : n # gone /\ In(at, n) => a[n] = IF at[n] > at[gone] THEN at[n] - 1 ELSE at[n]
  BY DEF ClosedAt, In
<1> HIDE DEF a
<1>3. /\ \A n : In(at, n) => n \in Linked /\ n \in Nodes /\ at[n] \in Int
      /\ \A m, n \in Nodes : In(at, m) /\ at[m] = at[n] => m = n
  <2>1. \A n : In(at, n) => n \in Linked /\ n \in Nodes /\ at[n] \in Int
    BY Numbers
  <2>2. \A m, n \in Nodes : In(at, m) /\ at[m] = at[n] => m = n
    BY DEF Shape
  <2> QED
    BY <2>1, <2>2
<1>4. ASSUME NEW n, In(a, n) PROVE r.key[n] = Key[n]
  BY <1>1, <1>3, <1>4 DEF Ordered
<1>5. ASSUME NEW m, NEW n, In(a, m), In(a, n), a[m] < a[n] PROVE Key[m] <= Key[n]
  <2>1. m # gone /\ In(at, m) /\ n # gone /\ In(at, n)
    BY <1>1, <1>5
  <2>2. at[m] \in Int /\ at[n] \in Int /\ at[gone] \in Int
    BY <1>3, <2>1
  <2>3. at[m] # at[gone] /\ at[n] # at[gone]
    BY <1>3, <2>1
  <2>4. /\ a[m] = IF at[m] > at[gone] THEN at[m] - 1 ELSE at[m]
        /\ a[n] = IF at[n] > at[gone] THEN at[n] - 1 ELSE at[n]
    BY <1>2, <2>1
  <2>5. at[m] < at[n]
    BY <1>5, <2>2, <2>3, <2>4
  <2> QED
    BY <2>1, <2>5 DEF Ordered
<1>6. Ordered(r, a)
  BY <1>4, <1>5 DEF Ordered
<1> QED
  BY <1>6 DEF a

\* A node comes in at position p, behind the ones of its key.
Entered(at, M, node, p) ==
  /\ ~In(at, node) /\ node \in Nodes /\ p \in 1 .. M + 1 /\ Divided(at, node, p)
  /\ Holds(OpenedAt(at, node, p), M + 1)' /\ Ordered(tree, OpenedAt(at, node, p))'

\* The whole of nc_rbtree_insert up to its loop.
LEMMA InsertStep ==
  ASSUME NEW at, NEW M, Holds(at, M), Ordered(tree, at), NEW node \in Nodes, nc_rbtree_insert(node)
  PROVE  \E p : Entered(at, M, node, p)
<1>1. PICK e, h : Sound(tree, at, e, M, h, phase, cur)
  BY DEF Holds
<1>2. phase = "idle" /\ cur = NULL
  BY <1>1 DEF nc_rbtree_insert, Sound, Rules, Current
<1>3. /\ tree \in Trees /\ Shape(tree, at, e, M) /\ Sound(tree, at, e, M, h, "idle", NULL)
      /\ at \in [Nodes -> Int] /\ M \in Nat
  BY <1>1, <1>2 DEF Sound, Shape
<1>4. ~In(at, node)
  BY <1>3, InTreeIs DEF nc_rbtree_insert
<1>5. \A n : In(at, n) => at[n] >= 1 /\ n \in Linked
  BY <1>3, Numbers
<1>6. CASE tree.root = Sentinel
  <2> DEFINE r == [Leaf(tree, node, NULL, BLACK) EXCEPT !.root = node]
             a == OpenedAt(at, node, 1)
  <2>1. tree' = r /\ phase' = "idle" /\ cur' = NULL
    BY <1>2, <1>6 DEF nc_rbtree_insert
  <2> HIDE DEF r, a
  <2>2. M = 0 /\ r.key[node] = Key[node] /\ \E f, g : Sound(r, a, f, M + 1, g, "idle", NULL)
    BY <1>3, <1>6, FirstSound DEF r, a
  <2>3. \A n : ~In(at, n)
    BY <1>3, <2>2, Numbers
  <2>4. Divided(at, node, 1)
    BY <2>3 DEF Divided
  <2>5. Ordered(r, a)
    <3>1. \A n : In(at, n) => r.key[n] = tree.key[n]
      BY <2>3
    <3>2. 1 \in Nat /\ 1 # 0
      OBVIOUS
    <3> QED
      BY <1>3, <1>4, <1>5, <2>2, <2>4, <3>1, <3>2, OpenedOrdered DEF a
  <2>6. Holds(a, M + 1)'
    BY <2>1, <2>2 DEF Holds
  <2>7. Ordered(tree, a)'
    BY <2>1, <2>5
  <2>8. 1 \in 1 .. M + 1
    BY <1>3
  <2>9. Entered(at, M, node, 1)
    BY <1>4, <2>4, <2>6, <2>7, <2>8 DEF Entered, a
  <2> QED
    BY <2>9
<1>7. CASE tree.root # Sentinel
  <2> DEFINE temp == Follow(tree, tree.root, [n \in Nodes |-> Side(tree, node, n)])
  <2>1. /\ tree' = [Leaf(tree, node, temp, RED) EXCEPT !.child[Side(tree, node, temp)][temp] = node]
        /\ phase' = "insert" /\ cur' = node
    BY <1>7 DEF nc_rbtree_insert
  <2>2. PICK s, p : Found(tree, at, node, temp, s, p)
    BY <1>3, <1>7, SearchFinds
  <2> HIDE DEF temp
  <2> DEFINE r == [Leaf(tree, node, temp, RED) EXCEPT !.child[s][temp] = node]
             a == OpenedAt(at, node, p)
  <2>3. /\ In(at, temp) /\ s \in Sides /\ tree.child[s][temp] = Sentinel
        /\ p = IF s = "left" THEN at[temp] ELSE at[temp] + 1
        /\ Divided(at, node, p) /\ tree' = r
    BY <2>1, <2>2 DEF Found
  <2>4. temp \in Nodes /\ temp # node /\ at[temp] \in Int /\ 1 <= at[temp] /\ at[temp] <= M
    BY <1>3, <1>4, <2>3, Numbers
  <2>5. Attached(r, tree, node, temp, s)
    BY <1>3, <2>3, <2>4, LeafFields
  <2> HIDE DEF r, a
  <2>6. \E f, g : Sound(r, a, f, M + 1, g, "insert", node)
    BY <1>3, <1>4, <2>3, <2>5, AttachSound DEF a
  <2>7. p \in 1 .. M + 1 /\ p \in Nat /\ p # 0
    BY <1>3, <2>3, <2>4
  <2>8. r.key[node] = Key[node] /\ \A n : In(at, n) => r.key[n] = tree.key[n]
    <3>1. node \in Linked
      BY DEF Linked
    <3> QED
      BY <1>4, <1>5, <2>5, <3>1 DEF Attached
  <2>9. Ordered(r, a)
    BY <1>3, <1>4, <1>5, <2>3, <2>7, <2>8, OpenedOrdered DEF a
  <2>10. Holds(a, M + 1)'
    BY <2>1, <2>3, <2>6 DEF Holds
  <2>11. Ordered(tree, a)'
    BY <2>3, <2>9
  <2>12. Entered(at, M, node, p)
    BY <1>4, <2>3, <2>7, <2>10, <2>11 DEF Entered, a
  <2> QED
    BY <2>12
<1> QED
  BY <1>6, <1>7

\* The node with two children makes room for the next one in order.
LEMMA NextOf ==
  ASSUME NEW t, NEW at, NEW e, NEW M, Shape(t, at, e, M), NEW node, In(at, node),
         \A s \in Sides : t.child[s][node] # Sentinel,
         NEW subst, subst = rbtree_node_min(t, t.child["right"][node])
  PROVE  /\ In(at, subst) /\ at[subst] = at[node] + 1 /\ subst # t.root
         /\ t.child["left"][subst] = Sentinel
<1> DEFINE x == t.child["right"][node]
<1>1. Kin(t, at, e, node, "right", x)
  BY ChildIsKin, SideFacts
<1> HIDE DEF x
<1>2. In(at, x) /\ e["left"][x] = at[node] + 1
  BY <1>1, SideFacts DEF Kin
<1>3. In(at, subst) /\ t.child["left"][subst] = Sentinel /\ at[subst] = e["left"][x]
  <2>1. subst = rbtree_node_min(t, x)
    BY DEF x
  <2> QED
    BY <1>2, <2>1, LeastOf
<1>4. subst # t.root
  <2>1. ASSUME subst = t.root PROVE FALSE
    <3>1. M # 0 /\ at[node] \in Int /\ 1 <= at[node]
      BY Numbers
    <3>2. e["left"][subst] = 1
      BY <2>1, <3>1 DEF Shape
    <3>3. e["left"][subst] = at[subst]
      BY <1>3, EmptySide, SideFacts
    <3> QED
      BY <1>2, <1>3, <3>1, <3>2, <3>3
  <2> QED
    BY <2>1
<1> QED
  BY <1>2, <1>3, <1>4

\* A node goes from its position.
Left(at, M, node) ==
  /\ In(at, node)
  /\ Holds(ClosedAt(at, node), M - 1)' /\ Ordered(tree, ClosedAt(at, node))'

\* The whole of nc_rbtree_delete up to its loop.
LEMMA DeleteStep ==
  ASSUME NEW at, NEW M, Holds(at, M), Ordered(tree, at), NEW node \in Nodes, nc_rbtree_delete(node)
  PROVE  Left(at, M, node)
<1> DEFINE subst == Substitute(tree, node)
           temp == OnlyChild(tree, subst)
           a == ClosedAt(at, node)
<1>1. PICK e, h : Sound(tree, at, e, M, h, phase, cur)
  BY DEF Holds
<1>2. phase = "idle" /\ cur = NULL
  BY <1>1 DEF nc_rbtree_delete, Sound, Rules, Current
<1>3. Shape(tree, at, e, M) /\ Sound(tree, at, e, M, h, "idle", NULL)
  BY <1>1, <1>2 DEF Sound
<1>4. In(at, node)
  BY <1>3, InTreeIs DEF nc_rbtree_delete
<1>5. IF subst = tree.root
        THEN /\ tree' = DropRoot(tree, node, temp) /\ UNCHANGED <<phase, cur>>
        ELSE /\ tree' = nc_rbtree_node_init(Unlink(tree, node, subst, temp), node)
             /\ IF LosesBlack(tree, subst) THEN phase' = "delete" /\ cur' = temp
                ELSE UNCHANGED <<phase, cur>>
  BY DEF nc_rbtree_delete
<1>6. LosesBlack(tree, subst) <=> tree.color[subst] # RED
  BY DEF LosesBlack, is_black, is_red
<1> HIDE DEF a
\* It is enough that the tree is sound again and the other nodes have their keys.
<1>7. ASSUME \E f, g : Sound(tree', a, f, M - 1, g, phase', cur'),
             \A n \in Linked : n # node => tree'.key[n] = tree.key[n]
      PROVE  Left(at, M, node)
  <2>1. Holds(a, M - 1)'
    BY <1>7 DEF Holds
  <2>2. Ordered(tree', a)
    BY <1>3, <1>4, <1>7, ClosedOrdered DEF a
  <2>3. Ordered(tree, a)'
    BY <2>2
  <2> QED
    BY <1>4, <2>1, <2>3 DEF Left, a
<1>8. CASE \E s \in Sides : tree.child[s][node] = Sentinel
  <2>1. subst = node
    BY <1>8 DEF Substitute
  <2>2. PICK v \in Sides : tree.child[Opposite(v)][node] = Sentinel /\ temp = tree.child[v][node]
    <3>1. CASE tree.child["left"][node] = Sentinel
      <4>1. temp = tree.child["right"][node]
        BY <2>1, <3>1 DEF OnlyChild
      <4> HIDE DEF temp
      <4> QED
        BY <3>1, <4>1, SideFacts
    <3>2. CASE tree.child["left"][node] # Sentinel
      <4>1. temp = tree.child["left"][node]
        BY <2>1, <3>2 DEF OnlyChild
      <4>2. tree.child["right"][node] = Sentinel
        BY <1>8, <3>2 DEF Sides
      <4> HIDE DEF temp
      <4> QED
        BY <4>1, <4>2, SideFacts
    <3> QED
      BY <3>1, <3>2
  <2> HIDE DEF subst, temp
  <2>3. CASE node = tree.root
    <3>1. tree' = DropRoot(tree, node, temp) /\ phase' = "idle" /\ cur' = NULL
      BY <1>2, <1>5, <2>1, <2>3
    <3>2. /\ \E f, g : Sound(DropRoot(tree, node, temp), a, f, M - 1, g, "idle", NULL)
          /\ \A n \in Linked : n # node => DropRoot(tree, node, temp).key[n] = tree.key[n]
      BY <1>3, <1>4, <2>2, <2>3, DropRootSound DEF a
    <3> QED
      BY <1>7, <3>1, <3>2
  <2>4. CASE node # tree.root
    <3> DEFINE r == nc_rbtree_node_init(Unlink(tree, node, node, temp), node)
    <3>1. tree' = r
      BY <1>5, <2>1, <2>4
    <3>2. IF tree.color[node] = RED THEN phase' = "idle" /\ cur' = NULL
                                   ELSE phase' = "delete" /\ cur' = temp
      BY <1>2, <1>5, <1>6, <2>1, <2>4
    <3>3. /\ \E f, g : Sound(r, a, f, M - 1, g, phase', cur')
          /\ \A n \in Linked : n # node => r.key[n] = tree.key[n]
      BY <1>3, <1>4, <2>2, <2>4, <3>2, UnlinkSelfSound DEF a
    <3> QED
      BY <1>7, <3>1, <3>3
  <2> QED
    BY <2>3, <2>4
<1>9. CASE \A s \in Sides : tree.child[s][node] # Sentinel
  <2>1. subst = rbtree_node_min(tree, tree.child["right"][node])
    BY <1>9 DEF Substitute
  <2>2. /\ In(at, subst) /\ at[subst] = at[node] + 1 /\ subst # tree.root
        /\ tree.child["left"][subst] = Sentinel
    <3> HIDE DEF subst
    <3> QED
      BY <1>3, <1>4, <1>9, <2>1, NextOf
  <2>3. temp = tree.child["right"][subst]
    BY <2>2 DEF OnlyChild
  <2> HIDE DEF subst, temp
  <2> DEFINE r == nc_rbtree_node_init(Unlink(tree, node, subst, temp), node)
  <2>4. tree' = r
    BY <1>5, <2>2
  <2>5. IF tree.color[subst] = RED THEN phase' = "idle" /\ cur' = NULL
                                  ELSE phase' = "delete" /\ cur' = temp
    BY <1>2, <1>5, <1>6, <2>2
  <2>6. /\ \E f, g : Sound(r, a, f, M - 1, g, phase', cur')
        /\ \A n \in Linked : n # node => r.key[n] = tree.key[n]
    BY <1>3, <1>4, <2>2, <2>3, <2>5, UnlinkNextSound, SMTT(30) DEF a
  <2> QED
    BY <1>7, <2>4, <2>6
<1> QED
  BY <1>8, <1>9

-----------------------------------------------------------------------------
(* The queue that the tree is                                              *)

\* Sequences with the same elements are the same.
LEMMA SameSeq ==
  ASSUME NEW S, NEW s \in Seq(S), NEW t \in Seq(S), Len(s) = Len(t),
         \A j \in 1 .. Len(s) : s[j] = t[j]
  PROVE  s = t
OBVIOUS

\* The part of a sequence.
LEMMA PartOf ==
  ASSUME NEW S, NEW s \in Seq(S), NEW a \in Nat, NEW b \in Nat, 1 <= a, a <= b + 1, b <= Len(s)
  PROVE  /\ SubSeq(s, a, b) \in Seq(S) /\ Len(SubSeq(s, a, b)) = b - a + 1
         /\ \A j \in 1 .. b - a + 1 : SubSeq(s, a, b)[j] = s[a + j - 1]
OBVIOUS

\* u is s with x at place p.
Longer(u, s, p, x) ==
  /\ p \in 1 .. Len(s) + 1 /\ Len(u) = Len(s) + 1
  /\ \A j \in 1 .. Len(s) + 1 : u[j] = IF j < p THEN s[j] ELSE IF j = p THEN x ELSE s[j - 1]

\* InsertAt makes the sequence with x at place p.
LEMMA InsertAtIs ==
  ASSUME NEW S, NEW s \in Seq(S), NEW x \in S, NEW p, NEW u \in Seq(S), Longer(u, s, p, x)
  PROVE  Queue!InsertAt(s, p, x) = u
<1> DEFINE l == SubSeq(s, 1, p - 1)
           c == <<x>>
           r == SubSeq(s, p, Len(s))
           m == l \o c
           v == m \o r
           L == Len(s)
<1>u. /\ p \in 1 .. Len(s) + 1 /\ Len(u) = Len(s) + 1
      /\ \A j \in 1 .. Len(s) + 1 : u[j] = IF j < p THEN s[j] ELSE IF j = p THEN x ELSE s[j - 1]
  BY DEF Longer
<1>n. L \in Nat /\ p \in Nat /\ 1 <= p /\ p <= L + 1 /\ p - 1 \in Nat
  BY <1>u
<1>1. l \in Seq(S) /\ Len(l) = p - 1 /\ \A j \in 1 .. p - 1 : l[j] = s[j]
  <2> DEFINE b == p - 1
  <2>1. b \in Nat /\ 1 <= b + 1 /\ b <= L /\ b - 1 + 1 = b /\ 1 \in Nat /\ \A j \in 1 .. b : 1 + j - 1 = j
    BY <1>n
  <2> HIDE DEF b
  <2>2. /\ SubSeq(s, 1, b) \in Seq(S) /\ Len(SubSeq(s, 1, b)) = b - 1 + 1
        /\ \A j \in 1 .. b - 1 + 1 : SubSeq(s, 1, b)[j] = s[1 + j - 1]
    BY <2>1, PartOf
  <2>3. /\ SubSeq(s, 1, b) \in Seq(S) /\ Len(SubSeq(s, 1, b)) = b
        /\ \A j \in 1 .. b : SubSeq(s, 1, b)[j] = s[j]
    <3> HIDE DEF L
    <3> QED
      BY <2>1, <2>2
  <2> QED
    BY <2>3 DEF b
<1>2. r \in Seq(S) /\ Len(r) = L - p + 1 /\ \A j \in 1 .. L - p + 1 : r[j] = s[p + j - 1]
  BY <1>n, PartOf
<1>3. c \in Seq(S) /\ Len(c) = 1 /\ c[1] = x
  OBVIOUS
<1>4. Queue!InsertAt(s, p, x) = v
  BY DEF Queue!InsertAt
<1> HIDE DEF l, r, c
<1>5. /\ m \in Seq(S) /\ Len(m) = Len(l) + Len(c)
      /\ \A j \in 1 .. Len(l) + Len(c) : m[j] = IF j <= Len(l) THEN l[j] ELSE c[j - Len(l)]
  BY <1>1, <1>3, ConcatProperties, Zenon
<1> HIDE DEF m
<1>6. /\ v \in Seq(S) /\ Len(v) = Len(m) + Len(r)
      /\ \A j \in 1 .. Len(m) + Len(r) : v[j] = IF j <= Len(m) THEN m[j] ELSE r[j - Len(m)]
  <2>1. m \in Seq(S) /\ r \in Seq(S)
    BY <1>2, <1>5
  <2> QED
    BY <2>1, ConcatProperties, Zenon
<1> HIDE DEF v
<1>L. Len(s) = L
  OBVIOUS
<1> HIDE DEF L
<1>7. Len(l) = p - 1 /\ Len(c) = 1 /\ Len(m) = p /\ Len(r) = L - p + 1 /\ Len(m) + Len(r) = L + 1
  BY <1>n, <1>1, <1>2, <1>3, <1>5
<1>8. \A j \in 1 .. p : m[j] = IF j <= p - 1 THEN l[j] ELSE c[j - (p - 1)]
  <2>1. Len(l) + Len(c) = p
    BY <1>n, <1>7
  <2> QED
    BY <1>5, <1>7, <2>1
<1>9. \A j \in 1 .. L + 1 : v[j] = IF j <= p THEN m[j] ELSE r[j - p]
  BY <1>6, <1>7
<1>10. ASSUME NEW j \in 1 .. L + 1 PROVE u[j] = v[j]
  <2>1. CASE j < p
    <3>1. j \in 1 .. p /\ j \in 1 .. p - 1 /\ j <= p - 1 /\ j <= p
      BY <1>n, <2>1
    <3>2. v[j] = s[j]
      BY <1>1, <1>8, <1>9, <3>1
    <3> QED
      BY <1>L, <1>u, <2>1, <3>2
  <2>2. CASE j = p
    <3>1. p \in 1 .. p /\ ~(p <= p - 1) /\ p - (p - 1) = 1
      BY <1>n
    <3>2. m[p] = x
      BY <1>3, <1>8, <3>1
    <3>3. v[p] = m[p]
      BY <1>n, <1>9, <2>2
    <3> QED
      BY <1>L, <1>n, <1>u, <2>2, <3>2, <3>3
  <2>3. CASE j > p
    <3>1. j - p \in 1 .. L - p + 1 /\ p + (j - p) - 1 = j - 1 /\ ~(j <= p) /\ ~(j < p) /\ j # p
      BY <1>n, <2>3
    <3>2. v[j] = r[j - p] /\ r[j - p] = s[p + (j - p) - 1]
      BY <1>2, <1>9, <3>1
    <3> QED
      BY <1>L, <1>u, <3>1, <3>2
  <2> QED
    BY <1>n, <2>1, <2>2, <2>3
<1>11. u = v
  <2>1. v \in Seq(S) /\ Len(u) = L + 1 /\ Len(v) = L + 1
    BY <1>6, <1>7, <1>L, <1>u
  <2> QED
    BY <1>10, <2>1, SameSeq
<1> QED
  BY <1>4, <1>11

\* RemoveAt makes the sequence without place p.
LEMMA RemoveAtIs ==
  ASSUME NEW S, NEW s \in Seq(S), NEW p \in 1 .. Len(s),
         NEW u \in Seq(S), Len(u) = Len(s) - 1,
         \A j \in 1 .. Len(s) - 1 : u[j] = IF j < p THEN s[j] ELSE s[j + 1]
  PROVE  Queue!RemoveAt(s, p) = u
<1> DEFINE l == SubSeq(s, 1, p - 1)
           r == SubSeq(s, p + 1, Len(s))
           v == l \o r
           L == Len(s)
<1>n. L \in Nat /\ p \in Nat /\ 1 <= p /\ p <= L /\ p - 1 \in Nat
  OBVIOUS
<1>1. l \in Seq(S) /\ Len(l) = p - 1 /\ \A j \in 1 .. p - 1 : l[j] = s[j]
  <2> DEFINE b == p - 1
  <2>1. b \in Nat /\ 1 <= b + 1 /\ b <= L /\ b - 1 + 1 = b /\ 1 \in Nat /\ \A j \in 1 .. b : 1 + j - 1 = j
    BY <1>n
  <2> HIDE DEF b
  <2>2. /\ SubSeq(s, 1, b) \in Seq(S) /\ Len(SubSeq(s, 1, b)) = b - 1 + 1
        /\ \A j \in 1 .. b - 1 + 1 : SubSeq(s, 1, b)[j] = s[1 + j - 1]
    BY <2>1, PartOf
  <2>3. /\ SubSeq(s, 1, b) \in Seq(S) /\ Len(SubSeq(s, 1, b)) = b
        /\ \A j \in 1 .. b : SubSeq(s, 1, b)[j] = s[j]
    <3> HIDE DEF L
    <3> QED
      BY <2>1, <2>2
  <2> QED
    BY <2>3 DEF b
<1>2. r \in Seq(S) /\ Len(r) = L - p /\ \A j \in 1 .. L - p : r[j] = s[p + j]
  <2> DEFINE a == p + 1
  <2>1. a \in Nat /\ 1 <= a /\ a <= L + 1 /\ L - a + 1 = L - p /\ \A j \in 1 .. L - p : a + j - 1 = p + j
    BY <1>n
  <2> HIDE DEF a
  <2>2. /\ SubSeq(s, a, L) \in Seq(S) /\ Len(SubSeq(s, a, L)) = L - a + 1
        /\ \A j \in 1 .. L - a + 1 : SubSeq(s, a, L)[j] = s[a + j - 1]
    BY <1>n, <2>1, PartOf
  <2>3. /\ SubSeq(s, a, L) \in Seq(S) /\ Len(SubSeq(s, a, L)) = L - p
        /\ \A j \in 1 .. L - p : SubSeq(s, a, L)[j] = s[p + j]
    <3> HIDE DEF L
    <3> QED
      BY <2>1, <2>2
  <2> QED
    BY <2>3 DEF a
<1>4. Queue!RemoveAt(s, p) = v
  BY DEF Queue!RemoveAt
<1> HIDE DEF l, r
<1>5. /\ v \in Seq(S) /\ Len(v) = Len(l) + Len(r)
      /\ \A j \in 1 .. Len(l) + Len(r) : v[j] = IF j <= Len(l) THEN l[j] ELSE r[j - Len(l)]
  BY <1>1, <1>2, ConcatProperties, Zenon
<1> HIDE DEF v
<1>L. Len(s) = L
  OBVIOUS
<1> HIDE DEF L
<1>6. Len(l) = p - 1 /\ Len(r) = L - p /\ Len(l) + Len(r) = L - 1
  BY <1>n, <1>1, <1>2
<1>7. \A j \in 1 .. L - 1 : v[j] = IF j <= p - 1 THEN l[j] ELSE r[j - (p - 1)]
  BY <1>5, <1>6
<1>8. ASSUME NEW j \in 1 .. L - 1 PROVE u[j] = v[j]
  <2>1. CASE j < p
    <3>1. j \in 1 .. p - 1 /\ j <= p - 1
      BY <1>n, <2>1
    <3>2. v[j] = s[j]
      BY <1>1, <1>7, <3>1
    <3> QED
      BY <1>L, <2>1, <3>2
  <2>2. CASE ~(j < p)
    <3>1. j - (p - 1) \in 1 .. L - p /\ p + (j - (p - 1)) = j + 1 /\ ~(j <= p - 1)
      BY <1>n, <2>2
    <3>2. v[j] = r[j - (p - 1)] /\ r[j - (p - 1)] = s[p + (j - (p - 1))]
      BY <1>2, <1>7, <3>1
    <3> QED
      BY <1>L, <2>2, <3>1, <3>2
  <2> QED
    BY <2>1, <2>2
<1>9. u = v
  BY <1>5, <1>6, <1>8, <1>L, SameSeq
<1> QED
  BY <1>4, <1>9

\* A position opened is an element put into the queue.
LEMMA EnteredQueue ==
  ASSUME NEW at \in [Nodes -> Int], NEW M \in Nat, NEW q, Lists(q, at, M),
         NEW node \in Nodes, ~In(at, node), NEW p \in 1 .. M + 1, Divided(at, node, p),
         NEW u, Lists(u, OpenedAt(at, node, p), M + 1)
  PROVE  /\ p - 1 \in 0 .. Len(q) /\ u = Queue!InsertAt(q, p - 1 + 1, node)
         /\ \A j \in DOMAIN q : j <= p - 1 <=> Key[q[j]] <= Key[node]
         /\ node \notin {q[j] : j \in DOMAIN q}
<1> DEFINE a == OpenedAt(at, node, p)
<1>1. /\ q \in Seq(Nodes) /\ Len(q) = M /\ DOMAIN q = 1 .. M
      /\ \A i \in 1 .. M : q[i] \in Nodes /\ at[q[i]] = i /\ In(at, q[i])
  BY DEF Lists
<1> HIDE DEF a
<1>2. /\ u \in Seq(Nodes) /\ Len(u) = M + 1
      /\ \A n : In(a, n) => u[a[n]] = n
  BY DEF Lists, a
<1>3. p \in Nat /\ p # 0 /\ 1 <= p /\ p <= M + 1 /\ p - 1 + 1 = p /\ p - 1 \in 0 .. M
  OBVIOUS
<1>4. \A n : In(a, n) <=> (n = node \/ In(at, n))
  BY <1>3, OpenedIn DEF a
<1>5. a[node] = p /\ \A n : In(at, n) => a[n] = IF at[n] >= p THEN at[n] + 1 ELSE at[n]
  BY DEF OpenedAt, In, a
<1>6. ASSUME NEW j \in 1 .. M + 1 PROVE u[j] = IF j < p THEN q[j] ELSE IF j = p THEN node ELSE q[j - 1]
  <2>1. CASE j < p
    <3>1. j \in 1 .. M
      BY <1>3, <2>1
    <3>2. a[q[j]] = j
      BY <1>1, <1>5, <2>1, <3>1
    <3> QED
      BY <1>1, <1>2, <1>4, <2>1, <3>1, <3>2
  <2>2. CASE j = p
    <3>1. u[a[node]] = node
      BY <1>2, <1>4
    <3> QED
      BY <1>3, <1>5, <2>2, <3>1
  <2>3. CASE j > p
    <3> DEFINE k == j - 1
    <3>1. k \in 1 .. M /\ k >= p /\ k + 1 = j
      BY <1>3, <2>3
    <3> HIDE DEF k
    <3>2. a[q[k]] = j
      BY <1>1, <1>5, <3>1
    <3>3. u[j] = q[k]
      BY <1>1, <1>2, <1>4, <3>1, <3>2
    <3>4. ~(j < p) /\ j # p
      BY <1>3, <2>3
    <3> QED
      BY <3>3, <3>4 DEF k
  <2> QED
    BY <1>3, <2>1, <2>2, <2>3
<1>7. u = Queue!InsertAt(q, p, node)
  <2>1. p \in 1 .. Len(q) + 1 /\ Len(u) = Len(q) + 1
    BY <1>1, <1>2
  <2>2. \A j \in 1 .. Len(q) + 1 : u[j] = IF j < p THEN q[j] ELSE IF j = p THEN node ELSE q[j - 1]
    BY <1>1, <1>6
  <2> QED
    <3>1. q \in Seq(Nodes) /\ u \in Seq(Nodes)
      BY <1>1, <1>2
    <3>2. Longer(u, q, p, node)
      BY <2>1, <2>2 DEF Longer
    <3>3. Queue!InsertAt(q, p, node) = u
      BY <3>1, <3>2, InsertAtIs, Zenon
    <3> QED
      BY <3>3
<1>8. ASSUME NEW j \in DOMAIN q PROVE (j <= p - 1 <=> Key[q[j]] <= Key[node]) /\ node # q[j]
  <2>1. j \in 1 .. M /\ In(at, q[j]) /\ at[q[j]] = j
    BY <1>1, <1>8
  <2>2. j < p <=> Key[q[j]] <= Key[node]
    BY <2>1 DEF Divided
  <2>3. j < p <=> j <= p - 1
    BY <1>3, <2>1
  <2> QED
    BY <2>1, <2>2, <2>3
<1> QED
  BY <1>1, <1>3, <1>7, <1>8

\* A position closed is an element taken out of the queue.
LEMMA LeftQueue ==
  ASSUME NEW t, NEW at, NEW e, NEW M, Shape(t, at, e, M), NEW q, Lists(q, at, M),
         NEW node, In(at, node), NEW u, Lists(u, ClosedAt(at, node), M - 1)
  PROVE  /\ at[node] \in DOMAIN q /\ q[at[node]] = node
         /\ u = Queue!RemoveAt(q, at[node])
<1> DEFINE a == ClosedAt(at, node)
           p == at[node]
<1>1. /\ q \in Seq(Nodes) /\ Len(q) = M /\ DOMAIN q = 1 .. M /\ M \in Nat
      /\ \A i \in 1 .. M : q[i] \in Nodes /\ at[q[i]] = i /\ In(at, q[i])
      /\ p \in 1 .. M /\ q[p] = node
  BY DEF Lists
<1> HIDE DEF a
<1>2. /\ u \in Seq(Nodes) /\ Len(u) = M - 1
      /\ \A n : In(a, n) => u[a[n]] = n
  BY DEF Lists, a
<1>4. \A n : In(a, n) <=> (n # node /\ In(at, n))
  BY ClosedIn DEF a
<1>5. \A n : n # node /\ In(at, n) => a[n] = IF at[n] > p THEN at[n] - 1 ELSE at[n]
  BY DEF ClosedAt, In, a
<1>p. at[node] = p
  OBVIOUS
<1> HIDE DEF p
<1>6. ASSUME NEW j \in 1 .. M - 1 PROVE u[j] = IF j < p THEN q[j] ELSE q[j + 1]
  <2>1. CASE j < p
    <3>1. j \in 1 .. M /\ ~(j > p)
      BY <1>1, <2>1
    <3>2. at[q[j]] = j /\ q[j] # node /\ In(at, q[j])
      BY <1>1, <1>p, <2>1, <3>1
    <3>3. a[q[j]] = j
      BY <1>5, <3>1, <3>2
    <3> QED
      BY <1>2, <1>4, <2>1, <3>2, <3>3
  <2>2. CASE ~(j < p)
    <3> DEFINE k == j + 1
    <3>1. k \in 1 .. M /\ k > p /\ k - 1 = j
      BY <1>1, <2>2
    <3> HIDE DEF k
    <3>2. at[q[k]] = k /\ q[k] # node /\ In(at, q[k])
      BY <1>1, <1>p, <3>1
    <3>3. a[q[k]] = j
      BY <1>5, <3>1, <3>2
    <3>4. u[j] = q[k]
      BY <1>2, <1>4, <3>2, <3>3
    <3> QED
      BY <2>2, <3>4 DEF k
  <2> QED
    BY <2>1, <2>2
<1>7. u = Queue!RemoveAt(q, p)
  <2>1. p \in 1 .. Len(q) /\ Len(u) = Len(q) - 1
    BY <1>1, <1>2
  <2>2. \A j \in 1 .. Len(q) - 1 : u[j] = IF j < p THEN q[j] ELSE q[j + 1]
    BY <1>1, <1>6
  <2> QED
    BY <1>1, <1>2, <2>1, <2>2, RemoveAtIs
<1> QED
  BY <1>1, <1>7 DEF p

\* The least node is the first.
LEMMA MinIs ==
  ASSUME NEW t, NEW at, NEW e, NEW M, Shape(t, at, e, M)
  PROVE  nc_rbtree_min(t) = IF QueueOf(at, M) = <<>> THEN NULL ELSE Head(QueueOf(at, M))
<1> DEFINE q == QueueOf(at, M)
<1>1. Lists(q, at, M)
  BY QueueLists
<1> HIDE DEF q
<1>2. /\ q \in Seq(Nodes) /\ Len(q) = M /\ M \in Nat
      /\ \A n : In(at, n) => at[n] \in 1 .. M /\ q[at[n]] = n
  BY <1>1 DEF Lists
<1>3. CASE M = 0
  <2>1. t.root = Sentinel
    BY <1>3 DEF Shape
  <2>2. q = <<>>
    BY <1>2, <1>3
  <2> QED
    BY <2>1, <2>2 DEF nc_rbtree_min, q
<1>4. CASE M # 0
  <2>1. In(at, t.root) /\ e["left"][t.root] = 1
    BY <1>4 DEF Shape
  <2>2. t.root # Sentinel
    BY <2>1, RbtreeAssumption DEF In
  <2> DEFINE r == rbtree_node_min(t, t.root)
  <2>3. In(at, r) /\ at[r] = 1
    BY <2>1, LeastOf
  <2>4. nc_rbtree_min(t) = r
    BY <2>2 DEF nc_rbtree_min
  <2> HIDE DEF r
  <2>5. q[1] = r
    BY <1>2, <2>3
  <2>6. q # <<>> /\ Head(q) = q[1]
    BY <1>2, <1>4
  <2> QED
    BY <2>4, <2>5, <2>6 DEF q
<1> QED
  BY <1>3, <1>4

-----------------------------------------------------------------------------
(* The invariant                                                           *)

\* At some positions of the nodes, in the order of their keys, the tree is sound.
IInv ==
  /\ client \in {"mixed", "growing", "shrinking"}
  /\ \E at, M : Holds(at, M) /\ Ordered(tree, at)

\* An empty tree is sound.
LEMMA InitHolds ==
  ASSUME Init
  PROVE  \E at : Holds(at, 0) /\ Ordered(tree, at)
<1> DEFINE at == [n \in Nodes |-> 0]
           e == [s \in Sides |-> [n \in Nodes |-> 0]]
           h == [n \in Linked |-> 0]
<1>1. tree = nc_rbtree_init /\ phase = "idle" /\ cur = NULL
  BY DEF Init
<1>2. /\ tree \in Trees /\ tree.root = Sentinel /\ tree.color[Sentinel] = BLACK
      /\ \A s \in Sides : tree.child[s][Sentinel] = NULL
  <2>1. Sentinel \in Linked /\ NULL \in Pointers /\ 0 \in Int
    BY DEF Linked, Pointers
  <2> QED
    BY <1>1, <2>1 DEF nc_rbtree_init, Trees
<1>3. \A n : ~In(at, n)
  BY DEF In
<1>4. at \in [Nodes -> Int] /\ e \in [Sides -> [Nodes -> Int]] /\ h \in [Linked -> Nat] /\ h[Sentinel] = 0
  BY DEF Linked
<1> HIDE DEF at, e, h
<1>5. Shape(tree, at, e, 0)
  BY <1>2, <1>3, <1>4 DEF Shape
<1>6. Rules(tree, at, h, "idle", NULL)
  BY <1>2, <1>3, <1>4 DEF Rules, Leaves, Current
<1>7. Sound(tree, at, e, 0, h, phase, cur)
  BY <1>1, <1>2, <1>5, <1>6 DEF Sound
<1>8. Holds(at, 0) /\ Ordered(tree, at)
  BY <1>3, <1>7 DEF Holds, Ordered
<1> QED
  BY <1>8

\* A step of a loop keeps the positions.
LEMMA RebalanceStep ==
  ASSUME NEW at, NEW M, Holds(at, M), Ordered(tree, at), Rebalance
  PROVE  Holds(at, M)' /\ Ordered(tree, at)'
<1>1. Holds(at, M)' /\ tree'.key = tree.key
  <2>1. CASE InsertFixup
    BY <2>1, InsertFixupStep
  <2>2. CASE InsertDone
    BY <2>2, InsertDoneStep
  <2>3. CASE DeleteFixup
    BY <2>3, DeleteFixupStep
  <2>4. CASE DeleteDone
    BY <2>4, DeleteDoneStep
  <2> QED
    BY <2>1, <2>2, <2>3, <2>4 DEF Rebalance
<1>2. Ordered(tree', at)
  BY <1>1 DEF Ordered
<1> QED
  BY <1>1, <1>2

\* The invariant holds at first.
LEMMA InitInv == Init => IInv
<1> SUFFICES ASSUME Init PROVE IInv
  OBVIOUS
<1>1. client \in {"mixed", "growing", "shrinking"}
  BY DEF Init
<1> QED
  BY <1>1, InitHolds DEF IInv

\* Every step keeps the invariant.
LEMMA NextInv == IInv /\ [Next]_vars => IInv'
<1> SUFFICES ASSUME IInv, [Next]_vars PROVE IInv'
  OBVIOUS
<1>1. PICK at, M : Holds(at, M) /\ Ordered(tree, at)
  BY DEF IInv
<1>2. client \in {"mixed", "growing", "shrinking"}
  BY DEF IInv
<1>3. ASSUME NEW node \in Nodes, nc_rbtree_insert(node) PROVE IInv'
  <2>1. PICK p : Entered(at, M, node, p)
    BY <1>1, <1>3, InsertStep
  <2>2. client' \in {"mixed", "growing", "shrinking"}
    BY <1>2, <1>3 DEF nc_rbtree_insert
  <2> QED
    BY <2>1, <2>2 DEF Entered, IInv
<1>4. ASSUME NEW node \in Nodes, nc_rbtree_delete(node) PROVE IInv'
  <2>1. Left(at, M, node)
    BY <1>1, <1>4, DeleteStep
  <2>2. client' \in {"mixed", "growing", "shrinking"}
    BY <1>2, <1>4 DEF nc_rbtree_delete
  <2> QED
    BY <2>1, <2>2 DEF Left, IInv
<1>5. ASSUME Rebalance PROVE IInv'
  <2>1. Holds(at, M)' /\ Ordered(tree, at)'
    BY <1>1, <1>5, RebalanceStep, Zenon
  <2>2. client' = client
    BY <1>5, Zenon DEF Rebalance, InsertFixup, InsertDone, DeleteFixup, DeleteDone
  <2> QED
    BY <1>2, <2>1, <2>2 DEF IInv
<1>6. ASSUME UNCHANGED vars PROVE IInv'
  BY <1>1, <1>2, <1>6 DEF IInv, Holds, vars
<1> QED
  BY <1>3, <1>4, <1>5, <1>6 DEF Next

\* At every step of nc_rbtree_insert and nc_rbtree_delete there are positions in
\* the order of the keys that the links of the tree agree with, and numbers of
\* black nodes that its colours agree with.
THEOREM RbtreeInvariant == Spec => []IInv
<1> QED
  BY InitInv, NextInv, PTL DEF Spec

\* The fields of the tree and of every node keep their types, and the rounds of
\* the loops always have a node to work on.
THEOREM RbtreeTypeCorrect == Spec => []TypeOK
<1>1. IInv => TypeOK
  <2> SUFFICES ASSUME IInv PROVE TypeOK
    OBVIOUS
  <2>1. PICK at, M : Holds(at, M)
    BY DEF IInv
  <2>2. PICK e, h : Sound(tree, at, e, M, h, phase, cur)
    BY <2>1 DEF Holds
  <2>3. /\ phase \in {"idle", "insert", "delete"} /\ cur \in Pointers
    BY <2>2 DEF Sound, Rules, Current, In, Pointers, Linked
  <2>4. tree \in Trees
    BY <2>2 DEF Sound
  <2>5. client \in {"mixed", "growing", "shrinking"}
    BY DEF IInv
  <2> QED
    BY <2>3, <2>4, <2>5 DEF TypeOK, Trees
<1> QED
  BY <1>1, RbtreeInvariant, PTL

\* Every child of a node of the tree has that node as its parent, and no link of
\* the tree leads out of it, whatever nc_rbtree_insert and nc_rbtree_delete did.
THEOREM RbtreeParentLinks == Spec => []ParentLinks
<1>1. IInv => ParentLinks
  BY HoldsLinks DEF IInv
<1> QED
  BY <1>1, RbtreeInvariant, PTL

\* No red node has a red child, and all paths down have as many black nodes, but
\* for what a running loop of nc_rbtree_insert or nc_rbtree_delete has still to
\* mend, and that only at its node.
THEOREM RbtreeRedBlack == Spec => []RedBlack
<1>1. IInv => RedBlack
  BY HoldsRedBlack DEF IInv
<1> QED
  BY <1>1, RbtreeInvariant, PTL

\* The loops of nc_rbtree_insert and nc_rbtree_delete follow no link that leads
\* nowhere: there is a grandparent, or a sibling that is not the sentinel.
THEOREM RbtreeFixupDefined == Spec => []FixupDefined
<1>1. IInv => FixupDefined
  BY HoldsDefined DEF IInv
<1> QED
  BY <1>1, RbtreeInvariant, PTL

-----------------------------------------------------------------------------
(* The tree implements the queue                                           *)

\* The queue and the minimum at some positions.
QueueIs(at, M) ==
  /\ InOrder(tree) = QueueOf(at, M) /\ Lists(QueueOf(at, M), at, M)
  /\ nc_rbtree_min(tree) = IF QueueOf(at, M) = <<>> THEN NULL ELSE Head(QueueOf(at, M))

\* InOrder and nc_rbtree_min read the queue off the tree.
LEMMA HoldsQueue ==
  ASSUME NEW at, NEW M
  PROVE  (Holds(at, M) => QueueIs(at, M)) /\ (Holds(at, M)' => QueueIs(at, M)')
<1>1. ASSUME NEW t, NEW e, Shape(t, at, e, M)
      PROVE  /\ InOrder(t) = QueueOf(at, M) /\ Lists(QueueOf(at, M), at, M)
             /\ nc_rbtree_min(t) = IF QueueOf(at, M) = <<>> THEN NULL ELSE Head(QueueOf(at, M))
  BY <1>1, InOrderIs, QueueLists, MinIs
<1>2. ASSUME Holds(at, M) PROVE QueueIs(at, M)
  <2>1. \E e : Shape(tree, at, e, M)
    BY <1>2 DEF Holds, Sound
  <2> QED
    BY <1>1, <2>1 DEF QueueIs
<1>3. ASSUME Holds(at, M)' PROVE QueueIs(at, M)'
  <2>1. \E e : Shape(tree', at, e, M)
    BY <1>3 DEF Holds, Sound
  <2> QED
    BY <1>1, <2>1 DEF QueueIs
<1> QED
  BY <1>2, <1>3

\* The tree starts as an empty queue.
LEMMA QueueInit == Init => Queue!Init
<1> SUFFICES ASSUME Init PROVE Queue!Init
  OBVIOUS
<1>1. PICK at : Holds(at, 0)
  BY InitHolds
<1>2. QueueIs(at, 0)
  BY <1>1, HoldsQueue
<1>3. QueueOf(at, 0) = <<>>
  BY <1>2 DEF QueueIs, Lists
<1> QED
  BY <1>2, <1>3 DEF QueueIs, Queue!Init

\* nc_rbtree_insert is an insert into the queue.
LEMMA QueueInsert ==
  ASSUME NEW at, NEW M, Holds(at, M), Ordered(tree, at), NEW node \in Nodes, nc_rbtree_insert(node)
  PROVE  Queue!Next
<1>1. PICK p : Entered(at, M, node, p)
  BY InsertStep
<1> DEFINE q == QueueOf(at, M)
           a == OpenedAt(at, node, p)
           u == QueueOf(a, M + 1)
<1>2. /\ InOrder(tree) = q /\ Lists(q, at, M)
      /\ InOrder(tree)' = u /\ Lists(u, a, M + 1)
      /\ nc_rbtree_min(tree)' = IF u = <<>> THEN NULL ELSE Head(u)
  <2>1. QueueIs(at, M)
    BY HoldsQueue
  <2>2. QueueIs(a, M + 1)'
    <3>1. Holds(a, M + 1)'
      BY <1>1 DEF Entered
    <3> HIDE DEF a
    <3> QED
      BY <3>1, HoldsQueue
  <2> HIDE DEF a
  <2> QED
    BY <2>1, <2>2 DEF QueueIs
<1>3. at \in [Nodes -> Int] /\ M \in Nat
  BY DEF Holds, Sound, Shape
<1>4. ~In(at, node) /\ p \in 1 .. M + 1 /\ Divided(at, node, p)
  BY <1>1 DEF Entered
<1> HIDE DEF q, u
<1>5. /\ p - 1 \in 0 .. Len(q) /\ u = Queue!InsertAt(q, p - 1 + 1, node)
      /\ \A j \in DOMAIN q : j <= p - 1 <=> Key[q[j]] <= Key[node]
      /\ node \notin {q[j] : j \in DOMAIN q}
  BY <1>2, <1>3, <1>4, EnteredQueue
<1>6. Queue!Insert(node)
  BY <1>2, <1>5 DEF Queue!Insert
<1> QED
  BY <1>2, <1>5, <1>6 DEF Queue!Next

\* nc_rbtree_delete is a delete from the queue.
LEMMA QueueDelete ==
  ASSUME NEW at, NEW M, Holds(at, M), Ordered(tree, at), NEW node \in Nodes, nc_rbtree_delete(node)
  PROVE  Queue!Next
<1>1. Left(at, M, node)
  BY DeleteStep
<1> DEFINE q == QueueOf(at, M)
           a == ClosedAt(at, node)
           u == QueueOf(a, M - 1)
<1>2. /\ InOrder(tree) = q /\ Lists(q, at, M)
      /\ InOrder(tree)' = u /\ Lists(u, a, M - 1)
      /\ nc_rbtree_min(tree)' = IF u = <<>> THEN NULL ELSE Head(u)
  <2>1. QueueIs(at, M)
    BY HoldsQueue
  <2>2. QueueIs(a, M - 1)'
    <3>1. Holds(a, M - 1)'
      BY <1>1 DEF Left
    <3> HIDE DEF a
    <3> QED
      BY <3>1, HoldsQueue
  <2> HIDE DEF a
  <2> QED
    BY <2>1, <2>2 DEF QueueIs
<1>3. PICK e : Shape(tree, at, e, M)
  BY DEF Holds, Sound
<1>4. In(at, node)
  BY <1>1 DEF Left
<1> HIDE DEF q, u
<1>5. /\ at[node] \in DOMAIN q /\ q[at[node]] = node
      /\ u = Queue!RemoveAt(q, at[node])
  BY <1>2, <1>3, <1>4, LeftQueue
<1>6. Queue!Delete(node)
  BY <1>2, <1>5 DEF Queue!Delete
<1> QED
  BY <1>2, <1>5, <1>6 DEF Queue!Next

\* Every step of the tree is a step of the queue or none.
LEMMA QueueNext ==
  IInv /\ [Next]_vars => [Queue!Next]_<<InOrder(tree), nc_rbtree_min(tree)>>
<1> SUFFICES ASSUME IInv, [Next]_vars
             PROVE  [Queue!Next]_<<InOrder(tree), nc_rbtree_min(tree)>>
  OBVIOUS
<1>1. PICK at, M : Holds(at, M) /\ Ordered(tree, at)
  BY DEF IInv
<1>2. ASSUME NEW node \in Nodes, nc_rbtree_insert(node) PROVE Queue!Next
  BY <1>1, <1>2, QueueInsert
<1>3. ASSUME NEW node \in Nodes, nc_rbtree_delete(node) PROVE Queue!Next
  BY <1>1, <1>3, QueueDelete
<1>4. ASSUME Rebalance PROVE UNCHANGED <<InOrder(tree), nc_rbtree_min(tree)>>
  <2>1. Holds(at, M)'
    BY <1>1, <1>4, RebalanceStep
  <2>2. QueueIs(at, M) /\ QueueIs(at, M)'
    BY <1>1, <2>1, HoldsQueue
  <2> QED
    BY <2>2 DEF QueueIs
<1>5. ASSUME UNCHANGED vars PROVE UNCHANGED <<InOrder(tree), nc_rbtree_min(tree)>>
  <2>1. tree' = tree
    BY <1>5 DEF vars
  <2> QED
    BY <2>1
<1> QED
  BY <1>2, <1>3, <1>4, <1>5 DEF Next

\* The tree is the sorted queue that nc_rbtree.h promises: nc_rbtree_insert puts a
\* node behind those of its key, nc_rbtree_delete takes out that node and no other,
\* the loops move none, and nc_rbtree_min finds the first.
THEOREM RbtreeRefinesQueue == Spec => RefinesQueue
<1> QED
  BY QueueInit, QueueNext, RbtreeInvariant, PTL DEF Spec, RefinesQueue, Queue!Spec
=============================================================================
