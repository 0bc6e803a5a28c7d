------------------------------- MODULE RbTree -------------------------------
(***************************************************************************)
(* The tree of timer nodes of rbtree.cc, as the timer uses it: nodes are    *)
(* inserted, and only the least one (rbtree_min) is deleted.  A tree is a   *)
(* record: root, child["left"], child["right"], parent and color, functions *)
(* of the nodes and of the sentinel, 0; color 1 is the one that new nodes   *)
(* get.  fault tells that the code would follow a null pointer, or take the *)
(* mirror of the deletion loop, which no deletion of a least node reaches.  *)
(***************************************************************************)
EXTENDS Integers, FiniteSets

S    == 0    \* tree->sentinel, a node whose own fields are all 0 at first
Null == -1

Other == [left |-> "right", right |-> "left"]

TreeInit(Nodes) ==
  [root   |-> S,
   child  |-> [s \in {"left", "right"} |-> [n \in Nodes \cup {S} |-> Null]],
   parent |-> [n \in Nodes \cup {S} |-> Null],
   color  |-> [n \in Nodes \cup {S} |-> 0],
   fault  |-> FALSE]

Side(t, n) == IF n = t.child.left[t.parent[n]] THEN "left" ELSE "right"

\* rbtree_left_rotate and rbtree_right_rotate: n goes down to the side s
Rotate(t, n, s) ==
  LET up   == t.child[Other[s]][n]
      mid  == t.child[s][up]
      moved == [t EXCEPT !.child[Other[s]][n] = mid,
                         !.parent = IF mid # S THEN [@ EXCEPT ![mid] = n] ELSE @,
                         !.parent[up] = t.parent[n]]
      hung == IF n = t.root THEN [moved EXCEPT !.root = up]
              ELSE [moved EXCEPT !.child[Side(t, n)][t.parent[n]] = up]
  IN [hung EXCEPT !.child[s][up] = n, !.parent[n] = up]

-----------------------------------------------------------------------------
(* rbtree_insert.                                                          *)

\* insert(): equal keys go to the right
RECURSIVE Descend(_, _, _, _)
Descend(t, r, n, key) ==
  LET s == IF key[n] < key[r] THEN "left" ELSE "right" IN
  IF t.child[s][r] # S THEN Descend(t, t.child[s][r], n, key)
  ELSE [t EXCEPT !.child[s][r] = n, !.parent[n] = r, !.child.left[n] = S,
                 !.child.right[n] = S, !.color[n] = 1]

RECURSIVE InsertFixup(_, _)

InsertFixup(t, node) ==
  IF node = t.root \/ t.color[t.parent[node]] = 0
    THEN [t EXCEPT !.color[t.root] = 0]
    ELSE LET p == t.parent[node]
             g == t.parent[p]
             s == Side(t, p)
             uncle == t.child[Other[s]][g]
             inner == node = t.child[Other[s]][p]
             n1 == IF inner THEN p ELSE node
             t1 == IF inner THEN Rotate(t, p, s) ELSE t
         IN IF t.color[uncle] = 1
              THEN InsertFixup([t EXCEPT !.color[p] = 0, !.color[uncle] = 0,
                                         !.color[g] = 1], g)
              ELSE InsertFixup(Rotate([t1 EXCEPT !.color[t1.parent[n1]] = 0,
                                                 !.color[g] = 1], g, Other[s]), n1)

TreeInsert(t, n, key) ==
  IF t.root = S
    THEN [t EXCEPT !.root = n, !.parent[n] = Null, !.child.left[n] = S,
                   !.child.right[n] = S, !.color[n] = 0]
    ELSE InsertFixup(Descend(t, t.root, n, key), n)

-----------------------------------------------------------------------------
(* rbtree_min and rbtree_delete.                                           *)

RECURSIVE LeftMost(_, _)
LeftMost(t, n) == IF t.child.left[n] = S THEN n ELSE LeftMost(t, t.child.left[n])

TreeMin(t) == IF t.root = S THEN Null ELSE LeftMost(t, t.root)

\* The loop of rbtree_delete, from a node x that is a left child.  The colours
\* are the code's: the sibling and the parent are not exchanged in the first
\* case, and the third copies the colour of x where that of its parent is meant.
RECURSIVE DeleteFixup(_, _)
DeleteFixup(t, x) ==
  IF x = t.root \/ t.color[x] = 1
    THEN [t EXCEPT !.color[x] = 0]
    ELSE LET p  == t.parent[x]
             w0 == t.child.right[p]
             t1 == IF t.color[w0] = 0 THEN t
                   ELSE Rotate([t EXCEPT !.color[p] = 0], p, "left")
             w  == t1.child.right[p]
             l  == t1.child.left[w]
             r  == t1.child.right[w]
             t2 == IF t1.color[r] = 1 THEN t1
                   ELSE Rotate([t1 EXCEPT !.color[l] = 0, !.color[w] = 1], w, "right")
             v  == t2.child.right[p]
             t3 == Rotate([t2 EXCEPT !.color[v] = t2.color[x], !.color[p] = 0,
                                     !.color[t2.child.right[v]] = 0], p, "left")
         IN CASE x # t.child.left[p] -> [t EXCEPT !.fault = TRUE]
              [] x = t.child.left[p] /\ Null \in {l, r} -> [t1 EXCEPT !.fault = TRUE]
              [] x = t.child.left[p] /\ Null \notin {l, r}
                   /\ t1.color[l] = 0 /\ t1.color[r] = 0 ->
                   DeleteFixup([t1 EXCEPT !.color[w] = 0], p)
              [] OTHER -> [t3 EXCEPT !.color[t3.root] = 0]

\* mutant: the right child of the deleted node is not linked to its parent
TreeDeleteMin_Lost(t) ==
  LET n == TreeMin(t) IN
  IF n = t.root THEN [t EXCEPT !.root = t.child.right[n], !.color[t.child.right[n]] = 0]
  ELSE [t EXCEPT !.child.left[t.parent[n]] = S]

\* rbtree_delete of the least node, which has no left child
TreeDeleteMin(t) ==
  LET n == TreeMin(t)
      x == t.child.right[n]
      p == t.parent[n]
      cut == [t EXCEPT !.child[Side(t, n)][p] = x, !.parent[x] = p]
  IN IF n = t.root THEN [t EXCEPT !.root = x, !.color[x] = 0]
     ELSE IF t.color[n] = 1 THEN cut
     ELSE DeleteFixup(cut, x)

\* the node is deleted; the parent the sentinel was lent is not read again either
TreeFree(t, n) ==
  [t EXCEPT !.child.left[n] = Null, !.child.right[n] = Null, !.color[n] = 0,
            !.parent = [m \in DOMAIN @ |-> IF m \in {n, S, t.root} THEN Null ELSE @[m]]]

-----------------------------------------------------------------------------
RECURSIVE Below(_, _)
Below(t, n) ==
  IF n = S THEN {} ELSE {n} \cup Below(t, t.child.left[n]) \cup Below(t, t.child.right[n])

TreeMembers(t) == Below(t, t.root)

\* a search tree whose nodes know their parents
TreeShape(t, key) ==
  \A n \in TreeMembers(t) :
    /\ \A s \in {"left", "right"} :
         t.child[s][n] # S => t.parent[t.child[s][n]] = n
    /\ \A m \in Below(t, t.child.left[n])  : key[m] <= key[n]
    /\ \A m \in Below(t, t.child.right[n]) : key[m] >= key[n]

=============================================================================
