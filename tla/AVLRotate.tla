----------------------------- MODULE AVLRotate ------------------------------
(***************************************************************************)
(* The fields of AVLNode and the rotations of avl.cpp.  A forest of nodes  *)
(* is a record of functions, one per field; rot_left and rot_right mirror  *)
(* each other, so one operator models both, with the side as a parameter.  *)
(***************************************************************************)
EXTENDS Integers, FiniteSets

CONSTANTS Node, NULL

\* Memory holds finitely many nodes.
ASSUME NodeAssumption == IsFiniteSet(Node) /\ NULL \notin Node

Side == {"left", "right"}

Opp(s) == IF s = "left" THEN "right" ELSE "left"

\* A node that belongs to no tree, as avl_init leaves it.
Fresh == [child  |-> [n \in Node |-> [s \in Side |-> NULL]],
          parent |-> [n \in Node |-> NULL],
          height |-> [n \in Node |-> 1],
          cnt    |-> [n \in Node |-> 1]]

AvlInit(t, n) == [t EXCEPT !.child[n]  = [s \in Side |-> NULL],
                           !.parent[n] = NULL,
                           !.height[n] = 1,
                           !.cnt[n]    = 1]

AvlHeight(t, n) == IF n = NULL THEN 0 ELSE t.height[n]

AvlCnt(t, n) == IF n = NULL THEN 0 ELSE t.cnt[n]

Larger(a, b) == IF a < b THEN b ELSE a

AvlUpdateNoSelf(t, n) ==
  LET l == t.child[n]["left"]
      r == t.child[n]["right"]
  IN [t EXCEPT !.height[n] = Larger(AvlHeight(t, l), AvlHeight(t, r)),
               !.cnt[n]    = 1 + AvlCnt(t, l) + AvlCnt(t, r)]

\* height and cnt from those of the children.
AvlUpdate(t, n) ==
  LET l == t.child[n]["left"]
      r == t.child[n]["right"]
  IN [t EXCEPT !.height[n] = 1 + Larger(AvlHeight(t, l), AvlHeight(t, r)),
               !.cnt[n]    = 1 + AvlCnt(t, l) + AvlCnt(t, r)]

\* The node a rotation of n to side s lifts.
Pivot(t, n, s) == t.child[n][Opp(s)]

RelinkKeepInnerParent(t, n, s) ==
  LET new   == Pivot(t, n, s)
      inner == t.child[new][s]
  IN [t EXCEPT !.child[n][Opp(s)] = inner,
               !.child[new][s]    = n,
               !.parent = [m \in Node |-> CASE m = n   -> new
                                            [] m = new -> t.parent[n]
                                            [] OTHER   -> t.parent[m]]]

\* The pointers a rotation changes.  The link from n's parent is left to the
\* caller, as in the code.
Relink(t, n, s) ==
  LET new   == Pivot(t, n, s)
      inner == t.child[new][s]
  IN [t EXCEPT !.child[n][Opp(s)] = inner,
               !.child[new][s]    = n,
               !.parent = [m \in Node |-> CASE m = inner -> n
                                            [] m = n     -> new
                                            [] m = new   -> t.parent[n]
                                            [] OTHER     -> t.parent[m]]]

\* rot_left (s = "left") and rot_right: the subtree and its new top.
Rotate(t, n, s) ==
  LET new == Pivot(t, n, s)
  IN [t |-> AvlUpdate(AvlUpdate(Relink(t, n, s), n), new), top |-> new]
=============================================================================
