-------------------------------- MODULE AVL ---------------------------------
(***************************************************************************)
(* Rebalancing, deletion and offset of avl.cpp.  An operation answers the  *)
(* changed nodes t and the new root (top): the code keeps no root pointer. *)
(***************************************************************************)
EXTENDS AVLRotate

AvlFixSideSingle(t, n, s) == Rotate(t, n, Opp(s))

\* avl_fix_left (s = "left") and avl_fix_right: side s of n is taller by 2.
AvlFixSide(t, n, s) ==
  LET c     == t.child[n][s]
      inner == AvlHeight(t, t.child[c][s]) < AvlHeight(t, t.child[c][Opp(s)])
      r     == Rotate(t, c, s)
      t1    == IF inner THEN [r.t EXCEPT !.child[n][s] = r.top] ELSE t
  IN Rotate(t1, n, Opp(s))

\* The side of its parent a node hangs on.
SideOf(t, n) ==
  IF t.child[t.parent[n]]["left"] = n THEN "left" ELSE "right"

Balance(t, n) ==
  LET l == AvlHeight(t, t.child[n]["left"])
      r == AvlHeight(t, t.child[n]["right"])
  IN IF l - r = 2 THEN AvlFixSide(t, n, "left")
     ELSE IF r - l = 2 THEN AvlFixSide(t, n, "right")
     ELSE [t |-> t, top |-> n]

\* A loop: Turn is what one turn makes of the locals st, and changes nothing
\* once the loop's condition is false.  The number of turns is a bound: no
\* path of the tree has more than Cardinality(Node) nodes.
Loop(turns, Turn(_), st) ==
  LET after[k \in Nat] == IF k = 0 THEN st ELSE Turn(after[k - 1])
  IN after[turns]

\* *from = c, where from is side s of the node p, or a local without one.
Hang(t, p, s, c) == IF p = NULL THEN t ELSE [t EXCEPT !.child[p][s] = c]

\* Rebalance a node and hang the new top of its subtree where it hung.
FixTurn(st) ==
  LET n      == st.node
      parent == st.t.parent[n]
      b      == Balance(AvlUpdate(st.t, n), n)
  IN IF n = NULL
       THEN st
       ELSE [t    |-> Hang(b.t, parent, SideOf(st.t, n), b.top),
             node |-> parent,
             top  |-> b.top]

\* Up to the root, whose subtree is the whole tree.
AvlFix(t, n) ==
  Loop(Cardinality(Node), FixTurn, [t |-> t, node |-> n, top |-> NULL])

\* Detach a node with at most one child.
AvlDelEasy(t, n) ==
  LET child  == IF t.child[n]["left"] # NULL THEN t.child[n]["left"]
                                             ELSE t.child[n]["right"]
      parent == t.parent[n]
      t1     == IF child = NULL THEN t ELSE [t EXCEPT !.parent[child] = parent]
  IN IF parent = NULL
       THEN [t |-> t1, top |-> child]
       ELSE AvlFix(Hang(t1, parent, SideOf(t, n), child), parent)

LeftTurn(t, n) == IF t.child[n]["left"] = NULL THEN n ELSE t.child[n]["left"]

Leftmost(t, n) == Loop(Cardinality(Node), LAMBDA m : LeftTurn(t, m), n)

\* Put v where n is: its fields, its children's and its parent's links.
TakePlace(t, v, n) ==
  LET below  == {t.child[n][s] : s \in Side}
      parent == t.parent[n]
      t1 == [child  |-> [t.child EXCEPT ![v] = t.child[n]],
             parent |-> [m \in Node |-> IF m \in below THEN v
                                        ELSE IF m = v THEN parent
                                        ELSE t.parent[m]],
             height |-> [t.height EXCEPT ![v] = t.height[n]],
             cnt    |-> [t.cnt EXCEPT ![v] = t.cnt[n]]]
  IN Hang(t1, parent, SideOf(t, n), v)

\* Detach any node: with two children its successor takes its place.
AvlDel(t, n) ==
  IF t.child[n]["left"] = NULL \/ t.child[n]["right"] = NULL
    THEN AvlDelEasy(t, n)
    ELSE LET victim == Leftmost(t, t.child[n]["right"])
             d      == AvlDelEasy(t, victim)
         IN [t   |-> TakePlace(d.t, victim, n),
             top |-> IF d.t.parent[n] = NULL THEN victim ELSE d.top]

\* Never down to the left: the condition of the older avl_offset.
WalkTurnNoLeft(t, offset, w) ==
  LET n      == w.node
      l      == t.child[n]["left"]
      r      == t.child[n]["right"]
      parent == t.parent[n]
  IN IF n = NULL \/ offset = w.pos THEN w
     ELSE IF w.pos < offset /\ w.pos + AvlCnt(t, r) >= offset
       THEN [node |-> r, pos |-> w.pos + AvlCnt(t, t.child[r]["left"]) + 1]
     ELSE [node |-> parent,
           pos  |-> IF parent # NULL /\ t.child[parent]["right"] = n
                      THEN w.pos - AvlCnt(t, l) - 1
                      ELSE w.pos + AvlCnt(t, r) + 1]

\* Where to look next for the node offset places after the first one (before
\* it when negative); pos is the distance walked so far.
WalkTurn(t, offset, w) ==
  LET n      == w.node
      l      == t.child[n]["left"]
      r      == t.child[n]["right"]
      parent == t.parent[n]
  IN IF n = NULL \/ offset = w.pos THEN w
     ELSE IF w.pos < offset /\ w.pos + AvlCnt(t, r) >= offset
       THEN [node |-> r, pos |-> w.pos + AvlCnt(t, t.child[r]["left"]) + 1]
     ELSE IF w.pos > offset /\ w.pos - AvlCnt(t, l) <= offset
       THEN [node |-> l, pos |-> w.pos - AvlCnt(t, t.child[l]["right"]) - 1]
     ELSE [node |-> parent,
           pos  |-> IF parent # NULL /\ t.child[parent]["right"] = n
                      THEN w.pos - AvlCnt(t, l) - 1
                      ELSE w.pos + AvlCnt(t, r) + 1]

\* Up and down again: a path twice.  NULL when there is no such node.
AvlOffset(t, n, offset) ==
  Loop(2 * Cardinality(Node), LAMBDA w : WalkTurn(t, offset, w),
       [node |-> n, pos |-> 0]).node

-----------------------------------------------------------------------------
(* What the fields should say. *)

\* The nodes at and below a node.
Under(t) ==
  LET under[n \in Node \union {NULL}] ==
        IF n = NULL THEN {}
        ELSE {n} \union under[t.child[n]["left"]] \union under[t.child[n]["right"]]
  IN under

Height(t) ==
  LET height[n \in Node \union {NULL}] ==
        IF n = NULL THEN 0
        ELSE 1 + Larger(height[t.child[n]["left"]], height[t.child[n]["right"]])
  IN height
=============================================================================
