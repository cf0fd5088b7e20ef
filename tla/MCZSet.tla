------------------------------- MODULE MCZSet -------------------------------
(* Names with the empty name, a name that extends another, and names that  *)
(* differ in their last byte.                                              *)
EXTENDS ZSet

MCNode == {<<>>, <<1>>, <<1, 1>>, <<1, 2>>, <<2>>, <<2, 1>>, <<3>>}

MCFewNames == {<<>>, <<1>>, <<1, 2>>, <<2>>, <<3>>}

MCOffsets == {-2, -1, 0, 1, 3}

\* Twelve members in the thinnest tree of height five: its root's left side
\* has seven nodes, its right side four, and every node leans to the left.
\* Deletes from it unbalance several ancestors one after the other.
Thinnest == <<8, 5, 11, 3, 7, 10, 12, 2, 4, 6, 9, 1>>

Mirrored == [i \in 1 .. 12 |-> 13 - Thinnest[i]]

MCAllNodes == MCNode \union {<<i>> : i \in 1 .. 12}

\* Build either thin tree in its order.
Grow == \E order \in {Thinnest, Mirrored} : \E i \in 1 .. 12 :
          /\ hmap = {<<order[j]>> : j \in 1 .. i - 1}
          /\ ZSetInsert(<<order[i]>>, NoScore)

\* Any operation on the names of MCNode, or a thin tree; deletes at any time.
MCNext == \/ /\ hmap \subseteq MCNode
             /\ \E n \in MCNode, s \in Score : ZSetInsert(n, s)
          \/ Grow
          \/ \E n \in hmap \union MCNode : ZSetDelete(n)
          \/ ZSetClear

MCSpec == Init /\ [][MCNext]_vars

\* States are told apart by the structure: no action reads call and ret, and
\* TLC checks every step, those to structures it has seen included.
Structure == <<tree, root, hmap, score>>
=============================================================================
