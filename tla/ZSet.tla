-------------------------------- MODULE ZSet --------------------------------
(***************************************************************************)
(* The sorted set of range.cpp: every member has one ZNode, linked into    *)
(* the tree (by score and name) and into the hashtable (by name).  A ZNode *)
(* is identified by its name, a sequence of bytes.  The hashtable is the   *)
(* set of the names it holds, what HMap is shown to implement.             *)
(***************************************************************************)
EXTENDS AVL, ZOrder

CONSTANTS Score,    \* the scores used: numbers, as str2dbl rejects NaN
          Queried,  \* the queries are checked in the sets of these names,
          Offsets,  \* with these offsets and limits
          Limits

\* Names are byte strings; the commands parse offsets and limits as integers.
ASSUME ParameterAssumption ==
  /\ Node \subseteq Seq(Nat) /\ Queried \subseteq Seq(Nat)
  /\ Score \subseteq Int /\ Score # {}
  /\ Offsets \subseteq Int /\ Limits \subseteq Int

VARIABLES tree,   \* the AVLNode of every ZNode
          root,   \* ZSet::root
          hmap,   \* the names ZSet::hmap holds
          score,  \* ZNode::score
          call,   \* the latest operation and its arguments, read by no action
          ret     \* the answer it was given

vars == <<tree, root, hmap, score, call, ret>>

NoScore == CHOOSE s \in Score : TRUE

-----------------------------------------------------------------------------
(* Comparison. *)

Shorter(a, b) == IF Len(a) < Len(b) THEN Len(a) ELSE Len(b)

\* memcmp(a, b, Shorter(a, b)) < 0 and = 0
MemLess(a, b) ==
  \E i \in 1 .. Shorter(a, b) :
     a[i] < b[i] /\ \A j \in 1 .. i - 1 : a[j] = b[j]

MemEqual(a, b) == \A i \in 1 .. Shorter(a, b) : a[i] = b[i]

\* Is the ZNode l before the ZNode r?
ZComp(sc, l, r) ==
  IF sc[l] # sc[r] THEN sc[l] < sc[r]
  ELSE IF MemEqual(l, r) THEN Len(l) < Len(r)
  ELSE MemLess(l, r)

\* A shared prefix taken for equality.
ZComp2Prefix(z, s, name) ==
  IF score[z] # s THEN (IF score[z] < s THEN 1 ELSE 0)
  ELSE IF ~MemEqual(z, name) THEN (IF MemLess(z, name) THEN 1 ELSE 0)
  ELSE 2

\* A ZNode against a (score, name) position: 1 before, 0 after, 2 equal.
ZComp2(z, s, name) ==
  IF score[z] # s THEN (IF score[z] < s THEN 1 ELSE 0)
  ELSE IF ~MemEqual(z, name) THEN (IF MemLess(z, name) THEN 1 ELSE 0)
  ELSE IF Len(z) = Len(name) THEN 2
  ELSE IF Len(z) < Len(name) THEN 1 ELSE 0

-----------------------------------------------------------------------------
(* Searches of the tree. *)

CeilTurn(s, name, st) ==
  LET n == st.node
      c == ZComp2(n, s, name)
  IN CASE n = NULL          -> st
       [] n # NULL /\ c = 1 -> [st EXCEPT !.node = tree.child[n]["right"]]
       [] n # NULL /\ c = 0 -> [node |-> tree.child[n]["left"], found |-> n]
       [] OTHER             -> [node |-> NULL, found |-> n]

\* The first ZNode at or after (s, name), or NULL.
ZSetCeil(s, name) ==
  Loop(Cardinality(Node), LAMBDA st : CeilTurn(s, name, st),
       [node |-> root, found |-> NULL]).found

RankTurn(s, name, st) ==
  LET n    == st.node
      c    == ZComp2(n, s, name)
      left == AvlCnt(tree, tree.child[n]["left"])
  IN CASE n = NULL          -> st
       [] n # NULL /\ c = 0 -> [st EXCEPT !.node = tree.child[n]["left"]]
       [] n # NULL /\ c = 1 -> [node |-> tree.child[n]["right"],
                                rank |-> st.rank + left + 1]
       [] OTHER             -> [node |-> NULL, rank |-> st.rank + left]

ZSetRank(s, name) ==
  Loop(Cardinality(Node), LAMBDA st : RankTurn(s, name, st),
       [node |-> root, rank |-> 0]).rank

ZNodeOffset(n, offset) == IF n = NULL THEN NULL ELSE AvlOffset(tree, n, offset)

\* The loop of do_zquery: every pair counts two against limit.
EmitTurn(limit, st) ==
  IF st.node # NULL /\ 2 * Len(st.names) < limit
    THEN [node |-> ZNodeOffset(st.node, 1), names |-> Append(st.names, st.node)]
    ELSE st

\* The names ZQUERY answers with.
ZQuery(s, name, offset, limit) ==
  IF limit <= 0 THEN <<>>
    ELSE Loop(Cardinality(Node), LAMBDA st : EmitTurn(limit, st),
              [node |-> ZNodeOffset(ZSetCeil(s, name), offset), names |-> <<>>]).names

-----------------------------------------------------------------------------
(* Operations. *)

Init == /\ tree = Fresh /\ root = NULL /\ hmap = {}
        /\ score = [n \in Node |-> NoScore]
        /\ call = <<"clear">> /\ ret = FALSE

\* The side of m where n belongs.
SideFor(sc, m, n) == IF ZComp(sc, n, m) THEN "left" ELSE "right"

DescendTurn(t, sc, n, at) ==
  LET next == t.child[at.parent][at.side]
  IN IF next = NULL THEN at
                    ELSE [parent |-> next, side |-> SideFor(sc, next, n)]

\* The last node on the way down to where n belongs, and its side for n.
Descend(t, r, sc, n) ==
  Loop(Cardinality(Node), LAMBDA at : DescendTurn(t, sc, n, at),
       [parent |-> r, side |-> SideFor(sc, r, n)])

\* tree_insert of a node that avl_init left fresh.
TreeInsert(t, r, sc, n) ==
  IF r = NULL
    THEN AvlFix(t, n)
    ELSE LET at == Descend(t, r, sc, n)
         IN AvlFix([t EXCEPT !.child[at.parent][at.side] = n,
                             !.parent[n] = at.parent], n)

Becomes(d) == tree' = d.t /\ root' = d.top

ZSetUpdateInPlace(n, s) == /\ score' = [score EXCEPT ![n] = s]
                           /\ UNCHANGED <<tree, root>>

\* A member whose score changes is detached and inserted again.
ZSetUpdate(n, s) ==
  LET d  == AvlDel(tree, n)
      sc == [score EXCEPT ![n] = s]
  IN /\ Becomes(TreeInsert(AvlInit(d.t, n), d.top, sc, n))
     /\ score' = sc

\* ZADD: update the member the hashtable finds, or link a new ZNode twice.
ZSetInsert(n, s) ==
  /\ IF n \in hmap
       THEN ZSetUpdate(n, s) /\ UNCHANGED hmap
       ELSE LET sc == [score EXCEPT ![n] = s]
            IN /\ hmap' = hmap \union {n}
               /\ Becomes(TreeInsert(tree, root, sc, n))
               /\ score' = sc
  /\ call' = <<"insert", n, s>>
  /\ ret' = (n \notin hmap)

\* ZREM: unlink and free the ZNode the lookup finds; its memory is gone, so
\* its fields are reset.
ZSetDelete(n) ==
  /\ IF n \in hmap
       THEN LET d == AvlDel(tree, n)
            IN /\ hmap' = hmap \ {n}
               /\ Becomes([t |-> AvlInit(d.t, n), top |-> d.top])
               /\ score' = [score EXCEPT ![n] = NoScore]
       ELSE UNCHANGED <<tree, root, hmap, score>>
  /\ call' = <<"delete", n>>
  /\ ret' = (n \in hmap)

\* DEL of the key frees every node.
ZSetClear == /\ tree' = Fresh /\ root' = NULL /\ hmap' = {}
             /\ score' = [n \in Node |-> NoScore]
             /\ call' = <<"clear">> /\ ret' = FALSE

Next == \/ \E n \in Node, s \in Score : ZSetInsert(n, s)
        \/ \E n \in Node : ZSetDelete(n)
        \/ ZSetClear

Spec == Init /\ [][Next]_vars

-----------------------------------------------------------------------------
(* Correctness. *)

InTree == Under(tree)[root]

TypeOK ==
  /\ root \in Node \union {NULL} /\ hmap \subseteq Node
  /\ tree \in [child  : [Node -> [Side -> Node \union {NULL}]],
               parent : [Node -> Node \union {NULL}],
               height : [Node -> Nat \ {0}],
               cnt    : [Node -> Nat \ {0}]]
  /\ score \in [Node -> Score] /\ ret \in BOOLEAN

\* Parent and child pointers mirror each other after every rotation and every
\* successor swap, and the tree has no pointer to a freed node.
Linked ==
  /\ root # NULL => tree.parent[root] = NULL
  /\ \A n \in InTree, s \in Side :
       LET c == tree.child[n][s]
       IN c # NULL => tree.parent[c] = n /\ c \in hmap
  /\ \A n \in hmap : n # root =>
       /\ tree.parent[n] # NULL
       /\ n \in {tree.child[tree.parent[n]][s] : s \in Side}

\* The two indexes hold the same members, each once, and the tree lists them
\* by score and then name: a score change leaves no stale position behind.
Indexed ==
  LET under == Under(tree)
  IN /\ under[root] = hmap
     /\ \A n \in hmap :
          /\ \A m \in under[tree.child[n]["left"]] : ZComp(score, m, n)
          /\ \A m \in under[tree.child[n]["right"]] : ZComp(score, n, m)

\* height and cnt are exact at every node, and no node's subtrees differ in
\* height by more than one: deletes that unbalance several ancestors included.
Balanced ==
  LET height == Height(tree)
  IN \A n \in hmap :
       LET l == tree.child[n]["left"]
           r == tree.child[n]["right"]
       IN /\ tree.height[n] = height[n]
          /\ tree.cnt[n] = Cardinality(Under(tree)[n])
          /\ height[l] - height[r] \in -1 .. 1

\* The sorted set the structure stands for: the scores of the members that the
\* hashtable holds, and the members of the tree as its pointers order them:
\* what is left of a node comes before it, what is right of it after.
Members == [n \in hmap |-> score[n]]

TreeOrder ==
  LET under == Under(tree)
  IN UNION {({n} \union under[tree.child[n]["left"]])
              \X ({n} \union under[tree.child[n]["right"]]) : n \in under[root]}

Promise == INSTANCE SortedSet WITH Name <- Node, members <- Members, order <- TreeOrder

\* ZRANK counts the members before a member, and zset_rank places any other
\* position among them.  From any member, avl_offset finds the member any
\* distance away, in either direction, and nothing beyond the ends.
PositionsExact ==
  hmap \subseteq Queried =>
    /\ \A s \in Score, n \in Queried :
         ZSetRank(s, n) = Rank(Members, s, n)
    /\ \A n \in hmap, d \in -(Cardinality(hmap) + 1) .. Cardinality(hmap) + 1 :
         LET at == At(Members, Rank(Members, score[n], n) + d)
         IN IF at = {} THEN AvlOffset(tree, n, d) = NULL
                       ELSE AvlOffset(tree, n, d) \in at

\* ZQUERY answers the page the sorted order gives, limit counting the two
\* array elements of every pair.
QueryExact ==
  hmap \subseteq Queried =>
    \A s \in Score, n \in Queried, offset \in Offsets, limit \in Limits :
      ZQuery(s, n, offset, limit) =
        Query(Members, s, n, offset, IF limit <= 0 THEN 0 ELSE (limit + 1) \div 2)

\* ZADD, ZREM and DEL change the scores, and answer, as a plain sorted set
\* would, and after each of them the tree has the members of the hashtable,
\* and no others, in the order of their scores.
SortedSetSpec == Promise!Spec
=============================================================================
