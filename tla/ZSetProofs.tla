----------------------------- MODULE ZSetProofs -----------------------------
(***************************************************************************)
(* First what the operations of avl.cpp do to a tree: a tree is the set S  *)
(* of its nodes with, for every node, the set u[n] of the nodes at and     *)
(* below it; R is the order that the nodes are kept in.  Then the sorted   *)
(* set: it keeps one AVL tree over exactly the members of the hashtable,   *)
(* in the order of (score, name), and so implements SortedSet.             *)
(***************************************************************************)
EXTENDS ZSet, ZOrderProofs

Links == Node \union {NULL}

Trees == [child  : [Node -> [Side -> Links]],
          parent : [Node -> Links],
          height : [Node -> Nat \ {0}],
          cnt    : [Node -> Nat \ {0}]]

\* Parent and child pointers agree, and u says which nodes they lead to.
Shape(t, S, u) ==
  /\ S \subseteq Node /\ u \in [Links -> SUBSET S] /\ u[NULL] = {}
  /\ \A n \in S, s \in Side :
       LET c == t.child[n][s]
           d == t.child[n][Opp(s)]
       IN /\ c \in S \union {NULL}
          /\ u[n] = {n} \union u[c] \union u[d]
          /\ n \notin u[c] /\ u[c] \intersect u[d] = {}
          /\ c # NULL => t.parent[c] = n
  /\ \A n \in S : LET p == t.parent[n]
                  IN p # NULL => p \in S /\ \E s \in Side : t.child[p][s] = n

\* m belongs on side s of n.
On(R, s, m, n) == IF s = "left" THEN <<m, n>> \in R ELSE <<n, m>> \in R

Sorted(t, S, u, R) ==
  \A n \in S, s \in Side : \A m \in u[t.child[n][s]] : On(R, s, m, n)

Order(S, R) ==
  /\ \A m, n \in S : m # n => <<m, n>> \in R \/ <<n, m>> \in R
  /\ \A m \in S : <<m, m>> \notin R
  /\ \A l, m, n \in S : <<l, m>> \in R /\ <<m, n>> \in R => <<l, n>> \in R

-----------------------------------------------------------------------------
(* Least and greatest values of a function, and sizes of sets of nodes.     *)
LEMMA Least ==
  ASSUME NEW T, T # {}, NEW f, \A x \in T : f[x] \in Nat
  PROVE  \E x \in T : \A y \in T : f[x] <= f[y]
<1> DEFINE V == {f[x] : x \in T}
<1>1. V \subseteq Nat /\ V # {}
  OBVIOUS
<1> HIDE DEF V
<1>2. PICK v \in V : \A w \in V : v <= w
  BY <1>1, LeastNumber
<1> USE DEF V
<1>3. PICK x \in T : v = f[x]
  OBVIOUS
<1>4. \A y \in T : f[y] \in V
  OBVIOUS
<1> QED
  BY <1>2, <1>3, <1>4

LEMMA Greatest ==
  ASSUME NEW T, T # {}, NEW f, NEW b \in Nat, \A x \in T : f[x] \in 0 .. b
  PROVE  \E x \in T : \A y \in T : f[y] <= f[x]
<1> DEFINE g == [x \in T |-> b - f[x]]
<1>1. \A x \in T : g[x] \in Nat /\ g[x] = b - f[x] /\ f[x] \in Int
  OBVIOUS
<1> HIDE DEF g
<1>2. PICK x \in T : \A y \in T : g[x] <= g[y]
  BY <1>1, Least
<1> QED
  BY <1>1, <1>2

LEMMA SideFacts ==
  \A s \in Side : /\ Opp(s) \in Side /\ Opp(s) # s /\ Opp(Opp(s)) = s
                  /\ \A z \in Side : z = s \/ z = Opp(s)
BY DEF Side, Opp

LEMMA NodesFinite ==
  ASSUME NEW A \in SUBSET Node
  PROVE  IsFiniteSet(A) /\ Cardinality(A) \in 0 .. Cardinality(Node)
<1>1. IsFiniteSet(A) /\ Cardinality(A) <= Cardinality(Node)
  BY NodeAssumption, FS_Subset
<1> QED
  BY <1>1, NodeAssumption, FS_CardinalityType

LEMMA FewerNodes ==
  ASSUME NEW B \in SUBSET Node, NEW A \in SUBSET B, A # B
  PROVE  Cardinality(A) < Cardinality(B)
<1>1. A \in SUBSET Node
  OBVIOUS
<1>2. Cardinality(A) \in Nat /\ Cardinality(B) \in Nat /\ IsFiniteSet(B)
  BY <1>1, NodesFinite
<1>3. Cardinality(A) <= Cardinality(B) /\ Cardinality(A) # Cardinality(B)
  BY <1>2, FS_Subset
<1> QED
  BY <1>2, <1>3

-----------------------------------------------------------------------------
(* A loop. X[k] is what is known of the locals when k turns suffice.        *)
Iterate(f, D, g, st) ==
  f \in [Nat -> D] /\ f[0] = st /\ \A k \in Nat : f[k + 1] = g[f[k]]

LEMMA Iterates ==
  ASSUME NEW D, NEW g \in [D -> D], NEW st \in D
  PROVE  \E f : Iterate(f, D, g, st)
<1> DEFINE Part(h, n) == /\ h \in [0 .. n -> D] /\ h[0] = st
                         /\ \A k \in 0 .. n - 1 : h[k + 1] = g[h[k]]
           Bad == {n \in Nat : ~\E h : Part(h, n)}
<1>1. Bad = {}
  <2> SUFFICES ASSUME Bad # {} PROVE FALSE
    OBVIOUS
  <2>1. PICK n \in Bad : \A m \in Bad : n <= m
    BY LeastNumber
  <2>2. n # 0
    <3>1. Part([k \in 0 .. 0 |-> st], 0)
      OBVIOUS
    <3> QED
      BY <3>1
  <2>3. n - 1 \in Nat /\ n - 1 \notin Bad
    BY <2>1, <2>2
  <2>4. PICK h : Part(h, n - 1)
    BY <2>3
  <2> DEFINE j == [k \in 0 .. n |-> IF k = n THEN g[h[n - 1]] ELSE h[k]]
  <2>5. Part(j, n)
    <3>1. \A k \in 0 .. n : j[k] \in D
      BY <2>3, <2>4
    <3>2. j[0] = st /\ n \in Nat
      BY <2>2, <2>3, <2>4
    <3>3. \A k \in 0 .. n - 1 : j[k + 1] = g[j[k]]
      BY <2>3, <2>4
    <3> QED
      BY <3>1, <3>2, <3>3
  <2> QED
    BY <2>1, <2>5
<1>2. \A n \in Nat : \E h : Part(h, n)
  BY <1>1
<1> DEFINE part(n) == CHOOSE h : Part(h, n)
           f == [n \in Nat |-> part(n)[n]]
<1>3. \A n \in Nat : Part(part(n), n)
  <2> HIDE DEF Part
  <2> QED
    BY <1>2
<1>f. \A n \in Nat : f[n] = part(n)[n]
  OBVIOUS
<1> HIDE DEF part, f
<1>4. ASSUME NEW n \in Nat
      PROVE  part(n + 1)[n] = part(n)[n]
  <2>0. n + 1 \in Nat
    OBVIOUS
  <2>a. PICK a : a = part(n + 1) /\ Part(a, n + 1)
    <3> HIDE DEF Part
    <3> QED
      BY <1>3, <2>0
  <2>b. PICK b : b = part(n) /\ Part(b, n)
    <3> HIDE DEF Part
    <3> QED
      BY <1>3
  <2> DEFINE Differ == {k \in Nat : k <= n /\ a[k] # b[k]}
  <2>1. Part(a, n + 1) /\ Part(b, n)
    BY <2>a, <2>b
  <2>2. Differ = {}
    <3> SUFFICES ASSUME Differ # {} PROVE FALSE
      OBVIOUS
    <3>1. PICK k \in Differ : \A m \in Differ : k <= m
      BY LeastNumber
    <3>2. k # 0
      BY <2>1
    <3>3. k - 1 \in Nat /\ k - 1 \notin Differ
      BY <3>1, <3>2
    <3>4. a[k - 1] = b[k - 1] /\ k - 1 \in 0 .. n - 1 /\ k - 1 \in 0 .. (n + 1) - 1
      BY <3>1, <3>3
    <3>5. a[(k - 1) + 1] = g[a[k - 1]] /\ b[(k - 1) + 1] = g[b[k - 1]]
      BY <2>1, <3>4
    <3> QED
      BY <3>1, <3>3, <3>4, <3>5
  <2> QED
    BY <2>2, <2>a, <2>b
<1>5. f \in [Nat -> D]
  <2>1. \A n \in Nat : part(n)[n] \in D
    BY <1>3
  <2> QED
    BY <2>1 DEF f
<1>6. f[0] = st
  BY <1>3, <1>f
<1>7. ASSUME NEW k \in Nat
      PROVE  f[k + 1] = g[f[k]]
  <2>1. part(k + 1)[k + 1] = g[part(k + 1)[k]]
    <3>1. k + 1 \in Nat /\ k \in 0 .. (k + 1) - 1
      OBVIOUS
    <3> QED
      BY <1>3, <3>1
  <2>2. k + 1 \in Nat /\ part(k + 1)[k] = f[k]
    BY <1>4, <1>f
  <2> HIDE DEF Part
  <2> QED
    BY <2>1, <2>2, <1>f
<1> QED
  BY <1>5, <1>6, <1>7 DEF Iterate

LEMMA LoopReaches ==
  ASSUME NEW N \in Nat, NEW X, NEW h,
         h[0] \in X[N],
         \A k \in 0 .. N - 1 : h[k] \in X[N - k] => h[k + 1] \in X[N - k - 1]
  PROVE  h[N] \in X[0]
<1> DEFINE Bad == {k \in Nat : k <= N /\ h[k] \notin X[N - k]}
<1>1. Bad = {}
  <2> SUFFICES ASSUME Bad # {} PROVE FALSE
    OBVIOUS
  <2>1. PICK k \in Bad : \A m \in Bad : k <= m
    BY LeastNumber
  <2>2. k # 0
    OBVIOUS
  <2>3. k - 1 \in Nat /\ k - 1 \notin Bad /\ k - 1 \in 0 .. N - 1
    BY <2>1, <2>2
  <2>4. h[k - 1] \in X[N - (k - 1)]
    BY <2>3
  <2>5. h[(k - 1) + 1] \in X[N - (k - 1) - 1]
    BY <2>3, <2>4
  <2>6. (k - 1) + 1 = k /\ N - (k - 1) - 1 = N - k
    OBVIOUS
  <2> QED
    BY <2>5, <2>6
<1>2. N \notin Bad /\ N - N = 0
  BY <1>1
<1> QED
  BY <1>2

-----------------------------------------------------------------------------
(* The nodes under a node. *)
LEMMA KidFacts ==
  ASSUME NEW t, NEW S, NEW u, Shape(t, S, u), NEW n \in S, NEW s \in Side
  PROVE  /\ n \in Node /\ n # NULL /\ n \in u[n] /\ u[n] \subseteq S
         /\ u[t.child[n][s]] \subseteq u[n] /\ n \notin u[t.child[n][s]]
         /\ \A m \in u[n] : m = n \/ m \in u[t.child[n][s]]
                                  \/ m \in u[t.child[n][Opp(s)]]
         /\ t.child[n][s] # NULL => /\ t.child[n][s] \in S
                                   /\ t.child[n][s] \in u[t.child[n][s]]
                                   /\ t.child[n][s] \in u[n]
                                   /\ t.child[n][s] # n
                                   /\ t.parent[t.child[n][s]] = n
<1>1. n \in Node /\ n # NULL /\ u[n] \in SUBSET S
  BY NodeAssumption DEF Shape, Links
<1>2. \A m \in S : m \in u[m]
  BY SideFacts DEF Shape
<1> QED
  BY <1>1, <1>2 DEF Shape

(* A set with every node whose children it has is the whole tree. *)
LEMMA TreeInduction ==
  ASSUME NEW t, NEW S, NEW u, Shape(t, S, u),
         NEW T \in SUBSET S,
         \A n \in S : (\A s \in Side : t.child[n][s] \in T \union {NULL}) => n \in T
  PROVE  T = S
<1> SUFFICES ASSUME S \ T # {} PROVE FALSE
  OBVIOUS
<1> DEFINE f == [n \in S |-> Cardinality(u[n])]
<1>1. \A n \in S : u[n] \in SUBSET Node
  BY DEF Shape, Links
<1>2. \A n \in S : f[n] \in Nat
  BY <1>1, NodesFinite
<1>3. PICK n \in S \ T : \A m \in S \ T : f[n] <= f[m]
  <2> HIDE DEF f
  <2> QED
    BY <1>2, Least
<1>4. PICK s \in Side : t.child[n][s] \notin T \union {NULL}
  BY <1>3
<1> DEFINE c == t.child[n][s]
<1>5. c \in S \ T /\ u[c] \subseteq u[n] /\ n \notin u[c] /\ n \in u[n]
  BY <1>4, KidFacts
<1>6. f[c] < f[n]
  BY <1>1, <1>5, FewerNodes
<1> HIDE DEF f, c
<1> QED
  BY <1>2, <1>3, <1>5, <1>6

LEMMA Nested ==
  ASSUME NEW t, NEW S, NEW u, Shape(t, S, u), NEW n \in S, NEW m \in u[n]
  PROVE  m \in S /\ u[m] \subseteq u[n]
<1> DEFINE T == {x \in S : \A y \in u[x] : u[y] \subseteq u[x]}
<1>1. ASSUME NEW x \in S, \A s \in Side : t.child[x][s] \in T \union {NULL}
      PROVE  x \in T
  <2> SUFFICES ASSUME NEW y \in u[x] PROVE u[y] \subseteq u[x]
    OBVIOUS
  <2>1. PICK s \in Side : TRUE
    BY DEF Side
  <2>2. CASE y = x
    BY <2>2
  <2>3. ASSUME NEW z \in Side, y \in u[t.child[x][z]]
        PROVE  u[y] \subseteq u[x]
    <3>1. t.child[x][z] \in T
      BY <1>1, <2>3 DEF Shape
    <3> QED
      BY <3>1, <2>3, KidFacts
  <2> QED
    BY <2>1, <2>2, <2>3, KidFacts, SideFacts
<1>2. T = S
  <2> HIDE DEF T
  <2>1. T \in SUBSET S
    BY DEF T
  <2> QED
    BY <1>1, <2>1, TreeInduction
<1> QED
  BY <1>2, KidFacts, SideFacts DEF Side

(* The parent of a node under n, but of n itself, is under n too. *)
LEMMA ParentUnder ==
  ASSUME NEW t, NEW S, NEW u, Shape(t, S, u), NEW n \in S, NEW m \in u[n], m # n
  PROVE  t.parent[m] \in u[n] /\ t.parent[m] # NULL
<1> DEFINE Up(x, y) == t.parent[y] \in u[x] /\ t.parent[y] # NULL
           T == {x \in S : \A y \in u[x] : y # x => Up(x, y)}
<1>1. ASSUME NEW x \in S, \A s \in Side : t.child[x][s] \in T \union {NULL}
      PROVE  x \in T
  <2> SUFFICES ASSUME NEW y \in u[x], y # x PROVE Up(x, y)
    OBVIOUS
  <2>1. ASSUME NEW z \in Side, y \in u[t.child[x][z]]
        PROVE  Up(x, y)
    <3> DEFINE c == t.child[x][z]
    <3>1. c \in T /\ c # NULL
      BY <1>1, <2>1 DEF Shape
    <3>2. CASE y = c
      BY <3>1, <3>2, KidFacts
    <3>3. CASE y # c
      <4>1. Up(c, y)
        BY <3>1, <3>3, <2>1
      <4>2. u[c] \subseteq u[x]
        BY KidFacts
      <4> QED
        BY <4>1, <4>2
    <3> QED
      BY <3>2, <3>3
  <2>2. \E z \in Side : y \in u[t.child[x][z]]
    BY KidFacts, SideFacts DEF Side
  <2> QED
    BY <2>1, <2>2
<1>2. T = S
  <2> HIDE DEF T
  <2>1. T \in SUBSET S
    BY DEF T
  <2> QED
    BY <1>1, <2>1, TreeInduction
<1> QED
  BY <1>2

(* Of two nodes with a common node under them, one is under the other. *)
LEMMA Laminar ==
  ASSUME NEW t, NEW S, NEW u, Shape(t, S, u), NEW m \in S, NEW n \in S,
         u[m] \intersect u[n] # {}
  PROVE  m \in u[n] \/ n \in u[m]
<1> DEFINE Either(x, y) == x \in u[y] \/ y \in u[x]
           T == {x \in S : \A y \in S : u[x] \intersect u[y] # {} => Either(x, y)}
<1>1. ASSUME NEW x \in S, \A s \in Side : t.child[x][s] \in T \union {NULL}
      PROVE  x \in T
  <2> SUFFICES ASSUME NEW y \in S, NEW w \in u[x] \intersect u[y]
               PROVE  Either(x, y)
    OBVIOUS
  <2>1. CASE w = x
    BY <2>1
  <2>2. ASSUME NEW z \in Side, w \in u[t.child[x][z]]
        PROVE  Either(x, y)
    <3> DEFINE c == t.child[x][z]
    <3>1. c \in T /\ c # NULL /\ t.parent[c] = x /\ u[c] \subseteq u[x] /\ c \in u[x]
      BY <1>1, <2>2, KidFacts DEF Shape
    <3>2. Either(c, y)
      BY <3>1, <2>2
    <3>3. CASE c \in u[y] /\ c # y
      BY <3>1, <3>3, ParentUnder
    <3> QED
      BY <3>1, <3>2, <3>3
  <2> QED
    BY <2>1, <2>2, KidFacts, SideFacts DEF Side
<1>2. T = S
  <2> HIDE DEF T
  <2>1. T \in SUBSET S
    BY DEF T
  <2> QED
    BY <1>1, <2>1, TreeInduction
<1> QED
  BY <1>2

LEMMA NotBothUnder ==
  ASSUME NEW t, NEW S, NEW u, Shape(t, S, u), NEW n \in S, NEW m \in u[n], m # n
  PROVE  n \notin u[m]
<1>1. PICK z \in Side : m \in u[t.child[n][z]]
  BY KidFacts, SideFacts DEF Side
<1>2. t.child[n][z] \in S /\ n \notin u[t.child[n][z]]
  BY <1>1, KidFacts DEF Shape
<1> QED
  BY <1>1, <1>2, Nested

-----------------------------------------------------------------------------
(* What the operations leave in the fields. *)
LEMMA HeightsAreNumbers ==
  ASSUME NEW t \in Trees, NEW c \in Links
  PROVE  /\ AvlHeight(t, c) \in Nat /\ AvlCnt(t, c) \in Nat
         /\ AvlHeight(t, c) = 0 <=> c = NULL
         /\ AvlCnt(t, c) = 0 <=> c = NULL
BY NodeAssumption DEF Trees, Links, AvlHeight, AvlCnt

LEMMA ChildIsLink ==
  ASSUME NEW t \in Trees, NEW n \in Node
  PROVE  t.parent[n] \in Links /\ \A s \in Side : t.child[n][s] \in Links
BY DEF Trees

LEMMA LargerOf ==
  ASSUME NEW a \in Nat, NEW b \in Nat
  PROVE  /\ Larger(a, b) \in Nat /\ Larger(a, b) = Larger(b, a)
         /\ Larger(a, b) >= a /\ Larger(a, b) >= b
         /\ Larger(a, b) = a \/ Larger(a, b) = b
BY DEF Larger

LEMMA UpdateReads ==
  ASSUME NEW t \in Trees, NEW n \in Node
  PROVE  LET d == AvlUpdate(t, n)
         IN  /\ d \in Trees /\ d.child = t.child /\ d.parent = t.parent
             /\ \A m \in Node : m # n => /\ d.height[m] = t.height[m]
                                         /\ d.cnt[m] = t.cnt[m]
             /\ \A s \in Side :
                  /\ d.height[n] = 1 + Larger(AvlHeight(t, t.child[n][s]),
                                              AvlHeight(t, t.child[n][Opp(s)]))
                  /\ d.cnt[n] = 1 + AvlCnt(t, t.child[n][s])
                                  + AvlCnt(t, t.child[n][Opp(s)])
<1> DEFINE d == AvlUpdate(t, n)
           l == t.child[n]["left"]
           r == t.child[n]["right"]
           h == 1 + Larger(AvlHeight(t, l), AvlHeight(t, r))
           k == 1 + AvlCnt(t, l) + AvlCnt(t, r)
<1>1. l \in Links /\ r \in Links
  BY ChildIsLink DEF Side
<1>2. /\ AvlHeight(t, l) \in Nat /\ AvlHeight(t, r) \in Nat
      /\ AvlCnt(t, l) \in Nat /\ AvlCnt(t, r) \in Nat
  BY <1>1, HeightsAreNumbers
<1>3. h \in Nat \ {0} /\ k \in Nat \ {0}
  <2>1. Larger(AvlHeight(t, l), AvlHeight(t, r)) \in Nat
    BY <1>2, LargerOf
  <2> QED
    BY <1>2, <2>1
<1>4. d = [t EXCEPT !.height[n] = h, !.cnt[n] = k]
  BY DEF AvlUpdate
<1> HIDE DEF d, h, k
<1>5. /\ d \in Trees /\ d.child = t.child /\ d.parent = t.parent
      /\ d.height[n] = h /\ d.cnt[n] = k
      /\ \A m \in Node : m # n => d.height[m] = t.height[m] /\ d.cnt[m] = t.cnt[m]
  BY <1>3, <1>4 DEF Trees
<1>6. ASSUME NEW s \in Side
      PROVE  /\ h = 1 + Larger(AvlHeight(t, t.child[n][s]),
                               AvlHeight(t, t.child[n][Opp(s)]))
             /\ k = 1 + AvlCnt(t, t.child[n][s]) + AvlCnt(t, t.child[n][Opp(s)])
  <2>1. CASE s = "left"
    BY <2>1 DEF Opp, h, k
  <2>2. CASE s = "right"
    BY <2>2, <1>2, LargerOf DEF Opp, h, k
  <2> QED
    BY <2>1, <2>2 DEF Side
<1> QED
  BY <1>5, <1>6 DEF d

LEMMA HangReads ==
  ASSUME NEW t \in Trees, NEW p \in Links, NEW s \in Side, NEW c \in Links
  PROVE  LET d == Hang(t, p, s, c)
         IN  /\ d \in Trees /\ d.parent = t.parent /\ d.height = t.height /\ d.cnt = t.cnt
             /\ \A m \in Node, z \in Side :
                  d.child[m][z] = IF m = p /\ z = s THEN c ELSE t.child[m][z]
<1>1. CASE p = NULL
  BY <1>1, NodeAssumption DEF Hang
<1>2. CASE p # NULL
  <2> DEFINE d == Hang(t, p, s, c)
  <2>1. p \in Node /\ d = [t EXCEPT !.child[p][s] = c]
    BY <1>2 DEF Hang, Links
  <2> HIDE DEF d
  <2>2. d \in Trees
    BY <2>1 DEF Trees
  <2>3. \A m \in Node, z \in Side :
          d.child[m][z] = IF m = p /\ z = s THEN c ELSE t.child[m][z]
    BY <2>1 DEF Trees
  <2>4. d.parent = t.parent /\ d.height = t.height /\ d.cnt = t.cnt
    BY <2>1 DEF Trees
  <2> QED
    BY <2>2, <2>3, <2>4 DEF d
<1> QED
  BY <1>1, <1>2

LEMMA RelinkReads ==
  ASSUME NEW t \in Trees, NEW n \in Node, NEW s \in Side,
         Pivot(t, n, s) \in Node, Pivot(t, n, s) # n,
         t.child[Pivot(t, n, s)][s] \notin {n, Pivot(t, n, s)}
  PROVE  LET d     == Relink(t, n, s)
             new   == Pivot(t, n, s)
             inner == t.child[new][s]
         IN  /\ d \in Trees /\ d.height = t.height /\ d.cnt = t.cnt
             /\ \A m \in Node, z \in Side :
                  d.child[m][z] = IF m = n /\ z = Opp(s) THEN inner
                                  ELSE IF m = new /\ z = s THEN n
                                  ELSE t.child[m][z]
             /\ \A m \in Node :
                  d.parent[m] = IF m = inner THEN n
                                ELSE IF m = n THEN new
                                ELSE IF m = new THEN t.parent[n]
                                ELSE t.parent[m]
<1> DEFINE new   == Pivot(t, n, s)
           inner == t.child[new][s]
           up    == [m \in Node |-> CASE m = inner -> n
                                      [] m = n     -> new
                                      [] m = new   -> t.parent[n]
                                      [] OTHER     -> t.parent[m]]
           d     == Relink(t, n, s)
<1>1. d = [t EXCEPT !.child[n][Opp(s)] = inner, !.child[new][s] = n, !.parent = up]
  BY DEF Relink
<1>2. inner \in Links /\ n \in Links /\ Opp(s) \in Side
  BY ChildIsLink, SideFacts DEF Links
<1>3. new \in Node /\ new # n /\ inner # n /\ inner # new
  OBVIOUS
<1>4. \A m \in Node : up[m] = IF m = inner THEN n
                              ELSE IF m = n THEN new
                              ELSE IF m = new THEN t.parent[n]
                              ELSE t.parent[m]
  BY <1>3
<1>5. up \in [Node -> Links]
  <2>1. \A m \in Node : up[m] \in Links
    BY <1>3, <1>4, ChildIsLink DEF Links
  <2> QED
    BY <2>1
<1> HIDE DEF new, inner, up, d
<1>6. /\ d \in Trees /\ d.height = t.height /\ d.cnt = t.cnt /\ d.parent = up
      /\ \A m \in Node, z \in Side :
           d.child[m][z] = IF m = n /\ z = Opp(s) THEN inner
                           ELSE IF m = new /\ z = s THEN n
                           ELSE t.child[m][z]
  BY <1>1, <1>2, <1>3, <1>5 DEF Trees
<1> QED
  BY <1>4, <1>6 DEF new, inner, d

-----------------------------------------------------------------------------
(* A rotation. *)
LEMMA Place ==
  ASSUME NEW t, NEW S, NEW u, Shape(t, S, u), NEW n \in S
  PROVE  /\ SideOf(t, n) \in Side
         /\ t.parent[n] # NULL =>
              /\ t.parent[n] \in S /\ t.parent[n] # n /\ t.parent[n] \notin u[n]
              /\ n \in u[t.parent[n]]
              /\ t.child[t.parent[n]][SideOf(t, n)] = n
              /\ \A z \in Side : t.child[t.parent[n]][z] = n => z = SideOf(t, n)
<1>1. SideOf(t, n) \in Side
  BY DEF SideOf, Side
<1>2. ASSUME t.parent[n] # NULL
      PROVE  /\ t.parent[n] \in S /\ t.parent[n] # n /\ t.parent[n] \notin u[n]
             /\ n \in u[t.parent[n]]
             /\ t.child[t.parent[n]][SideOf(t, n)] = n
             /\ \A z \in Side : t.child[t.parent[n]][z] = n => z = SideOf(t, n)
  <2> DEFINE p == t.parent[n]
  <2>1. p \in S /\ \E z \in Side : t.child[p][z] = n
    BY <1>2 DEF Shape
  <2>2. PICK z \in Side : t.child[p][z] = n
    BY <2>1
  <2>3. n # NULL /\ n \in Node
    BY KidFacts, <2>2
  <2>4. n \in u[p] /\ n # p
    BY <2>1, <2>2, <2>3, KidFacts
  <2>5. p \notin u[n]
    BY <2>1, <2>4, NotBothUnder
  <2>6. t.child[p][SideOf(t, n)] = n
    BY <2>2 DEF SideOf, Side
  <2>7. ASSUME NEW a \in Side, t.child[p][a] = n, t.child[p][Opp(a)] = n
        PROVE  FALSE
    <3>1. u[n] \intersect u[n] = {}
      BY <2>1, <2>7 DEF Shape
    <3> QED
      BY <3>1, <2>2, KidFacts
  <2>8. ASSUME NEW a \in Side, t.child[p][a] = n
        PROVE  a = SideOf(t, n)
    BY <2>6, <2>7, <2>8, <1>1, SideFacts
  <2> QED
    BY <2>1, <2>4, <2>5, <2>6, <2>8
<1> QED
  BY <1>1, <1>2

\* A rotation, and the link from above.
Lift(t, n, s) ==
  LET r == Rotate(t, n, s)
  IN Hang(r.t, t.parent[n], SideOf(t, n), r.top)

(* The nodes a rotation is about are different nodes. *)
LEMMA Apart ==
  ASSUME NEW t \in Trees, NEW S, NEW u, Shape(t, S, u), NEW n \in S, NEW s \in Side,
         Pivot(t, n, s) # NULL
  PROVE  LET new   == Pivot(t, n, s)
             inner == t.child[new][s]
             out   == t.child[new][Opp(s)]
             other == t.child[n][s]
             p     == t.parent[n]
         IN  /\ new \in S /\ new # n /\ t.parent[new] = n
             /\ inner # n /\ inner # new /\ out # n /\ out # new
             /\ other # n /\ other # new /\ p # n /\ p # new
             /\ inner \in S \union {NULL} /\ out \in S \union {NULL}
             /\ other \in S \union {NULL} /\ p \in S \union {NULL}
             /\ inner # NULL => inner # out /\ inner # other /\ t.parent[inner] = new
<1> DEFINE new   == Pivot(t, n, s)
           inner == t.child[new][s]
           out   == t.child[new][Opp(s)]
           other == t.child[n][s]
           p     == t.parent[n]
<1>1. new = t.child[n][Opp(s)] /\ Opp(s) \in Side /\ Opp(Opp(s)) = s
  BY SideFacts DEF Pivot
<1> HIDE DEF new
<1>2. /\ new \in S /\ new # n /\ t.parent[new] = n /\ new \in u[n]
      /\ new # NULL /\ n \notin u[new] /\ new \in u[new]
  BY <1>1, KidFacts DEF new
<1>3. u[new] \intersect u[other] = {}
  BY <1>1 DEF Shape
<1>4. ASSUME NEW z \in Side
      PROVE  /\ t.child[new][z] \in S \union {NULL}
             /\ t.child[new][z] # n /\ t.child[new][z] # new
             /\ t.child[new][z] # NULL => t.parent[t.child[new][z]] = new
                                           /\ t.child[new][z] \in u[new]
  BY <1>2, KidFacts DEF Shape
<1>5. other \in S \union {NULL} /\ other # n /\ (other # NULL => other \in u[other])
  BY KidFacts DEF Shape
<1>6. other # new
  BY <1>2, <1>3
<1>7. p \in S \union {NULL} /\ p # n /\ p # new
  BY <1>2, Place, KidFacts
<1>8. inner # NULL => inner # out
  <2>1. u[inner] \intersect u[out] = {}
    BY <1>2 DEF Shape
  <2> QED
    BY <2>1, <1>2, KidFacts
<1>9. inner # NULL => inner # other
  BY <1>3, <1>4, <1>5
<1> QED
  BY <1>1, <1>2, <1>4, <1>5, <1>6, <1>7, <1>8, <1>9 DEF new

LEMMA LiftReads ==
  ASSUME NEW t \in Trees, NEW S, NEW u, Shape(t, S, u), NEW n \in S, NEW s \in Side,
         Pivot(t, n, s) # NULL
  PROVE  LET d     == Lift(t, n, s)
             new   == Pivot(t, n, s)
             inner == t.child[new][s]
             out   == t.child[new][Opp(s)]
             other == t.child[n][s]
             p     == t.parent[n]
         IN  /\ d \in Trees
             /\ \A m \in Node, z \in Side :
                  d.child[m][z] = IF m = p /\ z = SideOf(t, n) THEN new
                                  ELSE IF m = n /\ z = Opp(s) THEN inner
                                  ELSE IF m = new /\ z = s THEN n
                                  ELSE t.child[m][z]
             /\ \A m \in Node :
                  d.parent[m] = IF m = inner THEN n
                                ELSE IF m = n THEN new
                                ELSE IF m = new THEN p
                                ELSE t.parent[m]
             /\ \A m \in Node : m # n /\ m # new => /\ d.height[m] = t.height[m]
                                                    /\ d.cnt[m] = t.cnt[m]
             /\ d.height[n] = 1 + Larger(AvlHeight(t, other), AvlHeight(t, inner))
             /\ d.height[new] = 1 + Larger(d.height[n], AvlHeight(t, out))
             /\ d.cnt[n] = 1 + AvlCnt(t, other) + AvlCnt(t, inner)
             /\ d.cnt[new] = 1 + d.cnt[n] + AvlCnt(t, out)
<1> DEFINE new   == Pivot(t, n, s)
           inner == t.child[new][s]
           out   == t.child[new][Opp(s)]
           other == t.child[n][s]
           p     == t.parent[n]
           t1    == Relink(t, n, s)
           t2    == AvlUpdate(t1, n)
           t3    == AvlUpdate(t2, new)
           d     == Lift(t, n, s)
<1>1. /\ new \in S /\ new # n
      /\ inner # n /\ inner # new /\ out # n /\ out # new
      /\ other # n /\ other # new /\ p # n /\ p # new
      /\ inner \in S \union {NULL} /\ out \in S \union {NULL}
      /\ other \in S \union {NULL} /\ p \in S \union {NULL}
  BY Apart
<1>2. /\ S \subseteq Node /\ NULL \notin Node /\ p \in Links /\ new \in Links
      /\ SideOf(t, n) \in Side /\ Opp(s) \in Side /\ Opp(s) # s /\ Opp(Opp(s)) = s
  <2>1. S \subseteq Node /\ NULL \notin Node
    BY NodeAssumption DEF Shape
  <2>2. p \in Links /\ new \in Links
    BY <1>1, <2>1 DEF Links
  <2>3. SideOf(t, n) \in Side
    BY Place
  <2> HIDE DEF p, new
  <2> QED
    BY <2>1, <2>2, <2>3, SideFacts
<1>3. d = Hang(t3, p, SideOf(t, n), new)
  BY DEF Lift, Rotate
<1>4. /\ t1 \in Trees /\ t1.height = t.height /\ t1.cnt = t.cnt
      /\ \A m \in Node, z \in Side :
           t1.child[m][z] = IF m = n /\ z = Opp(s) THEN inner
                            ELSE IF m = new /\ z = s THEN n
                            ELSE t.child[m][z]
      /\ \A m \in Node :
           t1.parent[m] = IF m = inner THEN n
                          ELSE IF m = n THEN new
                          ELSE IF m = new THEN t.parent[n]
                          ELSE t.parent[m]
  BY <1>1, <1>2, RelinkReads
<1> HIDE DEF t1
<1>5. /\ t2 \in Trees /\ t2.child = t1.child /\ t2.parent = t1.parent
      /\ \A m \in Node : m # n => t2.height[m] = t1.height[m] /\ t2.cnt[m] = t1.cnt[m]
      /\ t2.height[n] = 1 + Larger(AvlHeight(t1, t1.child[n][s]),
                                   AvlHeight(t1, t1.child[n][Opp(s)]))
      /\ t2.cnt[n] = 1 + AvlCnt(t1, t1.child[n][s]) + AvlCnt(t1, t1.child[n][Opp(s)])
  BY <1>2, <1>4, UpdateReads
<1> HIDE DEF t2
<1>6. /\ t3 \in Trees /\ t3.child = t2.child /\ t3.parent = t2.parent
      /\ \A m \in Node : m # new => t3.height[m] = t2.height[m] /\ t3.cnt[m] = t2.cnt[m]
      /\ t3.height[new] = 1 + Larger(AvlHeight(t2, t2.child[new][s]),
                                     AvlHeight(t2, t2.child[new][Opp(s)]))
      /\ t3.cnt[new] = 1 + AvlCnt(t2, t2.child[new][s]) + AvlCnt(t2, t2.child[new][Opp(s)])
  BY <1>1, <1>2, <1>5, UpdateReads
<1> HIDE DEF t3
<1>7. /\ d \in Trees /\ d.parent = t3.parent /\ d.height = t3.height /\ d.cnt = t3.cnt
      /\ \A m \in Node, z \in Side :
           d.child[m][z] = IF m = p /\ z = SideOf(t, n) THEN new ELSE t3.child[m][z]
  <2> HIDE DEF d, new, p
  <2> DEFINE side == SideOf(t, n)
             e    == Hang(t3, p, side, new)
  <2>1. t3 \in Trees /\ p \in Links /\ side \in Side /\ new \in Links
    BY <1>2, <1>6
  <2> HIDE DEF side
  <2>2. /\ e \in Trees /\ e.parent = t3.parent /\ e.height = t3.height /\ e.cnt = t3.cnt
        /\ \A m \in Node, z \in Side :
             e.child[m][z] = IF m = p /\ z = side THEN new ELSE t3.child[m][z]
    BY <2>1, HangReads
  <2>3. d = e
    BY <1>3 DEF side
  <2> HIDE DEF e
  <2> QED
    BY <2>2, <2>3 DEF side
<1> HIDE DEF d, new, inner, out, other, p
<1>8. /\ t1.child[n][s] = other /\ t1.child[n][Opp(s)] = inner
      /\ t2.child[new][s] = n /\ t2.child[new][Opp(s)] = out
  BY <1>1, <1>2, <1>4, <1>5 DEF other, out
<1>9. /\ t2.height[n] = 1 + Larger(AvlHeight(t, other), AvlHeight(t, inner))
      /\ t2.cnt[n] = 1 + AvlCnt(t, other) + AvlCnt(t, inner)
  BY <1>4, <1>5, <1>8 DEF AvlHeight, AvlCnt
<1>10. /\ t3.height[new] = 1 + Larger(t2.height[n], AvlHeight(t, out))
       /\ t3.cnt[new] = 1 + t2.cnt[n] + AvlCnt(t, out)
  BY <1>1, <1>2, <1>4, <1>5, <1>6, <1>8 DEF AvlHeight, AvlCnt
<1>11. t3.height[n] = t2.height[n] /\ t3.cnt[n] = t2.cnt[n]
  BY <1>1, <1>2, <1>6
<1>12. \A m \in Node : m # n /\ m # new => d.height[m] = t.height[m] /\ d.cnt[m] = t.cnt[m]
  BY <1>4, <1>5, <1>6, <1>7
<1>13. \A m \in Node, z \in Side :
         d.child[m][z] = IF m = p /\ z = SideOf(t, n) THEN new
                         ELSE IF m = n /\ z = Opp(s) THEN inner
                         ELSE IF m = new /\ z = s THEN n
                         ELSE t.child[m][z]
  BY <1>4, <1>5, <1>6, <1>7
<1>14. \A m \in Node : d.parent[m] = IF m = inner THEN n
                                     ELSE IF m = n THEN new
                                     ELSE IF m = new THEN p
                                     ELSE t.parent[m]
  BY <1>4, <1>5, <1>6, <1>7 DEF p
<1> QED
  BY <1>7, <1>9, <1>10, <1>11, <1>12, <1>13, <1>14 DEF d, new, inner, out, other, p

\* The nodes under each node after the rotation.
Lifted(t, u, n, s) ==
  [u EXCEPT ![n] = (u[n] \ u[Pivot(t, n, s)]) \union u[t.child[Pivot(t, n, s)][s]],
            ![Pivot(t, n, s)] = u[n]]

LEMMA LiftedReads ==
  ASSUME NEW t \in Trees, NEW S, NEW u, Shape(t, S, u), NEW n \in S, NEW s \in Side,
         Pivot(t, n, s) # NULL
  PROVE  LET new   == Pivot(t, n, s)
             inner == t.child[new][s]
             out   == t.child[new][Opp(s)]
             other == t.child[n][s]
             v     == Lifted(t, u, n, s)
         IN  /\ u[n] = {n} \union u[new] \union u[other]
             /\ u[new] \intersect u[other] = {}
             /\ n \notin u[new] /\ n \notin u[other]
             /\ u[new] = {new} \union u[inner] \union u[out]
             /\ u[inner] \intersect u[out] = {}
             /\ new \notin u[inner] /\ new \notin u[out]
             /\ v \in [Links -> SUBSET S]
             /\ v[n] = {n} \union u[other] \union u[inner] /\ v[new] = u[n]
             /\ \A m \in Links : m # n /\ m # new => v[m] = u[m]
<1> DEFINE new   == Pivot(t, n, s)
           inner == t.child[new][s]
           out   == t.child[new][Opp(s)]
           other == t.child[n][s]
           v     == Lifted(t, u, n, s)
           w     == (u[n] \ u[new]) \union u[inner]
<1>1. /\ new \in S /\ new # n /\ inner \in S \union {NULL} /\ S \subseteq Node
      /\ Opp(s) \in Side /\ Opp(Opp(s)) = s /\ new = t.child[n][Opp(s)]
  BY Apart, SideFacts DEF Shape, Pivot
<1>2. /\ u \in [Links -> SUBSET S]
      /\ u[n] = {n} \union u[new] \union u[other] /\ u[new] \intersect u[other] = {}
      /\ n \notin u[new] /\ n \notin u[other]
      /\ u[new] = {new} \union u[inner] \union u[out] /\ u[inner] \intersect u[out] = {}
      /\ new \notin u[inner] /\ new \notin u[out]
  <2>1. u \in [Links -> SUBSET S]
    BY DEF Shape
  <2>2. /\ u[n] = {n} \union u[new] \union u[other] /\ u[new] \intersect u[other] = {}
        /\ n \notin u[new] /\ n \notin u[other]
    <3> HIDE DEF new
    <3> QED
      BY <1>1 DEF Shape
  <2>3. /\ u[new] = {new} \union u[inner] \union u[out] /\ u[inner] \intersect u[out] = {}
        /\ new \notin u[inner] /\ new \notin u[out]
    <3> HIDE DEF new
    <3> QED
      BY <1>1 DEF Shape
  <2> QED
    BY <2>1, <2>2, <2>3
<1>3. v = [u EXCEPT ![n] = w, ![new] = u[n]]
  BY DEF Lifted
<1>4. n \in Links /\ new \in Links /\ inner \in Links
  BY <1>1 DEF Links
<1> HIDE DEF new, inner, out, other, v
<1>5. w \in SUBSET S /\ u[n] \in SUBSET S /\ w = {n} \union u[other] \union u[inner]
  BY <1>2, <1>4
<1> HIDE DEF w
<1>6. /\ v \in [Links -> SUBSET S] /\ v[n] = w /\ v[new] = u[n]
      /\ \A m \in Links : m # n /\ m # new => v[m] = u[m]
  BY <1>1, <1>2, <1>3, <1>4, <1>5
<1> QED
  BY <1>2, <1>5, <1>6 DEF new, inner, out, other, v

LEMMA LiftShape ==
  ASSUME NEW t \in Trees, NEW S, NEW u, Shape(t, S, u), NEW n \in S, NEW s \in Side,
         Pivot(t, n, s) # NULL
  PROVE  Shape(Lift(t, n, s), S, Lifted(t, u, n, s))
<1> DEFINE new   == Pivot(t, n, s)
           inner == t.child[new][s]
           out   == t.child[new][Opp(s)]
           other == t.child[n][s]
           p     == t.parent[n]
           side  == SideOf(t, n)
           d     == Lift(t, n, s)
           v     == Lifted(t, u, n, s)
<1>1. /\ new \in S /\ new # n /\ t.parent[new] = n
      /\ inner # n /\ inner # new /\ out # n /\ out # new
      /\ other # n /\ other # new /\ p # n /\ p # new
      /\ inner \in S \union {NULL} /\ out \in S \union {NULL}
      /\ other \in S \union {NULL} /\ p \in S \union {NULL}
      /\ inner # NULL => inner # out /\ inner # other /\ t.parent[inner] = new
  BY Apart
<1>2. S \subseteq Node /\ NULL \notin Node /\ Opp(s) \in Side /\ Opp(s) # s
      /\ Opp(Opp(s)) = s /\ side \in Side /\ (\A z \in Side : z = s \/ z = Opp(s))
  <2>1. S \subseteq Node /\ NULL \notin Node
    BY NodeAssumption DEF Shape
  <2>2. side \in Side
    BY Place
  <2> QED
    BY <2>1, <2>2, SideFacts
<1>3. /\ \A m \in Node, z \in Side :
           d.child[m][z] = IF m = p /\ z = side THEN new
                           ELSE IF m = n /\ z = Opp(s) THEN inner
                           ELSE IF m = new /\ z = s THEN n
                           ELSE t.child[m][z]
      /\ \A m \in Node :
           d.parent[m] = IF m = inner THEN n
                         ELSE IF m = n THEN new
                         ELSE IF m = new THEN p
                         ELSE t.parent[m]
  BY LiftReads
<1>4. new = t.child[n][Opp(s)]
  BY DEF Pivot
<1>5. /\ u[NULL] = {}
      /\ u[n] = {n} \union u[new] \union u[other] /\ u[new] \intersect u[other] = {}
      /\ n \notin u[new] /\ n \notin u[other]
      /\ u[new] = {new} \union u[inner] \union u[out] /\ u[inner] \intersect u[out] = {}
      /\ new \notin u[inner] /\ new \notin u[out]
  <2>1. u[NULL] = {}
    BY DEF Shape
  <2> QED
    BY <2>1, LiftedReads
<1>6. /\ v \in [Links -> SUBSET S]
      /\ v[n] = {n} \union u[other] \union u[inner] /\ v[new] = u[n]
      /\ \A m \in Links : m # n /\ m # new => v[m] = u[m]
  BY LiftedReads
<1> HIDE DEF new, inner, out, other, p, side, d, v
<1> DEFINE Fits(m, z) ==
             LET c == d.child[m][z]
                 e == d.child[m][Opp(z)]
             IN /\ c \in S \union {NULL}
                /\ v[m] = {m} \union v[c] \union v[e]
                /\ m \notin v[c] /\ v[c] \intersect v[e] = {}
                /\ c # NULL => d.parent[c] = m
<1>7. v[NULL] = {} /\ v[other] = u[other] /\ v[inner] = u[inner] /\ v[out] = u[out]
  BY <1>1, <1>2, <1>5, <1>6 DEF Links
<1>8. /\ d.child[n][s] = other /\ d.child[n][Opp(s)] = inner
      /\ d.child[new][s] = n /\ d.child[new][Opp(s)] = out
  BY <1>1, <1>2, <1>3 DEF other, out
<1>9. /\ d.parent[n] = new /\ d.parent[new] = p
      /\ inner # NULL => d.parent[inner] = n
  BY <1>1, <1>2, <1>3
<1>10. /\ other # NULL => t.parent[other] = n
       /\ out # NULL => t.parent[out] = new
  BY <1>1, <1>2 DEF Shape, other, out
<1>11. /\ other # NULL => d.parent[other] = n
       /\ out # NULL => d.parent[out] = new
  BY <1>1, <1>2, <1>3, <1>10
<1>12. ASSUME NEW z \in Side PROVE Fits(n, z)
  BY <1>1, <1>2, <1>5, <1>6, <1>7, <1>8, <1>9, <1>11
<1>13. ASSUME NEW z \in Side PROVE Fits(new, z)
  BY <1>1, <1>2, <1>5, <1>6, <1>7, <1>8, <1>9, <1>11
<1>14. ASSUME NEW m \in S, m # n, m # new, m # p, NEW z \in Side
       PROVE  Fits(m, z)
  <2>1. /\ t.child[m][z] \in S \union {NULL} /\ Opp(z) \in Side
        /\ t.child[m][Opp(z)] \in S \union {NULL}
        /\ t.child[m][z] # NULL => t.parent[t.child[m][z]] = m
        /\ t.child[m][Opp(z)] # NULL => t.parent[t.child[m][Opp(z)]] = m
    BY SideFacts DEF Shape
  <2>2. d.child[m][z] = t.child[m][z] /\ d.child[m][Opp(z)] = t.child[m][Opp(z)]
    BY <1>2, <1>3, <1>14, <2>1
  <2>3. /\ t.child[m][z] # n /\ t.child[m][z] # new
        /\ t.child[m][Opp(z)] # n /\ t.child[m][Opp(z)] # new
    BY <1>1, <1>2, <1>14, <2>1 DEF p
  <2>4. /\ v[t.child[m][z]] = u[t.child[m][z]]
        /\ v[t.child[m][Opp(z)]] = u[t.child[m][Opp(z)]] /\ v[m] = u[m]
    BY <1>2, <1>6, <1>14, <2>1, <2>3 DEF Links
  <2>5. t.child[m][z] # NULL => d.parent[t.child[m][z]] = m
    BY <1>1, <1>2, <1>3, <1>14, <2>1, <2>3
  <2>6. /\ u[m] = {m} \union u[t.child[m][z]] \union u[t.child[m][Opp(z)]]
        /\ m \notin u[t.child[m][z]]
        /\ u[t.child[m][z]] \intersect u[t.child[m][Opp(z)]] = {}
    BY DEF Shape
  <2> QED
    BY <2>1, <2>2, <2>4, <2>5, <2>6
<1>15. ASSUME p # NULL, NEW z \in Side PROVE Fits(p, z)
  <2> DEFINE x == t.child[p][Opp(side)]
  <2>1. p \in S /\ t.child[p][side] = n /\ Opp(side) \in Side /\ Opp(side) # side
        /\ (\A a \in Side : a = side \/ a = Opp(side)) /\ Opp(Opp(side)) = side
    BY <1>1, <1>2, <1>15, Place, SideFacts DEF p, side
  <2>2. /\ x \in S \union {NULL} /\ (x # NULL => t.parent[x] = p)
        /\ u[p] = {p} \union u[n] \union u[x]
        /\ p \notin u[n] /\ p \notin u[x] /\ u[n] \intersect u[x] = {}
    <3>1. /\ x \in S \union {NULL} /\ (x # NULL => t.parent[x] = p)
          /\ p \notin u[x]
      BY <2>1 DEF Shape
    <3>2. /\ u[p] = {p} \union u[n] \union u[x]
          /\ p \notin u[n] /\ u[n] \intersect u[x] = {}
      BY <2>1, <1>2 DEF Shape
    <3> QED
      BY <3>1, <3>2
  <2>3. d.child[p][side] = new /\ d.child[p][Opp(side)] = x
    BY <1>1, <1>2, <1>3, <2>1
  <2>4. x # new /\ x # n
    <3>1. n \in u[n] /\ (x # NULL => x \in u[x])
      BY <2>2, KidFacts, SideFacts DEF Side
    <3> QED
      BY <1>1, <1>2, <2>2, <3>1
  <2>5. v[x] = u[x] /\ v[p] = u[p]
    BY <1>1, <1>2, <1>6, <2>1, <2>2, <2>4 DEF Links
  <2>6. x # NULL => d.parent[x] = p
    BY <1>1, <1>2, <1>3, <2>1, <2>2, <2>4
  <2> HIDE DEF x
  <2> QED
    BY <1>1, <1>6, <1>9, <2>1, <2>2, <2>3, <2>5, <2>6
<1>16. ASSUME NEW m \in S, d.parent[m] # NULL
       PROVE  d.parent[m] \in S /\ \E z \in Side : d.child[d.parent[m]][z] = m
  <2>1. CASE m = n
    BY <1>1, <1>2, <1>8, <1>9, <2>1
  <2>2. CASE m = new
    <3>1. p # NULL /\ p \in S /\ side \in Side /\ d.parent[m] = p
      BY <1>1, <1>2, <1>9, <1>16, <2>2
    <3>2. d.child[p][side] = new
      BY <1>2, <1>3, <3>1
    <3> QED
      BY <3>1, <3>2, <2>2
  <2>3. CASE m = inner
    BY <1>1, <1>2, <1>8, <1>9, <2>3
  <2>4. CASE m # n /\ m # new /\ m # inner
    <3> DEFINE q == t.parent[m]
    <3>1. d.parent[m] = q /\ q \in S
      BY <1>2, <1>3, <1>16, <2>4 DEF Shape
    <3>2. PICK z \in Side : t.child[q][z] = m
      BY <1>16, <3>1 DEF Shape
    <3>3. ~(q = p /\ z = side)
      <4>1. p # NULL => t.child[p][side] = n
        BY Place DEF p, side
      <4> QED
        BY <3>1, <3>2, <4>1, <2>4, <1>2
    <3>4. ~(q = n /\ z = Opp(s))
      BY <3>2, <2>4, <1>4
    <3>5. ~(q = new /\ z = s)
      BY <3>2, <2>4 DEF inner
    <3>6. d.child[q][z] = m
      BY <1>2, <1>3, <3>1, <3>2, <3>3, <3>4, <3>5
    <3> QED
      BY <3>1, <3>6
  <2> QED
    BY <2>1, <2>2, <2>3, <2>4
<1>17. ASSUME NEW m \in S, NEW z \in Side PROVE Fits(m, z)
  <2> HIDE DEF Fits
  <2>1. m # NULL
    BY <1>2
  <2> QED
    BY <2>1, <1>12, <1>13, <1>14, <1>15
<1> QED
  BY <1>2, <1>6, <1>7, <1>16, <1>17 DEF Shape, d, v

LEMMA OnFacts ==
  ASSUME NEW S, NEW R, Order(S, R), NEW s \in Side
  PROVE  /\ \A a, b : On(R, Opp(s), a, b) <=> On(R, s, b, a)
         /\ \A a, b, c \in S : On(R, s, a, b) /\ On(R, s, b, c) => On(R, s, a, c)
         /\ \A a \in S : ~On(R, s, a, a)
         /\ \A a, b \in S : a # b => On(R, s, a, b) \/ On(R, Opp(s), a, b)
         /\ \A a, b \in S : On(R, s, a, b) => ~On(R, Opp(s), a, b)
<1>1. CASE s = "left"
  BY <1>1 DEF On, Order, Opp
<1>2. CASE s = "right"
  BY <1>2 DEF On, Order, Opp
<1> QED
  BY <1>1, <1>2 DEF Side

LEMMA LiftSorted ==
  ASSUME NEW t \in Trees, NEW S, NEW u, Shape(t, S, u), NEW n \in S, NEW s \in Side,
         Pivot(t, n, s) # NULL, NEW R, Order(S, R), Sorted(t, S, u, R)
  PROVE  Sorted(Lift(t, n, s), S, Lifted(t, u, n, s), R)
<1> DEFINE new   == Pivot(t, n, s)
           inner == t.child[new][s]
           out   == t.child[new][Opp(s)]
           other == t.child[n][s]
           p     == t.parent[n]
           side  == SideOf(t, n)
           d     == Lift(t, n, s)
           v     == Lifted(t, u, n, s)
<1>1. /\ new \in S /\ new # n /\ t.parent[new] = n
      /\ inner # n /\ inner # new /\ out # n /\ out # new
      /\ other # n /\ other # new /\ p # n /\ p # new
      /\ inner \in S \union {NULL} /\ out \in S \union {NULL}
      /\ other \in S \union {NULL} /\ p \in S \union {NULL}
  BY Apart
<1>2. /\ S \subseteq Node /\ Opp(s) \in Side /\ Opp(s) # s
      /\ Opp(Opp(s)) = s /\ (\A z \in Side : z = s \/ z = Opp(s))
  BY SideFacts DEF Shape
<1>3. \A m \in Node, z \in Side :
        d.child[m][z] = IF m = p /\ z = side THEN new
                        ELSE IF m = n /\ z = Opp(s) THEN inner
                        ELSE IF m = new /\ z = s THEN n
                        ELSE t.child[m][z]
  BY LiftReads
<1>4. new = t.child[n][Opp(s)]
  BY DEF Pivot
<1>5. /\ u[n] = {n} \union u[new] \union u[other]
      /\ u[new] = {new} \union u[inner] \union u[out]
      /\ v[n] = {n} \union u[other] \union u[inner] /\ v[new] = u[n]
      /\ \A m \in Links : m # n /\ m # new => v[m] = u[m]
  BY LiftedReads
<1>6. p # NULL => t.child[p][side] = n
  BY Place
<1>7. v[other] = u[other] /\ v[inner] = u[inner] /\ v[out] = u[out]
  BY <1>1, <1>2, <1>5 DEF Links
<1>8. \A m \in S, z \in Side : \A x \in u[t.child[m][z]] : On(R, z, x, m) /\ x \in S
  <2>1. \A m \in S, z \in Side : u[t.child[m][z]] \subseteq S
    BY DEF Shape, Links
  <2> QED
    BY <2>1 DEF Sorted
<1> HIDE DEF inner, out, other, p, side, d, v
<1>9. ASSUME NEW x \in v[n]
      PROVE  On(R, s, x, new)
  <2>1. On(R, s, n, new)
    <3>1. On(R, Opp(s), new, n)
      BY <1>2, <1>4, <1>5, <1>8
    <3> QED
      BY <3>1, <1>2, OnFacts
  <2>2. CASE x = n
    BY <2>1, <2>2
  <2>3. CASE x \in u[other]
    <3>1. On(R, s, x, n) /\ x \in S
      BY <1>8, <2>3 DEF other
    <3> QED
      BY <3>1, <2>1, <1>1, OnFacts
  <2>4. CASE x \in u[inner]
    BY <1>1, <1>8, <2>4 DEF inner
  <2> QED
    BY <2>2, <2>3, <2>4, <1>5
<1> HIDE DEF new
<1> SUFFICES ASSUME NEW m \in S, NEW z \in Side, NEW x \in v[d.child[m][z]]
             PROVE  On(R, z, x, m)
  BY DEF Sorted, d, v
<1>10. CASE m = n
  <2>1. CASE z = s
    <3>1. d.child[m][z] = other
      BY <1>1, <1>2, <1>3, <1>10, <2>1 DEF other
    <3> QED
      BY <3>1, <1>7, <1>8, <1>10, <2>1 DEF other
  <2>2. CASE z = Opp(s)
    <3>1. d.child[m][z] = inner
      BY <1>1, <1>2, <1>3, <1>10, <2>2
    <3>2. x \in u[new]
      BY <3>1, <1>5, <1>7
    <3> QED
      BY <3>2, <1>4, <1>8, <1>10, <2>2, <1>2
  <2> QED
    BY <2>1, <2>2, <1>2
<1>11. CASE m = new
  <2>1. CASE z = s
    <3>1. d.child[m][z] = n
      BY <1>1, <1>2, <1>3, <1>11, <2>1
    <3> QED
      BY <3>1, <1>9, <1>11, <2>1
  <2>2. CASE z = Opp(s)
    <3>1. d.child[m][z] = out
      BY <1>1, <1>2, <1>3, <1>11, <2>2 DEF out
    <3> QED
      BY <3>1, <1>1, <1>2, <1>7, <1>8, <1>11, <2>2 DEF out
  <2> QED
    BY <2>1, <2>2, <1>2
<1>12. CASE m = p /\ z = side
  BY <1>2, <1>3, <1>5, <1>6, <1>8, <1>12, NodeAssumption
<1>13. CASE m # n /\ m # new /\ ~(m = p /\ z = side)
  <2>1. d.child[m][z] = t.child[m][z]
    BY <1>2, <1>3, <1>13
  <2>2. t.child[m][z] # n
    <3> SUFFICES ASSUME t.child[m][z] = n PROVE FALSE
      OBVIOUS
    <3>1. t.parent[n] = m /\ m # NULL
      BY KidFacts
    <3> QED
      BY <3>1, <1>13, Place DEF p, side
  <2>3. t.child[m][z] # new
    BY <1>1, <1>2, <1>13, NodeAssumption DEF Shape
  <2>4. t.child[m][z] \in Links
    BY <1>2 DEF Shape, Links
  <2>5. v[t.child[m][z]] = u[t.child[m][z]]
    BY <1>5, <2>2, <2>3, <2>4
  <2> QED
    BY <2>1, <2>5, <1>8
<1> QED
  BY <1>10, <1>11, <1>12, <1>13

\* The fields of the nodes of other trees stay.
Elsewhere(t, d, S) ==
  \A m \in Node \ S : /\ d.parent[m] = t.parent[m] /\ d.height[m] = t.height[m]
                      /\ d.cnt[m] = t.cnt[m]
                      /\ \A z \in Side : d.child[m][z] = t.child[m][z]

Above(S, u, y) == {a \in S : y \in u[a]}

Rooted(S, u) == \E r \in S : u[r] = S

\* A tree in order, whose nodes v says.
Tree(t, S, v, R) ==
  t \in Trees /\ Shape(t, S, v) /\ Sorted(t, S, v, R) /\ Rooted(S, v)

(* Only the root has no parent. *)
LEMMA RootFacts ==
  ASSUME NEW t, NEW S, NEW u, Shape(t, S, u), NEW r \in S, u[r] = S
  PROVE  t.parent[r] = NULL /\ \A n \in S : n # r => t.parent[n] # NULL
<1>1. \A n \in S : n # r => t.parent[n] # NULL
  BY ParentUnder
<1>2. t.parent[r] = NULL
  BY Place
<1> QED
  BY <1>1, <1>2

LEMMA LiftKeeps ==
  ASSUME NEW t, NEW S, NEW u, NEW R, Tree(t, S, u, R), Order(S, R),
         NEW n \in S, NEW s \in Side, Pivot(t, n, s) # NULL
  PROVE  LET d == Lift(t, n, s)
             v == Lifted(t, u, n, s)
         IN  /\ Tree(d, S, v, R) /\ Elsewhere(t, d, S)
             /\ v[Pivot(t, n, s)] = u[n]
             /\ \A y \in S : y \notin u[n] => Above(S, v, y) = Above(S, u, y)
<1> DEFINE new   == Pivot(t, n, s)
           inner == t.child[new][s]
           p     == t.parent[n]
           d     == Lift(t, n, s)
           v     == Lifted(t, u, n, s)
<1>1. t \in Trees /\ Shape(t, S, u) /\ Sorted(t, S, u, R) /\ Rooted(S, u)
  BY DEF Tree
<1>2. d \in Trees /\ Shape(d, S, v) /\ Sorted(d, S, v, R)
  BY <1>1, LiftReads, LiftShape, LiftSorted
<1>3. /\ new \in S /\ new # n /\ t.parent[new] = n
      /\ inner \in S \union {NULL} /\ p \in S \union {NULL}
  BY <1>1, Apart
<1>4. S \subseteq Node /\ NULL \notin Node
  BY <1>1, NodeAssumption DEF Shape
<1>5. /\ v[new] = u[n] /\ v[n] \subseteq u[n] /\ new \in u[n] /\ u[new] \subseteq u[n]
      /\ \A m \in Links : m # n /\ m # new => v[m] = u[m]
  <2>1. /\ u[n] = {n} \union u[new] \union u[t.child[n][s]]
        /\ u[new] = {new} \union u[inner] \union u[t.child[new][Opp(s)]]
        /\ v[n] = {n} \union u[t.child[n][s]] \union u[inner] /\ v[new] = u[n]
        /\ \A m \in Links : m # n /\ m # new => v[m] = u[m]
    BY <1>1, LiftedReads
  <2> QED
    BY <2>1
<1>6. Rooted(S, v)
  <2>1. PICK r \in S : u[r] = S
    BY <1>1 DEF Rooted
  <2>2. CASE r = n
    BY <1>3, <1>5, <2>1, <2>2 DEF Rooted
  <2>3. CASE r # n
    <3>1. r # new
      BY <1>1, <1>3, <1>4, <2>1, RootFacts
    <3>2. v[r] = u[r]
      BY <3>1, <2>3, <1>4, <1>5 DEF Links
    <3> QED
      BY <3>2, <2>1 DEF Rooted
  <2> QED
    BY <2>2, <2>3
<1>7. Elsewhere(t, d, S)
  <2>1. /\ \A m \in Node, z \in Side :
             d.child[m][z] = IF m = p /\ z = SideOf(t, n) THEN new
                             ELSE IF m = n /\ z = Opp(s) THEN inner
                             ELSE IF m = new /\ z = s THEN n
                             ELSE t.child[m][z]
        /\ \A m \in Node :
             d.parent[m] = IF m = inner THEN n
                           ELSE IF m = n THEN new
                           ELSE IF m = new THEN p
                           ELSE t.parent[m]
        /\ \A m \in Node : m # n /\ m # new => /\ d.height[m] = t.height[m]
                                               /\ d.cnt[m] = t.cnt[m]
    BY <1>1, LiftReads
  <2> HIDE DEF d, new, inner, p
  <2> QED
    BY <2>1, <1>3, <1>4 DEF Elsewhere
<1>8. ASSUME NEW y \in S, y \notin u[n]
      PROVE  Above(S, v, y) = Above(S, u, y)
  <2>1. ASSUME NEW a \in S PROVE y \in v[a] <=> y \in u[a]
    <3> HIDE DEF v, new
    <3> QED
      BY <1>3, <1>4, <1>5, <1>8 DEF Links
  <2> QED
    BY <2>1 DEF Above
<1> QED
  BY <1>2, <1>5, <1>6, <1>7, <1>8 DEF Tree

-----------------------------------------------------------------------------
(* Heights. *)
\* height and cnt of m agree with its children's, whose heights differ by at
\* most one.
Sound(t, m) ==
  \A s \in Side :
    LET c == t.child[m][s]
        e == t.child[m][Opp(s)]
    IN /\ t.height[m] = 1 + Larger(AvlHeight(t, c), AvlHeight(t, e))
       /\ AvlHeight(t, c) - AvlHeight(t, e) \in -1 .. 1
       /\ t.cnt[m] = 1 + AvlCnt(t, c) + AvlCnt(t, e)

(* One side says it for both. *)
LEMMA SoundOneSide ==
  ASSUME NEW t \in Trees, NEW m \in Node, NEW s \in Side,
         LET c == t.child[m][s]
             e == t.child[m][Opp(s)]
         IN /\ t.height[m] = 1 + Larger(AvlHeight(t, c), AvlHeight(t, e))
            /\ AvlHeight(t, c) - AvlHeight(t, e) \in -1 .. 1
            /\ t.cnt[m] = 1 + AvlCnt(t, c) + AvlCnt(t, e)
  PROVE  Sound(t, m)
<1> DEFINE c == t.child[m][s]
           e == t.child[m][Opp(s)]
<1>1. /\ AvlHeight(t, c) \in Nat /\ AvlHeight(t, e) \in Nat
      /\ AvlCnt(t, c) \in Nat /\ AvlCnt(t, e) \in Nat
  BY ChildIsLink, SideFacts, HeightsAreNumbers
<1>2. Larger(AvlHeight(t, c), AvlHeight(t, e)) = Larger(AvlHeight(t, e), AvlHeight(t, c))
  BY <1>1, LargerOf
<1>3. /\ AvlHeight(t, e) - AvlHeight(t, c) \in -1 .. 1
      /\ AvlCnt(t, c) + AvlCnt(t, e) = AvlCnt(t, e) + AvlCnt(t, c)
      /\ 1 + AvlCnt(t, c) + AvlCnt(t, e) = 1 + AvlCnt(t, e) + AvlCnt(t, c)
  BY <1>1
<1>4. Opp(Opp(s)) = s /\ \A z \in Side : z = s \/ z = Opp(s)
  BY SideFacts
<1> SUFFICES ASSUME NEW z \in Side
    PROVE  LET a == t.child[m][z]
               b == t.child[m][Opp(z)]
           IN /\ t.height[m] = 1 + Larger(AvlHeight(t, a), AvlHeight(t, b))
              /\ AvlHeight(t, a) - AvlHeight(t, b) \in -1 .. 1
              /\ t.cnt[m] = 1 + AvlCnt(t, a) + AvlCnt(t, b)
  BY DEF Sound
<1>5. CASE z = s
  BY <1>5
<1>6. CASE z = Opp(s)
  BY <1>2, <1>3, <1>4, <1>6
<1> QED
  BY <1>4, <1>5, <1>6

LEMMA LiftSound ==
  ASSUME NEW t \in Trees, NEW S, NEW u, Shape(t, S, u), NEW n \in S, NEW s \in Side,
         Pivot(t, n, s) # NULL
  PROVE  LET d     == Lift(t, n, s)
             new   == Pivot(t, n, s)
             inner == t.child[new][s]
             out   == t.child[new][Opp(s)]
             other == t.child[n][s]
         IN  /\ \A m \in S : m # n /\ m # new /\ m # t.parent[n] /\ Sound(t, m) => Sound(d, m)
             /\ AvlHeight(t, other) - AvlHeight(t, inner) \in -1 .. 1 => Sound(d, n)
             /\ d.height[n] - AvlHeight(t, out) \in -1 .. 1 => Sound(d, new)
<1> DEFINE new   == Pivot(t, n, s)
           inner == t.child[new][s]
           out   == t.child[new][Opp(s)]
           other == t.child[n][s]
           p     == t.parent[n]
           side  == SideOf(t, n)
           d     == Lift(t, n, s)
<1>1. /\ new \in S /\ new # n /\ t.parent[new] = n
      /\ inner # n /\ inner # new /\ out # n /\ out # new
      /\ other # n /\ other # new /\ p # n /\ p # new
      /\ inner \in S \union {NULL} /\ out \in S \union {NULL}
      /\ other \in S \union {NULL} /\ p \in S \union {NULL}
  BY Apart
<1>2. /\ S \subseteq Node /\ NULL \notin Node /\ Opp(s) \in Side /\ Opp(s) # s
      /\ Opp(Opp(s)) = s
  BY SideFacts, NodeAssumption DEF Shape
<1>3. /\ d \in Trees
      /\ \A m \in Node, z \in Side :
           d.child[m][z] = IF m = p /\ z = side THEN new
                           ELSE IF m = n /\ z = Opp(s) THEN inner
                           ELSE IF m = new /\ z = s THEN n
                           ELSE t.child[m][z]
      /\ \A m \in Node : m # n /\ m # new => /\ d.height[m] = t.height[m]
                                             /\ d.cnt[m] = t.cnt[m]
      /\ d.height[n] = 1 + Larger(AvlHeight(t, other), AvlHeight(t, inner))
      /\ d.height[new] = 1 + Larger(d.height[n], AvlHeight(t, out))
      /\ d.cnt[n] = 1 + AvlCnt(t, other) + AvlCnt(t, inner)
      /\ d.cnt[new] = 1 + d.cnt[n] + AvlCnt(t, out)
  BY LiftReads
<1> HIDE DEF d, p, side, new
<1>4. \A c \in S \union {NULL} : c # n /\ c # new => /\ AvlHeight(d, c) = AvlHeight(t, c)
                                                    /\ AvlCnt(d, c) = AvlCnt(t, c)
  BY <1>2, <1>3 DEF AvlHeight, AvlCnt
<1>5. ASSUME NEW m \in S, m # n, m # new, m # p, Sound(t, m)
      PROVE  Sound(d, m)
  <2> SUFFICES ASSUME NEW z \in Side
      PROVE  LET a == d.child[m][z]
                 b == d.child[m][Opp(z)]
             IN /\ d.height[m] = 1 + Larger(AvlHeight(d, a), AvlHeight(d, b))
                /\ AvlHeight(d, a) - AvlHeight(d, b) \in -1 .. 1
                /\ d.cnt[m] = 1 + AvlCnt(d, a) + AvlCnt(d, b)
    BY DEF Sound
  <2>1. Opp(z) \in Side
    BY SideFacts
  <2>2. \A y \in Side : /\ d.child[m][y] = t.child[m][y]
                        /\ t.child[m][y] \in S \union {NULL}
                        /\ t.child[m][y] # n /\ t.child[m][y] # new
    <3> TAKE y \in Side
    <3>1. d.child[m][y] = t.child[m][y]
      BY <1>2, <1>3, <1>5
    <3>2. /\ t.child[m][y] \in S \union {NULL}
          /\ t.child[m][y] # NULL => t.parent[t.child[m][y]] = m
      BY DEF Shape
    <3> QED
      BY <1>1, <1>2, <1>5, <3>1, <3>2 DEF p
  <2>3. d.height[m] = t.height[m] /\ d.cnt[m] = t.cnt[m]
    BY <1>2, <1>3, <1>5
  <2> QED
    BY <2>1, <2>2, <2>3, <1>4, <1>5 DEF Sound
<1>6. ASSUME AvlHeight(t, other) - AvlHeight(t, inner) \in -1 .. 1
      PROVE  Sound(d, n)
  <2>1. d.child[n][s] = other /\ d.child[n][Opp(s)] = inner
    BY <1>1, <1>2, <1>3
  <2>2. /\ AvlHeight(d, other) = AvlHeight(t, other) /\ AvlCnt(d, other) = AvlCnt(t, other)
        /\ AvlHeight(d, inner) = AvlHeight(t, inner) /\ AvlCnt(d, inner) = AvlCnt(t, inner)
    BY <1>1, <1>4
  <2> HIDE DEF other, inner
  <2> QED
    BY <1>2, <1>3, <1>6, <2>1, <2>2, SoundOneSide
<1>7. ASSUME d.height[n] - AvlHeight(t, out) \in -1 .. 1
      PROVE  Sound(d, new)
  <2>1. d.child[new][s] = n /\ d.child[new][Opp(s)] = out
    BY <1>1, <1>2, <1>3
  <2>2. /\ AvlHeight(d, out) = AvlHeight(t, out) /\ AvlCnt(d, out) = AvlCnt(t, out)
        /\ AvlHeight(d, n) = d.height[n] /\ AvlCnt(d, n) = d.cnt[n]
    BY <1>1, <1>2, <1>4 DEF AvlHeight, AvlCnt
  <2> HIDE DEF out
  <2> QED
    BY <1>1, <1>2, <1>3, <1>7, <2>1, <2>2, SoundOneSide
<1> QED
  BY <1>5, <1>6, <1>7 DEF d, p, new

(* The heights of a single and of a double rotation. *)
LEMMA SingleHeights ==
  ASSUME NEW e \in Nat, NEW o \in Nat, NEW i \in Nat,
         o - i \in -1 .. 1, ~(o < i), 1 + Larger(o, i) = e + 2
  PROVE  LET x == 1 + Larger(e, i)
         IN e - i \in -1 .. 1 /\ x - o \in -1 .. 1 /\ (1 + Larger(x, o)) - (e + 2) \in 0 .. 1
BY DEF Larger

LEMMA DoubleHeights ==
  ASSUME NEW e \in Nat, NEW o \in Nat, NEW a \in Nat, NEW b \in Nat, NEW k \in Nat,
         o - k \in -1 .. 1, o < k, 1 + Larger(o, k) = e + 2,
         k = 1 + Larger(a, b), a - b \in -1 .. 1
  PROVE  LET x == 1 + Larger(e, b)
             c == 1 + Larger(o, a)
         IN /\ o - a \in -1 .. 1 /\ e - b \in -1 .. 1
            /\ x - c \in -1 .. 1 /\ (1 + Larger(x, c)) - (e + 2) \in 0 .. 1
BY DEF Larger

\* The subtree of x has been put right, and top is its top.
Repaired(t, d, S, u, v, R, x, top) ==
  LET p == t.parent[x]
  IN /\ Tree(d, S, v, R) /\ Elsewhere(t, d, S)
     /\ top \in S /\ v[top] = u[x] /\ d.parent[top] = p
     /\ \A y \in S : y \notin u[x] => Above(S, v, y) = Above(S, u, y)
     /\ \A m \in S : m \notin u[x] => d.height[m] = t.height[m]
     /\ p # NULL => /\ d.child[p][SideOf(t, x)] = top
                    /\ d.child[p][Opp(SideOf(t, x))] = t.child[p][Opp(SideOf(t, x))]

LEMMA LiftRepairs ==
  ASSUME NEW t, NEW S, NEW u, NEW R, Tree(t, S, u, R), Order(S, R),
         NEW x \in S, NEW s \in Side, Pivot(t, x, s) # NULL
  PROVE  Repaired(t, Lift(t, x, s), S, u, Lifted(t, u, x, s), R, x, Pivot(t, x, s))
<1> DEFINE new   == Pivot(t, x, s)
           inner == t.child[new][s]
           p     == t.parent[x]
           side  == SideOf(t, x)
           d     == Lift(t, x, s)
           v     == Lifted(t, u, x, s)
<1>1. t \in Trees /\ Shape(t, S, u)
  BY DEF Tree
<1>2. /\ Tree(d, S, v, R) /\ Elsewhere(t, d, S) /\ v[new] = u[x]
      /\ \A y \in S : y \notin u[x] => Above(S, v, y) = Above(S, u, y)
  BY LiftKeeps
<1>3. /\ new \in S /\ new # x /\ inner # x /\ inner # new /\ p # x /\ p # new
      /\ p \in S \union {NULL} /\ S \subseteq Node /\ NULL \notin Node
  <2>1. S \subseteq Node /\ NULL \notin Node
    BY <1>1, NodeAssumption DEF Shape
  <2> QED
    BY <1>1, <2>1, Apart
<1>4. /\ \A m \in Node, z \in Side :
           d.child[m][z] = IF m = p /\ z = side THEN new
                           ELSE IF m = x /\ z = Opp(s) THEN inner
                           ELSE IF m = new /\ z = s THEN x
                           ELSE t.child[m][z]
      /\ \A m \in Node :
           d.parent[m] = IF m = inner THEN x
                         ELSE IF m = x THEN new
                         ELSE IF m = new THEN p
                         ELSE t.parent[m]
      /\ \A m \in Node : m # x /\ m # new => d.height[m] = t.height[m]
  BY <1>1, LiftReads
<1>5. x \in u[x] /\ new \in u[x]
  BY <1>1, <1>3, KidFacts, SideFacts DEF Pivot
<1>6. side \in Side /\ Opp(side) \in Side /\ Opp(side) # side
  BY <1>1, Place, SideFacts
<1> HIDE DEF new, inner, p, side, d, v
<1>7. d.parent[new] = p
  BY <1>3, <1>4
<1>8. \A m \in S : m \notin u[x] => d.height[m] = t.height[m]
  BY <1>3, <1>4, <1>5
<1>9. p # NULL => /\ d.child[p][side] = new
                  /\ d.child[p][Opp(side)] = t.child[p][Opp(side)]
  BY <1>3, <1>4, <1>6
<1> QED
  BY <1>2, <1>3, <1>7, <1>8, <1>9 DEF Repaired, new, p, side, d, v

\* The subtree of x, too tall by one on side s.
Leaning(t, S, u, R, x, s) ==
  /\ Tree(t, S, u, R) /\ Order(S, R) /\ x \in S /\ s \in Side
  /\ AvlHeight(t, t.child[x][s]) = AvlHeight(t, t.child[x][Opp(s)]) + 2
  /\ \A m \in S : m # x /\ m # t.parent[x] => Sound(t, m)

LEMMA LeaningFacts ==
  ASSUME NEW t, NEW S, NEW u, NEW R, NEW x, NEW s, Leaning(t, S, u, R, x, s)
  PROVE  LET c == t.child[x][s]
             e == t.child[x][Opp(s)]
             o == t.child[c][s]
             i == t.child[c][Opp(s)]
         IN  /\ t \in Trees /\ Shape(t, S, u) /\ x \in S /\ s \in Side
             /\ S \subseteq Node /\ NULL \notin Node
             /\ Opp(s) \in Side /\ Opp(s) # s /\ Opp(Opp(s)) = s
             /\ c \in S /\ Pivot(t, x, Opp(s)) = c /\ t.parent[c] = x /\ Sound(t, c)
             /\ e \in S \union {NULL} /\ o \in S \union {NULL} /\ i \in S \union {NULL}
             /\ AvlHeight(t, e) \in Nat /\ AvlHeight(t, o) \in Nat /\ AvlHeight(t, i) \in Nat
             /\ AvlHeight(t, o) - AvlHeight(t, i) \in -1 .. 1
             /\ 1 + Larger(AvlHeight(t, o), AvlHeight(t, i)) = AvlHeight(t, e) + 2
<1> DEFINE c == t.child[x][s]
           e == t.child[x][Opp(s)]
           o == t.child[c][s]
           i == t.child[c][Opp(s)]
<1>1. /\ t \in Trees /\ Shape(t, S, u) /\ x \in S /\ s \in Side
      /\ AvlHeight(t, c) = AvlHeight(t, e) + 2
  BY DEF Leaning, Tree
<1>2. S \subseteq Node /\ NULL \notin Node /\ Opp(s) \in Side /\ Opp(s) # s /\ Opp(Opp(s)) = s
  BY <1>1, NodeAssumption, SideFacts DEF Shape
<1>3. c \in S \union {NULL} /\ e \in S \union {NULL}
  BY <1>1, <1>2 DEF Shape
<1>4. AvlHeight(t, c) \in Nat /\ AvlHeight(t, e) \in Nat
  BY <1>1, <1>2, <1>3, HeightsAreNumbers DEF Links
<1>5. c # NULL
  <2>1. AvlHeight(t, c) # 0
    BY <1>1, <1>4
  <2> QED
    BY <2>1 DEF AvlHeight
<1>6. Pivot(t, x, Opp(s)) = c
  BY <1>2 DEF Pivot
<1>7. /\ c \in S /\ t.parent[c] = x /\ c # x /\ t.parent[x] # c
      /\ o \in S \union {NULL} /\ i \in S \union {NULL}
  <2>1. Pivot(t, x, Opp(s)) # NULL
    BY <1>5, <1>6
  <2>2. c \in S /\ c # x /\ t.parent[c] = x /\ t.parent[x] # c
    BY <2>1, <1>1, <1>2, <1>6, Apart
  <2> QED
    BY <2>2, <1>1, <1>2 DEF Shape
<1>8. Sound(t, c)
  BY <1>7 DEF Leaning
<1>9. /\ AvlHeight(t, o) - AvlHeight(t, i) \in -1 .. 1
      /\ t.height[c] = 1 + Larger(AvlHeight(t, o), AvlHeight(t, i))
  BY <1>1, <1>8 DEF Sound
<1>10. AvlHeight(t, o) \in Nat /\ AvlHeight(t, i) \in Nat
  BY <1>1, <1>2, <1>7, HeightsAreNumbers DEF Links
<1>11. t.height[c] = AvlHeight(t, c)
  BY <1>5 DEF AvlHeight
<1> QED
  BY <1>1, <1>2, <1>3, <1>4, <1>6, <1>7, <1>8, <1>9, <1>10, <1>11

LEMMA SingleRepairs ==
  ASSUME NEW t, NEW S, NEW u, NEW R, NEW x, NEW s, Leaning(t, S, u, R, x, s),
         ~(AvlHeight(t, t.child[t.child[x][s]][s])
             < AvlHeight(t, t.child[t.child[x][s]][Opp(s)]))
  PROVE  LET d == Lift(t, x, Opp(s))
             c == t.child[x][s]
         IN  /\ \E v : Repaired(t, d, S, u, v, R, x, c)
             /\ \A m \in S : m # t.parent[x] => Sound(d, m)
             /\ d.height[c] - AvlHeight(t, c) \in 0 .. 1
<1> DEFINE c == t.child[x][s]
           e == t.child[x][Opp(s)]
           o == t.child[c][s]
           i == t.child[c][Opp(s)]
           d == Lift(t, x, Opp(s))
<1>1. /\ t \in Trees /\ Shape(t, S, u) /\ x \in S /\ s \in Side
      /\ S \subseteq Node /\ NULL \notin Node
      /\ Opp(s) \in Side /\ Opp(s) # s /\ Opp(Opp(s)) = s
      /\ c \in S /\ Pivot(t, x, Opp(s)) = c
      /\ AvlHeight(t, e) \in Nat /\ AvlHeight(t, o) \in Nat /\ AvlHeight(t, i) \in Nat
      /\ AvlHeight(t, o) - AvlHeight(t, i) \in -1 .. 1
      /\ 1 + Larger(AvlHeight(t, o), AvlHeight(t, i)) = AvlHeight(t, e) + 2
  BY LeaningFacts
<1>2. Tree(t, S, u, R) /\ Order(S, R) /\ AvlHeight(t, c) = AvlHeight(t, e) + 2
      /\ \A m \in S : m # x /\ m # t.parent[x] => Sound(t, m)
  BY DEF Leaning
<1>3. \E v : Repaired(t, d, S, u, v, R, x, c)
  BY <1>1, <1>2, LiftRepairs
<1>4. /\ d.height[x] = 1 + Larger(AvlHeight(t, e), AvlHeight(t, i))
      /\ d.height[c] = 1 + Larger(d.height[x], AvlHeight(t, o))
      /\ \A m \in S : m # x /\ m # c /\ m # t.parent[x] /\ Sound(t, m) => Sound(d, m)
      /\ AvlHeight(t, e) - AvlHeight(t, i) \in -1 .. 1 => Sound(d, x)
      /\ d.height[x] - AvlHeight(t, o) \in -1 .. 1 => Sound(d, c)
  <2> DEFINE z == Opp(s)
  <2>1. z \in Side /\ Opp(z) = s /\ Pivot(t, x, z) = c /\ Pivot(t, x, z) # NULL
    BY <1>1
  <2>2. e = t.child[x][z] /\ i = t.child[Pivot(t, x, z)][z]
        /\ o = t.child[Pivot(t, x, z)][Opp(z)] /\ d = Lift(t, x, z)
    BY <2>1
  <2> HIDE DEF z, d, c, e, o, i
  <2>3. /\ d.height[x] = 1 + Larger(AvlHeight(t, e), AvlHeight(t, i))
        /\ d.height[c] = 1 + Larger(d.height[x], AvlHeight(t, o))
    BY <2>1, <2>2, <1>1, LiftReads
  <2>4. /\ \A m \in S : m # x /\ m # c /\ m # t.parent[x] /\ Sound(t, m) => Sound(d, m)
        /\ AvlHeight(t, e) - AvlHeight(t, i) \in -1 .. 1 => Sound(d, x)
        /\ d.height[x] - AvlHeight(t, o) \in -1 .. 1 => Sound(d, c)
    BY <2>1, <2>2, <1>1, LiftSound
  <2> QED
    BY <2>3, <2>4
<1> HIDE DEF d, c, e, o, i
<1>5. /\ AvlHeight(t, e) - AvlHeight(t, i) \in -1 .. 1
      /\ d.height[x] - AvlHeight(t, o) \in -1 .. 1
      /\ d.height[c] - (AvlHeight(t, e) + 2) \in 0 .. 1
  <2>1. ~(AvlHeight(t, o) < AvlHeight(t, i))
    BY DEF c, o, i
  <2> DEFINE he == AvlHeight(t, e)
             ho == AvlHeight(t, o)
             hi == AvlHeight(t, i)
             hx == 1 + Larger(he, hi)
  <2>2. /\ he \in Nat /\ ho \in Nat /\ hi \in Nat /\ ho - hi \in -1 .. 1 /\ ~(ho < hi)
        /\ 1 + Larger(ho, hi) = he + 2
    BY <1>1, <2>1
  <2> HIDE DEF he, ho, hi
  <2>3. he - hi \in -1 .. 1 /\ hx - ho \in -1 .. 1 /\ (1 + Larger(hx, ho)) - (he + 2) \in 0 .. 1
    BY <2>2, SingleHeights
  <2>4. d.height[x] = hx /\ d.height[c] = 1 + Larger(hx, ho)
    BY <1>4 DEF he, ho, hi
  <2>5. he = AvlHeight(t, e) /\ ho = AvlHeight(t, o) /\ hi = AvlHeight(t, i)
    BY DEF he, ho, hi
  <2> HIDE DEF hx
  <2> QED
    BY <2>3, <2>4, <2>5
<1>6. \A m \in S : m # t.parent[x] => Sound(d, m)
  BY <1>2, <1>4, <1>5
<1> QED
  BY <1>2, <1>3, <1>5, <1>6 DEF d, c

\* A rotation of c, side s of x, makes l of t, and one of x makes d of l.
Doubled(t, S, u, R, x, s, c, k, l, d) ==
  /\ \E v : Repaired(t, d, S, u, v, R, x, k)
  /\ \A m \in S : m # t.parent[x] => Sound(d, m)
  /\ d.height[k] - AvlHeight(t, c) \in 0 .. 1
  /\ Pivot(t, c, s) = k /\ Pivot(l, x, Opp(s)) = k
  /\ t.parent[c] = x /\ SideOf(t, c) = s
  /\ l.parent[x] = t.parent[x]
  /\ t.parent[x] # NULL => SideOf(l, x) = SideOf(t, x)

LEMMA DoubleRepairs ==
  ASSUME NEW t, NEW S, NEW u, NEW R, NEW x, NEW s, Leaning(t, S, u, R, x, s),
         AvlHeight(t, t.child[t.child[x][s]][s])
           < AvlHeight(t, t.child[t.child[x][s]][Opp(s)])
  PROVE  LET c  == t.child[x][s]
             t1 == Lift(t, c, s)
         IN  Doubled(t, S, u, R, x, s, c, t.child[c][Opp(s)], t1, Lift(t1, x, Opp(s)))
<1> DEFINE c  == t.child[x][s]
           e  == t.child[x][Opp(s)]
           o  == t.child[c][s]
           k  == t.child[c][Opp(s)]
           a  == t.child[k][s]
           b  == t.child[k][Opp(s)]
           p  == t.parent[x]
           t1 == Lift(t, c, s)
           v1 == Lifted(t, u, c, s)
           z  == Opp(s)
           d  == Lift(t1, x, z)
           v2 == Lifted(t1, v1, x, z)
<1>1. /\ t \in Trees /\ Shape(t, S, u) /\ x \in S /\ s \in Side
      /\ S \subseteq Node /\ NULL \notin Node
      /\ z \in Side /\ z # s /\ Opp(z) = s
      /\ c \in S /\ t.parent[c] = x /\ Sound(t, c)
      /\ e \in S \union {NULL} /\ o \in S \union {NULL} /\ k \in S \union {NULL}
      /\ AvlHeight(t, e) \in Nat /\ AvlHeight(t, o) \in Nat /\ AvlHeight(t, k) \in Nat
      /\ AvlHeight(t, o) - AvlHeight(t, k) \in -1 .. 1
      /\ 1 + Larger(AvlHeight(t, o), AvlHeight(t, k)) = AvlHeight(t, e) + 2
  BY LeaningFacts
<1>2. /\ Tree(t, S, u, R) /\ Order(S, R) /\ AvlHeight(t, c) = AvlHeight(t, e) + 2
      /\ \A m \in S : m # x /\ m # p => Sound(t, m)
  BY DEF Leaning
<1>3. AvlHeight(t, o) < AvlHeight(t, k)
  OBVIOUS
<1>4. k # NULL /\ k \in S
  <2>1. AvlHeight(t, k) # 0
    BY <1>1, <1>3
  <2> QED
    BY <2>1, <1>1 DEF AvlHeight
<1>5. Pivot(t, c, s) = k
  BY DEF Pivot
<1>6. /\ k # c /\ t.parent[k] = c /\ a # c /\ a # k /\ b # c /\ b # k
      /\ o # c /\ o # k /\ x # c /\ x # k
      /\ a \in S \union {NULL} /\ b \in S \union {NULL}
      /\ a # NULL => t.parent[a] = k
  <2> HIDE DEF c, k
  <2>1. /\ k # c /\ t.parent[k] = c /\ a # c /\ a # k /\ b # c /\ b # k
        /\ t.child[c][s] # c /\ t.child[c][s] # k /\ t.parent[c] # c /\ t.parent[c] # k
        /\ a \in S \union {NULL} /\ b \in S \union {NULL}
        /\ a # NULL => t.parent[a] = k
    BY <1>1, <1>4, <1>5, Apart
  <2> QED
    BY <2>1, <1>1
<1>7. /\ x \in u[x] /\ c \in u[x] /\ k \in u[x] /\ u[c] \subseteq u[x] /\ x \notin u[c]
  <2>0. c = t.child[x][s] /\ k = t.child[c][z] /\ c # NULL
    BY <1>1
  <2> HIDE DEF c, k, z
  <2>a. Shape(t, S, u) /\ x \in S /\ s \in Side /\ c \in S /\ z \in Side /\ k # NULL
    BY <1>1, <1>4
  <2>1. /\ x \in u[x] /\ c \in u[x] /\ u[c] \subseteq u[x] /\ x \notin u[c]
    BY <2>a, <2>0, KidFacts
  <2>2. k \in u[c]
    BY <2>a, <2>0, KidFacts
  <2> QED
    BY <2>1, <2>2
<1>8. /\ p # x /\ p # c /\ p # k /\ p \in S \union {NULL} /\ p \notin u[x]
  <2>1. CASE p = NULL
    <3>1. u[x] \subseteq S
      BY <1>1, KidFacts
    <3> HIDE DEF p, c, k
    <3> QED
      BY <2>1, <3>1, <1>1, <1>4
  <2>2. CASE p # NULL
    BY <2>2, <1>1, <1>7, Place
  <2> QED
    BY <2>1, <2>2
<1>9. SideOf(t, c) = s
  <2>1. x # NULL
    BY <1>1
  <2>2. t.child[t.parent[c]][s] = c
    BY <1>1
  <2> HIDE DEF c
  <2> QED
    BY <2>1, <2>2, <1>1, Place
<1>10. Sound(t, k)
  BY <1>2, <1>4, <1>6, <1>8
<1>11. /\ AvlHeight(t, a) \in Nat /\ AvlHeight(t, b) \in Nat
       /\ AvlHeight(t, k) = 1 + Larger(AvlHeight(t, a), AvlHeight(t, b))
       /\ AvlHeight(t, a) - AvlHeight(t, b) \in -1 .. 1
  <2>1. AvlHeight(t, a) \in Nat /\ AvlHeight(t, b) \in Nat
    BY <1>1, <1>6, HeightsAreNumbers DEF Links
  <2>2. /\ t.height[k] = 1 + Larger(AvlHeight(t, a), AvlHeight(t, b))
        /\ AvlHeight(t, a) - AvlHeight(t, b) \in -1 .. 1
    BY <1>1, <1>10 DEF Sound
  <2> QED
    BY <2>1, <2>2, <1>4 DEF AvlHeight
<1> HIDE DEF c, e, o, k, z
<1>12. Repaired(t, t1, S, u, v1, R, c, k)
  BY <1>1, <1>2, <1>4, <1>5, LiftRepairs
<1>13. /\ \A m \in Node, y \in Side :
            t1.child[m][y] = IF m = x /\ y = s THEN k
                             ELSE IF m = c /\ y = z THEN a
                             ELSE IF m = k /\ y = s THEN c
                             ELSE t.child[m][y]
       /\ \A m \in Node :
            t1.parent[m] = IF m = a THEN c
                           ELSE IF m = c THEN k
                           ELSE IF m = k THEN x
                           ELSE t.parent[m]
       /\ \A m \in Node : m # c /\ m # k => t1.height[m] = t.height[m] /\ t1.cnt[m] = t.cnt[m]
       /\ t1.height[c] = 1 + Larger(AvlHeight(t, o), AvlHeight(t, a))
  BY <1>1, <1>4, <1>5, <1>9, LiftReads DEF o, z
<1>14. /\ \A m \in S : m # c /\ m # k /\ m # x /\ Sound(t, m) => Sound(t1, m)
       /\ AvlHeight(t, o) - AvlHeight(t, a) \in -1 .. 1 => Sound(t1, c)
  BY <1>1, <1>4, <1>5, LiftSound DEF o
<1>15. /\ Tree(t1, S, v1, R) /\ t1 \in Trees /\ Shape(t1, S, v1)
  BY <1>12 DEF Repaired, Tree
<1>16. /\ t1.child[x][s] = k /\ t1.child[x][z] = e
       /\ t1.child[k][s] = c /\ t1.child[k][z] = b
       /\ t1.parent[x] = p
  <2>1. t1.child[x][s] = k /\ t1.child[k][s] = c
    BY <1>1, <1>4, <1>6, <1>13
  <2>2. t1.child[x][z] = t.child[x][z] /\ t1.child[k][z] = t.child[k][z]
    BY <1>1, <1>4, <1>6, <1>13
  <2>3. t1.parent[x] = p
    <3>1. a # x
      BY <1>1, <1>4, <1>6, <1>8
    <3> HIDE DEF t1, a, p
    <3> QED
      BY <1>1, <1>6, <1>13, <3>1 DEF p
  <2> QED
    BY <2>1, <2>2, <2>3 DEF e, z
<1>17. Pivot(t1, x, z) = k
  BY <1>1, <1>16 DEF Pivot
<1> HIDE DEF t1, p, a, b, v1
<1>18. Repaired(t1, d, S, v1, v2, R, x, k)
  BY <1>1, <1>2, <1>4, <1>15, <1>17, LiftRepairs
<1>19. /\ d.height[x] = 1 + Larger(AvlHeight(t1, e), AvlHeight(t1, b))
       /\ d.height[k] = 1 + Larger(d.height[x], AvlHeight(t1, c))
  BY <1>1, <1>4, <1>15, <1>16, <1>17, LiftReads
<1>20. /\ \A m \in S : m # x /\ m # k /\ m # p /\ Sound(t1, m) => Sound(d, m)
       /\ AvlHeight(t1, e) - AvlHeight(t1, b) \in -1 .. 1 => Sound(d, x)
       /\ d.height[x] - AvlHeight(t1, c) \in -1 .. 1 => Sound(d, k)
  BY <1>1, <1>4, <1>15, <1>16, <1>17, LiftSound
<1> HIDE DEF d, v2
<1>21. e # c /\ e # k
  <2>1. e # k
    <3>1. e # NULL => t.parent[e] = x
      BY <1>1 DEF e, z, Shape
    <3> QED
      BY <1>1, <1>4, <1>6, <3>1
  <2>2. e # c
    <3>1. Pivot(t, x, z) # NULL /\ t.child[x][z] = e /\ Pivot(t, x, z) = c
      BY <1>1, <1>4 DEF Pivot, e, c, z
    <3> QED
      BY <1>1, <3>1, Apart
  <2> QED
    BY <2>1, <2>2
<1>22. /\ AvlHeight(t1, e) = AvlHeight(t, e) /\ AvlHeight(t1, b) = AvlHeight(t, b)
       /\ AvlHeight(t1, c) = 1 + Larger(AvlHeight(t, o), AvlHeight(t, a))
  BY <1>1, <1>6, <1>13, <1>21 DEF AvlHeight
<1>23. /\ AvlHeight(t, o) - AvlHeight(t, a) \in -1 .. 1
       /\ AvlHeight(t1, e) - AvlHeight(t1, b) \in -1 .. 1
       /\ d.height[x] - AvlHeight(t1, c) \in -1 .. 1
       /\ d.height[k] - AvlHeight(t, c) \in 0 .. 1
  <2> DEFINE he == AvlHeight(t, e)
             ho == AvlHeight(t, o)
             hk == AvlHeight(t, k)
             ha == AvlHeight(t, a)
             hb == AvlHeight(t, b)
             hx == 1 + Larger(he, hb)
             hc == 1 + Larger(ho, ha)
  <2>1. /\ he \in Nat /\ ho \in Nat /\ hk \in Nat /\ ha \in Nat /\ hb \in Nat
        /\ ho - hk \in -1 .. 1 /\ ho < hk /\ 1 + Larger(ho, hk) = he + 2
        /\ hk = 1 + Larger(ha, hb) /\ ha - hb \in -1 .. 1
    BY <1>1, <1>3, <1>11 DEF o, k, c
  <2>2. d.height[x] = hx /\ d.height[k] = 1 + Larger(hx, hc) /\ AvlHeight(t1, c) = hc
    BY <1>19, <1>22
  <2>3. AvlHeight(t1, e) = he /\ AvlHeight(t1, b) = hb /\ AvlHeight(t, c) = he + 2
    BY <1>22, <1>2
  <2>5. AvlHeight(t, o) = ho /\ AvlHeight(t, a) = ha
    OBVIOUS
  <2> HIDE DEF he, ho, hk, ha, hb
  <2>4. /\ ho - ha \in -1 .. 1 /\ he - hb \in -1 .. 1
        /\ hx - hc \in -1 .. 1 /\ (1 + Larger(hx, hc)) - (he + 2) \in 0 .. 1
    BY <2>1, DoubleHeights
  <2> HIDE DEF hx, hc
  <2> QED
    BY <2>2, <2>3, <2>4, <2>5
<1>24. ASSUME NEW m \in S, m # p
       PROVE  Sound(d, m)
  <2>1. Sound(t1, c)
    BY <1>14, <1>23
  <2>2. CASE m = x
    BY <1>20, <1>23, <2>2
  <2>3. CASE m = k
    BY <1>20, <1>23, <2>3
  <2>4. CASE m = c
    BY <1>6, <1>8, <1>20, <2>1, <2>4
  <2>5. CASE m # x /\ m # k /\ m # c
    BY <1>2, <1>14, <1>20, <1>24, <2>5
  <2> QED
    BY <2>2, <2>3, <2>4, <2>5
<1>25. ASSUME p # NULL
       PROVE  /\ SideOf(t1, x) = SideOf(t, x)
              /\ t1.child[p][Opp(SideOf(t, x))] = t.child[p][Opp(SideOf(t, x))]
  <2>1. p \in Node /\ \A y \in Side : t1.child[p][y] = t.child[p][y]
    BY <1>1, <1>8, <1>13, <1>25
  <2>2. SideOf(t1, x) = SideOf(t, x)
    BY <2>1, <1>16 DEF SideOf, Side, p
  <2>3. Opp(SideOf(t, x)) \in Side
    BY <1>1, Place, SideFacts
  <2> QED
    BY <2>1, <2>2, <2>3
<1>26. v1[x] = u[x]
  <2>1. \A m \in Links : m # c /\ m # k => v1[m] = u[m]
    BY <1>1, <1>4, <1>5, LiftedReads DEF v1
  <2> QED
    BY <2>1, <1>1, <1>6 DEF Links
<1>27. Repaired(t, d, S, u, v2, R, x, k)
  <2>1. Elsewhere(t, d, S)
    BY <1>12, <1>18 DEF Repaired, Elsewhere
  <2>2. \A y \in S : y \notin u[x] => Above(S, v2, y) = Above(S, u, y)
    BY <1>7, <1>12, <1>18, <1>26 DEF Repaired
  <2>3. \A m \in S : m \notin u[x] => d.height[m] = t.height[m]
    BY <1>7, <1>12, <1>18, <1>26 DEF Repaired
  <2>4. Tree(d, S, v2, R) /\ v2[k] = u[x] /\ d.parent[k] = p
    BY <1>16, <1>18, <1>26 DEF Repaired
  <2>5. p # NULL => /\ d.child[p][SideOf(t, x)] = k
                    /\ d.child[p][Opp(SideOf(t, x))] = t.child[p][Opp(SideOf(t, x))]
    BY <1>16, <1>18, <1>25 DEF Repaired
  <2> QED
    BY <1>4, <2>1, <2>2, <2>3, <2>4, <2>5 DEF Repaired, p
<1> QED
  BY <1>1, <1>5, <1>9, <1>16, <1>17, <1>23, <1>24, <1>25, <1>27
     DEF c, k, z, t1, p, d, Doubled

LEMMA FixSideRepairs ==
  ASSUME NEW t, NEW S, NEW u, NEW R, NEW x, NEW s, Leaning(t, S, u, R, x, s)
  PROVE  LET b == AvlFixSide(t, x, s)
             d == Hang(b.t, t.parent[x], SideOf(t, x), b.top)
         IN  /\ \E v : Repaired(t, d, S, u, v, R, x, b.top)
             /\ \A m \in S : m # t.parent[x] => Sound(d, m)
             /\ d.height[b.top] - AvlHeight(t, t.child[x][s]) \in 0 .. 1
<1> DEFINE c  == t.child[x][s]
           b  == AvlFixSide(t, x, s)
           d  == Hang(b.t, t.parent[x], SideOf(t, x), b.top)
           r  == Rotate(t, c, s)
           t1 == [r.t EXCEPT !.child[x][s] = r.top]
           q  == Rotate(t1, x, Opp(s))
<1>1. CASE ~(AvlHeight(t, t.child[c][s]) < AvlHeight(t, t.child[c][Opp(s)]))
  <2>1. b = Rotate(t, x, Opp(s))
    BY <1>1 DEF AvlFixSide
  <2>2. d = Lift(t, x, Opp(s)) /\ b.top = Pivot(t, x, Opp(s))
    BY <2>1 DEF Lift, Rotate
  <2>3. Pivot(t, x, Opp(s)) = c
    BY LeaningFacts
  <2>4. /\ \E v : Repaired(t, Lift(t, x, Opp(s)), S, u, v, R, x, c)
        /\ \A m \in S : m # t.parent[x] => Sound(Lift(t, x, Opp(s)), m)
        /\ Lift(t, x, Opp(s)).height[c] - AvlHeight(t, c) \in 0 .. 1
    BY <1>1, SingleRepairs
  <2> HIDE DEF d, b, c
  <2>5. /\ \E v : Repaired(t, d, S, u, v, R, x, b.top)
        /\ \A m \in S : m # t.parent[x] => Sound(d, m)
        /\ d.height[b.top] - AvlHeight(t, c) \in 0 .. 1
    BY <2>2, <2>3, <2>4
  <2> QED
    BY <2>5 DEF b, c, d
<1>2. CASE AvlHeight(t, t.child[c][s]) < AvlHeight(t, t.child[c][Opp(s)])
  <2> DEFINE k == t.child[c][Opp(s)]
             l == Lift(t, c, s)
             e == Lift(l, x, Opp(s))
  <2>1. b = q
    BY <1>2 DEF AvlFixSide
  <2>2. /\ \E v : Repaired(t, e, S, u, v, R, x, k)
        /\ \A m \in S : m # t.parent[x] => Sound(e, m)
        /\ e.height[k] - AvlHeight(t, c) \in 0 .. 1
        /\ Pivot(t, c, s) = k /\ Pivot(l, x, Opp(s)) = k
        /\ t.parent[c] = x /\ SideOf(t, c) = s
        /\ l.parent[x] = t.parent[x]
        /\ t.parent[x] # NULL => SideOf(l, x) = SideOf(t, x)
    <3>1. Doubled(t, S, u, R, x, s, c, k, l, e)
      BY <1>2, DoubleRepairs
    <3> HIDE DEF c, k, l, e
    <3> QED
      BY <3>1 DEF Doubled
  <2>3. x # NULL
    BY LeaningFacts
  <2>4. l = t1
    <3>1. l = Hang(r.t, t.parent[c], SideOf(t, c), r.top)
      BY DEF Lift
    <3>2. l = Hang(r.t, x, s, r.top)
      BY <3>1, <2>2
    <3> QED
      BY <3>2, <2>3 DEF Hang
  <2>5. b.top = k
    <3>1. q.top = Pivot(t1, x, Opp(s))
      BY DEF Rotate
    <3> QED
      BY <3>1, <2>1, <2>2, <2>4
  <2>6. e = d
    <3>1. e = Hang(q.t, l.parent[x], SideOf(l, x), q.top)
      BY <2>4 DEF Lift
    <3> HIDE DEF l, q, b, e
    <3>2. CASE t.parent[x] = NULL
      BY <3>1, <3>2, <2>1, <2>2 DEF Hang
    <3>3. CASE t.parent[x] # NULL
      BY <3>1, <3>3, <2>1, <2>2
    <3> QED
      BY <3>2, <3>3
  <2> HIDE DEF d, b, c, e, k
  <2>7. /\ \E v : Repaired(t, d, S, u, v, R, x, b.top)
        /\ \A m \in S : m # t.parent[x] => Sound(d, m)
        /\ d.height[b.top] - AvlHeight(t, c) \in 0 .. 1
    BY <2>2, <2>5, <2>6
  <2> QED
    BY <2>7 DEF b, c, d
<1> QED
  BY <1>1, <1>2

-----------------------------------------------------------------------------
(* A turn of avl_fix. *)
\* The subtree of x had the height o, and was even, before one of its
\* children grew or shrank by one; or x is a new leaf.
Due(t, x, o) ==
  \/ o = 0 /\ \A s \in Side : t.child[x][s] = NULL
  \/ \E s \in Side, b \in Nat :
       LET a == AvlHeight(t, t.child[x][s])
           c == AvlHeight(t, t.child[x][Opp(s)])
       IN o = 1 + Larger(a, b) /\ a - b \in -1 .. 1 /\ c - b \in -1 .. 1

\* The parent of x is even with the height o for x.
Awaits(t, x, o) ==
  LET p == t.parent[x]
      e == t.child[p][Opp(SideOf(t, x))]
  IN p # NULL => /\ t.height[p] = 1 + Larger(o, AvlHeight(t, e))
                 /\ o - AvlHeight(t, e) \in -1 .. 1

FixHead(t, S, u, R, x, o) ==
  /\ Tree(t, S, u, R) /\ Order(S, R) /\ x \in S /\ o \in Nat
  /\ \A m \in S : m # x /\ m # t.parent[x] => Sound(t, m)
  /\ Due(t, x, o) /\ Awaits(t, x, o)

LEMMA Passes ==
  ASSUME NEW t, NEW S, NEW u, NEW R, NEW x \in S, NEW d, NEW v, NEW top, NEW o \in Nat,
         Tree(t, S, u, R), Order(S, R), Repaired(t, d, S, u, v, R, x, top),
         \A m \in S : m # t.parent[x] => Sound(d, m),
         d.height[top] - o \in -1 .. 1, Awaits(t, x, o), t.parent[x] # NULL
  PROVE  FixHead(d, S, v, R, t.parent[x], t.height[t.parent[x]])
<1> DEFINE p    == t.parent[x]
           side == SideOf(t, x)
           opp  == Opp(side)
           e    == t.child[p][opp]
<1>1. /\ t \in Trees /\ Shape(t, S, u) /\ d \in Trees /\ Shape(d, S, v) /\ Tree(d, S, v, R)
      /\ top \in S /\ d.parent[top] = p
      /\ \A m \in S : m \notin u[x] => d.height[m] = t.height[m]
      /\ d.child[p][side] = top /\ d.child[p][opp] = e
  BY DEF Repaired, Tree
<1>2. S \subseteq Node /\ NULL \notin Node
  BY <1>1, NodeAssumption DEF Shape
<1>3. /\ side \in Side /\ p \in S /\ p # x /\ p \notin u[x] /\ t.child[p][side] = x
  BY <1>1, Place
<1>4. opp \in Side /\ opp # side /\ Opp(opp) = side
  BY <1>3, SideFacts
<1>5. e \in S \union {NULL} /\ (e # NULL => e \notin u[x])
  <2>1. e \in S \union {NULL} /\ u[t.child[p][side]] \intersect u[e] = {}
    <3>1. Shape(t, S, u) /\ p \in S /\ side \in Side /\ e = t.child[p][opp]
      BY <1>1, <1>3
    <3>2. e = t.child[p][Opp(side)]
      OBVIOUS
    <3> HIDE DEF p, side, e, opp
    <3>3. u[t.child[p][side]] \intersect u[e] = {}
      BY <3>1, <3>2 DEF Shape
    <3>4. e \in S \union {NULL}
      BY <3>1, <1>4 DEF Shape
    <3> QED
      BY <3>3, <3>4
  <2>2. e # NULL => e \in u[e]
    BY <2>1, <1>1, KidFacts, SideFacts DEF Side
  <2> QED
    BY <2>1, <2>2, <1>3
<1> HIDE DEF p, side, opp, e
<1>6. d.height[p] = t.height[p] /\ AvlHeight(d, e) = AvlHeight(t, e)
  BY <1>1, <1>3, <1>5 DEF AvlHeight
<1>7. t.height[p] \in Nat /\ AvlHeight(t, e) \in Nat /\ d.height[top] \in Nat
      /\ AvlHeight(d, top) = d.height[top]
  BY <1>1, <1>2, <1>3, <1>5, HeightsAreNumbers DEF Trees, Links, AvlHeight
<1>8. t.height[p] = 1 + Larger(o, AvlHeight(t, e)) /\ o - AvlHeight(t, e) \in -1 .. 1
  BY DEF Awaits, p, side, opp, e
<1>9. Due(d, p, t.height[p])
  <2>1. t.height[p] = 1 + Larger(AvlHeight(t, e), o) /\ AvlHeight(t, e) - o \in -1 .. 1
    <3> DEFINE he == AvlHeight(t, e)
               hp == t.height[p]
    <3>1. he \in Nat /\ hp = 1 + Larger(o, he) /\ o - he \in -1 .. 1
      BY <1>7, <1>8
    <3> HIDE DEF he, hp
    <3>2. Larger(o, he) = Larger(he, o)
      BY <3>1, LargerOf
    <3>3. he - o \in -1 .. 1
      BY <3>1
    <3>4. hp = 1 + Larger(he, o)
      BY <3>1, <3>2
    <3> QED
      BY <3>3, <3>4 DEF he, hp
  <2>2. LET a == AvlHeight(d, d.child[p][opp])
            c == AvlHeight(d, d.child[p][Opp(opp)])
        IN t.height[p] = 1 + Larger(a, o) /\ a - o \in -1 .. 1 /\ c - o \in -1 .. 1
    BY <1>1, <1>4, <1>6, <1>7, <2>1
  <2> QED
    BY <1>4, <2>2 DEF Due
<1>10. Awaits(d, p, t.height[p])
  <2> SUFFICES ASSUME d.parent[p] # NULL
      PROVE  LET q == d.parent[p]
                 f == d.child[q][Opp(SideOf(d, p))]
             IN /\ d.height[q] = 1 + Larger(t.height[p], AvlHeight(d, f))
                /\ t.height[p] - AvlHeight(d, f) \in -1 .. 1
    BY DEF Awaits
  <2>1. /\ d.parent[p] \in S /\ d.parent[p] # p /\ SideOf(d, p) \in Side
        /\ d.child[d.parent[p]][SideOf(d, p)] = p
    BY <1>1, <1>3, Place
  <2>2. Sound(d, d.parent[p])
    BY <2>1 DEF p
  <2>3. AvlHeight(d, p) = t.height[p]
    BY <1>2, <1>3, <1>6 DEF AvlHeight
  <2> QED
    BY <2>1, <2>2, <2>3 DEF Sound
<1> QED
  BY <1>1, <1>3, <1>7, <1>9, <1>10 DEF FixHead, p

LEMMA HangSame ==
  ASSUME NEW t \in Trees, NEW p \in Links, NEW s \in Side, NEW c \in Links,
         p # NULL => t.child[p][s] = c
  PROVE  Hang(t, p, s, c) = t
<1>1. CASE p = NULL
  BY <1>1 DEF Hang
<1>2. CASE p # NULL
  <2>1. p \in Node
    BY <1>2 DEF Links
  <2>2. Hang(t, p, s, c) = [t EXCEPT !.child = [t.child EXCEPT ![p] = [t.child[p] EXCEPT ![s] = c]]]
    BY <1>2 DEF Hang
  <2>3. t.child[p] \in [Side -> Links] /\ t.child \in [Node -> [Side -> Links]]
    BY <2>1 DEF Trees
  <2>4. [t.child[p] EXCEPT ![s] = c] = t.child[p]
    BY <1>2, <2>3
  <2>5. [t.child EXCEPT ![p] = t.child[p]] = t.child
    BY <2>1, <2>3
  <2>6. [t EXCEPT !.child = t.child] = t
    BY DEF Trees
  <2> QED
    BY <2>2, <2>4, <2>5, <2>6
<1> QED
  BY <1>1, <1>2

LEMMA UpdateKeeps ==
  ASSUME NEW t, NEW S, NEW u, NEW R, Tree(t, S, u, R), NEW x \in S
  PROVE  LET d == AvlUpdate(t, x)
         IN  /\ Tree(d, S, u, R) /\ Elsewhere(t, d, S)
             /\ d.child = t.child /\ d.parent = t.parent
             /\ \A m \in Node : m # x => d.height[m] = t.height[m]
             /\ \A m \in S : m # x /\ m # t.parent[x] /\ Sound(t, m) => Sound(d, m)
             /\ \A s \in Side :
                  LET a == AvlHeight(d, d.child[x][s])
                      b == AvlHeight(d, d.child[x][Opp(s)])
                  IN /\ AvlHeight(t, t.child[x][s]) = a
                     /\ AvlHeight(t, t.child[x][Opp(s)]) = b
                     /\ d.height[x] = 1 + Larger(a, b)
                     /\ a - b \in -1 .. 1 => Sound(d, x)
<1> DEFINE d == AvlUpdate(t, x)
<1>1. t \in Trees /\ Shape(t, S, u) /\ Sorted(t, S, u, R) /\ Rooted(S, u)
      /\ S \subseteq Node /\ NULL \notin Node /\ x \in Node
  BY NodeAssumption DEF Tree, Shape
<1>2. /\ d \in Trees /\ d.child = t.child /\ d.parent = t.parent
      /\ \A m \in Node : m # x => d.height[m] = t.height[m] /\ d.cnt[m] = t.cnt[m]
      /\ \A s \in Side :
           /\ d.height[x] = 1 + Larger(AvlHeight(t, t.child[x][s]),
                                       AvlHeight(t, t.child[x][Opp(s)]))
           /\ d.cnt[x] = 1 + AvlCnt(t, t.child[x][s]) + AvlCnt(t, t.child[x][Opp(s)])
  BY <1>1, UpdateReads
<1> HIDE DEF d
<1>3. Shape(d, S, u)
  BY <1>1, <1>2 DEF Shape
<1>4. Sorted(d, S, u, R)
  BY <1>1, <1>2 DEF Sorted
<1>5. Elsewhere(t, d, S)
  BY <1>1, <1>2 DEF Elsewhere
<1>6. ASSUME NEW c \in Links, c # x
      PROVE  AvlHeight(d, c) = AvlHeight(t, c) /\ AvlCnt(d, c) = AvlCnt(t, c)
  BY <1>2, <1>6 DEF AvlHeight, AvlCnt, Links
<1>7. ASSUME NEW m \in S, m # x, m # t.parent[x], Sound(t, m)
      PROVE  Sound(d, m)
  <2>1. ASSUME NEW s \in Side
        PROVE  t.child[m][s] \in Links /\ t.child[m][s] # x
    BY <1>1, <1>7, KidFacts DEF Shape, Links
  <2>2. ASSUME NEW s \in Side
        PROVE  LET c == t.child[m][s]
                   e == t.child[m][Opp(s)]
               IN /\ AvlHeight(d, c) = AvlHeight(t, c) /\ AvlCnt(d, c) = AvlCnt(t, c)
                  /\ AvlHeight(d, e) = AvlHeight(t, e) /\ AvlCnt(d, e) = AvlCnt(t, e)
    BY <1>6, <2>1, SideFacts
  <2>3. d.height[m] = t.height[m] /\ d.cnt[m] = t.cnt[m]
    BY <1>1, <1>2, <1>7
  <2> QED
    BY <1>2, <1>7, <2>2, <2>3 DEF Sound
<1>8. ASSUME NEW s \in Side
      PROVE  LET a == AvlHeight(d, d.child[x][s])
                 b == AvlHeight(d, d.child[x][Opp(s)])
             IN /\ AvlHeight(t, t.child[x][s]) = a
                /\ AvlHeight(t, t.child[x][Opp(s)]) = b
                /\ d.height[x] = 1 + Larger(a, b)
                /\ a - b \in -1 .. 1 => Sound(d, x)
  <2> DEFINE c == t.child[x][s]
             e == t.child[x][Opp(s)]
  <2>1. c \in Links /\ c # x /\ e \in Links /\ e # x
    BY <1>1, KidFacts, SideFacts DEF Shape, Links
  <2>2. /\ AvlHeight(d, c) = AvlHeight(t, c) /\ AvlCnt(d, c) = AvlCnt(t, c)
        /\ AvlHeight(d, e) = AvlHeight(t, e) /\ AvlCnt(d, e) = AvlCnt(t, e)
    BY <1>6, <2>1
  <2>3. d.child[x][s] = c /\ d.child[x][Opp(s)] = e
    BY <1>2
  <2>4. /\ d.height[x] = 1 + Larger(AvlHeight(t, c), AvlHeight(t, e))
        /\ d.cnt[x] = 1 + AvlCnt(t, c) + AvlCnt(t, e)
    BY <1>2
  <2> HIDE DEF c, e
  <2>5. /\ d.height[x] = 1 + Larger(AvlHeight(d, c), AvlHeight(d, e))
        /\ d.cnt[x] = 1 + AvlCnt(d, c) + AvlCnt(d, e)
    BY <2>2, <2>4
  <2>6. ASSUME AvlHeight(d, c) - AvlHeight(d, e) \in -1 .. 1
        PROVE  Sound(d, x)
    BY <1>1, <1>2, <2>3, <2>5, <2>6, SoundOneSide
  <2>7. /\ AvlHeight(t, t.child[x][s]) = AvlHeight(d, c)
        /\ AvlHeight(t, t.child[x][Opp(s)]) = AvlHeight(d, e)
    BY <2>2 DEF c, e
  <2> QED
    BY <2>3, <2>5, <2>6, <2>7
<1> QED
  BY <1>1, <1>2, <1>3, <1>4, <1>5, <1>7, <1>8 DEF Tree, d

LEMMA RepairedItself ==
  ASSUME NEW t, NEW S, NEW u, NEW R, Tree(t, S, u, R), NEW x \in S
  PROVE  Repaired(t, t, S, u, u, R, x, x)
<1>1. t.parent[x] # NULL => t.child[t.parent[x]][SideOf(t, x)] = x
  BY Place DEF Tree
<1> QED
  BY <1>1 DEF Repaired, Elsewhere

(* Balance, after the fields of x have been computed anew.                  *)
LEMMA BalanceRepairs ==
  ASSUME NEW t, NEW S, NEW u, NEW R, NEW x, NEW o, FixHead(t, S, u, R, x, o)
  PROVE  LET w == AvlUpdate(t, x)
             b == Balance(w, x)
             d == Hang(b.t, t.parent[x], SideOf(t, x), b.top)
         IN  /\ \E v : Repaired(w, d, S, u, v, R, x, b.top)
             /\ \A m \in S : m # t.parent[x] => Sound(d, m)
             /\ d.height[b.top] - o \in -1 .. 1
<1> DEFINE w == AvlUpdate(t, x)
           b == Balance(w, x)
           d == Hang(b.t, t.parent[x], SideOf(t, x), b.top)
           H(s) == AvlHeight(w, w.child[x][s])
           Goal == /\ \E v : Repaired(w, d, S, u, v, R, x, b.top)
                   /\ \A m \in S : m # t.parent[x] => Sound(d, m)
                   /\ d.height[b.top] - o \in -1 .. 1
<1>1. /\ Tree(t, S, u, R) /\ Order(S, R) /\ x \in S /\ o \in Nat
      /\ \A m \in S : m # x /\ m # t.parent[x] => Sound(t, m)
      /\ Due(t, x, o)
  BY DEF FixHead
<1>2. /\ Tree(w, S, u, R) /\ w.child = t.child /\ w.parent = t.parent
      /\ \A m \in S : m # x /\ m # t.parent[x] /\ Sound(t, m) => Sound(w, m)
      /\ \A s \in Side :
           /\ AvlHeight(t, t.child[x][s]) = H(s)
           /\ AvlHeight(t, t.child[x][Opp(s)]) = H(Opp(s))
           /\ w.height[x] = 1 + Larger(H(s), H(Opp(s)))
           /\ H(s) - H(Opp(s)) \in -1 .. 1 => Sound(w, x)
  BY <1>1, UpdateKeeps
<1>3. SideOf(w, x) = SideOf(t, x)
  BY <1>2 DEF SideOf
<1>4. /\ w \in Trees /\ Shape(w, S, u) /\ x \in Node /\ x # NULL /\ x \in Links
      /\ w.parent[x] \in Links /\ S \subseteq Node /\ SideOf(t, x) \in Side
  <2>1. w \in Trees /\ Shape(w, S, u)
    BY <1>2 DEF Tree
  <2>2. S \subseteq Node
    BY <2>1 DEF Shape
  <2>3. SideOf(w, x) \in Side
    BY <1>1, <2>1, Place
  <2> HIDE DEF w
  <2> QED
    BY <1>1, <1>3, <2>1, <2>2, <2>3, ChildIsLink, NodeAssumption DEF Links
<1> HIDE DEF w
<1>5. \A s \in Side : H(s) \in Nat
  BY <1>4, ChildIsLink, HeightsAreNumbers
<1>6. /\ \A s \in Side : H(s) - H(Opp(s)) \in -2 .. 2
      /\ \A s \in Side : H(s) - H(Opp(s)) \in -1 .. 1 => w.height[x] - o \in -1 .. 1
      /\ \A s \in Side : H(s) - H(Opp(s)) = 2 => H(s) - o \in -1 .. 0
  <2>1. CASE o = 0 /\ \A s \in Side : t.child[x][s] = NULL
    <3>1. \A s \in Side : H(s) = 0
      BY <1>2, <2>1 DEF AvlHeight
    <3>2. \A s \in Side : H(Opp(s)) = 0
      BY <3>1, SideFacts
    <3>3. w.height[x] = 1
      BY <1>2, <3>1, <3>2 DEF Side, Larger
    <3> HIDE DEF H
    <3> QED
      BY <2>1, <3>1, <3>2, <3>3
  <2>2. ASSUME NEW z \in Side, NEW h \in Nat,
               o = 1 + Larger(H(z), h), H(z) - h \in -1 .. 1, H(Opp(z)) - h \in -1 .. 1
        PROVE  /\ \A s \in Side : H(s) - H(Opp(s)) \in -2 .. 2
               /\ \A s \in Side : H(s) - H(Opp(s)) \in -1 .. 1 => w.height[x] - o \in -1 .. 1
               /\ \A s \in Side : H(s) - H(Opp(s)) = 2 => H(s) - o \in -1 .. 0
    <3> HIDE DEF H
    <3>1. Opp(z) \in Side /\ Opp(Opp(z)) = z /\ \A s \in Side : s = z \/ s = Opp(z)
      BY SideFacts
    <3>2. H(z) \in Nat /\ H(Opp(z)) \in Nat
      BY <1>5, <3>1
    <3>3. /\ H(z) - H(Opp(z)) \in -2 .. 2
          /\ H(z) - H(Opp(z)) \in -1 .. 1 => (1 + Larger(H(z), H(Opp(z)))) - o \in -1 .. 1
          /\ H(z) - H(Opp(z)) = 2 => H(z) - o \in -1 .. 0
          /\ H(Opp(z)) - H(z) = 2 => H(Opp(z)) - o \in -1 .. 0
      <4> DEFINE a == H(z)
                 c == H(Opp(z))
      <4>1. /\ a \in Nat /\ c \in Nat /\ o = 1 + Larger(a, h)
            /\ a - h \in -1 .. 1 /\ c - h \in -1 .. 1
        BY <2>2, <3>2
      <4> HIDE DEF a, c
      <4>2. /\ a - c \in -2 .. 2
            /\ a - c \in -1 .. 1 => (1 + Larger(a, c)) - o \in -1 .. 1
            /\ a - c = 2 => a - o \in -1 .. 0
            /\ c - a = 2 => c - o \in -1 .. 0
        BY <4>1 DEF Larger
      <4> QED
        BY <4>2 DEF a, c
    <3>4. w.height[x] = 1 + Larger(H(z), H(Opp(z)))
      BY <1>2 DEF H
    <3>5. ASSUME NEW s \in Side
          PROVE  /\ H(s) - H(Opp(s)) \in -2 .. 2
                 /\ H(s) - H(Opp(s)) \in -1 .. 1 => w.height[x] - o \in -1 .. 1
                 /\ H(s) - H(Opp(s)) = 2 => H(s) - o \in -1 .. 0
      <4>0. /\ H(Opp(z)) - H(z) \in -2 .. 2
            /\ H(Opp(z)) - H(z) \in -1 .. 1 <=> H(z) - H(Opp(z)) \in -1 .. 1
        BY <3>2, <3>3
      <4>1. CASE s = z
        BY <3>3, <3>4, <4>1
      <4>2. CASE s = Opp(z)
        BY <3>1, <3>3, <3>4, <4>0, <4>2
      <4> QED
        BY <3>1, <4>1, <4>2
    <3> QED
      BY <3>5
  <2>3. \A s \in Side : AvlHeight(t, t.child[x][s]) = H(s)
                        /\ AvlHeight(t, t.child[x][Opp(s)]) = H(Opp(s))
    BY <1>2
  <2> HIDE DEF H
  <2>4. CASE \E s \in Side, h \in Nat : /\ o = 1 + Larger(H(s), h)
                                        /\ H(s) - h \in -1 .. 1
                                        /\ H(Opp(s)) - h \in -1 .. 1
    BY <2>2, <2>4
  <2>5. \/ o = 0 /\ \A s \in Side : t.child[x][s] = NULL
        \/ \E s \in Side, h \in Nat : /\ o = 1 + Larger(H(s), h)
                                      /\ H(s) - h \in -1 .. 1
                                      /\ H(Opp(s)) - h \in -1 .. 1
    BY <1>1, <2>3 DEF Due
  <2> QED
    BY <2>1, <2>4, <2>5
<1>7. ASSUME NEW s \in Side, H(s) - H(Opp(s)) = 2, b = AvlFixSide(w, x, s)
      PROVE  Goal
  <2>0. H(s) \in Nat /\ H(Opp(s)) \in Nat /\ H(s) - o \in -1 .. 0
    BY <1>5, <1>6, <1>7, SideFacts
  <2>1. Leaning(w, S, u, R, x, s)
    <3>1. H(s) = H(Opp(s)) + 2
      <4> HIDE DEF H
      <4> QED
        BY <2>0, <1>7
    <3> QED
      BY <3>1, <1>1, <1>2, <1>7 DEF Leaning
  <2> DEFINE g == AvlFixSide(w, x, s)
             q == Hang(g.t, w.parent[x], SideOf(w, x), g.top)
  <2>2. /\ \E v : Repaired(w, q, S, u, v, R, x, g.top)
        /\ \A m \in S : m # w.parent[x] => Sound(q, m)
        /\ q.height[g.top] - H(s) \in 0 .. 1
    BY <2>1, FixSideRepairs
  <2>3. g = b /\ q = d
    BY <1>2, <1>3, <1>7
  <2> HIDE DEF g, q, b, d, H
  <2>4. /\ \E v : Repaired(w, d, S, u, v, R, x, b.top)
        /\ \A m \in S : m # t.parent[x] => Sound(d, m)
        /\ d.height[b.top] - H(s) \in 0 .. 1
    BY <2>2, <2>3, <1>2
  <2>5. b.top \in S /\ d \in Trees
    BY <2>4 DEF Repaired, Tree
  <2>6. d.height[b.top] \in Nat
    BY <2>5, <1>4 DEF Trees
  <2>7. d.height[b.top] - o \in -1 .. 1
    BY <1>1, <2>0, <2>4, <2>6
  <2> QED
    BY <2>4, <2>7
<1>8. ASSUME H("left") - H("right") = 2
      PROVE  Goal
  <2>1. b = AvlFixSide(w, x, "left")
    BY <1>8 DEF Balance
  <2>2. "left" \in Side /\ H("left") - H(Opp("left")) = 2
    BY <1>8 DEF Side, Opp
  <2> HIDE DEF b, d, H, Goal
  <2> QED
    BY <1>7, <2>1, <2>2
<1>9. ASSUME H("right") - H("left") = 2
      PROVE  Goal
  <2>0. H("left") - H("right") # 2
    <3>1. H("left") \in Nat /\ H("right") \in Nat
      BY <1>5 DEF Side
    <3> HIDE DEF H
    <3> QED
      BY <3>1, <1>9
  <2>1. b = AvlFixSide(w, x, "right")
    BY <1>9, <2>0 DEF Balance
  <2>2. "right" \in Side /\ H("right") - H(Opp("right")) = 2
    BY <1>9 DEF Side, Opp
  <2> HIDE DEF b, d, H, Goal
  <2> QED
    BY <1>7, <2>1, <2>2
<1>10. ASSUME H("left") - H("right") # 2 /\ H("right") - H("left") # 2
       PROVE  Goal
  <2>1. b = [t |-> w, top |-> x]
    BY <1>10 DEF Balance
  <2>2. d = Hang(w, w.parent[x], SideOf(t, x), x)
    BY <1>2, <2>1
  <2>3. w.parent[x] # NULL => w.child[w.parent[x]][SideOf(t, x)] = x
    BY <1>1, <1>3, <1>4, Place
  <2>4. d = w
    BY <1>4, <2>2, <2>3, HangSame
  <2>5. Repaired(w, w, S, u, u, R, x, x)
    BY <1>1, <1>2, RepairedItself
  <2>6. H("left") - H("right") \in -1 .. 1
    <3>1. H("left") \in Nat /\ H("right") \in Nat /\ H("left") - H("right") \in -2 .. 2
      BY <1>5, <1>6 DEF Side, Opp
    <3> HIDE DEF H
    <3> QED
      BY <3>1, <1>10
  <2>7. Sound(w, x) /\ w.height[x] - o \in -1 .. 1
    BY <1>2, <1>6, <2>6 DEF Side, Opp
  <2>8. b.top = x
    BY <2>1
  <2> HIDE DEF b, d, H
  <2> QED
    BY <1>1, <1>2, <2>4, <2>5, <2>7, <2>8
<1>11. Goal
  <2> HIDE DEF Goal, H
  <2> QED
    BY <1>8, <1>9, <1>10
<1> QED
  BY <1>11 DEF w

(* A turn of the loop of avl_fix: the node above is next, or the whole tree *)
(* is in order.                                                             *)
LEMMA TurnKeeps ==
  ASSUME NEW t, NEW S, NEW u, NEW R, NEW x, NEW o, FixHead(t, S, u, R, x, o),
         NEW st, st.t = t, st.node = x
  PROVE  LET d == FixTurn(st).t
             p == t.parent[x]
         IN  /\ FixTurn(st) = [t |-> d, node |-> p, top |-> FixTurn(st).top]
             /\ Elsewhere(t, d, S) /\ p \in S \union {NULL} /\ FixTurn(st).top \in S
             /\ p # NULL => \E v : /\ FixHead(d, S, v, R, p, t.height[p])
                                   /\ Above(S, v, p) = Above(S, u, p)
             /\ p = NULL => \E v : /\ Tree(d, S, v, R) /\ v[FixTurn(st).top] = S
                                   /\ \A m \in S : Sound(d, m)
<1> DEFINE w   == AvlUpdate(t, x)
           b   == Balance(w, x)
           p   == t.parent[x]
           d   == Hang(b.t, p, SideOf(t, x), b.top)
           top == b.top
<1>1. /\ Tree(t, S, u, R) /\ Order(S, R) /\ x \in S /\ o \in Nat /\ Awaits(t, x, o)
      /\ t \in Trees /\ Shape(t, S, u)
  BY DEF FixHead, Tree
<1>2. x # NULL /\ p \in S \union {NULL} /\ (p # NULL => p # x /\ p \notin u[x])
      /\ x \in Node /\ S \subseteq Node /\ NULL \notin Node
  <2>1. S \subseteq Node /\ NULL \notin Node
    BY <1>1, NodeAssumption DEF Shape
  <2> QED
    BY <2>1, <1>1, Place
<1>3. FixTurn(st) = [t |-> d, node |-> p, top |-> top]
  BY <1>2 DEF FixTurn
<1>4. /\ Tree(w, S, u, R) /\ Elsewhere(t, w, S) /\ w.child = t.child /\ w.parent = t.parent
      /\ \A m \in Node : m # x => w.height[m] = t.height[m]
  BY <1>1, UpdateKeeps
<1>5. /\ \E v : Repaired(w, d, S, u, v, R, x, top)
      /\ \A m \in S : m # p => Sound(d, m)
      /\ d.height[top] - o \in -1 .. 1
  BY BalanceRepairs
<1> HIDE DEF w, b, d, top
<1>6. PICK v : Repaired(w, d, S, u, v, R, x, top)
  BY <1>5
<1>7. Elsewhere(t, d, S)
  BY <1>4, <1>6 DEF Elsewhere, Repaired
<1>8. ASSUME p # NULL
      PROVE  FixHead(d, S, v, R, p, t.height[p]) /\ Above(S, v, p) = Above(S, u, p)
  <2>1. Awaits(w, x, o)
    <3> DEFINE e == t.child[p][Opp(SideOf(t, x))]
    <3>1. SideOf(w, x) = SideOf(t, x)
      BY <1>4 DEF SideOf
    <3>2. e # x
      <4>1. SideOf(t, x) \in Side /\ \A z \in Side : t.child[p][z] = x => z = SideOf(t, x)
        BY <1>1, <1>8, Place
      <4> QED
        BY <4>1, SideFacts
    <3>3. e \in Links
      <4>1. SideOf(t, x) \in Side /\ p \in Node
        BY <1>1, <1>2, <1>8, Place
      <4> QED
        BY <4>1, <1>1, ChildIsLink, SideFacts
    <3>4. AvlHeight(w, e) = AvlHeight(t, e) /\ w.height[p] = t.height[p]
      BY <1>2, <1>4, <1>8, <3>2, <3>3 DEF AvlHeight, Links
    <3>5. t.height[p] = 1 + Larger(o, AvlHeight(t, e)) /\ o - AvlHeight(t, e) \in -1 .. 1
      BY <1>1, <1>8 DEF Awaits
    <3>6. /\ w.height[p] = 1 + Larger(o, AvlHeight(w, e)) /\ o - AvlHeight(w, e) \in -1 .. 1
      BY <3>4, <3>5
    <3>7. w.parent[x] = p /\ w.child[p][Opp(SideOf(w, x))] = e
      BY <1>4, <3>1
    <3> HIDE DEF e, p
    <3> QED
      BY <3>6, <3>7 DEF Awaits
  <2>2. w.parent[x] = p /\ w.height[p] = t.height[p]
    BY <1>2, <1>4, <1>8
  <2> HIDE DEF p
  <2>3. FixHead(d, S, v, R, p, t.height[p])
    BY <1>1, <1>4, <1>5, <1>6, <1>8, <2>1, <2>2, Passes
  <2>4. Above(S, v, p) = Above(S, u, p)
    BY <1>2, <1>6, <1>8 DEF Repaired
  <2> QED
    BY <2>3, <2>4
<1>9. ASSUME p = NULL
      PROVE  /\ Tree(d, S, v, R) /\ v[top] = S /\ top \in S
             /\ \A m \in S : Sound(d, m)
  <2>1. u[x] = S
    <3>1. PICK r \in S : u[r] = S
      BY <1>1 DEF Tree, Rooted
    <3>2. r = x
      BY <1>1, <1>9, <3>1, RootFacts
    <3> QED
      BY <3>1, <3>2
  <2>2. \A m \in S : m # p
    BY <1>2, <1>9
  <2> QED
    BY <1>5, <1>6, <2>1, <2>2 DEF Repaired
<1>10. d = FixTurn(st).t /\ top = FixTurn(st).top
  BY <1>3
<1> HIDE DEF p
<1>11. p # NULL => \E z : /\ FixHead(d, S, z, R, p, t.height[p])
                          /\ Above(S, z, p) = Above(S, u, p)
  BY <1>8
<1>12. p = NULL => \E z : /\ Tree(d, S, z, R) /\ z[top] = S
                          /\ \A m \in S : Sound(d, m)
  BY <1>9
<1>13. top \in S
  BY <1>6 DEF Repaired
<1> QED
  BY <1>2, <1>3, <1>7, <1>10, <1>11, <1>12, <1>13 DEF p

-----------------------------------------------------------------------------
(* avl_fix. *)
\* d is a balanced tree of S in the order R, and top its root.
Maintained(d, top, S, R) ==
  /\ top \in S /\ \E v : Tree(d, S, v, R) /\ v[top] = S
  /\ \A m \in S : Sound(d, m)

LEMMA HigherUp ==
  ASSUME NEW t, NEW S, NEW u, Shape(t, S, u), NEW x \in S, NEW p \in S, x \in u[p], x # p
  PROVE  /\ Cardinality(Above(S, u, x)) \in 1 .. Cardinality(Node)
         /\ Cardinality(Above(S, u, p)) < Cardinality(Above(S, u, x))
<1>1. Above(S, u, x) \in SUBSET Node /\ x \in Above(S, u, x)
  BY KidFacts, SideFacts DEF Above, Shape, Side
<1>2. Above(S, u, p) \in SUBSET Above(S, u, x)
  BY Nested DEF Above
<1>3. x \notin Above(S, u, p)
  BY NotBothUnder DEF Above
<1>4. Cardinality(Above(S, u, p)) < Cardinality(Above(S, u, x))
  BY <1>1, <1>2, <1>3, FewerNodes
<1>5. Cardinality(Above(S, u, p)) \in Nat /\ Cardinality(Above(S, u, x)) \in 0 .. Cardinality(Node)
      /\ Cardinality(Node) \in Nat
  BY <1>1, <1>2, NodesFinite
<1> QED
  BY <1>4, <1>5

LEMMA PathLength ==
  ASSUME NEW t, NEW S, NEW u, Shape(t, S, u), NEW x \in S
  PROVE  Cardinality(Above(S, u, x)) \in 1 .. Cardinality(Node)
<1>1. Above(S, u, x) \in SUBSET Node /\ {} \in SUBSET Above(S, u, x) /\ Above(S, u, x) # {}
  BY KidFacts, SideFacts DEF Above, Shape, Side
<1>2. Cardinality({}) < Cardinality(Above(S, u, x)) /\ Cardinality({}) \in Nat
  BY <1>1, FewerNodes, NodesFinite
<1>3. Cardinality(Above(S, u, x)) \in 0 .. Cardinality(Node) /\ Cardinality(Node) \in Nat
  BY <1>1, NodesFinite
<1> QED
  BY <1>2, <1>3

(* avl_fix, started below the one node that may be out of balance, leaves   *)
(* every node of the tree balanced, with exact height and cnt, keeps the    *)
(* members and their order, and answers the root.                           *)
THEOREM AvlFixBalances ==
  ASSUME NEW t, NEW S, NEW u, NEW R, NEW x, NEW o, FixHead(t, S, u, R, x, o)
  PROVE  LET d == AvlFix(t, x)
         IN Maintained(d.t, d.top, S, R) /\ Elsewhere(t, d.t, S)
<1> DEFINE N     == Cardinality(Node)
           Local == [t : Trees, node : Links, top : Links]
           Climbs(y, k) == \E w, h : /\ FixHead(y.t, S, w, R, y.node, h)
                                   /\ Cardinality(Above(S, w, y.node)) <= k
           Done(y)    == y.node = NULL /\ Maintained(y.t, y.top, S, R)
           X     == [k \in Nat |-> {y \in Local : /\ Elsewhere(t, y.t, S)
                                                  /\ Done(y) \/ Climbs(y, k)}]
           st    == [t |-> t, node |-> x, top |-> NULL]
<1>1. N \in Nat /\ S \subseteq Node /\ NULL \notin Node /\ t \in Trees /\ Shape(t, S, u) /\ x \in S
  BY NodesFinite, NodeAssumption DEF FixHead, Tree, Shape
<1> HIDE DEF N
<1>2. st \in X[N]
  <2>1. st \in Local /\ Elsewhere(t, st.t, S)
    BY <1>1 DEF Links, Elsewhere
  <2>2. Climbs(st, N)
    <3>1. Cardinality(Above(S, u, x)) <= N
      BY <1>1, PathLength DEF N
    <3> QED
      BY <3>1
  <2> HIDE DEF st, Climbs, Done
  <2> QED
    BY <1>1, <2>1, <2>2
<1>3. ASSUME NEW k \in Nat, NEW y \in X[k]
      PROVE  FixTurn(y) \in X[IF k = 0 THEN 0 ELSE k - 1]
  <2>1. y \in Local /\ Elsewhere(t, y.t, S)
    OBVIOUS
  <2>2. CASE Done(y)
    <3>1. FixTurn(y) = y
      BY <2>2 DEF FixTurn
    <3> HIDE DEF Climbs, Done, Local
    <3> QED
      BY <3>1, <2>1, <2>2
  <2>3. CASE Climbs(y, k)
    <3> DEFINE z == FixTurn(y)
               p == y.t.parent[y.node]
    <3>1. PICK w, h : /\ FixHead(y.t, S, w, R, y.node, h)
                      /\ Cardinality(Above(S, w, y.node)) <= k
      BY <2>3
    <3>2. /\ z = [t |-> z.t, node |-> p, top |-> z.top]
          /\ Elsewhere(y.t, z.t, S) /\ p \in S \union {NULL} /\ z.top \in S
          /\ p # NULL => \E v : /\ FixHead(z.t, S, v, R, p, y.t.height[p])
                                /\ Above(S, v, p) = Above(S, w, p)
          /\ p = NULL => \E v : /\ Tree(z.t, S, v, R) /\ v[z.top] = S
                                /\ \A m \in S : Sound(z.t, m)
      BY <3>1, TurnKeeps
    <3>3. Shape(y.t, S, w) /\ y.node \in S
      BY <3>1 DEF FixHead, Tree
    <3>4. Cardinality(Above(S, w, y.node)) \in 1 .. N /\ k # 0
      BY <3>1, <3>3, <1>1, PathLength DEF N
    <3>5. z.node = p
      BY <3>2
    <3>6. CASE p = NULL
      <4>1. Done(z)
        BY <3>2, <3>5, <3>6 DEF Maintained
      <4>2. z.t \in Trees /\ z.top \in S
        BY <3>2, <3>6 DEF Tree
      <4>3. z \in Local
        BY <3>2, <3>6, <4>2, <1>1 DEF Links
      <4>4. Elsewhere(t, z.t, S)
        BY <2>1, <3>2 DEF Elsewhere
      <4>5. k - 1 \in Nat
        BY <3>4
      <4> HIDE DEF z, Climbs, Done, Local
      <4> QED
        BY <3>4, <4>1, <4>3, <4>4, <4>5 DEF z
    <3>7. CASE p # NULL
      <4>1. PICK v : /\ FixHead(z.t, S, v, R, p, y.t.height[p])
                     /\ Above(S, v, p) = Above(S, w, p)
        BY <3>2, <3>7
      <4>2. y.node \in w[p] /\ y.node # p /\ p \in S
        BY <3>2, <3>3, <3>7, Place
      <4>3. Cardinality(Above(S, w, p)) < Cardinality(Above(S, w, y.node))
        BY <3>3, <4>2, HigherUp
      <4>4. Cardinality(Above(S, w, p)) \in Nat
        BY <3>3, <4>2, PathLength, NodesFinite
      <4>5. k - 1 \in Nat /\ Cardinality(Above(S, v, p)) <= k - 1
        BY <3>1, <3>4, <4>1, <4>3, <4>4
      <4>6. Climbs(z, k - 1)
        BY <3>5, <4>1, <4>5
      <4>7. z.t \in Trees
        BY <4>1 DEF FixHead, Tree
      <4>8. z.top \in Links
        BY <1>1, <3>2 DEF Links
      <4>9. z \in Local
        BY <3>2, <4>7, <4>8, <1>1 DEF Links
      <4>10. Elsewhere(t, z.t, S)
        BY <2>1, <3>2 DEF Elsewhere
      <4> HIDE DEF z, Climbs, Done, Local
      <4> QED
        BY <3>4, <4>5, <4>6, <4>9, <4>10 DEF z
    <3> QED
      BY <3>6, <3>7
  <2> HIDE DEF Climbs, Done
  <2> QED
    BY <2>2, <2>3
<1> DEFINE D == UNION {X[k] : k \in Nat}
           g == [y \in D |-> FixTurn(y)]
           P(f) == f = [k \in Nat |-> IF k = 0 THEN st ELSE FixTurn(f[k - 1])]
<1> HIDE DEF X, st
<1>4. g \in [D -> D] /\ st \in D
  BY <1>1, <1>2, <1>3
<1>5. \E f : P(f)
  <2>1. PICK f : Iterate(f, D, g, st)
    <3> HIDE DEF D, g
    <3> QED
      BY <1>4, Iterates
  <2>2. \A k \in Nat : f[k] = IF k = 0 THEN st ELSE FixTurn(f[k - 1])
    <3> SUFFICES ASSUME NEW k \in Nat, k # 0 PROVE f[k] = FixTurn(f[k - 1])
      BY <2>1 DEF Iterate
    <3>1. k - 1 \in Nat /\ (k - 1) + 1 = k
      OBVIOUS
    <3>2. f[k] = g[f[k - 1]] /\ f[k - 1] \in D
      <4> HIDE DEF g, D
      <4> QED
        BY <2>1, <3>1 DEF Iterate
    <3> HIDE DEF D
    <3> QED
      BY <3>2
  <2> QED
    BY <2>1, <2>2 DEF Iterate
<1> DEFINE f == CHOOSE f : P(f)
<1>6. P(f)
  <2> HIDE DEF P
  <2> QED
    BY <1>5
<1>7. AvlFix(t, x) = f[N]
  BY DEF AvlFix, Loop, st, N
<1> HIDE DEF f
<1>8. f[0] = st /\ \A k \in Nat : f[k + 1] = FixTurn(f[k])
  BY <1>6
<1>9. \A k \in 0 .. N - 1 : f[k] \in X[N - k] => f[k + 1] \in X[N - k - 1]
  <2> SUFFICES ASSUME NEW k \in 0 .. N - 1, f[k] \in X[N - k]
               PROVE  f[k + 1] \in X[N - k - 1]
    OBVIOUS
  <2>1. k \in Nat /\ N - k \in Nat /\ N - k # 0
    BY <1>1
  <2>2. f[k + 1] = FixTurn(f[k])
    BY <1>8, <2>1
  <2> QED
    BY <1>3, <2>1, <2>2
<1>10. f[N] \in X[0]
  BY <1>1, <1>2, <1>8, <1>9, LoopReaches
<1> USE DEF X
<1>11. /\ Elsewhere(t, f[N].t, S) /\ f[N].node = NULL /\ Maintained(f[N].t, f[N].top, S, R)
  <2>1. ~Climbs(f[N], 0)
    <3> SUFFICES ASSUME NEW w, NEW h, FixHead(f[N].t, S, w, R, f[N].node, h),
                        Cardinality(Above(S, w, f[N].node)) <= 0
                 PROVE  FALSE
      OBVIOUS
    <3> QED
      BY PathLength DEF FixHead, Tree
  <2> QED
    BY <1>10, <2>1
<1> QED
  BY <1>7, <1>11

-----------------------------------------------------------------------------
(* A new leaf x on side s of p. *)
Leafed(t, p, s, x) == [t EXCEPT !.child[p][s] = x, !.parent[x] = p]

WithLeaf(S, u, p, x) ==
  [m \in Links |-> IF m = x THEN {x}
                   ELSE IF m \in S /\ p \in u[m] THEN u[m] \union {x} ELSE u[m]]

\* Where x belongs, p is above it or next to it.
Bound(t, S, u, R, p, x) ==
  \A m \in S, z \in Side : p \in u[t.child[m][z]] => On(R, z, x, m)

Idle(t, x) ==
  /\ t.parent[x] = NULL /\ t.height[x] = 1 /\ t.cnt[x] = 1
  /\ \A s \in Side : t.child[x][s] = NULL

LEMMA LeafReads ==
  ASSUME NEW t \in Trees, NEW p \in Node, NEW s \in Side, NEW x \in Node, x # p
  PROVE  LET d == Leafed(t, p, s, x)
         IN  /\ d \in Trees /\ d.height = t.height /\ d.cnt = t.cnt
             /\ \A m \in Node, z \in Side :
                  d.child[m][z] = IF m = p /\ z = s THEN x ELSE t.child[m][z]
             /\ \A m \in Node : d.parent[m] = IF m = x THEN p ELSE t.parent[m]
<1>1. p \in Links /\ x \in Links
  BY DEF Links
<1> QED
  BY <1>1 DEF Leafed, Trees

LEMMA LeafShape ==
  ASSUME NEW t \in Trees, NEW S, NEW u, Shape(t, S, u),
         NEW p \in S, NEW s \in Side, t.child[p][s] = NULL,
         NEW x \in Node \ S, Idle(t, x)
  PROVE  Shape(Leafed(t, p, s, x), S \union {x}, WithLeaf(S, u, p, x))
<1> DEFINE d == Leafed(t, p, s, x)
           T == S \union {x}
           v == WithLeaf(S, u, p, x)
<1>1. S \subseteq Node /\ NULL \notin Node /\ x # p /\ p \in Node /\ x # NULL
  BY NodeAssumption DEF Shape
<1>2. /\ \A m \in Node, z \in Side :
           d.child[m][z] = IF m = p /\ z = s THEN x ELSE t.child[m][z]
      /\ \A m \in Node : d.parent[m] = IF m = x THEN p ELSE t.parent[m]
  BY <1>1, LeafReads
<1>3. /\ u \in [Links -> SUBSET S] /\ u[NULL] = {}
      /\ \A m \in S : m \in u[m] /\ u[m] \subseteq S
  <2>1. u \in [Links -> SUBSET S] /\ u[NULL] = {}
    BY DEF Shape
  <2> QED
    BY <2>1, KidFacts, SideFacts DEF Side
<1>4. /\ v \in [Links -> SUBSET T] /\ v[x] = {x}
      /\ \A m \in S : v[m] = IF p \in u[m] THEN u[m] \union {x} ELSE u[m]
      /\ \A m \in Links : m # x /\ m \notin S => v[m] = u[m]
      /\ v[NULL] = {}
  BY <1>1, <1>3 DEF WithLeaf, Links
<1>5. Opp(s) \in Side /\ Opp(s) # s /\ Opp(Opp(s)) = s /\ \A z \in Side : z = s \/ z = Opp(s)
  BY SideFacts
<1> HIDE DEF d, v
<1>6. ASSUME NEW m \in S, m # p, NEW z \in Side
      PROVE  LET c == d.child[m][z]
                 e == d.child[m][Opp(z)]
             IN /\ c \in T \union {NULL}
                /\ v[m] = {m} \union v[c] \union v[e]
                /\ m \notin v[c] /\ v[c] \intersect v[e] = {}
                /\ c # NULL => d.parent[c] = m
  <2> DEFINE c == t.child[m][z]
             e == t.child[m][Opp(z)]
  <2>1. /\ c \in S \union {NULL} /\ u[m] = {m} \union u[c] \union u[e]
        /\ m \notin u[c] /\ u[c] \intersect u[e] = {}
        /\ c # NULL => t.parent[c] = m
    BY DEF Shape
  <2>2. e \in S \union {NULL}
    BY SideFacts DEF Shape
  <2>3. d.child[m][z] = c /\ d.child[m][Opp(z)] = e
    BY <1>1, <1>2, <1>6, SideFacts
  <2> HIDE DEF c, e
  <2>4. /\ v[c] = IF p \in u[c] THEN u[c] \union {x} ELSE u[c]
        /\ v[e] = IF p \in u[e] THEN u[e] \union {x} ELSE u[e]
    BY <1>3, <1>4, <2>1, <2>2
  <2>5. v[m] = IF p \in u[m] THEN u[m] \union {x} ELSE u[m]
    BY <1>4
  <2>6. x \notin u[c] /\ x \notin u[e] /\ x # m
    BY <1>3, <2>1, <2>2
  <2>7. c # NULL => d.parent[c] = m
    BY <1>1, <1>2, <2>1
  <2> QED
    BY <1>6, <2>1, <2>3, <2>4, <2>5, <2>6, <2>7
<1>7. ASSUME NEW z \in Side
      PROVE  LET c == d.child[p][z]
                 e == d.child[p][Opp(z)]
             IN /\ c \in T \union {NULL}
                /\ v[p] = {p} \union v[c] \union v[e]
                /\ p \notin v[c] /\ v[c] \intersect v[e] = {}
                /\ c # NULL => d.parent[c] = p
  <2> DEFINE e == t.child[p][Opp(s)]
  <2>1. /\ e \in S \union {NULL} /\ p \notin u[e] /\ (e # NULL => t.parent[e] = p)
    BY <1>5 DEF Shape
  <2>2. u[p] = {p} \union u[NULL] \union u[e]
    BY <1>5 DEF Shape
  <2>3. d.child[p][s] = x /\ d.child[p][Opp(s)] = e
    BY <1>1, <1>2, <1>5
  <2> HIDE DEF e
  <2>4. v[e] = u[e] /\ v[p] = u[p] \union {x} /\ x \notin u[e] /\ p \notin {x}
    BY <1>1, <1>3, <1>4, <2>1
  <2>5. e # NULL => d.parent[e] = p
    BY <1>1, <1>2, <2>1
  <2>6. d.parent[x] = p
    BY <1>2
  <2>7. v[p] = {p} \union {x} \union u[e]
    BY <1>3, <2>2, <2>4
  <2>8. CASE z = s
    BY <1>1, <1>4, <2>1, <2>3, <2>4, <2>6, <2>7, <2>8
  <2>9. CASE z = Opp(s)
    <3>1. d.child[p][z] = e /\ d.child[p][Opp(z)] = x
      BY <1>5, <2>3, <2>9
    <3> QED
      BY <1>4, <2>1, <2>4, <2>5, <2>7, <3>1
  <2> QED
    BY <1>5, <2>8, <2>9
<1>8. ASSUME NEW z \in Side
      PROVE  LET c == d.child[x][z]
                 e == d.child[x][Opp(z)]
             IN /\ c \in T \union {NULL}
                /\ v[x] = {x} \union v[c] \union v[e]
                /\ x \notin v[c] /\ v[c] \intersect v[e] = {}
                /\ c # NULL => d.parent[c] = x
  <2>1. d.child[x][z] = NULL /\ d.child[x][Opp(z)] = NULL
    BY <1>1, <1>2, SideFacts DEF Idle
  <2> QED
    BY <1>4, <2>1
<1>9. ASSUME NEW m \in T, d.parent[m] # NULL
      PROVE  d.parent[m] \in T /\ \E z \in Side : d.child[d.parent[m]][z] = m
  <2>1. CASE m = x
    BY <1>1, <1>2, <2>1
  <2>2. CASE m \in S
    <3>1. d.parent[m] = t.parent[m]
      BY <1>1, <1>2, <2>2
    <3>2. t.parent[m] \in S /\ \E z \in Side : t.child[t.parent[m]][z] = m
      BY <1>9, <2>2, <3>1 DEF Shape
    <3>3. PICK z \in Side : t.child[t.parent[m]][z] = m
      BY <3>2
    <3>4. ~(t.parent[m] = p /\ z = s)
      BY <1>1, <2>2, <3>3
    <3>5. d.child[t.parent[m]][z] = m
      BY <1>1, <1>2, <3>2, <3>3, <3>4
    <3> QED
      BY <3>1, <3>2, <3>5
  <2> QED
    BY <2>1, <2>2
<1>10. ASSUME NEW m \in T, NEW z \in Side
       PROVE  LET c == d.child[m][z]
                  e == d.child[m][Opp(z)]
              IN /\ c \in T \union {NULL}
                 /\ v[m] = {m} \union v[c] \union v[e]
                 /\ m \notin v[c] /\ v[c] \intersect v[e] = {}
                 /\ c # NULL => d.parent[c] = m
  <2>1. CASE m = x
    BY <1>8, <2>1
  <2>2. CASE m = p
    BY <1>7, <2>2
  <2>3. CASE m \in S /\ m # p
    BY <1>6, <2>3
  <2> QED
    BY <2>1, <2>2, <2>3
<1>11. T \subseteq Node
  BY <1>1
<1> HIDE DEF T
<1>12. Shape(d, T, v)
  BY <1>4, <1>9, <1>10, <1>11 DEF Shape
<1> QED
  BY <1>12 DEF d, T, v

LEMMA LeafHead ==
  ASSUME NEW t, NEW S, NEW u, NEW R, Tree(t, S, u, R), NEW x \in Node \ S, Idle(t, x),
         Order(S \union {x}, R), \A m \in S : Sound(t, m),
         NEW p \in S, NEW s \in Side, t.child[p][s] = NULL,
         Bound(t, S, u, R, p, x), On(R, s, x, p)
  PROVE  LET d == Leafed(t, p, s, x)
         IN  /\ FixHead(d, S \union {x}, WithLeaf(S, u, p, x), R, x, 0)
             /\ Elsewhere(t, d, S \union {x})
<1> DEFINE d == Leafed(t, p, s, x)
           T == S \union {x}
           v == WithLeaf(S, u, p, x)
<1>1. /\ t \in Trees /\ Shape(t, S, u) /\ Sorted(t, S, u, R) /\ Rooted(S, u)
      /\ S \subseteq Node /\ NULL \notin Node /\ x # p /\ p \in Node /\ x # NULL
  BY NodeAssumption DEF Tree, Shape
<1>2. /\ d \in Trees /\ d.height = t.height /\ d.cnt = t.cnt
      /\ \A m \in Node, z \in Side :
           d.child[m][z] = IF m = p /\ z = s THEN x ELSE t.child[m][z]
      /\ \A m \in Node : d.parent[m] = IF m = x THEN p ELSE t.parent[m]
  BY <1>1, LeafReads
<1>3. Shape(d, T, v)
  BY <1>1, LeafShape
<1>4. /\ v[x] = {x} /\ v[NULL] = {}
      /\ \A m \in S : v[m] = IF p \in u[m] THEN u[m] \union {x} ELSE u[m]
  <2>1. u[NULL] = {}
    BY <1>1 DEF Shape
  <2> QED
    BY <1>1, <2>1 DEF WithLeaf, Links
<1>5. /\ \A m \in S, z \in Side : t.child[m][z] \in S \union {NULL}
      /\ u[NULL] = {} /\ p \in u[p]
      /\ \A z \in Side : t.child[x][z] = NULL
      /\ t.height[x] = 1
  BY <1>1, KidFacts, SideFacts DEF Shape, Side, Idle
<1> HIDE DEF d, v
<1>6. ASSUME NEW m \in T, NEW z \in Side, NEW y \in v[d.child[m][z]]
      PROVE  On(R, z, y, m)
  <2>1. CASE m = x
    BY <1>1, <1>2, <1>4, <1>5, <2>1
  <2>2. CASE m = p /\ z = s
    BY <1>1, <1>2, <1>4, <2>2
  <2>3. CASE m \in S /\ ~(m = p /\ z = s)
    <3>1. d.child[m][z] = t.child[m][z]
      BY <1>1, <1>2, <2>3
    <3>2. y \in u[t.child[m][z]] \/ (y = x /\ p \in u[t.child[m][z]])
      <4> DEFINE c == t.child[m][z]
      <4>1. c \in S \union {NULL} /\ y \in v[c]
        BY <1>5, <1>6, <2>3, <3>1
      <4> HIDE DEF c
      <4>2. c \in S
        BY <1>4, <4>1
      <4>3. v[c] = IF p \in u[c] THEN u[c] \union {x} ELSE u[c]
        BY <1>4, <4>2
      <4>4. y \in u[c] \/ (y = x /\ p \in u[c])
        BY <4>1, <4>3
      <4> QED
        BY <4>4 DEF c
    <3> QED
      BY <1>1, <2>3, <3>2 DEF Sorted, Bound
  <2> QED
    BY <2>1, <2>2, <2>3
<1>7. Rooted(T, v)
  <2>1. PICK r \in S : u[r] = S
    BY <1>1 DEF Rooted
  <2>2. v[r] = T
    BY <1>4, <2>1
  <2> QED
    BY <2>1, <2>2 DEF Rooted
<1>8. Tree(d, T, v, R)
  <2> HIDE DEF T
  <2> QED
    BY <1>2, <1>3, <1>6, <1>7 DEF Tree, Sorted
<1>9. ASSUME NEW m \in T, m # x, m # d.parent[x]
      PROVE  Sound(d, m)
  <2>1. m \in S /\ m # p /\ m \in Node
    BY <1>1, <1>2, <1>9
  <2>2. \A z \in Side : d.child[m][z] = t.child[m][z]
    BY <1>2, <2>1
  <2>3. \A z \in Side : d.child[m][Opp(z)] = t.child[m][Opp(z)]
    BY <2>2, SideFacts
  <2> QED
    BY <1>2, <2>1, <2>2, <2>3 DEF Sound, AvlHeight, AvlCnt
<1>10. Due(d, x, 0)
  BY <1>1, <1>2, <1>5 DEF Due
<1>11. Awaits(d, x, 0)
  <2> DEFINE e == t.child[p][Opp(s)]
  <2>1. d.parent[x] = p
    BY <1>2
  <2>2. SideOf(d, x) = s
    <3>1. \A z \in Side : d.child[p][z] = x => z = s
      BY <1>1, <1>2, <1>5
    <3>2. d.child[p][s] = x
      BY <1>1, <1>2
    <3> QED
      BY <2>1, <3>1, <3>2 DEF SideOf, Side
  <2>3. d.child[p][Opp(s)] = e
    BY <1>1, <1>2, SideFacts
  <2>4. AvlHeight(d, e) = AvlHeight(t, e) /\ d.height[p] = t.height[p]
    BY <1>2 DEF AvlHeight
  <2>5. /\ t.height[p] = 1 + Larger(AvlHeight(t, NULL), AvlHeight(t, e))
        /\ AvlHeight(t, NULL) - AvlHeight(t, e) \in -1 .. 1
    BY DEF Sound
  <2>6. AvlHeight(t, NULL) = 0
    BY DEF AvlHeight
  <2> HIDE DEF e
  <2> QED
    BY <2>1, <2>2, <2>3, <2>4, <2>5, <2>6 DEF Awaits
<1>12. Elsewhere(t, d, T)
  BY <1>1, <1>2 DEF Elsewhere
<1> HIDE DEF T
<1>13. FixHead(d, T, v, R, x, 0)
  <2>1. x \in T /\ Order(T, R)
    BY DEF T
  <2> QED
    BY <1>8, <1>9, <1>10, <1>11, <2>1 DEF FixHead
<1> QED
  BY <1>12, <1>13 DEF d, T, v

(* The first node. *)
LEMMA FirstHead ==
  ASSUME NEW t \in Trees, NEW x \in Node, Idle(t, x), NEW R, Order({x}, R)
  PROVE  FixHead(t, {x}, [m \in Links |-> IF m = x THEN {x} ELSE {}], R, x, 0)
<1> DEFINE u == [m \in Links |-> IF m = x THEN {x} ELSE {}]
<1>1. x # NULL /\ NULL \notin Node /\ x \in Links /\ NULL \in Links
  BY NodeAssumption DEF Links
<1>2. u \in [Links -> SUBSET {x}] /\ u[x] = {x} /\ u[NULL] = {}
  BY <1>1
<1> HIDE DEF u
<1>3. t.parent[x] = NULL /\ \A s \in Side : t.child[x][s] = NULL /\ t.child[x][Opp(s)] = NULL
  BY SideFacts DEF Idle
<1>4. Shape(t, {x}, u)
  BY <1>1, <1>2, <1>3 DEF Shape
<1>5. Sorted(t, {x}, u, R) /\ Rooted({x}, u)
  BY <1>2, <1>3 DEF Sorted, Rooted
<1>6. Due(t, x, 0) /\ Awaits(t, x, 0)
  BY <1>3 DEF Due, Awaits
<1> QED
  BY <1>4, <1>5, <1>6 DEF FixHead, Tree, u

(* One step down to where x belongs. *)
LEMMA BoundBelow ==
  ASSUME NEW t, NEW S, NEW u, Shape(t, S, u), NEW R, NEW p \in S, NEW x,
         Bound(t, S, u, R, p, x), NEW s \in Side, On(R, s, x, p), t.child[p][s] # NULL
  PROVE  /\ t.child[p][s] \in S /\ Bound(t, S, u, R, t.child[p][s], x)
<1> DEFINE c == t.child[p][s]
<1>1. /\ c \in S /\ t.parent[c] = p /\ u[c] \in SUBSET u[p] /\ p \notin u[c] /\ p \in u[p]
      /\ S \subseteq Node /\ NULL \notin Node
  BY KidFacts, NodeAssumption DEF Shape
<1>2. ASSUME NEW m \in S, NEW z \in Side, c \in u[t.child[m][z]]
      PROVE  On(R, z, x, m)
  <2> DEFINE k == t.child[m][z]
  <2>1. k \in S /\ (k # NULL => t.parent[k] = m)
    <3>1. k \in S \union {NULL} /\ u[NULL] = {} /\ (k # NULL => t.parent[k] = m)
      BY DEF Shape
    <3> QED
      BY <1>2, <3>1
  <2>2. CASE k = c
    <3>1. m = p /\ t.child[p][z] = c
      BY <1>1, <2>1, <2>2
    <3>2. z = s
      BY <1>1, <3>1, Place
    <3> QED
      BY <3>1, <3>2
  <2>3. CASE k # c
    <3>1. t.parent[c] \in u[k]
      BY <1>2, <2>1, <2>3, ParentUnder
    <3> QED
      BY <1>1, <3>1 DEF Bound
  <2> QED
    BY <2>2, <2>3
<1> QED
  BY <1>1, <1>2 DEF Bound

-----------------------------------------------------------------------------
(* avl_del_easy: a node with at most one child is detached.                 *)
OnlyChild(t, n) ==
  IF t.child[n]["left"] # NULL THEN t.child[n]["left"] ELSE t.child[n]["right"]

Detached(t, n) ==
  LET c  == OnlyChild(t, n)
      t1 == IF c = NULL THEN t ELSE [t EXCEPT !.parent[c] = t.parent[n]]
  IN Hang(t1, t.parent[n], SideOf(t, n), c)

Without(u, n) == [m \in Links |-> u[m] \ {n}]

LEMMA DetachReads ==
  ASSUME NEW t \in Trees, NEW S, NEW u, Shape(t, S, u), NEW n \in S,
         NEW k \in Side, t.child[n][k] = NULL
  PROVE  LET d == Detached(t, n)
             c == OnlyChild(t, n)
             p == t.parent[n]
         IN  /\ c = t.child[n][Opp(k)] /\ c \in S \union {NULL} /\ p \in S \union {NULL}
             /\ p # n /\ u[n] = {n} \union u[c] /\ n \notin u[c]
             /\ c # NULL => t.parent[c] = n /\ t.parent[n] # c
             /\ d \in Trees /\ d.height = t.height /\ d.cnt = t.cnt
             /\ \A m \in Node, z \in Side :
                  d.child[m][z] = IF m = p /\ z = SideOf(t, n) THEN c ELSE t.child[m][z]
             /\ \A m \in Node : d.parent[m] = IF m = c THEN p ELSE t.parent[m]
<1> DEFINE d  == Detached(t, n)
           c  == OnlyChild(t, n)
           p  == t.parent[n]
           t1 == IF c = NULL THEN t ELSE [t EXCEPT !.parent[c] = p]
<1>1. S \subseteq Node /\ NULL \notin Node /\ n \in Node /\ n # NULL
  BY NodeAssumption DEF Shape
<1>2. c = t.child[n][Opp(k)]
  BY DEF OnlyChild, Side, Opp
<1>3. /\ c \in S \union {NULL} /\ u[n] = {n} \union u[c] /\ n \notin u[c] /\ u[NULL] = {}
      /\ c # NULL => t.parent[c] = n
  BY <1>2, SideFacts DEF Shape
<1>4. c # NULL => c \in u[n] /\ c # n /\ c \in u[c]
  BY <1>2, <1>3, KidFacts, SideFacts
<1>5. p \in S \union {NULL} /\ p # n /\ (p # NULL => p \notin u[n]) /\ SideOf(t, n) \in Side
  BY <1>1, Place
<1>6. c # NULL => p # c
  BY <1>1, <1>4, <1>5
<1>7. /\ t1 \in Trees /\ t1.child = t.child /\ t1.height = t.height /\ t1.cnt = t.cnt
      /\ \A m \in Node : t1.parent[m] = IF m = c THEN p ELSE t.parent[m]
  <2>1. CASE c = NULL
    BY <2>1, <1>1
  <2>2. CASE c # NULL
    <3>1. c \in Node /\ p \in Links
      BY <1>1, <1>3, <1>5, <2>2 DEF Links
    <3>2. t1 = [t EXCEPT !.parent[c] = p]
      BY <2>2
    <3> HIDE DEF t1, c, p
    <3> QED
      BY <3>1, <3>2 DEF Trees
  <2> QED
    BY <2>1, <2>2
<1>8. d = Hang(t1, p, SideOf(t, n), c)
  BY DEF Detached
<1>9. p \in Links /\ c \in Links
  BY <1>1, <1>3, <1>5 DEF Links
<1> HIDE DEF t1, d
<1>10. /\ d \in Trees /\ d.parent = t1.parent /\ d.height = t1.height /\ d.cnt = t1.cnt
       /\ \A m \in Node, z \in Side :
            d.child[m][z] = IF m = p /\ z = SideOf(t, n) THEN c ELSE t1.child[m][z]
  <2> HIDE DEF c, p
  <2> DEFINE side == SideOf(t, n)
             e    == Hang(t1, p, side, c)
  <2>1. t1 \in Trees /\ side \in Side /\ p \in Links /\ c \in Links
    BY <1>5, <1>7, <1>9
  <2> HIDE DEF side
  <2>2. /\ e \in Trees /\ e.parent = t1.parent /\ e.height = t1.height /\ e.cnt = t1.cnt
        /\ \A m \in Node, z \in Side :
             e.child[m][z] = IF m = p /\ z = side THEN c ELSE t1.child[m][z]
    BY <2>1, HangReads
  <2>3. d = e
    BY <1>8 DEF side
  <2> HIDE DEF e
  <2> QED
    BY <2>2, <2>3 DEF side
<1> HIDE DEF c, p
<1>11. /\ d \in Trees /\ d.height = t.height /\ d.cnt = t.cnt
       /\ \A m \in Node, z \in Side :
            d.child[m][z] = IF m = p /\ z = SideOf(t, n) THEN c ELSE t.child[m][z]
       /\ \A m \in Node : d.parent[m] = IF m = c THEN p ELSE t.parent[m]
  BY <1>7, <1>10
<1> QED
  BY <1>2, <1>3, <1>4, <1>5, <1>6, <1>11 DEF d, c, p

LEMMA DetachShape ==
  ASSUME NEW t \in Trees, NEW S, NEW u, Shape(t, S, u), NEW n \in S,
         NEW k \in Side, t.child[n][k] = NULL
  PROVE  Shape(Detached(t, n), S \ {n}, Without(u, n))
<1> DEFINE d    == Detached(t, n)
           c    == OnlyChild(t, n)
           p    == t.parent[n]
           side == SideOf(t, n)
           T    == S \ {n}
           v    == Without(u, n)
           Fits(m, z) == LET a == d.child[m][z]
                             e == d.child[m][Opp(z)]
                         IN /\ a \in T \union {NULL}
                            /\ v[m] = {m} \union v[a] \union v[e]
                            /\ m \notin v[a] /\ v[a] \intersect v[e] = {}
                            /\ a # NULL => d.parent[a] = m
<1>1. /\ c = t.child[n][Opp(k)] /\ c \in S \union {NULL} /\ p \in S \union {NULL}
      /\ p # n /\ u[n] = {n} \union u[c] /\ n \notin u[c]
      /\ c # NULL => t.parent[c] = n /\ p # c
      /\ \A m \in Node, z \in Side :
           d.child[m][z] = IF m = p /\ z = side THEN c ELSE t.child[m][z]
      /\ \A m \in Node : d.parent[m] = IF m = c THEN p ELSE t.parent[m]
  BY DetachReads
<1>2. S \subseteq Node /\ NULL \notin Node /\ n # NULL /\ side \in Side
  <2>1. S \subseteq Node /\ NULL \notin Node
    BY NodeAssumption DEF Shape
  <2>2. side \in Side
    BY Place
  <2> QED
    BY <2>1, <2>2
<1>3. /\ u \in [Links -> SUBSET S] /\ u[NULL] = {}
      /\ \A m \in S : m \in u[m] /\ u[m] \subseteq S
  <2>1. u \in [Links -> SUBSET S] /\ u[NULL] = {}
    BY DEF Shape
  <2> QED
    BY <2>1, KidFacts, SideFacts DEF Side
<1>4. v \in [Links -> SUBSET T] /\ \A m \in Links : v[m] = u[m] \ {n}
  BY <1>3 DEF Without
<1>5. v[NULL] = {} /\ c # n
  <2>1. c # n
    BY <1>1, <1>2, <1>3
  <2> QED
    BY <2>1, <1>3, <1>4 DEF Links
<1> HIDE DEF d, v, c, p, side
<1>6. ASSUME NEW m \in T, m # p, NEW z \in Side
      PROVE  Fits(m, z)
  <2> DEFINE a == t.child[m][z]
             e == t.child[m][Opp(z)]
  <2>1. /\ a \in S \union {NULL} /\ u[m] = {m} \union u[a] \union u[e]
        /\ m \notin u[a] /\ u[a] \intersect u[e] = {}
        /\ a # NULL => t.parent[a] = m
    BY DEF Shape
  <2>2. /\ e \in S \union {NULL} /\ (e # NULL => t.parent[e] = m)
    BY SideFacts DEF Shape
  <2>3. d.child[m][z] = a /\ d.child[m][Opp(z)] = e
    BY <1>1, <1>2, <1>6, SideFacts
  <2> HIDE DEF a, e
  <2>4. a # n /\ e # n
    BY <1>2, <1>6, <2>1, <2>2 DEF p
  <2>5. v[a] = u[a] \ {n} /\ v[e] = u[e] \ {n} /\ v[m] = u[m] \ {n}
    BY <1>2, <1>4, <2>1, <2>2 DEF Links
  <2>6. a # NULL => d.parent[a] = m
    <3>1. a # NULL => a # c
      BY <1>1, <1>6, <2>1
    <3> QED
      BY <1>1, <1>2, <2>1, <3>1
  <2> QED
    BY <2>1, <2>3, <2>4, <2>5, <2>6
<1>7. ASSUME p # NULL, NEW z \in Side
      PROVE  Fits(p, z)
  <2> DEFINE e == t.child[p][Opp(side)]
  <2>0. /\ p \in S /\ t.child[p][side] = n /\ Opp(side) \in Side /\ Opp(side) # side
        /\ Opp(Opp(side)) = side /\ \A y \in Side : y = side \/ y = Opp(side)
    BY <1>1, <1>2, <1>7, Place, SideFacts DEF p, side
  <2>1. /\ e \in S \union {NULL} /\ p \notin u[e] /\ (e # NULL => t.parent[e] = p)
    BY <2>0 DEF Shape
  <2>2. /\ u[p] = {p} \union u[n] \union u[e] /\ p \notin u[n] /\ u[n] \intersect u[e] = {}
    BY <1>2, <2>0 DEF Shape
  <2>3. d.child[p][side] = c /\ d.child[p][Opp(side)] = e
    BY <1>1, <1>2, <2>0
  <2> HIDE DEF e
  <2>4. v[c] = u[c] /\ v[e] = u[e] /\ v[p] = u[p] \ {n} /\ e # n
    <3>1. n \in u[n] /\ n \notin u[e] /\ n \notin u[c]
      BY <1>1, <1>3, <2>2
    <3>2. v[c] = u[c] \ {n} /\ v[e] = u[e] \ {n} /\ v[p] = u[p] \ {n}
      BY <1>1, <1>2, <1>4, <2>0, <2>1 DEF Links
    <3>3. e # n
      BY <3>1
    <3> QED
      BY <3>1, <3>2, <3>3
  <2>5. e # NULL => d.parent[e] = p
    <3>1. e # NULL => e # c
      BY <1>1, <1>3, <2>0, <2>2
    <3> QED
      BY <1>1, <1>2, <2>1, <3>1
  <2>6. c # NULL => d.parent[c] = p
    BY <1>1, <1>2
  <2>7. v[p] = {p} \union u[c] \union u[e] /\ p \notin u[c] /\ u[c] \intersect u[e] = {}
    BY <1>1, <1>3, <2>0, <2>2, <2>4
  <2>8. CASE z = side
    BY <1>1, <1>5, <2>3, <2>4, <2>6, <2>7, <2>8
  <2>9. CASE z = Opp(side)
    <3>1. d.child[p][z] = e /\ d.child[p][Opp(z)] = c
      BY <2>0, <2>3, <2>9
    <3> QED
      BY <3>1, <2>1, <2>4, <2>5, <2>7
  <2> QED
    BY <2>0, <2>8, <2>9
<1>8. ASSUME NEW m \in T, d.parent[m] # NULL
      PROVE  d.parent[m] \in T /\ \E z \in Side : d.child[d.parent[m]][z] = m
  <2>1. CASE m = c
    <3>1. d.parent[m] = p /\ p \in T
      BY <1>1, <1>2, <1>8, <2>1
    <3>2. d.child[p][side] = c
      BY <1>1, <1>2, <3>1
    <3> QED
      BY <1>2, <2>1, <3>1, <3>2
  <2>2. CASE m # c
    <3>1. d.parent[m] = t.parent[m]
      BY <1>1, <1>2, <2>2
    <3>2. t.parent[m] \in S /\ \E z \in Side : t.child[t.parent[m]][z] = m
      BY <1>8, <3>1 DEF Shape
    <3>3. PICK z \in Side : t.child[t.parent[m]][z] = m
      BY <3>2
    <3>4. t.parent[m] # n
      <4>1. t.child[n][k] = NULL /\ t.child[n][Opp(k)] = c
        BY <1>1
      <4> QED
        BY <1>2, <2>2, <3>3, <4>1, SideFacts
    <3>5. ~(t.parent[m] = p /\ z = side)
      <4>1. p # NULL => t.child[p][side] = n
        BY Place DEF p, side
      <4> QED
        BY <1>2, <3>2, <3>3, <4>1
    <3>6. d.child[t.parent[m]][z] = m
      BY <1>1, <1>2, <3>2, <3>3, <3>5
    <3> QED
      BY <3>1, <3>2, <3>4, <3>6
  <2> QED
    BY <2>1, <2>2
<1>9. ASSUME NEW m \in T, NEW z \in Side
      PROVE  Fits(m, z)
  <2> HIDE DEF Fits
  <2>1. m # NULL
    BY <1>2
  <2> QED
    BY <2>1, <1>6, <1>7
<1> QED
  BY <1>2, <1>4, <1>5, <1>8, <1>9 DEF Shape, d, v

LEMMA DetachKeeps ==
  ASSUME NEW t, NEW S, NEW u, NEW R, Tree(t, S, u, R), Order(S, R),
         \A m \in S : Sound(t, m),
         NEW n \in S, NEW k \in Side, t.child[n][k] = NULL
  PROVE  LET d == Detached(t, n)
             c == OnlyChild(t, n)
             p == t.parent[n]
         IN  /\ Elsewhere(t, d, S \ {n})
             /\ p = NULL /\ S # {n} => Maintained(d, c, S \ {n}, R)
             /\ p = NULL /\ S = {n} => c = NULL
             /\ p # NULL => FixHead(d, S \ {n}, Without(u, n), R, p, t.height[p])
<1> DEFINE d    == Detached(t, n)
           c    == OnlyChild(t, n)
           p    == t.parent[n]
           side == SideOf(t, n)
           T    == S \ {n}
           v    == Without(u, n)
<1>1. /\ t \in Trees /\ Shape(t, S, u) /\ Sorted(t, S, u, R) /\ Rooted(S, u)
      /\ S \subseteq Node /\ NULL \notin Node /\ side \in Side
  <2>1. t \in Trees /\ Shape(t, S, u) /\ Sorted(t, S, u, R) /\ Rooted(S, u)
    BY DEF Tree
  <2>2. S \subseteq Node /\ NULL \notin Node
    BY <2>1, NodeAssumption DEF Shape
  <2>3. side \in Side
    BY <2>1, Place
  <2> QED
    BY <2>1, <2>2, <2>3
<1>2. /\ c = t.child[n][Opp(k)] /\ c \in S \union {NULL} /\ p \in S \union {NULL}
      /\ p # n /\ u[n] = {n} \union u[c] /\ n \notin u[c]
      /\ c # NULL => t.parent[c] = n /\ p # c
      /\ d \in Trees /\ d.height = t.height /\ d.cnt = t.cnt
      /\ \A m \in Node, z \in Side :
           d.child[m][z] = IF m = p /\ z = side THEN c ELSE t.child[m][z]
      /\ \A m \in Node : d.parent[m] = IF m = c THEN p ELSE t.parent[m]
  BY <1>1, DetachReads
<1>3. Shape(d, T, v)
  BY <1>1, DetachShape
<1>4. /\ \A m \in Links : v[m] = u[m] \ {n}
      /\ u[NULL] = {} /\ v[NULL] = {}
      /\ p # NULL => t.child[p][side] = n
  <2>1. u[NULL] = {}
    BY <1>1 DEF Shape
  <2>2. \A m \in Links : v[m] = u[m] \ {n}
    BY DEF Without
  <2>3. p # NULL => t.child[p][side] = n
    BY <1>1, Place
  <2> QED
    BY <2>1, <2>2, <2>3 DEF Links
<1>5. \A m \in S, z \in Side : t.child[m][z] \in Links
  BY <1>1, ChildIsLink
<1> HIDE DEF d, c, p, side, v
<1>6. Elsewhere(t, d, T)
  <2> SUFFICES ASSUME NEW m \in Node \ T
               PROVE  /\ d.parent[m] = t.parent[m] /\ d.height[m] = t.height[m]
                      /\ d.cnt[m] = t.cnt[m]
                      /\ \A z \in Side : d.child[m][z] = t.child[m][z]
    BY DEF Elsewhere
  <2>1. c # n
    BY <1>1, <1>2, NotBothUnder, KidFacts DEF Shape
  <2>2. m # p /\ m # c
    BY <1>1, <1>2, <2>1
  <2> QED
    BY <1>2, <2>2
<1>7. Sorted(d, T, v, R)
  <2> SUFFICES ASSUME NEW m \in T, NEW z \in Side, NEW y \in v[d.child[m][z]]
               PROVE  On(R, z, y, m)
    BY DEF Sorted
  <2>1. CASE m = p /\ z = side
    <3>1. d.child[m][z] = c /\ t.child[m][z] = n
      BY <1>1, <1>2, <1>4, <2>1
    <3>2. y \in u[n]
      BY <1>1, <1>2, <1>4, <3>1 DEF Links
    <3> QED
      BY <1>1, <3>1, <3>2 DEF Sorted
  <2>2. CASE ~(m = p /\ z = side)
    <3>1. d.child[m][z] = t.child[m][z]
      BY <1>1, <1>2, <2>2
    <3>2. y \in u[t.child[m][z]]
      BY <1>4, <1>5, <3>1
    <3> QED
      BY <1>1, <3>2 DEF Sorted
  <2> QED
    BY <2>1, <2>2
<1>8. ASSUME NEW m \in T, m # p
      PROVE  Sound(d, m)
  <2>1. \A z \in Side : d.child[m][z] = t.child[m][z]
    BY <1>1, <1>2, <1>8
  <2>2. \A z \in Side : d.child[m][Opp(z)] = t.child[m][Opp(z)]
    BY <2>1, SideFacts
  <2> QED
    BY <1>2, <2>1, <2>2 DEF Sound, AvlHeight, AvlCnt
<1>9. ASSUME p = NULL
      PROVE  /\ S # {n} => Maintained(d, c, T, R)
             /\ S = {n} => c = NULL
  <2>1. u[n] = S
    <3>1. PICK r \in S : u[r] = S
      BY <1>1 DEF Rooted
    <3>2. r = n
      BY <1>1, <1>9, <3>1, RootFacts DEF p
    <3> QED
      BY <3>1, <3>2
  <2>2. ASSUME S # {n}
        PROVE  Maintained(d, c, T, R)
    <3>1. c \in T /\ v[c] = T
      <4>1. c # NULL
        BY <1>2, <1>4, <2>1, <2>2
      <4>2. c # n
        BY <1>1, <1>2, KidFacts, SideFacts
      <4> QED
        BY <1>1, <1>2, <1>4, <2>1, <4>1, <4>2 DEF Links
    <3>2. \A m \in T : Sound(d, m)
      BY <1>1, <1>8, <1>9
    <3>3. Tree(d, T, v, R)
      BY <1>2, <1>3, <1>7, <3>1 DEF Tree, Rooted
    <3> QED
      BY <3>1, <3>2, <3>3 DEF Maintained
  <2>3. ASSUME S = {n}
        PROVE  c = NULL
    <3>1. c # NULL => c \in u[c] /\ c # n
      BY <1>1, <1>2, KidFacts, SideFacts
    <3> QED
      BY <1>2, <2>3, <3>1
  <2> QED
    BY <2>2, <2>3
<1>10. ASSUME p # NULL
       PROVE  FixHead(d, T, v, R, p, t.height[p])
  <2>1. /\ p \in T /\ p \in Node /\ t.height[p] \in Nat /\ d.height[p] = t.height[p]
    BY <1>1, <1>2, <1>10 DEF Trees
  <2>2. Rooted(T, v)
    <3>1. PICK r \in S : u[r] = S
      BY <1>1 DEF Rooted
    <3>2. r # n
      BY <1>1, <1>10, <3>1, RootFacts DEF p
    <3>3. v[r] = T
      BY <1>1, <1>4, <3>1 DEF Links
    <3> QED
      BY <3>2, <3>3 DEF Rooted
  <2>3. Tree(d, T, v, R) /\ Order(T, R)
    BY <1>2, <1>3, <1>7, <2>2 DEF Tree, Order
  <2>4. Due(d, p, t.height[p])
    <3> DEFINE e  == t.child[p][Opp(side)]
               hc == AvlHeight(t, c)
               he == AvlHeight(t, e)
               hn == AvlHeight(t, n)
    <3>1. /\ Opp(side) \in Side /\ Opp(Opp(side)) = side /\ Opp(side) # side
          /\ Opp(k) \in Side /\ Opp(Opp(k)) = k
      BY <1>1, SideFacts
    <3>2. d.child[p][Opp(side)] = e /\ d.child[p][Opp(Opp(side))] = c
      BY <1>1, <1>2, <2>1, <3>1
    <3>3. /\ hn = 1 + Larger(hc, 0) /\ hc - 0 \in -1 .. 1
      <4>1. Sound(t, n) /\ t.child[n][Opp(k)] = c /\ t.child[n][Opp(Opp(k))] = NULL
        BY <1>2, <3>1
      <4>2. AvlHeight(t, NULL) = 0 /\ AvlHeight(t, n) = t.height[n]
        BY <1>1 DEF AvlHeight
      <4> QED
        BY <3>1, <4>1, <4>2 DEF Sound
    <3>4. t.height[p] = 1 + Larger(he, hn) /\ he - hn \in -1 .. 1
      <4>1. Sound(t, p) /\ t.child[p][Opp(Opp(side))] = n
        BY <1>4, <1>10, <2>1, <3>1
      <4> QED
        BY <3>1, <4>1 DEF Sound
    <3>5. hc \in Nat /\ he \in Nat /\ hn \in Nat
      <4>1. c \in Links /\ e \in Links /\ n \in Links
        BY <1>1, <1>2, <2>1, <3>1, ChildIsLink DEF Links
      <4> QED
        BY <1>1, <4>1, HeightsAreNumbers
    <3>6. AvlHeight(d, e) = he /\ AvlHeight(d, c) = hc
      BY <1>2 DEF AvlHeight
    <3> HIDE DEF hc, he, hn, e
    <3>7. hc - hn \in -1 .. 1
      BY <3>3, <3>5 DEF Larger
    <3> QED
      BY <3>1, <3>2, <3>4, <3>5, <3>6, <3>7 DEF Due
  <2>5. Awaits(d, p, t.height[p])
    <3> SUFFICES ASSUME d.parent[p] # NULL
        PROVE  LET q == d.parent[p]
                   f == d.child[q][Opp(SideOf(d, p))]
               IN /\ d.height[q] = 1 + Larger(t.height[p], AvlHeight(d, f))
                  /\ t.height[p] - AvlHeight(d, f) \in -1 .. 1
      BY DEF Awaits
    <3>1. /\ d.parent[p] \in T /\ d.parent[p] # p /\ SideOf(d, p) \in Side
          /\ d.child[d.parent[p]][SideOf(d, p)] = p
      BY <1>3, <2>1, Place
    <3>2. Sound(d, d.parent[p])
      BY <1>8, <3>1
    <3>3. AvlHeight(d, p) = t.height[p]
      BY <1>10, <2>1 DEF AvlHeight
    <3> QED
      BY <3>1, <3>2, <3>3 DEF Sound
  <2> HIDE DEF T
  <2> QED
    BY <1>8, <2>1, <2>3, <2>4, <2>5 DEF FixHead
<1> QED
  BY <1>6, <1>9, <1>10 DEF d, c, p, v

LEMMA DelEasyBalances ==
  ASSUME NEW t, NEW S, NEW R, NEW r, Maintained(t, r, S, R), Order(S, R),
         NEW n \in S, NEW k \in Side, t.child[n][k] = NULL
  PROVE  LET d == AvlDelEasy(t, n)
         IN  /\ Elsewhere(t, d.t, S \ {n}) /\ d.t \in Trees
             /\ S # {n} => Maintained(d.t, d.top, S \ {n}, R)
             /\ S = {n} => d.top = NULL
<1> DEFINE d == Detached(t, n)
           c == OnlyChild(t, n)
           p == t.parent[n]
<1>1. PICK u : Tree(t, S, u, R) /\ u[r] = S
  BY DEF Maintained
<1>2. /\ Elsewhere(t, d, S \ {n})
      /\ p = NULL /\ S # {n} => Maintained(d, c, S \ {n}, R)
      /\ p = NULL /\ S = {n} => c = NULL
      /\ p # NULL => FixHead(d, S \ {n}, Without(u, n), R, p, t.height[p])
  <2>1. \A m \in S : Sound(t, m)
    BY DEF Maintained
  <2> QED
    BY <1>1, <2>1, DetachKeeps
<1>3. d \in Trees
  BY <1>1, DetachReads DEF Tree
<1>4. CASE p = NULL
  <2>1. AvlDelEasy(t, n) = [t |-> d, top |-> c]
    BY <1>4 DEF AvlDelEasy, Detached, OnlyChild, Hang
  <2> HIDE DEF d, c
  <2> QED
    BY <1>2, <1>3, <1>4, <2>1
<1>5. CASE p # NULL
  <2>1. AvlDelEasy(t, n) = AvlFix(d, p)
    BY <1>5 DEF AvlDelEasy, Detached, OnlyChild
  <2>2. FixHead(d, S \ {n}, Without(u, n), R, p, t.height[p])
    BY <1>2, <1>5
  <2> HIDE DEF d, p
  <2> DEFINE f == AvlFix(d, p)
  <2>3. Maintained(f.t, f.top, S \ {n}, R) /\ Elsewhere(d, f.t, S \ {n})
    BY <2>2, AvlFixBalances
  <2>4. S # {n} /\ f.t \in Trees
    BY <2>3 DEF Maintained, Tree
  <2> HIDE DEF f
  <2>5. Elsewhere(t, f.t, S \ {n})
    BY <1>2, <2>3 DEF Elsewhere
  <2> QED
    BY <2>1, <2>3, <2>4, <2>5 DEF f
<1> QED
  BY <1>4, <1>5

-----------------------------------------------------------------------------
(* avl_del: the successor takes the place of a node with two children.      *)
(* A node outside u[y] is on the same side of all of it.                    *)
LEMMA Aside ==
  ASSUME NEW t, NEW S, NEW u, NEW R, Tree(t, S, u, R), Order(S, R),
         NEW y \in S, NEW m \in S \ u[y]
  PROVE  \E z \in Side : \A x \in u[y] : On(R, z, x, m)
<1>1. Shape(t, S, u) /\ Sorted(t, S, u, R)
  BY DEF Tree
<1>2. \A a \in S, z \in Side : u[t.child[a][z]] \subseteq S
  BY <1>1, KidFacts
<1>3. CASE y \in u[m]
  <2>1. PICK z \in Side : y \in u[t.child[m][z]]
    BY <1>1, <1>3, KidFacts, SideFacts DEF Side
  <2>2. u[y] \subseteq u[t.child[m][z]]
    <3>1. t.child[m][z] \in S
      BY <1>1, <2>1, KidFacts DEF Shape
    <3> QED
      BY <1>1, <2>1, <3>1, Nested
  <2> QED
    BY <1>1, <2>1, <2>2 DEF Sorted
<1>4. CASE y \notin u[m]
  <2> DEFINE C == {a \in S : y \in u[a] /\ m \in u[a]}
             f == [a \in C |-> Cardinality(u[a])]
  <2>1. C # {}
    BY DEF Tree, Rooted
  <2>2. \A a \in S : u[a] \in SUBSET Node
    BY <1>1 DEF Shape, Links
  <2>3. \A a \in C : f[a] \in Nat
    BY <2>2, NodesFinite
  <2>4. PICK a \in C : \A b \in C : f[a] <= f[b]
    <3> HIDE DEF f, C
    <3> QED
      BY <2>1, <2>3, Least
  <2>5. a # m /\ a # y
    BY <1>4, <2>4
  <2>6. PICK z \in Side : y \in u[t.child[a][z]]
    BY <1>1, <2>4, <2>5, KidFacts, SideFacts DEF Side
  <2>7. m \notin u[t.child[a][z]]
    <3> SUFFICES ASSUME m \in u[t.child[a][z]] PROVE FALSE
      OBVIOUS
    <3> DEFINE b == t.child[a][z]
    <3>1. b \in S /\ u[b] \subseteq u[a] /\ a \notin u[b] /\ a \in u[a]
      BY <1>1, <2>6, KidFacts DEF Shape
    <3>2. b \in C
      BY <2>6, <3>1
    <3>3. Cardinality(u[b]) < Cardinality(u[a])
      BY <2>2, <3>1, FewerNodes
    <3>4. f[a] <= f[b] /\ f[a] \in Nat /\ f[b] \in Nat
      BY <2>3, <2>4, <3>2
    <3> HIDE DEF C, b
    <3> QED
      BY <2>4, <3>2, <3>3, <3>4
  <2>8. m \in u[t.child[a][Opp(z)]]
    BY <1>1, <2>4, <2>5, <2>7, KidFacts
  <2>9. Opp(z) \in Side /\ Opp(Opp(z)) = z
    BY SideFacts
  <2>10. On(R, z, a, m)
    <3>1. On(R, Opp(z), m, a)
      BY <1>1, <2>4, <2>8, <2>9 DEF Sorted
    <3> QED
      BY <3>1, OnFacts
  <2>11. ASSUME NEW x \in u[y]
         PROVE  On(R, z, x, m)
    <3>1. t.child[a][z] \in S
      BY <1>1, <2>6 DEF Shape
    <3>2. x \in u[t.child[a][z]]
      BY <1>1, <2>6, <3>1, Nested
    <3>3. On(R, z, x, a) /\ x \in S
      BY <1>1, <1>2, <2>4, <3>2 DEF Sorted
    <3> QED
      BY <2>4, <2>10, <3>3, OnFacts
  <2> QED
    BY <2>11
<1> QED
  BY <1>3, <1>4

LEMMA LeftmostLeast ==
  ASSUME NEW t, NEW S, NEW u, NEW R, Tree(t, S, u, R), Order(S, R), NEW c \in S
  PROVE  LET v == Leftmost(t, c)
         IN  /\ v \in u[c] /\ t.child[v]["left"] = NULL
             /\ \A m \in u[c] : m # v => <<v, m>> \in R
<1> DEFINE N     == Cardinality(Node)
           First(y) == \A m \in u[c] : m \in u[y] \/ <<y, m>> \in R
           X     == [k \in Nat |-> {y \in u[c] : /\ First(y)
                                                 /\ t.child[y]["left"] = NULL
                                                      \/ Cardinality(u[y]) <= k}]
<1>1. /\ Shape(t, S, u) /\ Sorted(t, S, u, R) /\ N \in Nat /\ "left" \in Side
      /\ \A y \in S : u[y] \in SUBSET Node
  BY NodesFinite DEF Tree, Shape, Links, Side
<1>2. \A y \in S : Cardinality(u[y]) \in 0 .. N
  BY <1>1, NodesFinite
<1>3. c \in X[N]
  BY <1>1, <1>2, KidFacts
<1>4. ASSUME NEW k \in Nat, NEW y \in X[k]
      PROVE  LeftTurn(t, y) \in X[IF k = 0 THEN 0 ELSE k - 1]
  <2>1. y \in S /\ u[y] \subseteq u[c] /\ y \in u[c] /\ First(y)
    BY <1>1, Nested
  <2>2. CASE t.child[y]["left"] = NULL
    <3>1. LeftTurn(t, y) = y
      BY <2>2 DEF LeftTurn
    <3> HIDE DEF First
    <3> QED
      BY <2>1, <2>2, <3>1
  <2>3. CASE t.child[y]["left"] # NULL
    <3> DEFINE l == t.child[y]["left"]
    <3>1. LeftTurn(t, y) = l
      BY <2>3 DEF LeftTurn
    <3>2. /\ l \in S /\ l \in u[y] /\ u[l] \subseteq u[y] /\ y \notin u[l] /\ y \in u[y]
          /\ l \in u[l]
      BY <1>1, <2>1, <2>3, KidFacts
    <3>3. Cardinality(u[l]) < Cardinality(u[y])
      BY <1>1, <2>1, <3>2, FewerNodes
    <3>4. Cardinality(u[l]) \in Nat /\ Cardinality(u[y]) \in Nat /\ Cardinality(u[y]) <= k
      BY <1>2, <2>1, <2>3, <3>2
    <3>5. k # 0 /\ k - 1 \in Nat /\ Cardinality(u[l]) <= k - 1
      BY <3>3, <3>4
    <3>6. <<l, y>> \in R
      BY <1>1, <2>1, <3>2 DEF Sorted, On
    <3>7. ASSUME NEW m \in u[c], m \notin u[l]
          PROVE  <<l, m>> \in R
      <4>1. m \in S
        BY <1>1, Nested
      <4>2. CASE m = y
        BY <3>6, <4>2
      <4>3. CASE <<y, m>> \in R
        BY <2>1, <3>2, <3>6, <4>1, <4>3 DEF Order
      <4>4. CASE m \in u[y] /\ m # y
        <5>1. m \in u[t.child[y][Opp("left")]] /\ Opp("left") \in Side
          BY <1>1, <2>1, <3>7, <4>4, KidFacts, SideFacts
        <5>2. On(R, Opp("left"), m, y)
          BY <1>1, <2>1, <5>1 DEF Sorted
        <5> QED
          BY <4>3, <5>2 DEF On, Opp
      <4> QED
        BY <2>1, <4>2, <4>3, <4>4
    <3>8. First(l)
      BY <3>7
    <3> HIDE DEF l, First
    <3> QED
      BY <2>1, <3>1, <3>2, <3>5, <3>8
  <2> QED
    BY <2>2, <2>3
<1> DEFINE D == UNION {X[k] : k \in Nat}
           g == [y \in D |-> LeftTurn(t, y)]
           P(f) == f = [k \in Nat |-> IF k = 0 THEN c ELSE LeftTurn(t, f[k - 1])]
<1> HIDE DEF X
<1>5. g \in [D -> D] /\ c \in D
  BY <1>1, <1>3, <1>4
<1>6. \E f : P(f)
  <2>1. PICK f : Iterate(f, D, g, c)
    <3> HIDE DEF D, g
    <3> QED
      BY <1>5, Iterates
  <2>2. \A k \in Nat : f[k] = IF k = 0 THEN c ELSE LeftTurn(t, f[k - 1])
    <3> SUFFICES ASSUME NEW k \in Nat, k # 0 PROVE f[k] = LeftTurn(t, f[k - 1])
      BY <2>1 DEF Iterate
    <3>1. k - 1 \in Nat /\ (k - 1) + 1 = k
      OBVIOUS
    <3>2. f[k] = g[f[k - 1]] /\ f[k - 1] \in D
      <4> HIDE DEF g, D
      <4> QED
        BY <2>1, <3>1 DEF Iterate
    <3> HIDE DEF D
    <3> QED
      BY <3>2
  <2> QED
    BY <2>1, <2>2 DEF Iterate
<1> DEFINE f == CHOOSE f : P(f)
<1>7. P(f)
  <2> HIDE DEF P
  <2> QED
    BY <1>6
<1>8. Leftmost(t, c) = f[N]
  BY DEF Leftmost, Loop
<1> HIDE DEF f, N
<1>9. f[0] = c /\ \A k \in Nat : f[k + 1] = LeftTurn(t, f[k])
  BY <1>7
<1>10. \A k \in 0 .. N - 1 : f[k] \in X[N - k] => f[k + 1] \in X[N - k - 1]
  <2> SUFFICES ASSUME NEW k \in 0 .. N - 1, f[k] \in X[N - k]
               PROVE  f[k + 1] \in X[N - k - 1]
    OBVIOUS
  <2>1. k \in Nat /\ N - k \in Nat /\ N - k # 0
    BY <1>1
  <2>2. f[k + 1] = LeftTurn(t, f[k])
    BY <1>9, <2>1
  <2> QED
    BY <1>4, <2>1, <2>2
<1>11. f[N] \in X[0]
  BY <1>1, <1>3, <1>9, <1>10, LoopReaches
<1> DEFINE v == f[N]
<1>12. v \in u[c] /\ First(v) /\ (t.child[v]["left"] = NULL \/ Cardinality(u[v]) <= 0)
  BY <1>11 DEF X
<1> HIDE DEF v
<1>13. v \in S /\ v \in u[v] /\ {} \in SUBSET u[v]
  BY <1>1, <1>12, Nested, KidFacts
<1>14. t.child[v]["left"] = NULL
  <2>1. Cardinality({}) < Cardinality(u[v])
    BY <1>1, <1>13, FewerNodes
  <2>2. Cardinality({}) \in Nat /\ Cardinality(u[v]) \in Nat
    BY <1>1, <1>13, NodesFinite
  <2> QED
    BY <1>12, <2>1, <2>2
<1>15. ASSUME NEW m \in u[c], m # v
       PROVE  <<v, m>> \in R
  <2>1. CASE m \in u[v]
    <3>1. u[NULL] = {}
      BY <1>1 DEF Shape
    <3>2. m \in u[t.child[v][Opp("left")]] /\ Opp("left") \in Side
      BY <1>1, <1>13, <1>14, <1>15, <2>1, <3>1, KidFacts, SideFacts
    <3>3. On(R, Opp("left"), m, v)
      BY <1>1, <1>13, <3>2 DEF Sorted
    <3> QED
      BY <3>3 DEF On, Opp
  <2> QED
    BY <1>12, <2>1
<1> QED
  BY <1>8, <1>12, <1>14, <1>15 DEF v

(* No node is between n and its successor. *)
LEMMA Successor ==
  ASSUME NEW t, NEW S, NEW u, NEW R, Tree(t, S, u, R), Order(S, R), NEW n \in S,
         t.child[n]["right"] # NULL
  PROVE  LET v == Leftmost(t, t.child[n]["right"])
         IN  /\ v \in S /\ v # n /\ t.parent[v] # NULL /\ t.child[v]["left"] = NULL
             /\ \A m \in S : m # n /\ m # v => (<<m, n>> \in R <=> <<m, v>> \in R)
<1> DEFINE c == t.child[n]["right"]
           v == Leftmost(t, c)
<1>1. /\ Shape(t, S, u) /\ Sorted(t, S, u, R) /\ "right" \in Side /\ "left" \in Side
      /\ Opp("right") = "left"
  BY DEF Tree, Side, Opp
<1>2. c \in S /\ u[c] \subseteq u[n] /\ n \notin u[c]
  BY <1>1, KidFacts
<1>3. v \in u[c] /\ t.child[v]["left"] = NULL /\ \A m \in u[c] : m # v => <<v, m>> \in R
  BY <1>2, LeftmostLeast
<1> HIDE DEF c, v
<1>4. v \in S /\ v \in u[n] /\ v # n
  BY <1>1, <1>2, <1>3, Nested
<1>5. t.parent[v] # NULL
  BY <1>1, <1>4, ParentUnder
<1>6. <<n, v>> \in R
  BY <1>1, <1>3 DEF Sorted, On, c
<1>7. ASSUME NEW m \in S, m # n, m # v, <<n, m>> \in R, <<m, v>> \in R
      PROVE  FALSE
  <2>1. CASE m \in u[n]
    <3>1. m \in u[c] \/ m \in u[t.child[n]["left"]]
      BY <1>1, <1>7, <2>1, KidFacts DEF c
    <3>2. m \in u[t.child[n]["left"]] => <<m, n>> \in R
      BY <1>1 DEF Sorted, On
    <3> QED
      BY <1>3, <1>4, <1>7, <3>1, <3>2 DEF Order
  <2>2. CASE m \notin u[n]
    <3>1. PICK z \in Side : \A x \in u[n] : On(R, z, x, m)
      BY <2>2, Aside
    <3>2. On(R, z, n, m) /\ On(R, z, v, m)
      BY <1>1, <1>4, <3>1, KidFacts
    <3>3. CASE z = "left"
      BY <1>4, <1>7, <3>2, <3>3 DEF On, Order
    <3>4. CASE z = "right"
      BY <1>4, <1>7, <3>2, <3>4 DEF On, Order
    <3> QED
      BY <3>3, <3>4 DEF Side
  <2> QED
    BY <2>1, <2>2
<1>8. ASSUME NEW m \in S, m # n, m # v
      PROVE  <<m, n>> \in R <=> <<m, v>> \in R
  <2>1. <<m, n>> \in R \/ <<n, m>> \in R
    BY <1>8 DEF Order
  <2>2. <<m, n>> \in R => <<m, v>> \in R
    BY <1>4, <1>6 DEF Order
  <2> QED
    BY <1>7, <1>8, <2>1, <2>2
<1> QED
  BY <1>3, <1>4, <1>5, <1>8 DEF c, v

\* v takes the place of n in every set of nodes.
Renamed(u, v, n) ==
  LET new(A) == IF n \in A THEN (A \ {n}) \union {v} ELSE A
  IN [m \in Links |-> IF m = v THEN new(u[n]) ELSE new(u[m])]

LEMMA TakePlaceReads ==
  ASSUME NEW t \in Trees, NEW S, NEW u, Shape(t, S, u), NEW n \in S, NEW v \in Node \ S
  PROVE  LET d == TakePlace(t, v, n)
             p == t.parent[n]
         IN  /\ d \in Trees
             /\ \A m \in Node, z \in Side :
                  d.child[m][z] = IF m = p /\ z = SideOf(t, n) THEN v
                                  ELSE IF m = v THEN t.child[n][z] ELSE t.child[m][z]
             /\ \A m \in Node :
                  d.parent[m] = IF \E z \in Side : m = t.child[n][z] THEN v
                                ELSE IF m = v THEN p ELSE t.parent[m]
             /\ \A m \in Node : d.height[m] = IF m = v THEN t.height[n] ELSE t.height[m]
             /\ \A m \in Node : d.cnt[m] = IF m = v THEN t.cnt[n] ELSE t.cnt[m]
<1> DEFINE below == {t.child[n][s] : s \in Side}
           p     == t.parent[n]
           side  == SideOf(t, n)
           t1 == [child  |-> [t.child EXCEPT ![v] = t.child[n]],
                  parent |-> [m \in Node |-> IF m \in below THEN v
                                             ELSE IF m = v THEN p
                                             ELSE t.parent[m]],
                  height |-> [t.height EXCEPT ![v] = t.height[n]],
                  cnt    |-> [t.cnt EXCEPT ![v] = t.cnt[n]]]
           d == TakePlace(t, v, n)
<1>1. d = Hang(t1, p, side, v)
  BY DEF TakePlace
<1>2. S \subseteq Node /\ n \in Node /\ p \in Links /\ v \in Links /\ side \in Side
  <2>1. S \subseteq Node /\ n \in Node /\ v \in Links
    BY DEF Shape, Links
  <2>2. side \in Side
    BY Place
  <2>3. p \in Links
    BY <2>1, ChildIsLink
  <2> QED
    BY <2>1, <2>2, <2>3
<1>3. /\ t1 \in Trees
      /\ \A m \in Node, z \in Side :
           t1.child[m][z] = IF m = v THEN t.child[n][z] ELSE t.child[m][z]
      /\ \A m \in Node :
           t1.parent[m] = IF m \in below THEN v ELSE IF m = v THEN p ELSE t.parent[m]
      /\ \A m \in Node : t1.height[m] = IF m = v THEN t.height[n] ELSE t.height[m]
      /\ \A m \in Node : t1.cnt[m] = IF m = v THEN t.cnt[n] ELSE t.cnt[m]
  <2>1. /\ t.child \in [Node -> [Side -> Links]] /\ t.parent \in [Node -> Links]
        /\ t.height \in [Node -> Nat \ {0}] /\ t.cnt \in [Node -> Nat \ {0}]
    BY DEF Trees
  <2>2. t1.child \in [Node -> [Side -> Links]] /\ t1.parent \in [Node -> Links]
    <3> HIDE DEF below, p
    <3> QED
      BY <1>2, <2>1
  <2>3. t1.height \in [Node -> Nat \ {0}] /\ t1.cnt \in [Node -> Nat \ {0}]
    <3> HIDE DEF below, p
    <3> QED
      BY <1>2, <2>1
  <2>4. t1 \in Trees
    BY <2>2, <2>3 DEF Trees
  <2>5. /\ \A m \in Node, z \in Side :
             t1.child[m][z] = IF m = v THEN t.child[n][z] ELSE t.child[m][z]
        /\ \A m \in Node :
             t1.parent[m] = IF m \in below THEN v ELSE IF m = v THEN p ELSE t.parent[m]
    <3> HIDE DEF below, p
    <3> QED
      BY <1>2, <2>1
  <2>6. /\ \A m \in Node : t1.height[m] = IF m = v THEN t.height[n] ELSE t.height[m]
        /\ \A m \in Node : t1.cnt[m] = IF m = v THEN t.cnt[n] ELSE t.cnt[m]
    BY <1>2, <2>1
  <2> HIDE DEF t1, below, p
  <2> QED
    BY <2>4, <2>5, <2>6
<1> HIDE DEF t1, d
<1>4. /\ d \in Trees /\ d.parent = t1.parent /\ d.height = t1.height /\ d.cnt = t1.cnt
      /\ \A m \in Node, z \in Side :
           d.child[m][z] = IF m = p /\ z = side THEN v ELSE t1.child[m][z]
  <2> HIDE DEF p, side
  <2> DEFINE e == Hang(t1, p, side, v)
  <2>1. /\ e \in Trees /\ e.parent = t1.parent /\ e.height = t1.height /\ e.cnt = t1.cnt
        /\ \A m \in Node, z \in Side :
             e.child[m][z] = IF m = p /\ z = side THEN v ELSE t1.child[m][z]
    BY <1>2, <1>3, HangReads
  <2>2. d = e
    BY <1>1
  <2> HIDE DEF e
  <2> QED
    BY <2>1, <2>2
<1>5. \A m \in Node : m \in below <=> \E z \in Side : m = t.child[n][z]
  OBVIOUS
<1> HIDE DEF below, p, side
<1>6. /\ d \in Trees
      /\ \A m \in Node, z \in Side :
           d.child[m][z] = IF m = p /\ z = side THEN v
                           ELSE IF m = v THEN t.child[n][z] ELSE t.child[m][z]
      /\ \A m \in Node : d.height[m] = IF m = v THEN t.height[n] ELSE t.height[m]
      /\ \A m \in Node : d.cnt[m] = IF m = v THEN t.cnt[n] ELSE t.cnt[m]
  BY <1>3, <1>4
<1>7. \A m \in Node : d.parent[m] = IF \E z \in Side : m = t.child[n][z] THEN v
                                    ELSE IF m = v THEN p ELSE t.parent[m]
  BY <1>3, <1>4, <1>5
<1> QED
  BY <1>6, <1>7 DEF d, p, side

LEMMA TakePlaceShape ==
  ASSUME NEW t \in Trees, NEW S, NEW u, Shape(t, S, u), NEW n \in S, NEW v \in Node \ S
  PROVE  Shape(TakePlace(t, v, n), (S \ {n}) \union {v}, Renamed(u, v, n))
<1> DEFINE d      == TakePlace(t, v, n)
           p      == t.parent[n]
           side   == SideOf(t, n)
           T      == (S \ {n}) \union {v}
           w      == Renamed(u, v, n)
           new(A) == IF n \in A THEN (A \ {n}) \union {v} ELSE A
           Fits(m, z) == LET a == d.child[m][z]
                             e == d.child[m][Opp(z)]
                         IN /\ a \in T \union {NULL}
                            /\ w[m] = {m} \union w[a] \union w[e]
                            /\ m \notin w[a] /\ w[a] \intersect w[e] = {}
                            /\ a # NULL => d.parent[a] = m
<1>1. /\ \A m \in Node, z \in Side :
           d.child[m][z] = IF m = p /\ z = side THEN v
                           ELSE IF m = v THEN t.child[n][z] ELSE t.child[m][z]
      /\ \A m \in Node :
           d.parent[m] = IF \E z \in Side : m = t.child[n][z] THEN v
                         ELSE IF m = v THEN p ELSE t.parent[m]
  BY TakePlaceReads
<1>2. S \subseteq Node /\ NULL \notin Node /\ n # v /\ v # NULL /\ n # NULL
  BY NodeAssumption DEF Shape
<1>3. /\ side \in Side
      /\ p # NULL => p \in S /\ p # n /\ p \notin u[n] /\ t.child[p][side] = n
  BY Place
<1>4. /\ u \in [Links -> SUBSET S] /\ u[NULL] = {} /\ \A m \in S : m \in u[m]
  <2>1. u \in [Links -> SUBSET S] /\ u[NULL] = {}
    BY DEF Shape
  <2> QED
    BY <2>1, KidFacts, SideFacts DEF Side
<1>5. /\ w \in [Links -> SUBSET T]
      /\ w[v] = (u[n] \ {n}) \union {v}
      /\ \A m \in Links : m # v => w[m] = new(u[m])
      /\ w[NULL] = {}
  <2>1. n \in Links /\ v \in Links /\ NULL \in Links /\ n \in u[n]
    BY <1>2, <1>4 DEF Links
  <2>2. \A m \in Links : new(u[m]) \in SUBSET T
    BY <1>4
  <2>3. w = [m \in Links |-> IF m = v THEN new(u[n]) ELSE new(u[m])]
    BY DEF Renamed
  <2> HIDE DEF w, T
  <2>4. w \in [Links -> SUBSET T] /\ w[v] = new(u[n]) /\ \A m \in Links : m # v => w[m] = new(u[m])
    <3> HIDE DEF new
    <3> QED
      BY <2>1, <2>2, <2>3
  <2> QED
    BY <1>2, <1>4, <2>1, <2>4
<1> HIDE DEF d, w, p, side
<1>6. ASSUME NEW z \in Side
      PROVE  Fits(v, z)
  <2> DEFINE a == t.child[n][z]
             e == t.child[n][Opp(z)]
  <2>1. /\ a \in S \union {NULL} /\ u[n] = {n} \union u[a] \union u[e]
        /\ n \notin u[a] /\ u[a] \intersect u[e] = {}
        /\ Opp(z) \in Side /\ Opp(Opp(z)) = z
    BY SideFacts DEF Shape
  <2>2. e \in S \union {NULL} /\ n \notin u[e]
    BY <2>1 DEF Shape
  <2>3. p # v
    BY <1>2, <1>3
  <2>4. d.child[v][z] = a /\ d.child[v][Opp(z)] = e
    BY <1>1, <2>1, <2>3
  <2>5. a # NULL => d.parent[a] = v
    BY <1>1, <1>2, <2>1
  <2> HIDE DEF a, e
  <2>6. w[a] = u[a] /\ w[e] = u[e] /\ v \notin u[a] /\ v \notin u[e] /\ a # n
    BY <1>2, <1>4, <1>5, <2>1, <2>2 DEF Links
  <2>7. w[v] = {v} \union u[a] \union u[e]
    BY <1>2, <1>4, <1>5, <2>1, <2>2, <2>6
  <2> QED
    BY <2>1, <2>4, <2>5, <2>6, <2>7
<1>7. ASSUME p # NULL, NEW z \in Side
      PROVE  Fits(p, z)
  <2> DEFINE e == t.child[p][Opp(side)]
  <2>0. /\ p \in S /\ p # n /\ t.child[p][side] = n /\ Opp(side) \in Side /\ Opp(side) # side
        /\ Opp(Opp(side)) = side /\ \A y \in Side : y = side \/ y = Opp(side)
    BY <1>3, <1>7, SideFacts
  <2>1. /\ e \in S \union {NULL} /\ p \notin u[e] /\ (e # NULL => t.parent[e] = p)
    BY <2>0 DEF Shape
  <2>2. /\ u[p] = {p} \union u[n] \union u[e] /\ p \notin u[n] /\ u[n] \intersect u[e] = {}
    BY <1>3, <2>0 DEF Shape
  <2>3. p # v /\ p \in Node
    BY <1>2, <2>0
  <2>4. d.child[p][side] = v /\ d.child[p][Opp(side)] = e
    BY <1>1, <1>3, <2>0, <2>3
  <2>5. e # NULL => d.parent[e] = p
    <3>1. e # NULL => ~\E y \in Side : e = t.child[n][y]
      <4>1. \A y \in Side : t.child[n][y] # NULL => t.parent[t.child[n][y]] = n
        BY DEF Shape
      <4> QED
        BY <2>0, <2>1, <4>1
    <3> QED
      BY <1>1, <1>2, <2>1, <3>1
  <2>6. d.parent[v] = p
    <3>1. ~\E y \in Side : v = t.child[n][y]
      BY <1>2 DEF Shape
    <3> QED
      BY <1>1, <3>1
  <2> HIDE DEF e
  <2>7. n \in u[n] /\ n \notin u[e] /\ n \in u[p]
    BY <1>4, <2>2
  <2>8. w[e] = u[e] /\ w[p] = (u[p] \ {n}) \union {v} /\ e # n /\ v \notin u[e] /\ v \notin u[n]
    BY <1>2, <1>4, <1>5, <2>0, <2>1, <2>3, <2>7 DEF Links
  <2>9. w[p] = {p} \union w[v] \union w[e] /\ p \notin w[v] /\ w[v] \intersect w[e] = {}
    BY <1>5, <2>0, <2>2, <2>3, <2>7, <2>8
  <2>10. CASE z = side
    BY <2>4, <2>6, <2>9, <2>10
  <2>11. CASE z = Opp(side)
    <3>1. d.child[p][z] = e /\ d.child[p][Opp(z)] = v
      BY <2>0, <2>4, <2>11
    <3> QED
      BY <2>1, <2>5, <2>8, <2>9, <3>1
  <2> QED
    BY <2>0, <2>10, <2>11
<1>8. ASSUME NEW m \in S, m # n, m # p, NEW z \in Side
      PROVE  Fits(m, z)
  <2> DEFINE a == t.child[m][z]
             e == t.child[m][Opp(z)]
  <2>1. /\ a \in S \union {NULL} /\ u[m] = {m} \union u[a] \union u[e]
        /\ m \notin u[a] /\ u[a] \intersect u[e] = {}
        /\ a # NULL => t.parent[a] = m
    BY DEF Shape
  <2>2. /\ e \in S \union {NULL} /\ (e # NULL => t.parent[e] = m) /\ Opp(z) \in Side
    BY SideFacts DEF Shape
  <2>3. m \in Node /\ m # v
    BY <1>2
  <2>4. d.child[m][z] = a /\ d.child[m][Opp(z)] = e
    BY <1>1, <1>8, <2>2, <2>3
  <2>5. a # NULL => d.parent[a] = m
    <3>1. a # NULL => ~\E y \in Side : a = t.child[n][y]
      <4>1. \A y \in Side : t.child[n][y] # NULL => t.parent[t.child[n][y]] = n
        BY DEF Shape
      <4> QED
        BY <1>8, <2>1, <4>1
    <3> QED
      BY <1>1, <1>2, <2>1, <3>1
  <2> HIDE DEF a, e
  <2>6. a # n /\ e # n
    BY <1>2, <1>8, <2>1, <2>2 DEF p
  <2>7. w[a] = new(u[a]) /\ w[e] = new(u[e]) /\ w[m] = new(u[m])
    <3> HIDE DEF new
    <3> QED
      BY <1>2, <1>5, <2>1, <2>2, <2>3 DEF Links
  <2>8. v \notin u[a] /\ v \notin u[e] /\ v \notin u[m]
    BY <1>4, <2>1, <2>2, <2>3 DEF Links
  <2>9. /\ w[m] = {m} \union w[a] \union w[e]
        /\ m \notin w[a] /\ w[a] \intersect w[e] = {}
    BY <1>8, <2>1, <2>3, <2>7, <2>8
  <2> QED
    BY <2>1, <2>4, <2>5, <2>6, <2>9
<1>9. ASSUME NEW m \in T, d.parent[m] # NULL
      PROVE  d.parent[m] \in T /\ \E z \in Side : d.child[d.parent[m]][z] = m
  <2>1. CASE m = v
    <3>1. ~\E y \in Side : v = t.child[n][y]
      BY <1>2 DEF Shape
    <3>2. d.parent[m] = p
      BY <1>1, <2>1, <3>1
    <3>3. p \in S /\ p # n /\ p \in Node
      BY <1>2, <1>3, <1>9, <3>2
    <3>4. d.child[p][side] = v
      BY <1>1, <1>3, <3>3
    <3> QED
      BY <1>3, <2>1, <3>2, <3>3, <3>4
  <2>2. ASSUME m # v, NEW z \in Side, m = t.child[n][z]
        PROVE  d.parent[m] \in T /\ \E y \in Side : d.child[d.parent[m]][y] = m
    <3>1. d.parent[m] = v /\ p # v
      BY <1>1, <1>2, <1>3, <2>2
    <3>2. d.child[v][z] = m
      BY <1>1, <2>2, <3>1
    <3> QED
      BY <3>1, <3>2
  <2>3. CASE m # v /\ ~\E z \in Side : m = t.child[n][z]
    <3>1. d.parent[m] = t.parent[m] /\ m \in S /\ m # n
      BY <1>1, <1>2, <2>3
    <3>2. t.parent[m] \in S /\ \E z \in Side : t.child[t.parent[m]][z] = m
      BY <1>9, <3>1 DEF Shape
    <3>3. PICK z \in Side : t.child[t.parent[m]][z] = m
      BY <3>2
    <3>4. t.parent[m] # n /\ t.parent[m] # v
      BY <2>3, <3>2, <3>3
    <3>5. ~(t.parent[m] = p /\ z = side)
      BY <1>2, <1>3, <3>1, <3>2, <3>3
    <3>6. d.child[t.parent[m]][z] = m
      BY <1>1, <1>2, <3>2, <3>3, <3>4, <3>5
    <3> QED
      BY <3>1, <3>2, <3>4, <3>6
  <2> QED
    BY <2>1, <2>2, <2>3
<1>10. ASSUME NEW m \in T, NEW z \in Side
       PROVE  Fits(m, z)
  <2> HIDE DEF Fits
  <2>1. m # NULL
    BY <1>2
  <2> QED
    BY <2>1, <1>6, <1>7, <1>8
<1>11. T \subseteq Node
  BY <1>2
<1> HIDE DEF T
<1> QED
  BY <1>5, <1>9, <1>10, <1>11 DEF Shape, d, w, T

LEMMA TakePlaceKeeps ==
  ASSUME NEW t, NEW S, NEW R, NEW r, Maintained(t, r, S, R),
         NEW n \in S, NEW v \in Node \ S,
         \A m \in S : m # n => /\ <<m, n>> \in R <=> <<m, v>> \in R
                               /\ <<n, m>> \in R <=> <<v, m>> \in R
  PROVE  LET d == TakePlace(t, v, n)
         IN  /\ Maintained(d, IF t.parent[n] = NULL THEN v ELSE r, (S \ {n}) \union {v}, R)
             /\ Elsewhere(t, d, S \union {v})
<1> DEFINE d    == TakePlace(t, v, n)
           p    == t.parent[n]
           side == SideOf(t, n)
           T    == (S \ {n}) \union {v}
           top  == IF p = NULL THEN v ELSE r
           new(c) == IF c = n THEN v ELSE c
<1>1. PICK u : Tree(t, S, u, R) /\ u[r] = S
  BY DEF Maintained
<1>2. /\ t \in Trees /\ Shape(t, S, u) /\ Sorted(t, S, u, R) /\ r \in S
      /\ S \subseteq Node /\ NULL \notin Node /\ \A m \in S : Sound(t, m)
  <2>1. t \in Trees /\ Shape(t, S, u) /\ Sorted(t, S, u, R) /\ r \in S
        /\ \A m \in S : Sound(t, m)
    BY <1>1 DEF Tree, Maintained
  <2> QED
    BY <2>1, NodeAssumption DEF Shape
<1> DEFINE w == Renamed(u, v, n)
<1>3. /\ d \in Trees
      /\ \A m \in Node, z \in Side :
           d.child[m][z] = IF m = p /\ z = side THEN v
                           ELSE IF m = v THEN t.child[n][z] ELSE t.child[m][z]
      /\ \A m \in Node :
           d.parent[m] = IF \E z \in Side : m = t.child[n][z] THEN v
                         ELSE IF m = v THEN p ELSE t.parent[m]
      /\ \A m \in Node : d.height[m] = IF m = v THEN t.height[n] ELSE t.height[m]
      /\ \A m \in Node : d.cnt[m] = IF m = v THEN t.cnt[n] ELSE t.cnt[m]
  BY <1>2, TakePlaceReads
<1>4. Shape(d, T, w)
  BY <1>2, TakePlaceShape
<1>5. /\ side \in Side
      /\ p # NULL => /\ p \in S /\ p # n /\ t.child[p][side] = n
                     /\ \A z \in Side : t.child[p][z] = n => z = side
  BY <1>2, Place
<1>6. \A m \in S, z \in Side :
        /\ t.child[m][z] \in S \union {NULL} /\ (m = n => t.child[m][z] # n)
        /\ t.child[m][z] = n => m = p
        /\ u[t.child[m][z]] \subseteq S
  <2> SUFFICES ASSUME NEW m \in S, NEW z \in Side
               PROVE  /\ t.child[m][z] \in S \union {NULL} /\ (m = n => t.child[m][z] # n)
                      /\ t.child[m][z] = n => m = p
                      /\ u[t.child[m][z]] \subseteq S
    OBVIOUS
  <2>1. /\ t.child[m][z] \in S \union {NULL}
        /\ t.child[m][z] # NULL => t.parent[t.child[m][z]] = m
        /\ t.child[m][z] # NULL => t.child[m][z] # m
        /\ u[t.child[m][z]] \subseteq S
    <3>1. t.child[m][z] \in S \union {NULL}
      BY <1>2 DEF Shape
    <3>2. /\ u[t.child[m][z]] \subseteq u[m] /\ u[m] \subseteq S
          /\ t.child[m][z] # NULL => /\ t.child[m][z] # m
                                     /\ t.parent[t.child[m][z]] = m
      BY <1>2, KidFacts
    <3> QED
      BY <3>1, <3>2
  <2> QED
    BY <1>2, <2>1
<1>7. /\ \A m \in Links : m # v => w[m] = IF n \in u[m] THEN (u[m] \ {n}) \union {v} ELSE u[m]
      /\ w[v] = (u[n] \ {n}) \union {v}
      /\ n \in u[n]
  <2>1. n \in u[n]
    BY <1>2, KidFacts, SideFacts DEF Side
  <2> QED
    BY <2>1 DEF Renamed, Links
<1> HIDE DEF d, p, side, w
<1>8. ASSUME NEW m \in S, m # n, NEW z \in Side
      PROVE  d.child[m][z] = new(t.child[m][z])
  <2>1. CASE m = p /\ z = side
    BY <1>2, <1>3, <1>5, <2>1
  <2>2. CASE ~(m = p /\ z = side)
    <3>1. t.child[m][z] # n
      BY <1>2, <1>5, <1>6, <2>2
    <3> QED
      BY <1>2, <1>3, <2>2, <3>1
  <2> QED
    BY <2>1, <2>2
<1>9. ASSUME NEW z \in Side
      PROVE  d.child[v][z] = new(t.child[n][z])
  <2>1. p # v
    BY <1>2, <1>5
  <2> QED
    BY <1>2, <1>3, <1>6, <2>1
<1>10. ASSUME NEW c \in S \union {NULL}
       PROVE  /\ AvlHeight(d, new(c)) = AvlHeight(t, c) /\ AvlCnt(d, new(c)) = AvlCnt(t, c)
              /\ w[new(c)] = IF n \in u[c] THEN (u[c] \ {n}) \union {v} ELSE u[c]
  <2>1. CASE c = n
    BY <1>2, <1>3, <1>7, <2>1 DEF AvlHeight, AvlCnt
  <2>2. CASE c # n
    <3>1. c \in Links /\ c # v /\ new(c) = c
      BY <1>2, <2>2 DEF Links
    <3> QED
      BY <1>2, <1>3, <1>7, <3>1 DEF AvlHeight, AvlCnt
  <2> QED
    BY <2>1, <2>2
<1> HIDE DEF new
<1>11. ASSUME NEW m \in T
       PROVE  \E a \in S : /\ (m = v /\ a = n) \/ (m # v /\ a = m /\ a # n)
                           /\ \A z \in Side : d.child[m][z] = new(t.child[a][z])
                           /\ d.height[m] = t.height[a] /\ d.cnt[m] = t.cnt[a]
  <2>1. CASE m = v
    BY <1>3, <1>9, <2>1
  <2>2. CASE m # v
    <3>1. m \in S /\ m # n /\ m \in Node
      BY <1>2, <2>2
    <3> QED
      BY <1>3, <1>8, <2>2, <3>1
  <2> QED
    BY <2>1, <2>2
<1>12. ASSUME NEW m \in T
       PROVE  Sound(d, m)
  <2>1. PICK a \in S : /\ \A z \in Side : d.child[m][z] = new(t.child[a][z])
                       /\ d.height[m] = t.height[a] /\ d.cnt[m] = t.cnt[a]
    BY <1>11
  <2>2. ASSUME NEW z \in Side
        PROVE  /\ AvlHeight(d, d.child[m][z]) = AvlHeight(t, t.child[a][z])
               /\ AvlCnt(d, d.child[m][z]) = AvlCnt(t, t.child[a][z])
    BY <1>6, <1>10, <2>1
  <2>3. ASSUME NEW z \in Side
        PROVE  /\ AvlHeight(d, d.child[m][Opp(z)]) = AvlHeight(t, t.child[a][Opp(z)])
               /\ AvlCnt(d, d.child[m][Opp(z)]) = AvlCnt(t, t.child[a][Opp(z)])
    BY <2>2, SideFacts
  <2>4. Sound(t, a)
    BY <1>2
  <2> QED
    BY <2>1, <2>2, <2>3, <2>4 DEF Sound
<1>13. Sorted(d, T, w, R)
  <2> SUFFICES ASSUME NEW m \in T, NEW z \in Side, NEW y \in w[d.child[m][z]]
               PROVE  On(R, z, y, m)
    BY DEF Sorted
  <2>1. PICK a \in S : /\ (m = v /\ a = n) \/ (m # v /\ a = m /\ a # n)
                       /\ \A e \in Side : d.child[m][e] = new(t.child[a][e])
    BY <1>11
  <2> DEFINE c == t.child[a][z]
  <2>2. c \in S \union {NULL} /\ d.child[m][z] = new(c) /\ u[c] \subseteq S /\ (a = n => a \notin u[c])
    BY <1>2, <1>6, <2>1, KidFacts
  <2>3. y \in IF n \in u[c] THEN (u[c] \ {n}) \union {v} ELSE u[c]
    <3> HIDE DEF c
    <3> QED
      BY <1>10, <2>2
  <2>4. \A x \in u[c] : On(R, z, x, a)
    BY <1>2 DEF Sorted
  <2> HIDE DEF c
  <2>5. ASSUME NEW x \in S, x # n
        PROVE  /\ On(R, z, x, n) <=> On(R, z, x, v)
               /\ On(R, z, n, x) <=> On(R, z, v, x)
    BY <2>5 DEF On
  <2>6. CASE m = v
    <3>1. a = n /\ y \in u[c] /\ y # n /\ y \in S
      BY <2>1, <2>2, <2>3, <2>6
    <3> QED
      BY <2>4, <2>5, <2>6, <3>1
  <2>7. CASE m # v
    <3>1. a = m /\ m # n
      BY <2>1, <2>7
    <3>2. CASE y \in u[c]
      BY <2>4, <3>1, <3>2
    <3>3. CASE y = v /\ n \in u[c]
      BY <2>4, <2>5, <3>1, <3>3
    <3> QED
      BY <2>3, <3>2, <3>3
  <2> QED
    BY <2>6, <2>7
<1>14. top \in T /\ w[top] = T
  <2>1. CASE p = NULL
    <3>1. u[n] = S
      <4>1. r = n
        BY <1>1, <1>2, <2>1, RootFacts DEF p
      <4> QED
        BY <1>1, <4>1
    <3> QED
      BY <1>7, <2>1, <3>1
  <2>2. CASE p # NULL
    <3>1. r # n
      BY <1>1, <1>2, <2>2, RootFacts DEF p
    <3>2. r # v /\ r \in Links /\ n \in u[r]
      BY <1>1, <1>2 DEF Links
    <3> QED
      BY <1>1, <1>2, <1>7, <2>2, <3>1, <3>2
  <2> QED
    BY <2>1, <2>2
<1>15. Tree(d, T, w, R)
  BY <1>3, <1>4, <1>13, <1>14 DEF Tree, Rooted
<1>16. Elsewhere(t, d, S \union {v})
  <2> SUFFICES ASSUME NEW m \in Node, m \notin S, m # v
               PROVE  /\ d.parent[m] = t.parent[m] /\ d.height[m] = t.height[m]
                      /\ d.cnt[m] = t.cnt[m]
                      /\ \A z \in Side : d.child[m][z] = t.child[m][z]
    BY DEF Elsewhere
  <2>1. m # p /\ ~\E z \in Side : m = t.child[n][z]
    BY <1>2, <1>5, <1>6
  <2> QED
    BY <1>3, <2>1
<1> HIDE DEF T, top
<1>17. Maintained(d, top, T, R)
  BY <1>12, <1>14, <1>15 DEF Maintained
<1> QED
  BY <1>16, <1>17 DEF d, top, T, p

(* avl_del, successor swap included, answers the root of a tree with the    *)
(* other members, balanced and in the same order; nodes of no tree are left *)
(* as they were.                                                            *)
THEOREM AvlDelBalances ==
  ASSUME NEW t, NEW S, NEW R, NEW r, Maintained(t, r, S, R), Order(S, R), NEW n \in S
  PROVE  LET d == AvlDel(t, n)
         IN  /\ Elsewhere(t, d.t, S) /\ d.t \in Trees
             /\ S # {n} => Maintained(d.t, d.top, S \ {n}, R)
             /\ S = {n} => d.top = NULL
<1>1. PICK u : Tree(t, S, u, R) /\ u[r] = S
  BY DEF Maintained
<1>2. /\ t \in Trees /\ Shape(t, S, u) /\ S \subseteq Node /\ NULL \notin Node
      /\ "left" \in Side /\ "right" \in Side
  BY <1>1, NodeAssumption DEF Tree, Shape, Side
<1>3. ASSUME NEW k \in Side, t.child[n][k] = NULL
      PROVE  LET d == AvlDel(t, n)
             IN  /\ Elsewhere(t, d.t, S) /\ d.t \in Trees
                 /\ S # {n} => Maintained(d.t, d.top, S \ {n}, R)
                 /\ S = {n} => d.top = NULL
  <2> DEFINE d == AvlDelEasy(t, n)
  <2>1. AvlDel(t, n) = d
    BY <1>3 DEF AvlDel, Side
  <2>2. /\ Elsewhere(t, d.t, S \ {n}) /\ d.t \in Trees
        /\ S # {n} => Maintained(d.t, d.top, S \ {n}, R)
        /\ S = {n} => d.top = NULL
    BY <1>3, DelEasyBalances
  <2> HIDE DEF d
  <2>3. Elsewhere(t, d.t, S)
    BY <2>2 DEF Elsewhere
  <2> QED
    BY <2>1, <2>2, <2>3
<1>4. CASE t.child[n]["left"] # NULL /\ t.child[n]["right"] # NULL
  <2> DEFINE v == Leftmost(t, t.child[n]["right"])
             d == AvlDelEasy(t, v)
             e == TakePlace(d.t, v, n)
             top == IF d.t.parent[n] = NULL THEN v ELSE d.top
             T == S \ {v}
  <2>1. AvlDel(t, n) = [t |-> e, top |-> top]
    BY <1>4 DEF AvlDel
  <2>2. /\ v \in S /\ v # n /\ t.parent[v] # NULL /\ t.child[v]["left"] = NULL
        /\ \A m \in S : m # n /\ m # v => (<<m, n>> \in R <=> <<m, v>> \in R)
    BY <1>1, <1>4, Successor
  <2> HIDE DEF v
  <2>3. Elsewhere(t, d.t, T) /\ Maintained(d.t, d.top, T, R)
    BY <1>2, <2>2, DelEasyBalances
  <2> HIDE DEF d
  <2>4. \A m \in T : m # n => /\ <<m, n>> \in R <=> <<m, v>> \in R
                              /\ <<n, m>> \in R <=> <<v, m>> \in R
    <3> SUFFICES ASSUME NEW m \in T, m # n
                 PROVE  /\ <<m, n>> \in R <=> <<m, v>> \in R
                        /\ <<n, m>> \in R <=> <<v, m>> \in R
      OBVIOUS
    <3>1. /\ <<m, n>> \in R <=> ~(<<n, m>> \in R)
          /\ <<m, v>> \in R <=> ~(<<v, m>> \in R)
      BY <2>2 DEF Order
    <3> QED
      BY <2>2, <3>1
  <2>5. n \in T /\ v \in Node \ T /\ (T \ {n}) \union {v} = S \ {n} /\ T \union {v} = S
    BY <1>2, <2>2
  <2> HIDE DEF T
  <2>6. Maintained(e, top, S \ {n}, R) /\ Elsewhere(d.t, e, S)
    <3>1. Maintained(e, top, (T \ {n}) \union {v}, R) /\ Elsewhere(d.t, e, T \union {v})
      BY <2>3, <2>4, <2>5, TakePlaceKeeps
    <3> HIDE DEF e, top
    <3> QED
      BY <2>5, <3>1
  <2> HIDE DEF e, top
  <2>7. e \in Trees /\ S # {n}
    BY <2>2, <2>6 DEF Maintained, Tree
  <2>8. Elsewhere(t, e, S)
    BY <2>3, <2>6 DEF Elsewhere, T
  <2> QED
    BY <2>1, <2>6, <2>7, <2>8
<1> QED
  BY <1>2, <1>3, <1>4

-----------------------------------------------------------------------------
(* What the fields should say, and do. *)

\* Every node outside the tree is as avl_init leaves it.
Spare(t, S) == \A m \in Node \ S : Idle(t, m)

LEMMA UnderOf ==
  ASSUME NEW t, NEW S, NEW u, Shape(t, S, u), Spare(t, S)
  PROVE  Under(t)[NULL] = {} /\ \A m \in S : Under(t)[m] = u[m]
<1> DEFINE Step(f) == [m \in Links |->
                         IF m = NULL THEN {}
                         ELSE {m} \union f[t.child[m]["left"]] \union f[t.child[m]["right"]]]
           w == [m \in Links |-> IF m \in S THEN u[m] ELSE IF m = NULL THEN {} ELSE {m}]
           f == Under(t)
<1>1. /\ S \subseteq Node /\ NULL \notin Node /\ u[NULL] = {} /\ NULL \in Links
      /\ "left" \in Side /\ "right" \in Side /\ Opp("left") = "right"
  BY NodeAssumption DEF Shape, Side, Opp, Links
<1>2. w = Step(w)
  <2> SUFFICES ASSUME NEW m \in Links PROVE w[m] = Step(w)[m]
    OBVIOUS
  <2>1. CASE m = NULL
    BY <1>1, <2>1
  <2>2. CASE m \in S
    <3>1. /\ t.child[m]["left"] \in S \union {NULL} /\ t.child[m]["right"] \in S \union {NULL}
          /\ u[m] = {m} \union u[t.child[m]["left"]] \union u[t.child[m]["right"]]
      BY <1>1, <2>2 DEF Shape
    <3>2. \A c \in S \union {NULL} : w[c] = u[c]
      BY <1>1 DEF Links
    <3> QED
      BY <1>1, <2>2, <3>1, <3>2
  <2>3. CASE m \notin S /\ m # NULL
    <3>1. t.child[m]["left"] = NULL /\ t.child[m]["right"] = NULL
      BY <1>1, <2>3 DEF Spare, Idle, Links
    <3> QED
      BY <1>1, <2>3, <3>1
  <2> QED
    BY <2>1, <2>2, <2>3
<1>3. f = CHOOSE h : h = Step(h)
  BY DEF Under, Links
<1>4. f = Step(f)
  BY <1>2, <1>3
<1> HIDE DEF f
<1>5. f[NULL] = {}
  BY <1>1, <1>4
<1> DEFINE T == {m \in S : f[m] = u[m]}
<1>6. ASSUME NEW m \in S, \A s \in Side : t.child[m][s] \in T \union {NULL}
      PROVE  m \in T
  <2>1. u[m] = {m} \union u[t.child[m]["left"]] \union u[t.child[m]["right"]]
    BY <1>1 DEF Shape
  <2>2. /\ f[t.child[m]["left"]] = u[t.child[m]["left"]]
        /\ f[t.child[m]["right"]] = u[t.child[m]["right"]]
    BY <1>1, <1>5, <1>6
  <2>3. f[m] = {m} \union f[t.child[m]["left"]] \union f[t.child[m]["right"]]
    BY <1>1, <1>4 DEF Links
  <2> QED
    BY <2>1, <2>2, <2>3
<1>7. T = S
  <2> HIDE DEF T
  <2>1. T \in SUBSET S
    BY DEF T
  <2> QED
    BY <1>6, <2>1, TreeInduction
<1> QED
  BY <1>5, <1>7 DEF f

LEMMA HeightOf ==
  ASSUME NEW t, NEW S, NEW u, Shape(t, S, u), Spare(t, S), t \in Trees,
         \A m \in S : Sound(t, m)
  PROVE  Height(t)[NULL] = 0 /\ \A m \in S : Height(t)[m] = t.height[m]
<1> DEFINE Step(f) == [m \in Links |->
                         IF m = NULL THEN 0
                         ELSE 1 + Larger(f[t.child[m]["left"]], f[t.child[m]["right"]])]
           w == [m \in Links |-> AvlHeight(t, m)]
           f == Height(t)
<1>1. /\ S \subseteq Node /\ NULL \notin Node /\ NULL \in Links
      /\ "left" \in Side /\ "right" \in Side /\ Opp("left") = "right"
  BY NodeAssumption DEF Shape, Side, Opp, Links
<1>2. AvlHeight(t, NULL) = 0 /\ \A m \in Node : AvlHeight(t, m) = t.height[m]
  BY <1>1 DEF AvlHeight
<1>3. \A m \in S : t.height[m] = 1 + Larger(AvlHeight(t, t.child[m]["left"]),
                                           AvlHeight(t, t.child[m]["right"]))
  BY <1>1 DEF Sound
<1>4. w = Step(w)
  <2> SUFFICES ASSUME NEW m \in Links PROVE w[m] = Step(w)[m]
    OBVIOUS
  <2>1. CASE m = NULL
    BY <1>1, <1>2, <2>1
  <2>2. CASE m \in S
    <3>1. t.child[m]["left"] \in Links /\ t.child[m]["right"] \in Links
      BY <1>1, <2>2, ChildIsLink
    <3> QED
      BY <1>1, <1>2, <1>3, <2>2, <3>1
  <2>3. CASE m \notin S /\ m # NULL
    <3>1. t.child[m]["left"] = NULL /\ t.child[m]["right"] = NULL /\ t.height[m] = 1
      BY <1>1, <2>3 DEF Spare, Idle, Links
    <3> QED
      BY <1>1, <1>2, <2>3, <3>1 DEF Larger, Links
  <2> QED
    BY <2>1, <2>2, <2>3
<1>5. f = CHOOSE h : h = Step(h)
  BY DEF Height, Links
<1>6. f = Step(f)
  BY <1>4, <1>5
<1> HIDE DEF f
<1>7. f[NULL] = 0
  BY <1>1, <1>6
<1> DEFINE T == {m \in S : f[m] = AvlHeight(t, m)}
<1>8. ASSUME NEW m \in S, \A s \in Side : t.child[m][s] \in T \union {NULL}
      PROVE  m \in T
  <2>1. /\ f[t.child[m]["left"]] = AvlHeight(t, t.child[m]["left"])
        /\ f[t.child[m]["right"]] = AvlHeight(t, t.child[m]["right"])
    BY <1>1, <1>2, <1>7, <1>8
  <2>2. f[m] = 1 + Larger(f[t.child[m]["left"]], f[t.child[m]["right"]])
    BY <1>1, <1>6 DEF Links
  <2> QED
    BY <1>1, <1>2, <1>3, <2>1, <2>2
<1>9. T = S
  <2> HIDE DEF T
  <2>1. T \in SUBSET S
    BY DEF T
  <2> QED
    BY <1>8, <2>1, TreeInduction
<1> QED
  BY <1>1, <1>2, <1>7, <1>9 DEF f

(* cnt is the size of a subtree. *)
LEMMA CntOf ==
  ASSUME NEW t, NEW S, NEW u, Shape(t, S, u), t \in Trees, \A m \in S : Sound(t, m)
  PROVE  \A c \in S \union {NULL} : AvlCnt(t, c) = Cardinality(u[c])
<1>1. /\ S \subseteq Node /\ NULL \notin Node /\ u[NULL] = {}
      /\ "left" \in Side /\ "right" \in Side /\ Opp("left") = "right"
  BY NodeAssumption DEF Shape, Side, Opp, Links
<1>2. AvlCnt(t, NULL) = 0 /\ Cardinality(u[NULL]) = 0
  BY <1>1, FS_EmptySet DEF AvlCnt
<1> DEFINE T == {m \in S : AvlCnt(t, m) = Cardinality(u[m])}
<1>3. ASSUME NEW m \in S, \A s \in Side : t.child[m][s] \in T \union {NULL}
      PROVE  m \in T
  <2> DEFINE A == u[t.child[m]["left"]]
             B == u[t.child[m]["right"]]
  <2>1. u[m] = {m} \union A \union B /\ m \notin A /\ A \intersect B = {}
    <3>1. \A s \in Side :
            /\ u[m] = {m} \union u[t.child[m][s]] \union u[t.child[m][Opp(s)]]
            /\ m \notin u[t.child[m][s]]
            /\ u[t.child[m][s]] \intersect u[t.child[m][Opp(s)]] = {}
      BY DEF Shape
    <3> QED
      BY <1>1, <3>1
  <2>2. m \notin B
    BY <1>1, KidFacts
  <2>3. A \in SUBSET Node /\ B \in SUBSET Node
    <3>1. A \subseteq u[m] /\ B \subseteq u[m] /\ u[m] \subseteq S
      BY <1>1, KidFacts
    <3> QED
      BY <1>1, <3>1
  <2>4. /\ AvlCnt(t, t.child[m]["left"]) = Cardinality(A)
        /\ AvlCnt(t, t.child[m]["right"]) = Cardinality(B)
    BY <1>1, <1>2, <1>3
  <2>5. AvlCnt(t, m) = 1 + AvlCnt(t, t.child[m]["left"]) + AvlCnt(t, t.child[m]["right"])
    BY <1>1 DEF Sound, AvlCnt
  <2> HIDE DEF A, B
  <2>6. /\ IsFiniteSet(A) /\ IsFiniteSet(B)
        /\ Cardinality(A) \in Nat /\ Cardinality(B) \in Nat
    BY <2>3, NodesFinite
  <2>7. IsFiniteSet(A \union B)
    BY <2>6, FS_Union
  <2>8. Cardinality(A \union B) = Cardinality(A) + Cardinality(B)
    <3>1. Cardinality(A \intersect B) = 0
      BY <2>1, FS_EmptySet
    <3>2. Cardinality(A \union B) =
            Cardinality(A) + Cardinality(B) - Cardinality(A \intersect B)
      BY <2>6, FS_Union
    <3> QED
      BY <2>6, <3>1, <3>2
  <2>9. Cardinality((A \union B) \union {m}) = Cardinality(A \union B) + 1
    BY <2>1, <2>2, <2>7, FS_AddElement
  <2>10. u[m] = (A \union B) \union {m}
    BY <2>1
  <2>11. Cardinality(u[m]) = (Cardinality(A) + Cardinality(B)) + 1
    BY <2>8, <2>9, <2>10
  <2>12. AvlCnt(t, m) = 1 + Cardinality(A) + Cardinality(B)
    BY <2>4, <2>5
  <2> QED
    BY <2>6, <2>11, <2>12
<1>4. T = S
  <2> HIDE DEF T
  <2>1. T \in SUBSET S
    BY DEF T
  <2> QED
    BY <1>3, <2>1, TreeInduction
<1> QED
  BY <1>2, <1>4

(* A tree is maintained whatever happens to the other nodes, and in every   *)
(* order that agrees on its nodes.                                          *)
LEMMA Undisturbed ==
  ASSUME NEW t, NEW r, NEW S, NEW R, Maintained(t, r, S, R),
         NEW d \in Trees, Elsewhere(t, d, Node \ S)
  PROVE  Maintained(d, r, S, R)
<1>1. PICK v : Tree(t, S, v, R) /\ v[r] = S
  BY DEF Maintained
<1>2. /\ t \in Trees /\ Shape(t, S, v) /\ Sorted(t, S, v, R) /\ Rooted(S, v) /\ r \in S
      /\ S \subseteq Node /\ NULL \notin Node /\ \A m \in S : Sound(t, m)
  BY <1>1, NodeAssumption DEF Tree, Maintained, Shape
<1>3. \A m \in S : /\ d.parent[m] = t.parent[m] /\ d.height[m] = t.height[m]
                   /\ d.cnt[m] = t.cnt[m] /\ \A z \in Side : d.child[m][z] = t.child[m][z]
  BY <1>2 DEF Elsewhere
<1>4. Shape(d, S, v)
  <2>1. \A n \in S, s \in Side :
          LET c == d.child[n][s]
              e == d.child[n][Opp(s)]
          IN /\ c \in S \union {NULL}
             /\ v[n] = {n} \union v[c] \union v[e]
             /\ n \notin v[c] /\ v[c] \intersect v[e] = {}
             /\ c # NULL => d.parent[c] = n
    <3> SUFFICES ASSUME NEW n \in S, NEW s \in Side
                 PROVE  LET c == t.child[n][s]
                            e == t.child[n][Opp(s)]
                        IN /\ c \in S \union {NULL}
                           /\ v[n] = {n} \union v[c] \union v[e]
                           /\ n \notin v[c] /\ v[c] \intersect v[e] = {}
                           /\ c # NULL => d.parent[c] = n
      BY <1>3, SideFacts
    <3>1. t.child[n][s] \in S \union {NULL}
      BY <1>2 DEF Shape
    <3>2. t.child[n][s] # NULL => d.parent[t.child[n][s]] = t.parent[t.child[n][s]]
      BY <1>3, <3>1
    <3> QED
      BY <1>2, <3>1, <3>2 DEF Shape
  <2>2. \A n \in S : LET p == d.parent[n]
                    IN p # NULL => p \in S /\ \E s \in Side : d.child[p][s] = n
    <3>1. \A n \in S : LET p == t.parent[n]
                      IN p # NULL => p \in S /\ \E s \in Side : t.child[p][s] = n
      BY <1>2 DEF Shape
    <3> QED
      BY <1>3, <3>1
  <2>3. v \in [Links -> SUBSET S] /\ v[NULL] = {}
    BY <1>2 DEF Shape
  <2> QED
    BY <1>2, <2>1, <2>2, <2>3 DEF Shape
<1>5. Sorted(d, S, v, R)
  BY <1>2, <1>3 DEF Sorted
<1>6. ASSUME NEW m \in S PROVE Sound(d, m)
  <2>1. \A z \in Side : t.child[m][z] \in S \union {NULL}
    BY <1>2 DEF Shape
  <2>2. \A c \in S \union {NULL} : AvlHeight(d, c) = AvlHeight(t, c) /\ AvlCnt(d, c) = AvlCnt(t, c)
    BY <1>3 DEF AvlHeight, AvlCnt
  <2>3. Sound(t, m)
    BY <1>2
  <2>4. SUFFICES ASSUME NEW z \in Side
                 PROVE  LET c == d.child[m][z]
                            e == d.child[m][Opp(z)]
                        IN /\ d.height[m] = 1 + Larger(AvlHeight(d, c), AvlHeight(d, e))
                           /\ AvlHeight(d, c) - AvlHeight(d, e) \in -1 .. 1
                           /\ d.cnt[m] = 1 + AvlCnt(d, c) + AvlCnt(d, e)
    BY DEF Sound
  <2> DEFINE c == t.child[m][z]
             e == t.child[m][Opp(z)]
  <2>5. c \in S \union {NULL} /\ e \in S \union {NULL}
    BY <2>1, SideFacts
  <2>6. d.child[m][z] = c /\ d.child[m][Opp(z)] = e
    BY <1>3, SideFacts
  <2>7. /\ t.height[m] = 1 + Larger(AvlHeight(t, c), AvlHeight(t, e))
        /\ AvlHeight(t, c) - AvlHeight(t, e) \in -1 .. 1
        /\ t.cnt[m] = 1 + AvlCnt(t, c) + AvlCnt(t, e)
    BY <2>3 DEF Sound
  <2> HIDE DEF c, e
  <2> QED
    BY <1>3, <2>2, <2>5, <2>6, <2>7
<1> QED
  BY <1>1, <1>2, <1>4, <1>5, <1>6 DEF Maintained, Tree

LEMMA Reordered ==
  ASSUME NEW t, NEW r, NEW S, NEW R, Maintained(t, r, S, R),
         NEW Q, \A m, n \in S : <<m, n>> \in R <=> <<m, n>> \in Q
  PROVE  Maintained(t, r, S, Q)
<1>1. PICK v : Tree(t, S, v, R) /\ v[r] = S
  BY DEF Maintained
<1>2. Shape(t, S, v) /\ Sorted(t, S, v, R)
  BY <1>1 DEF Tree
<1>3. ASSUME NEW n \in S, NEW s \in Side, NEW m \in v[t.child[n][s]]
      PROVE  On(Q, s, m, n)
  <2>1. m \in S
    BY <1>2, <1>3, KidFacts
  <2> QED
    BY <1>2, <1>3, <2>1 DEF Sorted, On
<1>4. Sorted(t, S, v, Q)
  BY <1>3 DEF Sorted
<1> QED
  BY <1>1, <1>4 DEF Maintained, Tree

LEMMA InitReads ==
  ASSUME NEW t \in Trees, NEW n \in Node
  PROVE  LET d == AvlInit(t, n)
         IN d \in Trees /\ Idle(d, n) /\ Elsewhere(t, d, {n})
<1> DEFINE d == AvlInit(t, n)
<1>1. NULL \in Links /\ [s \in Side |-> NULL] \in [Side -> Links]
  BY DEF Links
<1>2. d \in Trees
  <2> DEFINE e == [s \in Side |-> NULL]
  <2>1. d = [t EXCEPT !.child[n] = e, !.parent[n] = NULL, !.height[n] = 1, !.cnt[n] = 1]
    BY DEF AvlInit
  <2> HIDE DEF d, e
  <2>2. e \in [Side -> Links]
    BY <1>1 DEF e
  <2>3. d.child = [t.child EXCEPT ![n] = e] /\ d.parent = [t.parent EXCEPT ![n] = NULL]
    BY <2>1 DEF Trees
  <2>4. d.height = [t.height EXCEPT ![n] = 1] /\ d.cnt = [t.cnt EXCEPT ![n] = 1]
    BY <2>1 DEF Trees
  <2>5. /\ d.child \in [Node -> [Side -> Links]] /\ d.parent \in [Node -> Links]
        /\ d.height \in [Node -> Nat \ {0}] /\ d.cnt \in [Node -> Nat \ {0}]
    BY <1>1, <2>2, <2>3, <2>4 DEF Trees
  <2>6. d = [child |-> d.child, parent |-> d.parent, height |-> d.height, cnt |-> d.cnt]
    BY <2>1 DEF Trees
  <2> QED
    BY <2>5, <2>6 DEF Trees
<1>3. Idle(d, n)
  BY DEF AvlInit, Idle, Trees
<1>4. Elsewhere(t, d, {n})
  BY DEF AvlInit, Elsewhere, Trees
<1> QED
  BY <1>2, <1>3, <1>4

-----------------------------------------------------------------------------
(* Places in the order. *)

\* The nodes on side s of n.
Beyond(S, R, s, n) == {m \in S : On(R, s, m, n)}

\* How many nodes are before n.
Pos(S, R, n) == Cardinality(Beyond(S, R, "left", n))

LEMMA PosSplits ==
  ASSUME NEW S \in SUBSET Node, NEW R, Order(S, R), NEW n \in S
  PROVE  /\ Pos(S, R, n) \in Nat /\ Cardinality(Beyond(S, R, "right", n)) \in Nat
         /\ Pos(S, R, n) + Cardinality(Beyond(S, R, "right", n)) + 1 = Cardinality(S)
<1> DEFINE A == Beyond(S, R, "left", n)
           B == Beyond(S, R, "right", n)
<1>1. "left" \in Side /\ Opp("left") = "right"
  BY DEF Side, Opp
<1>2. A \in SUBSET Node /\ B \in SUBSET Node
  BY DEF Beyond
<1>3. n \notin A /\ n \notin B
  BY DEF Beyond, On, Order
<1>4. A \intersect B = {}
  BY <1>1, OnFacts DEF Beyond
<1>5. S = (A \union B) \union {n}
  BY <1>1, OnFacts DEF Beyond
<1> HIDE DEF A, B
<1>6. /\ IsFiniteSet(A) /\ IsFiniteSet(B)
      /\ Cardinality(A) \in Nat /\ Cardinality(B) \in Nat
  BY <1>2, NodesFinite
<1>7. IsFiniteSet(A \union B)
  BY <1>6, FS_Union
<1>8. Cardinality(A \union B) = Cardinality(A) + Cardinality(B)
  <2>1. Cardinality(A \intersect B) = 0
    BY <1>4, FS_EmptySet
  <2>2. Cardinality(A \union B) =
          Cardinality(A) + Cardinality(B) - Cardinality(A \intersect B)
    BY <1>6, FS_Union
  <2> QED
    BY <1>6, <2>1, <2>2
<1>9. Cardinality((A \union B) \union {n}) = Cardinality(A \union B) + 1
  BY <1>3, <1>7, FS_AddElement
<1>10. Cardinality(S) = Cardinality(A) + Cardinality(B) + 1
  BY <1>5, <1>8, <1>9
<1> QED
  BY <1>6, <1>10 DEF A, B, Pos

LEMMA PosBounded ==
  ASSUME NEW S \in SUBSET Node, NEW R, Order(S, R), NEW n \in S
  PROVE  Pos(S, R, n) \in Nat /\ Pos(S, R, n) < Cardinality(S)
<1>1. /\ Pos(S, R, n) \in Nat /\ Cardinality(Beyond(S, R, "right", n)) \in Nat
      /\ Pos(S, R, n) + Cardinality(Beyond(S, R, "right", n)) + 1 = Cardinality(S)
  BY PosSplits
<1>2. Cardinality(S) \in Nat
  BY NodesFinite
<1> QED
  BY <1>1, <1>2

(* Beyond the root there is its subtree of that side. *)
LEMMA RootBeyond ==
  ASSUME NEW t, NEW S, NEW u, NEW R, Tree(t, S, u, R), Order(S, R),
         NEW r \in S, u[r] = S, NEW s \in Side
  PROVE  Beyond(S, R, s, r) = u[t.child[r][s]]
<1>1. Shape(t, S, u) /\ Sorted(t, S, u, R)
  BY DEF Tree
<1>2. \A m \in S : m = r \/ m \in u[t.child[r][s]] \/ m \in u[t.child[r][Opp(s)]]
  BY <1>1, KidFacts
<1>3. u[t.child[r][s]] \subseteq S
  BY <1>1, KidFacts
<1>4. \A m \in u[t.child[r][s]] : On(R, s, m, r)
  BY <1>1 DEF Sorted
<1>5. \A m \in u[t.child[r][Opp(s)]] : On(R, Opp(s), m, r)
  BY <1>1, SideFacts DEF Sorted
<1>6. \A m \in u[t.child[r][Opp(s)]] : m \in S /\ ~On(R, s, m, r)
  <2>1. u[t.child[r][Opp(s)]] \subseteq S
    BY <1>1, SideFacts, KidFacts
  <2> QED
    BY <1>5, <2>1, OnFacts
<1>7. ~On(R, s, r, r)
  BY OnFacts
<1> QED
  BY <1>2, <1>3, <1>4, <1>6, <1>7 DEF Beyond

(* Between a node and its child c there is what hangs from c on the inside. *)
LEMMA KidBeyond ==
  ASSUME NEW t, NEW S, NEW u, NEW R, Tree(t, S, u, R), Order(S, R),
         NEW p \in S, NEW s \in Side, t.child[p][s] # NULL
  PROVE  LET c == t.child[p][s]
             i == u[t.child[c][Opp(s)]]
         IN  /\ Beyond(S, R, Opp(s), c) = (Beyond(S, R, Opp(s), p) \union {p}) \union i
             /\ i \intersect (Beyond(S, R, Opp(s), p) \union {p}) = {}
             /\ i \in SUBSET Node /\ p \notin Beyond(S, R, Opp(s), p)
<1> DEFINE c == t.child[p][s]
           o == Opp(s)
           i == u[t.child[c][o]]
<1>1. Shape(t, S, u) /\ Sorted(t, S, u, R) /\ S \subseteq Node /\ o \in Side /\ Opp(o) = s
  BY SideFacts DEF Tree, Shape
<1>2. /\ c \in S /\ c # p /\ c \in u[p] /\ u[c] \subseteq u[p] /\ p \in u[p] /\ u[p] \subseteq S
      /\ p \notin u[c] /\ \A m \in u[p] : m = p \/ m \in u[c] \/ m \in u[t.child[p][o]]
  BY <1>1, KidFacts
<1>3. /\ \A m \in u[c] : m = c \/ m \in u[t.child[c][s]] \/ m \in i
      /\ i \subseteq u[c] /\ c \in u[c]
  <2>1. /\ \A m \in u[c] : m = c \/ m \in u[t.child[c][s]] \/ m \in u[t.child[c][Opp(s)]]
        /\ c \in u[c]
    BY <1>1, <1>2, KidFacts
  <2>2. u[t.child[c][o]] \subseteq u[c]
    BY <1>1, <1>2, KidFacts
  <2> QED
    BY <2>1, <2>2
<1>4. /\ \A m \in u[c] : On(R, s, m, p)
      /\ \A m \in u[t.child[p][o]] : On(R, o, m, p)
      /\ \A m \in u[t.child[c][s]] : On(R, s, m, c)
      /\ \A m \in i : On(R, o, m, c)
  BY <1>1, <1>2 DEF Sorted
<1>5. /\ \A a, b \in S : On(R, o, a, b) <=> On(R, s, b, a)
      /\ \A a, b, d \in S : On(R, o, a, b) /\ On(R, o, b, d) => On(R, o, a, d)
      /\ \A a \in S : ~On(R, o, a, a)
      /\ \A a, b \in S : On(R, s, a, b) => ~On(R, o, a, b)
  BY <1>1, OnFacts
<1> HIDE DEF c, o, i
<1>6. ASSUME NEW m \in S \ u[p] PROVE On(R, o, m, c) <=> On(R, o, m, p)
  <2>1. PICK z \in Side : \A x \in u[p] : On(R, z, x, m)
    BY Aside
  <2>2. On(R, z, c, m) /\ On(R, z, p, m)
    BY <1>2, <2>1
  <2>3. z = s \/ z = o
    BY SideFacts DEF o
  <2> QED
    BY <1>2, <1>5, <2>2, <2>3
<1>7. ASSUME NEW m \in S
      PROVE  On(R, o, m, c) <=> On(R, o, m, p) \/ m = p \/ m \in i
  <2>1. CASE m \notin u[p]
    BY <1>2, <1>3, <1>6, <2>1
  <2>2. CASE m = p
    BY <1>2, <1>3, <1>4, <1>5, <2>2
  <2>3. CASE m \in u[t.child[p][o]]
    BY <1>2, <1>3, <1>4, <1>5, <2>3
  <2>4. CASE m \in u[c]
    <3>1. ~On(R, o, m, p) /\ m # p
      BY <1>2, <1>4, <1>5, <2>4
    <3>2. On(R, o, m, c) <=> m \in i
      BY <1>2, <1>3, <1>4, <1>5, <2>4
    <3> QED
      BY <3>1, <3>2
  <2> QED
    BY <1>2, <2>1, <2>2, <2>3, <2>4
<1>8. Beyond(S, R, o, c) = (Beyond(S, R, o, p) \union {p}) \union i
  <2>1. i \subseteq S /\ p \in S
    BY <1>2, <1>3
  <2> QED
    BY <1>7, <2>1 DEF Beyond
<1>9. i \intersect (Beyond(S, R, o, p) \union {p}) = {}
  BY <1>2, <1>3, <1>4, <1>5 DEF Beyond
<1>10. i \in SUBSET Node /\ p \notin Beyond(S, R, o, p)
  BY <1>1, <1>2, <1>3, <1>5 DEF Beyond
<1> QED
  BY <1>8, <1>9, <1>10 DEF c, o, i

LEMMA KidCounts ==
  ASSUME NEW t, NEW S, NEW u, NEW R, Tree(t, S, u, R), Order(S, R),
         NEW p \in S, NEW s \in Side, t.child[p][s] # NULL
  PROVE  Cardinality(Beyond(S, R, Opp(s), t.child[p][s])) =
           Cardinality(Beyond(S, R, Opp(s), p)) + 1
             + Cardinality(u[t.child[t.child[p][s]][Opp(s)]])
<1> DEFINE A == Beyond(S, R, Opp(s), p)
           i == u[t.child[t.child[p][s]][Opp(s)]]
<1>1. /\ Beyond(S, R, Opp(s), t.child[p][s]) = (A \union {p}) \union i
      /\ i \intersect (A \union {p}) = {} /\ i \in SUBSET Node /\ p \notin A
  BY KidBeyond
<1>2. A \in SUBSET Node
  BY DEF Beyond, Tree, Shape
<1> HIDE DEF A, i
<1>3. /\ IsFiniteSet(A) /\ IsFiniteSet(i)
      /\ Cardinality(A) \in Nat /\ Cardinality(i) \in Nat
  BY <1>1, <1>2, NodesFinite
<1>4. IsFiniteSet(A \union {p}) /\ Cardinality(A \union {p}) = Cardinality(A) + 1
  BY <1>1, <1>3, FS_AddElement
<1>5. Cardinality((A \union {p}) \intersect i) = 0
  <2>1. (A \union {p}) \intersect i = {}
    BY <1>1
  <2> QED
    BY <2>1, FS_EmptySet
<1>6. Cardinality((A \union {p}) \union i) =
        Cardinality(A \union {p}) + Cardinality(i) - Cardinality((A \union {p}) \intersect i)
  BY <1>3, <1>4, FS_Union
<1>7. Cardinality((A \union {p}) \union i) = Cardinality(A) + 1 + Cardinality(i)
  BY <1>3, <1>4, <1>5, <1>6
<1> QED
  BY <1>1, <1>7 DEF A, i

(* The steps of avl_offset change the position by what they pass.           *)
LEMMA WalkPlaces ==
  ASSUME NEW t, NEW S, NEW u, NEW R, Tree(t, S, u, R), Order(S, R),
         \A m \in S : Sound(t, m), NEW y \in S
  PROVE  /\ t.child[y]["right"] # NULL =>
              Pos(S, R, t.child[y]["right"]) =
                Pos(S, R, y) + AvlCnt(t, t.child[t.child[y]["right"]]["left"]) + 1
         /\ t.child[y]["left"] # NULL =>
              Pos(S, R, y) =
                Pos(S, R, t.child[y]["left"])
                  + AvlCnt(t, t.child[t.child[y]["left"]]["right"]) + 1
         /\ u[y] = S => /\ Pos(S, R, y) = AvlCnt(t, t.child[y]["left"])
                        /\ Cardinality(S) = Pos(S, R, y) + 1 + AvlCnt(t, t.child[y]["right"])
         /\ AvlCnt(t, y) = 1 + AvlCnt(t, t.child[y]["left"]) + AvlCnt(t, t.child[y]["right"])
<1>1. /\ Shape(t, S, u) /\ t \in Trees /\ S \in SUBSET Node /\ NULL \notin Node
      /\ "left" \in Side /\ "right" \in Side /\ Opp("left") = "right" /\ Opp("right") = "left"
  BY NodeAssumption DEF Tree, Shape, Side, Opp
<1>2. \A c \in S \union {NULL} : AvlCnt(t, c) = Cardinality(u[c])
  BY <1>1, CntOf
<1>3. \A m \in S, s \in Side : t.child[m][s] \in S \union {NULL}
  BY <1>1 DEF Shape
<1>4. \A m \in S : /\ Pos(S, R, m) \in Nat /\ Cardinality(Beyond(S, R, "right", m)) \in Nat
                   /\ Pos(S, R, m) + Cardinality(Beyond(S, R, "right", m)) + 1 = Cardinality(S)
  BY <1>1, PosSplits
<1>5. Cardinality(S) \in Nat /\ \A c \in S \union {NULL} : AvlCnt(t, c) \in Nat
  <2>1. Cardinality(S) \in Nat
    BY <1>1, NodesFinite
  <2>2. \A c \in S \union {NULL} : c \in Links
    BY <1>1 DEF Links
  <2> QED
    BY <1>1, <2>1, <2>2, HeightsAreNumbers
<1>6. ASSUME t.child[y]["right"] # NULL
      PROVE  Pos(S, R, t.child[y]["right"]) =
                Pos(S, R, y) + AvlCnt(t, t.child[t.child[y]["right"]]["left"]) + 1
  <2> DEFINE c == t.child[y]["right"]
             i == t.child[c]["left"]
  <2>1. c \in S /\ i \in S \union {NULL}
    BY <1>1, <1>3, <1>6
  <2>2. Pos(S, R, c) = Pos(S, R, y) + 1 + Cardinality(u[i])
    BY <1>1, <1>6, KidCounts DEF Pos
  <2> HIDE DEF c, i
  <2>3. Pos(S, R, c) = Pos(S, R, y) + AvlCnt(t, i) + 1
    BY <1>2, <1>4, <1>5, <2>1, <2>2
  <2> QED
    BY <2>3 DEF c, i
<1>7. ASSUME t.child[y]["left"] # NULL
      PROVE  Pos(S, R, y) = Pos(S, R, t.child[y]["left"])
                  + AvlCnt(t, t.child[t.child[y]["left"]]["right"]) + 1
  <2> DEFINE c == t.child[y]["left"]
             i == t.child[c]["right"]
             B(m) == Cardinality(Beyond(S, R, "right", m))
  <2>1. c \in S /\ i \in S \union {NULL}
    BY <1>1, <1>3, <1>7
  <2>2. B(c) = B(y) + 1 + Cardinality(u[i])
    BY <1>1, <1>7, KidCounts
  <2>3. Cardinality(u[i]) = AvlCnt(t, i) /\ AvlCnt(t, i) \in Nat
    BY <1>2, <1>5, <2>1
  <2>4. /\ B(c) \in Nat /\ B(y) \in Nat
        /\ Pos(S, R, c) + B(c) + 1 = Cardinality(S)
        /\ Pos(S, R, y) + B(y) + 1 = Cardinality(S)
        /\ Pos(S, R, c) \in Nat /\ Pos(S, R, y) \in Nat
    BY <1>4, <2>1
  <2> HIDE DEF c, i, B
  <2>5. Pos(S, R, y) = Pos(S, R, c) + AvlCnt(t, i) + 1
    BY <1>5, <2>2, <2>3, <2>4
  <2> QED
    BY <2>5 DEF c, i
<1>8. ASSUME u[y] = S
      PROVE  /\ Pos(S, R, y) = AvlCnt(t, t.child[y]["left"])
             /\ Cardinality(S) = Pos(S, R, y) + 1 + AvlCnt(t, t.child[y]["right"])
  <2>1. /\ Beyond(S, R, "left", y) = u[t.child[y]["left"]]
        /\ Beyond(S, R, "right", y) = u[t.child[y]["right"]]
    BY <1>1, <1>8, RootBeyond
  <2>2. /\ Cardinality(u[t.child[y]["left"]]) = AvlCnt(t, t.child[y]["left"])
        /\ Cardinality(u[t.child[y]["right"]]) = AvlCnt(t, t.child[y]["right"])
    BY <1>1, <1>2, <1>3
  <2>3. Pos(S, R, y) = AvlCnt(t, t.child[y]["left"])
    BY <2>1, <2>2 DEF Pos
  <2>4. Cardinality(Beyond(S, R, "right", y)) = AvlCnt(t, t.child[y]["right"])
    BY <2>1, <2>2
  <2>5. /\ Pos(S, R, y) \in Nat /\ Cardinality(Beyond(S, R, "right", y)) \in Nat
        /\ Pos(S, R, y) + Cardinality(Beyond(S, R, "right", y)) + 1 = Cardinality(S)
    BY <1>4
  <2> QED
    BY <1>5, <2>3, <2>4, <2>5
<1>9. AvlCnt(t, y) = 1 + AvlCnt(t, t.child[y]["left"]) + AvlCnt(t, t.child[y]["right"])
  <2>1. AvlCnt(t, y) = t.cnt[y]
    BY <1>1 DEF AvlCnt
  <2> QED
    BY <1>1, <2>1 DEF Sound
<1> QED
  BY <1>6, <1>7, <1>8, <1>9

\* How far avl_offset is after some turns of its loop, with k turns to go: at
\* the node, above it in a subtree, on the way up, or off the ends.
Walked(t, S, u, R, n, d, k, y) ==
  \/ y.node = NULL /\ y.pos \in Int /\ \A m \in S : Pos(S, R, m) # Pos(S, R, n) + d
  \/ /\ y.node \in S /\ y.pos = Pos(S, R, y.node) - Pos(S, R, n)
     /\ \/ y.pos = d
        \/ /\ y.pos - AvlCnt(t, t.child[y.node]["left"]) <= d
           /\ d <= y.pos + AvlCnt(t, t.child[y.node]["right"])
           /\ Cardinality(u[y.node]) <= k
        \/ Cardinality(Node) + Cardinality(Above(S, u, y.node)) <= k

LEMMA WalkTurns ==
  ASSUME NEW t, NEW S, NEW u, NEW R, Tree(t, S, u, R), Order(S, R),
         \A m \in S : Sound(t, m), NEW n \in S, NEW d \in Int, NEW k \in Nat,
         NEW y, Walked(t, S, u, R, n, d, k, y)
  PROVE  Walked(t, S, u, R, n, d, IF k = 0 THEN 0 ELSE k - 1, WalkTurn(t, d, y))
<1> DEFINE N  == Cardinality(Node)
           z  == WalkTurn(t, d, y)
           j  == IF k = 0 THEN 0 ELSE k - 1
           at == y.node
           g  == Pos(S, R, n)
           l  == t.child[at]["left"]
           r  == t.child[at]["right"]
           p  == t.parent[at]
           Goal == Walked(t, S, u, R, n, d, j, z)
<1> SUFFICES Goal
  OBVIOUS
<1>1. /\ Shape(t, S, u) /\ t \in Trees /\ S \in SUBSET Node /\ NULL \notin Node /\ N \in Nat
      /\ "left" \in Side /\ "right" \in Side /\ Opp("left") = "right" /\ Opp("right") = "left"
  BY NodeAssumption, NodesFinite DEF Tree, Shape, Side, Opp
<1>2. \A m \in S : Pos(S, R, m) \in Nat /\ Pos(S, R, m) < Cardinality(S)
  BY <1>1, PosBounded
<1>3. /\ Cardinality(S) \in Nat /\ g \in Nat
      /\ \A c \in S \union {NULL} : AvlCnt(t, c) \in Nat /\ (AvlCnt(t, c) = 0 <=> c = NULL)
  <2>1. Cardinality(S) \in Nat
    BY <1>1, NodesFinite
  <2>2. \A c \in S \union {NULL} : c \in Links
    BY <1>1 DEF Links
  <2> QED
    BY <1>1, <1>2, <2>1, <2>2, HeightsAreNumbers
<1>4. \A m \in S, s \in Side : t.child[m][s] \in S \union {NULL}
  BY <1>1 DEF Shape
<1>5. \A m \in S : /\ Cardinality(u[m]) \in 1 .. N /\ Cardinality(Above(S, u, m)) \in 1 .. N
  <2> SUFFICES ASSUME NEW m \in S
               PROVE  /\ Cardinality(u[m]) \in 1 .. N
                      /\ Cardinality(Above(S, u, m)) \in 1 .. N
    OBVIOUS
  <2>1. /\ u[m] \in SUBSET Node /\ m \in u[m] /\ Above(S, u, m) \in SUBSET Node
        /\ m \in Above(S, u, m)
    BY <1>1, KidFacts DEF Above
  <2>2. \A A \in SUBSET Node : m \in A => Cardinality(A) \in 1 .. N
    <3> SUFFICES ASSUME NEW A \in SUBSET Node, m \in A PROVE Cardinality(A) \in 1 .. N
      OBVIOUS
    <3>1. IsFiniteSet(A) /\ Cardinality(A) \in 0 .. N
      BY NodesFinite
    <3>2. Cardinality(A) # 0
      BY <3>1, FS_EmptySet
    <3> QED
      BY <1>1, <3>1, <3>2
  <2> QED
    BY <2>1, <2>2
<1> HIDE DEF N
<1>6. CASE at = NULL
  <2>1. z = y
    BY <1>6 DEF WalkTurn
  <2> HIDE DEF z
  <2> QED
    BY <1>1, <1>6, <2>1 DEF Walked
<1>7. CASE at # NULL /\ d = y.pos
  <2>1. z = y
    BY <1>7 DEF WalkTurn
  <2> HIDE DEF z
  <2> QED
    BY <1>1, <1>7, <2>1 DEF Walked
<1> DEFINE Inside == /\ y.pos - AvlCnt(t, l) <= d /\ d <= y.pos + AvlCnt(t, r)
                     /\ Cardinality(u[at]) <= k
           Up     == N + Cardinality(Above(S, u, at)) <= k
<1>8. ASSUME at # NULL, d # y.pos
      PROVE  /\ at \in S /\ y.pos \in Int /\ y.pos = Pos(S, R, at) - g
             /\ Inside \/ Up
             /\ k # 0 /\ j = k - 1 /\ Cardinality(u[at]) <= k
  <2>1. at \in S /\ y.pos = Pos(S, R, at) - g /\ (Inside \/ Up)
    BY <1>8 DEF Walked, N
  <2> HIDE DEF g
  <2>2. y.pos \in Int
    BY <1>2, <1>3, <2>1
  <2>3. /\ Cardinality(u[at]) \in 1 .. N /\ Cardinality(Above(S, u, at)) \in 1 .. N
    BY <1>5, <2>1
  <2>4. k # 0 /\ Cardinality(u[at]) <= k
    BY <1>1, <2>1, <2>3
  <2> QED
    BY <2>1, <2>2, <2>4
<1>9. ASSUME at \in S
      PROVE  /\ l \in S \union {NULL} /\ r \in S \union {NULL}
             /\ AvlCnt(t, l) \in Nat /\ AvlCnt(t, r) \in Nat
             /\ Pos(S, R, at) \in Nat
  BY <1>1, <1>2, <1>3, <1>4, <1>9
<1>10. CASE at # NULL /\ y.pos < d /\ y.pos + AvlCnt(t, r) >= d
  <2> DEFINE a == AvlCnt(t, t.child[r]["left"])
             b == AvlCnt(t, t.child[r]["right"])
  <2>1. z = [node |-> r, pos |-> y.pos + a + 1]
    BY <1>10 DEF WalkTurn
  <2>2. d # y.pos
    BY <1>10
  <2>3. /\ at \in S /\ y.pos \in Int /\ y.pos = Pos(S, R, at) - g
        /\ k # 0 /\ j = k - 1 /\ Cardinality(u[at]) <= k
    BY <1>8, <1>10, <2>2
  <2>4. AvlCnt(t, r) \in Nat /\ AvlCnt(t, r) # 0 /\ Pos(S, R, at) \in Nat
    BY <1>9, <1>10, <2>3
  <2>5. r \in S /\ r # NULL
    BY <1>1, <1>3, <1>9, <2>3, <2>4
  <2>6. Pos(S, R, r) = Pos(S, R, at) + a + 1
    BY <2>3, <2>5, WalkPlaces
  <2>7. AvlCnt(t, r) = 1 + a + b
    BY <2>5, WalkPlaces
  <2>8. a \in Nat /\ b \in Nat
    BY <1>1, <1>3, <1>4, <2>5
  <2>9. Cardinality(u[r]) < Cardinality(u[at])
    <3>1. u[r] \in SUBSET u[at] /\ u[r] # u[at] /\ u[at] \in SUBSET Node
      BY <1>1, <2>3, KidFacts
    <3> QED
      BY <3>1, FewerNodes
  <2>10. Cardinality(u[r]) \in Nat /\ Cardinality(u[at]) \in Nat
    BY <1>5, <2>3, <2>5
  <2> HIDE DEF z, j, at, g, r, a, b
  <2>11. z.node = r /\ z.pos = y.pos + a + 1
    BY <2>1
  <2>12. z.pos = Pos(S, R, r) - g
    BY <1>3, <2>3, <2>4, <2>6, <2>8, <2>11
  <2>13. z.pos - a <= d /\ d <= z.pos + b
    BY <1>10, <2>3, <2>7, <2>8, <2>11
  <2>14. Cardinality(u[r]) <= j
    BY <2>3, <2>9, <2>10
  <2>15. z.node \in S /\ z.pos = Pos(S, R, z.node) - g /\ Cardinality(u[z.node]) <= j
    BY <2>5, <2>11, <2>12, <2>14
  <2>16. /\ a = AvlCnt(t, t.child[z.node]["left"])
         /\ b = AvlCnt(t, t.child[z.node]["right"])
    BY <2>11 DEF a, b
  <2> QED
    BY <2>13, <2>15, <2>16 DEF Walked, g
<1>11. CASE at # NULL /\ y.pos > d /\ y.pos - AvlCnt(t, l) <= d
  <2> DEFINE a == AvlCnt(t, t.child[l]["left"])
             b == AvlCnt(t, t.child[l]["right"])
  <2>1. z = [node |-> l, pos |-> y.pos - b - 1]
    <3>1. d # y.pos /\ ~(y.pos < d)
      BY <1>8, <1>11
    <3> QED
      BY <1>11, <3>1 DEF WalkTurn
  <2>2. d # y.pos
    BY <1>11
  <2>3. /\ at \in S /\ y.pos \in Int /\ y.pos = Pos(S, R, at) - g
        /\ k # 0 /\ j = k - 1 /\ Cardinality(u[at]) <= k
    BY <1>8, <1>11, <2>2
  <2>4. AvlCnt(t, l) \in Nat /\ AvlCnt(t, l) # 0 /\ Pos(S, R, at) \in Nat
    BY <1>9, <1>11, <2>3
  <2>5. l \in S /\ l # NULL
    BY <1>1, <1>3, <1>9, <2>3, <2>4
  <2>6. Pos(S, R, at) = Pos(S, R, l) + b + 1
    BY <2>3, <2>5, WalkPlaces
  <2>7. AvlCnt(t, l) = 1 + a + b
    BY <2>5, WalkPlaces
  <2>8. a \in Nat /\ b \in Nat /\ Pos(S, R, l) \in Nat
    BY <1>1, <1>2, <1>3, <1>4, <2>5
  <2>9. Cardinality(u[l]) < Cardinality(u[at])
    <3>1. u[l] \in SUBSET u[at] /\ u[l] # u[at] /\ u[at] \in SUBSET Node
      BY <1>1, <2>3, KidFacts
    <3> QED
      BY <3>1, FewerNodes
  <2>10. Cardinality(u[l]) \in Nat /\ Cardinality(u[at]) \in Nat
    BY <1>5, <2>3, <2>5
  <2> HIDE DEF z, j, at, g, l, a, b
  <2>11. z.node = l /\ z.pos = (y.pos - b) - 1
    BY <2>1
  <2>12. z.pos = Pos(S, R, l) - g
    BY <1>3, <2>3, <2>4, <2>6, <2>8, <2>11
  <2>13. z.pos - a <= d /\ d <= z.pos + b
    BY <1>11, <2>3, <2>7, <2>8, <2>11
  <2>14. Cardinality(u[l]) <= j
    BY <2>3, <2>9, <2>10
  <2>15. z.node \in S /\ z.pos = Pos(S, R, z.node) - g /\ Cardinality(u[z.node]) <= j
    BY <2>5, <2>11, <2>12, <2>14
  <2>16. /\ a = AvlCnt(t, t.child[z.node]["left"])
         /\ b = AvlCnt(t, t.child[z.node]["right"])
    BY <2>11 DEF a, b
  <2> QED
    BY <2>13, <2>15, <2>16 DEF Walked, g
<1>12. CASE /\ at # NULL /\ d # y.pos
            /\ ~(y.pos < d /\ y.pos + AvlCnt(t, r) >= d)
            /\ ~(y.pos > d /\ y.pos - AvlCnt(t, l) <= d)
  <2> DEFINE q == IF p # NULL /\ t.child[p]["right"] = at
                    THEN y.pos - AvlCnt(t, l) - 1
                    ELSE y.pos + AvlCnt(t, r) + 1
  <2>1. z = [node |-> p, pos |-> q]
    BY <1>12 DEF WalkTurn
  <2>2. /\ at \in S /\ y.pos \in Int /\ y.pos = Pos(S, R, at) - g
        /\ Inside \/ Up
        /\ k # 0 /\ j = k - 1
    BY <1>8, <1>12
  <2>3. AvlCnt(t, l) \in Nat /\ AvlCnt(t, r) \in Nat /\ Pos(S, R, at) \in Nat
    BY <1>9, <2>2
  <2>4. \/ y.pos < d /\ y.pos + AvlCnt(t, r) < d
        \/ y.pos > d /\ y.pos - AvlCnt(t, l) > d
    BY <1>12, <2>2, <2>3
  <2>5. Up
    <3>1. ~Inside
      BY <2>2, <2>3, <2>4
    <3> QED
      BY <2>2, <3>1
  <2>6. CASE p = NULL
    <3>1. u[at] = S
      <4>1. PICK m \in S : u[m] = S
        BY DEF Tree, Rooted
      <4> QED
        BY <1>1, <2>2, <2>6, <4>1, RootFacts
    <3>2. /\ Pos(S, R, at) = AvlCnt(t, l)
          /\ Cardinality(S) = Pos(S, R, at) + 1 + AvlCnt(t, r)
      BY <2>2, <3>1, WalkPlaces
    <3>3. g + d < 0 \/ g + d >= Cardinality(S)
      <4> HIDE DEF g, at, l, r
      <4> QED
        BY <1>3, <2>2, <2>3, <2>4, <3>2
    <3>4. \A m \in S : Pos(S, R, m) # g + d
      <4> HIDE DEF g
      <4> QED
        BY <1>2, <1>3, <3>3
    <3>5. q \in Int
      BY <2>2, <2>3
    <3> HIDE DEF q, z
    <3>6. z.node = NULL /\ z.pos \in Int
      BY <2>1, <2>6, <3>5
    <3> QED
      BY <3>4, <3>6 DEF Walked
  <2>7. CASE p # NULL
    <3>1. /\ p \in S /\ p # at /\ at \in u[p] /\ SideOf(t, at) \in Side
          /\ t.child[p][SideOf(t, at)] = at
      BY <1>1, <2>2, <2>7, Place
    <3>2. q = Pos(S, R, p) - g
      <4>1. CASE t.child[p]["right"] = at
        <5>1. Pos(S, R, at) = Pos(S, R, p) + AvlCnt(t, l) + 1
          <6>1. t.child[p]["right"] # NULL
            BY <1>12, <4>1
          <6>2. Pos(S, R, t.child[p]["right"]) =
                  Pos(S, R, p) + AvlCnt(t, t.child[t.child[p]["right"]]["left"]) + 1
            BY <3>1, <6>1, WalkPlaces
          <6> QED
            BY <4>1, <6>2
        <5>2. q = y.pos - AvlCnt(t, l) - 1
          BY <2>7, <4>1
        <5>3. Pos(S, R, p) \in Nat
          BY <1>2, <3>1
        <5> HIDE DEF q, g, l, p, at
        <5> QED
          BY <1>3, <2>2, <2>3, <5>1, <5>2, <5>3
      <4>2. CASE t.child[p]["right"] # at
        <5>1. t.child[p]["left"] = at
          BY <3>1, <4>2 DEF Side
        <5>2. Pos(S, R, p) = Pos(S, R, at) + AvlCnt(t, r) + 1
          <6>1. t.child[p]["left"] # NULL
            BY <1>12, <5>1
          <6>2. Pos(S, R, p) = Pos(S, R, t.child[p]["left"])
                   + AvlCnt(t, t.child[t.child[p]["left"]]["right"]) + 1
            BY <3>1, <6>1, WalkPlaces
          <6> QED
            BY <5>1, <6>2
        <5>3. q = y.pos + AvlCnt(t, r) + 1
          BY <4>2
        <5>4. Pos(S, R, p) \in Nat
          BY <1>2, <3>1
        <5> HIDE DEF q, g, r, p, at
        <5> QED
          BY <1>3, <2>2, <2>3, <5>2, <5>3, <5>4
      <4> QED
        BY <4>1, <4>2
    <3>3. N + Cardinality(Above(S, u, p)) <= j
      <4>1. Cardinality(Above(S, u, p)) < Cardinality(Above(S, u, at))
        BY <1>1, <2>2, <3>1, HigherUp
      <4>2. Cardinality(Above(S, u, p)) \in Nat /\ Cardinality(Above(S, u, at)) \in Nat
        BY <1>5, <2>2, <3>1
      <4>3. j = k - 1 /\ N + Cardinality(Above(S, u, at)) <= k
        BY <2>2, <2>5
      <4> HIDE DEF j, p, at
      <4> QED
        BY <1>1, <4>1, <4>2, <4>3
    <3> HIDE DEF q, z
    <3>4. z.node = p /\ z.pos = q
      BY <2>1
    <3> QED
      BY <3>1, <3>2, <3>3, <3>4 DEF Walked, N
  <2> QED
    BY <2>6, <2>7
<1>13. \/ at = NULL
       \/ at # NULL /\ d = y.pos
       \/ at # NULL /\ y.pos < d /\ y.pos + AvlCnt(t, r) >= d
       \/ at # NULL /\ y.pos > d /\ y.pos - AvlCnt(t, l) <= d
       \/ /\ at # NULL /\ d # y.pos
          /\ ~(y.pos < d /\ y.pos + AvlCnt(t, r) >= d)
          /\ ~(y.pos > d /\ y.pos - AvlCnt(t, l) <= d)
  OBVIOUS
<1> HIDE DEF Goal
<1> QED
  BY <1>6, <1>7, <1>10, <1>11, <1>12, <1>13

(* avl_offset finds the node d places after n, in either direction, and     *)
(* nothing when there is none: it never walks more than twice a path.       *)
THEOREM AvlOffsetFinds ==
  ASSUME NEW t, NEW S, NEW u, NEW R, Tree(t, S, u, R), Order(S, R),
         \A m \in S : Sound(t, m), NEW n \in S, NEW d \in Int
  PROVE  LET x == AvlOffset(t, n, d)
         IN \/ x = NULL /\ \A m \in S : Pos(S, R, m) # Pos(S, R, n) + d
            \/ x \in S /\ Pos(S, R, x) = Pos(S, R, n) + d
<1> DEFINE N == 2 * Cardinality(Node)
           Turn(y) == WalkTurn(t, d, y)
           Local == [node : Links, pos : Int]
           X == [k \in Nat |-> {y \in Local : Walked(t, S, u, R, n, d, k, y)}]
           st == [node |-> n, pos |-> 0]
<1>1. /\ Shape(t, S, u) /\ t \in Trees /\ S \in SUBSET Node /\ NULL \notin Node
      /\ Cardinality(Node) \in Nat /\ N \in Nat
  <2>1. Shape(t, S, u) /\ t \in Trees /\ S \in SUBSET Node /\ NULL \notin Node
    BY NodeAssumption DEF Tree, Shape
  <2>2. Cardinality(Node) \in Nat
    BY NodesFinite
  <2> QED
    BY <2>1, <2>2
<1>2. \A m \in S : Pos(S, R, m) \in Nat
  BY <1>1, PosBounded
<1>3. st \in X[N]
  <2>1. Cardinality(Above(S, u, n)) \in 1 .. Cardinality(Node)
    BY <1>1, PathLength
  <2>2. 0 = Pos(S, R, n) - Pos(S, R, n)
    BY <1>2
  <2>3. Walked(t, S, u, R, n, d, N, st)
    BY <1>1, <2>1, <2>2 DEF Walked
  <2>4. st \in Local
    BY <1>1 DEF Links
  <2> QED
    BY <1>1, <2>3, <2>4
<1>4. ASSUME NEW k \in Nat, NEW y \in X[k]
      PROVE  Turn(y) \in X[IF k = 0 THEN 0 ELSE k - 1]
  <2> DEFINE z == Turn(y)
             j == IF k = 0 THEN 0 ELSE k - 1
  <2>1. Walked(t, S, u, R, n, d, j, z)
    BY <1>4, WalkTurns
  <2>2. j \in Nat
    OBVIOUS
  <2>3. z \in [node : {z.node}, pos : {z.pos}]
    <3>1. z = y \/ \E a, b : z = [node |-> a, pos |-> b]
      BY DEF WalkTurn
    <3> HIDE DEF z
    <3> QED
      BY <1>4, <3>1
  <2>4. z.node \in Links /\ z.pos \in Int
    <3> HIDE DEF z, j
    <3> QED
      BY <1>1, <1>2, <2>1 DEF Walked, Links
  <2> HIDE DEF z, j
  <2>5. z \in Local
    BY <2>3, <2>4
  <2>6. z \in X[j]
    BY <2>1, <2>2, <2>5
  <2> QED
    BY <2>6 DEF z, j
<1> DEFINE D == UNION {X[k] : k \in Nat}
           g == [y \in D |-> Turn(y)]
           P(f) == f = [k \in Nat |-> IF k = 0 THEN st ELSE Turn(f[k - 1])]
<1> HIDE DEF N
<1>6. g \in [D -> D] /\ st \in D
  <2> HIDE DEF X, Turn
  <2>1. \A k \in Nat : (IF k = 0 THEN 0 ELSE k - 1) \in Nat
    OBVIOUS
  <2>2. \A y \in D : Turn(y) \in D
    BY <1>4, <2>1
  <2> QED
    BY <1>1, <1>3, <2>2
<1>7. \E f : P(f)
  <2>1. PICK f : Iterate(f, D, g, st)
    <3> HIDE DEF D, g, st
    <3> QED
      BY <1>6, Iterates
  <2>2. \A k \in Nat : k # 0 => k - 1 \in Nat /\ f[k] = Turn(f[k - 1])
    <3> HIDE DEF X, Turn, st
    <3> SUFFICES ASSUME NEW k \in Nat, k # 0 PROVE k - 1 \in Nat /\ f[k] = Turn(f[k - 1])
      OBVIOUS
    <3>1. k - 1 \in Nat /\ (k - 1) + 1 = k
      OBVIOUS
    <3>2. f[k - 1] \in D /\ f[(k - 1) + 1] = g[f[k - 1]]
      BY <2>1, <3>1 DEF Iterate
    <3> QED
      BY <3>1, <3>2
  <2>3. f = [k \in Nat |-> f[k]] /\ f[0] = st
    BY <2>1 DEF Iterate
  <2> HIDE DEF Turn, st
  <2>4. f = [k \in Nat |-> IF k = 0 THEN st ELSE Turn(f[k - 1])]
    BY <2>2, <2>3
  <2> QED
    BY <2>4
<1> DEFINE f == CHOOSE f : P(f)
<1>8. P(f)
  <2> HIDE DEF P
  <2> QED
    BY <1>7
<1>9. AvlOffset(t, n, d) = f[N].node
  BY DEF AvlOffset, Loop, N
<1> HIDE DEF f, X, Turn, st
<1>10. f[0] \in X[N] /\ \A k \in 0 .. N - 1 : f[k] \in X[N - k] => f[k + 1] \in X[N - k - 1]
  <2>1. f[0] = st
    BY <1>8
  <2>2. ASSUME NEW k \in 0 .. N - 1, f[k] \in X[N - k] PROVE f[k + 1] \in X[N - k - 1]
    <3>1. /\ k + 1 \in Nat /\ k + 1 # 0 /\ (k + 1) - 1 = k /\ N - k \in Nat /\ N - k # 0
          /\ N - k - 1 = (N - k) - 1
      BY <1>1
    <3>2. f[k + 1] = Turn(f[k])
      BY <1>8, <3>1
    <3> QED
      BY <1>4, <2>2, <3>1, <3>2
  <2> QED
    BY <1>3, <2>1, <2>2
<1>11. f[N] \in X[0]
  <2> HIDE DEF P
  <2> QED
    BY <1>1, <1>10, LoopReaches
<1>12. ASSUME NEW y, Walked(t, S, u, R, n, d, 0, y)
       PROVE  \/ y.node = NULL /\ \A m \in S : Pos(S, R, m) # Pos(S, R, n) + d
              \/ y.node \in S /\ Pos(S, R, y.node) = Pos(S, R, n) + d
  <2>1. \A m \in S : Cardinality(u[m]) \in Nat /\ Cardinality(u[m]) # 0
    <3> SUFFICES ASSUME NEW m \in S PROVE Cardinality(u[m]) \in Nat /\ Cardinality(u[m]) # 0
      OBVIOUS
    <3>1. u[m] \in SUBSET Node /\ m \in u[m]
      <4>1. u[m] \subseteq S /\ m \in u[m]
        BY <1>1, KidFacts DEF Side
      <4> QED
        BY <1>1, <4>1
    <3>2. IsFiniteSet(u[m]) /\ Cardinality(u[m]) \in Nat
      BY <3>1, NodesFinite
    <3> QED
      BY <3>1, <3>2, FS_EmptySet
  <2>2. \A m \in S : Cardinality(Above(S, u, m)) \in 1 .. Cardinality(Node)
    BY <1>1, PathLength
  <2>3. CASE y.node = NULL
    BY <1>1, <1>12, <2>3 DEF Walked
  <2>4. CASE y.node # NULL
    <3>1. y.node \in S /\ y.pos = Pos(S, R, y.node) - Pos(S, R, n)
      BY <1>12, <2>4 DEF Walked
    <3>2. y.pos = d
      BY <1>1, <1>12, <2>1, <2>2, <2>4, <3>1 DEF Walked
    <3> QED
      BY <1>2, <3>1, <3>2
  <2> QED
    BY <2>3, <2>4
<1>13. Walked(t, S, u, R, n, d, 0, f[N])
  BY <1>11 DEF X
<1> QED
  BY <1>9, <1>12, <1>13

-----------------------------------------------------------------------------
(* The sorted set. *)

\* The pairs that ZComp orders.
Less(sc) == {p \in Node \X Node : ZComp(sc, p[1], p[2])}

-----------------------------------------------------------------------------
(* memcmp over the shorter length, then the lengths: the order of byte      *)
(* strings.                                                                 *)
LEMMA ByteOrder ==
  ASSUME NEW a \in Name, NEW b \in Name
  PROVE  NameLess(a, b) <=> IF MemEqual(a, b) THEN Len(a) < Len(b) ELSE MemLess(a, b)
<1>1. /\ Len(a) \in Nat /\ \A j \in 1 .. Len(a) : a[j] \in Nat
      /\ Len(b) \in Nat /\ \A j \in 1 .. Len(b) : b[j] \in Nat
  BY LettersAreNumbers
<1>2. /\ Shorter(a, b) \in Nat /\ Shorter(a, b) <= Len(a) /\ Shorter(a, b) <= Len(b)
      /\ Shorter(a, b) = Len(a) \/ Shorter(a, b) = Len(b)
  BY <1>1 DEF Shorter
<1>3. ASSUME MemEqual(a, b), NameLess(a, b) PROVE Len(a) < Len(b)
  <2>1. PICK i \in 0 .. Len(a) : /\ i < Len(b) /\ \A j \in 1 .. i : a[j] = b[j]
                                 /\ i = Len(a) \/ a[i + 1] < b[i + 1]
    BY <1>3, LessAt
  <2>2. CASE i = Len(a)
    BY <1>1, <2>1, <2>2
  <2>3. CASE i # Len(a)
    <3>1. i + 1 \in 1 .. Shorter(a, b)
      BY <1>1, <1>2, <2>1, <2>3
    <3>2. a[i + 1] = b[i + 1]
      BY <1>3, <3>1 DEF MemEqual
    <3> QED
      BY <1>1, <2>1, <2>3, <3>2
  <2> QED
    BY <2>2, <2>3
<1>4. ASSUME MemEqual(a, b), Len(a) < Len(b) PROVE NameLess(a, b)
  <2>1. Len(a) \in 0 .. Len(a) /\ \A j \in 1 .. Len(a) : a[j] = b[j]
    BY <1>1, <1>2, <1>4 DEF MemEqual
  <2> QED
    BY <1>4, <2>1, LessAt
<1>5. ASSUME ~MemEqual(a, b), NameLess(a, b) PROVE MemLess(a, b)
  <2>1. PICK i \in 0 .. Len(a) : /\ i < Len(b) /\ \A j \in 1 .. i : a[j] = b[j]
                                 /\ i = Len(a) \/ a[i + 1] < b[i + 1]
    BY <1>5, LessAt
  <2>2. i # Shorter(a, b)
    BY <1>5, <2>1 DEF MemEqual
  <2>3. i + 1 \in 1 .. Shorter(a, b) /\ i # Len(a)
    BY <1>1, <1>2, <2>1, <2>2
  <2>4. a[i + 1] < b[i + 1] /\ \A j \in 1 .. (i + 1) - 1 : a[j] = b[j]
    BY <2>1, <2>3
  <2> QED
    BY <2>3, <2>4 DEF MemLess
<1>6. ASSUME MemLess(a, b) PROVE NameLess(a, b)
  <2>1. PICK i \in 1 .. Shorter(a, b) : a[i] < b[i] /\ \A j \in 1 .. i - 1 : a[j] = b[j]
    BY <1>6 DEF MemLess
  <2>2. /\ i - 1 \in 0 .. Len(a) /\ i - 1 < Len(b) /\ (i - 1) + 1 = i
    BY <1>1, <1>2
  <2> QED
    BY <2>1, <2>2, LessAt
<1> QED
  BY <1>3, <1>4, <1>5, <1>6

LEMMA ZCompOrder ==
  ASSUME NEW sc \in [Node -> Score], NEW m \in Node, NEW n \in Node
  PROVE  ZComp(sc, m, n) <=> Before(sc[m], m, sc[n], n)
<1>1. m \in Name /\ n \in Name /\ sc[m] \in Int /\ sc[n] \in Int
  BY ParameterAssumption DEF Name
<1> QED
  BY <1>1, ByteOrder DEF ZComp, Before

LEMMA LessOrders ==
  ASSUME NEW sc \in [Node -> Score], NEW M \in SUBSET Node
  PROVE  Order(M, Less(sc))
<1>1. \A m \in Node : m \in Name /\ sc[m] \in Int
  BY ParameterAssumption DEF Name
<1>2. \A m, n \in Node : <<m, n>> \in Less(sc) <=> Before(sc[m], m, sc[n], n)
  BY ZCompOrder DEF Less
<1>3. \A m, n \in Node : m # n => Before(sc[m], m, sc[n], n) \/ Before(sc[n], n, sc[m], m)
  BY <1>1, NameTotal DEF Before
<1>4. \A m \in Node : ~Before(sc[m], m, sc[m], m)
  BY <1>1, NameIrreflexive DEF Before
<1>5. \A l, m, n \in Node : /\ Before(sc[l], l, sc[m], m)
                            /\ Before(sc[m], m, sc[n], n)
                            => Before(sc[l], l, sc[n], n)
  BY <1>1, NameTransitive DEF Before
<1> QED
  BY <1>2, <1>3, <1>4, <1>5 DEF Order

\* The tree of the members M, empty or maintained.
Kept(t, r, M, sc) == \/ M = {} /\ r = NULL /\ t \in Trees
                     \/ Maintained(t, r, M, Less(sc))

-----------------------------------------------------------------------------
(* Insertion and deletion keep the tree. *)
LEMMA Sides ==
  ASSUME NEW sc \in [Node -> Score], NEW m \in Node, NEW x \in Node, m # x
  PROVE  SideFor(sc, m, x) \in Side /\ On(Less(sc), SideFor(sc, m, x), x, m)
<1>1. Order(Node, Less(sc))
  BY LessOrders
<1>2. <<x, m>> \in Less(sc) <=> ZComp(sc, x, m)
  BY DEF Less
<1> QED
  BY <1>1, <1>2 DEF Order, SideFor, On, Side

LEMMA DescendFinds ==
  ASSUME NEW sc \in [Node -> Score], NEW t, NEW M, NEW u, Tree(t, M, u, Less(sc)),
         NEW r \in M, u[r] = M, NEW x \in Node \ M
  PROVE  LET at == Descend(t, r, sc, x)
         IN  /\ at.parent \in M /\ at.side \in Side
             /\ t.child[at.parent][at.side] = NULL
             /\ Bound(t, M, u, Less(sc), at.parent, x)
             /\ On(Less(sc), at.side, x, at.parent)
<1> DEFINE N == Cardinality(Node)
           R == Less(sc)
           Turn(y) == DescendTurn(t, sc, x, y)
           Right(y) == /\ y.parent \in M /\ y.side \in Side
                       /\ Bound(t, M, u, R, y.parent, x)
                       /\ On(R, y.side, x, y.parent)
           Local == [parent : M, side : Side]
           X == [k \in Nat |-> {y \in Local : /\ Right(y)
                                              /\ t.child[y.parent][y.side] = NULL
                                                   \/ Cardinality(u[y.parent]) <= k}]
           st == [parent |-> r, side |-> SideFor(sc, r, x)]
<1>1. /\ Shape(t, M, u) /\ M \subseteq Node /\ N \in Nat /\ NULL \notin Node
      /\ \A m \in M : u[m] \in SUBSET Node
  BY NodesFinite, NodeAssumption DEF Tree, Shape, Links
<1>2. \A m \in M : Cardinality(u[m]) \in 0 .. N
  BY <1>1, NodesFinite
<1>3. \A m \in M : SideFor(sc, m, x) \in Side /\ On(R, SideFor(sc, m, x), x, m)
  BY <1>1, Sides
<1> HIDE DEF N, R
<1> DEFINE Below(p, c) == /\ c \in M /\ Bound(t, M, u, R, c, x)
                          /\ u[c] \in SUBSET u[p] /\ u[c] # u[p] /\ u[p] \in SUBSET Node
<1>13. ASSUME NEW p \in M, NEW s \in Side, Bound(t, M, u, R, p, x), On(R, s, x, p),
              t.child[p][s] # NULL
       PROVE  Below(p, t.child[p][s])
  <2>1. Shape(t, M, u)
    BY <1>1
  <2>2. t.child[p][s] \in M /\ Bound(t, M, u, R, t.child[p][s], x)
    BY <1>13, <2>1, BoundBelow
  <2>3. /\ u[t.child[p][s]] \in SUBSET u[p] /\ p \in u[p] /\ p \notin u[t.child[p][s]]
    BY <2>1, KidFacts
  <2> QED
    BY <1>1, <2>2, <2>3
<1>4. st \in X[N]
  <2>1. Bound(t, M, u, R, r, x)
    <3> SUFFICES ASSUME NEW m \in M, NEW z \in Side, r \in u[t.child[m][z]] PROVE FALSE
      BY DEF Bound
    <3>1. t.child[m][z] \in M /\ m \notin u[t.child[m][z]]
      BY <1>1, KidFacts DEF Shape
    <3>2. u[r] \subseteq u[t.child[m][z]]
      BY <1>1, <3>1, Nested
    <3> QED
      BY <3>1, <3>2
  <2> QED
    BY <1>1, <1>2, <1>3, <2>1
<1>5. ASSUME NEW k \in Nat, NEW y \in X[k]
      PROVE  Turn(y) \in X[IF k = 0 THEN 0 ELSE k - 1]
  <2> DEFINE next == t.child[y.parent][y.side]
             z == [parent |-> next, side |-> SideFor(sc, next, x)]
  <2>1. CASE next = NULL
    <3>1. Turn(y) = y
      BY <2>1 DEF DescendTurn
    <3>2. y \in X[IF k = 0 THEN 0 ELSE k - 1]
      BY <1>5, <2>1
    <3> QED
      BY <3>1, <3>2
  <2>2. CASE next # NULL
    <3>1. Turn(y) = z
      BY <2>2 DEF DescendTurn
    <3>2. /\ y.parent \in M /\ y.side \in Side /\ Bound(t, M, u, R, y.parent, x)
          /\ On(R, y.side, x, y.parent) /\ Cardinality(u[y.parent]) <= k
      BY <1>5, <2>2
    <3>3. Below(y.parent, next)
      BY <1>13, <2>2, <3>2
    <3>4. Cardinality(u[next]) < Cardinality(u[y.parent])
      BY <3>3, FewerNodes
    <3>5. Cardinality(u[next]) \in Nat /\ Cardinality(u[y.parent]) \in Nat
      BY <1>2, <3>2, <3>3
    <3> HIDE DEF next
    <3>6. k # 0 /\ Cardinality(u[next]) <= k - 1
      BY <3>2, <3>4, <3>5
    <3>7. Right(z) /\ z \in Local
      BY <1>3, <3>3
    <3>8. z \in X[k - 1]
      BY <3>6, <3>7
    <3> QED
      BY <3>1, <3>6, <3>8
  <2> QED
    BY <2>1, <2>2
<1> DEFINE D == UNION {X[k] : k \in Nat}
           g == [y \in D |-> Turn(y)]
           P(f) == f = [k \in Nat |-> IF k = 0 THEN st ELSE Turn(f[k - 1])]
<1>6. g \in [D -> D] /\ st \in D
  <2> HIDE DEF X, Turn
  <2>1. \A k \in Nat : (IF k = 0 THEN 0 ELSE k - 1) \in Nat
    OBVIOUS
  <2>2. \A y \in D : Turn(y) \in D
    BY <1>5, <2>1
  <2> QED
    BY <1>1, <1>4, <2>2
<1>7. \E f : P(f)
  <2>1. PICK f : Iterate(f, D, g, st)
    <3> HIDE DEF D, g, st
    <3> QED
      BY <1>6, Iterates
  <2>2. \A k \in Nat : k # 0 => k - 1 \in Nat /\ f[k] = Turn(f[k - 1])
    <3> HIDE DEF X, Turn, st
    <3> SUFFICES ASSUME NEW k \in Nat, k # 0 PROVE k - 1 \in Nat /\ f[k] = Turn(f[k - 1])
      OBVIOUS
    <3>1. k - 1 \in Nat /\ (k - 1) + 1 = k
      OBVIOUS
    <3>2. f[k - 1] \in D /\ f[(k - 1) + 1] = g[f[k - 1]]
      BY <2>1, <3>1 DEF Iterate
    <3> QED
      BY <3>1, <3>2
  <2>3. f = [k \in Nat |-> f[k]] /\ f[0] = st
    BY <2>1 DEF Iterate
  <2> HIDE DEF Turn, st
  <2>4. f = [k \in Nat |-> IF k = 0 THEN st ELSE Turn(f[k - 1])]
    BY <2>2, <2>3
  <2> QED
    BY <2>4
<1> DEFINE f == CHOOSE f : P(f)
<1>8. P(f)
  <2> HIDE DEF P
  <2> QED
    BY <1>7
<1>9. Descend(t, r, sc, x) = f[N]
  BY DEF Descend, Loop, N
<1> HIDE DEF f, X, Turn, st
<1>10. f[0] \in X[N] /\ \A k \in 0 .. N - 1 : f[k] \in X[N - k] => f[k + 1] \in X[N - k - 1]
  <2>1. f[0] = st
    BY <1>8
  <2>2. ASSUME NEW k \in 0 .. N - 1, f[k] \in X[N - k] PROVE f[k + 1] \in X[N - k - 1]
    <3>1. /\ k + 1 \in Nat /\ k + 1 # 0 /\ (k + 1) - 1 = k /\ N - k \in Nat /\ N - k # 0
          /\ N - k - 1 = (N - k) - 1
      BY <1>1
    <3>2. f[k + 1] = Turn(f[k])
      BY <1>8, <3>1
    <3> QED
      BY <1>5, <2>2, <3>1, <3>2
  <2> QED
    BY <1>4, <2>1, <2>2
<1>11. f[N] \in X[0]
  <2> HIDE DEF P
  <2> QED
    BY <1>1, <1>10, LoopReaches
<1>12. \A y \in X[0] : Right(y) /\ t.child[y.parent][y.side] = NULL
  <2> SUFFICES ASSUME NEW y \in X[0], t.child[y.parent][y.side] # NULL PROVE FALSE
    BY DEF X
  <2>1. /\ y.parent \in M /\ y.side \in Side /\ Bound(t, M, u, R, y.parent, x)
        /\ On(R, y.side, x, y.parent) /\ Cardinality(u[y.parent]) <= 0
    BY DEF X
  <2>2. Below(y.parent, t.child[y.parent][y.side])
    BY <1>13, <2>1
  <2>3. Cardinality(u[t.child[y.parent][y.side]]) < Cardinality(u[y.parent])
    BY <2>2, FewerNodes
  <2>4. Cardinality(u[t.child[y.parent][y.side]]) \in Nat
    BY <2>2, NodesFinite
  <2> QED
    BY <1>2, <2>1, <2>3, <2>4
<1> QED
  BY <1>9, <1>11, <1>12 DEF R

LEMMA InsertKeeps ==
  ASSUME NEW sc \in [Node -> Score], NEW t, NEW r, NEW M, Kept(t, r, M, sc),
         NEW x \in Node \ M, Idle(t, x)
  PROVE  LET d == TreeInsert(t, r, sc, x)
         IN Maintained(d.t, d.top, M \union {x}, Less(sc)) /\ Elsewhere(t, d.t, M \union {x})
<1> DEFINE R    == Less(sc)
           T    == M \union {x}
           d    == TreeInsert(t, r, sc, x)
           Goal == Maintained(d.t, d.top, T, R) /\ Elsewhere(t, d.t, T)
<1>1. CASE M = {} /\ r = NULL /\ t \in Trees
  <2>1. Order({x}, R)
    BY LessOrders
  <2>2. FixHead(t, {x}, [m \in Links |-> IF m = x THEN {x} ELSE {}], R, x, 0)
    BY <1>1, <2>1, FirstHead
  <2>3. d = AvlFix(t, x) /\ T = {x}
    BY <1>1 DEF TreeInsert
  <2> HIDE DEF R, T, d
  <2> QED
    BY <2>2, <2>3, AvlFixBalances DEF R, T, d
<1>2. CASE Maintained(t, r, M, R)
  <2>1. PICK u : Tree(t, M, u, R) /\ u[r] = M
    BY <1>2 DEF Maintained
  <2>2. r \in M /\ M \subseteq Node /\ r # NULL /\ \A m \in M : Sound(t, m)
    BY <1>2, <2>1, NodeAssumption DEF Maintained, Tree, Shape
  <2> DEFINE at == Descend(t, r, sc, x)
  <2>3. /\ at.parent \in M /\ at.side \in Side
        /\ t.child[at.parent][at.side] = NULL
        /\ Bound(t, M, u, R, at.parent, x)
        /\ On(R, at.side, x, at.parent)
    BY <2>1, <2>2, DescendFinds
  <2>4. Order(T, R)
    BY <2>2, LessOrders
  <2> DEFINE p == at.parent
             s == at.side
             l == Leafed(t, p, s, x)
             v == WithLeaf(M, u, p, x)
  <2>5. d = AvlFix(l, x)
    BY <2>2 DEF TreeInsert, Leafed
  <2> HIDE DEF at, d, R
  <2>6. FixHead(l, T, v, R, x, 0) /\ Elsewhere(t, l, T)
    BY <2>1, <2>2, <2>3, <2>4, LeafHead
  <2> HIDE DEF l, v, T
  <2>7. Maintained(d.t, d.top, T, R) /\ Elsewhere(l, d.t, T)
    BY <2>5, <2>6, AvlFixBalances
  <2>8. Elsewhere(t, d.t, T)
    BY <2>6, <2>7 DEF Elsewhere
  <2> QED
    BY <2>7, <2>8 DEF d, T, R
<1> QED
  BY <1>1, <1>2 DEF Kept

LEMMA DeleteKeeps ==
  ASSUME NEW sc \in [Node -> Score], NEW t, NEW r, NEW M \in SUBSET Node,
         Kept(t, r, M, sc), NEW n \in M
  PROVE  LET d == AvlDel(t, n)
             e == AvlInit(d.t, n)
         IN  /\ Kept(e, d.top, M \ {n}, sc) /\ Idle(e, n)
             /\ e \in Trees /\ Elsewhere(t, e, M)
<1> DEFINE R == Less(sc)
           d == AvlDel(t, n)
           e == AvlInit(d.t, n)
<1>1. Maintained(t, r, M, R)
  BY DEF Kept
<1>2. Order(M, R)
  BY LessOrders
<1>3. /\ Elsewhere(t, d.t, M) /\ d.t \in Trees
      /\ M # {n} => Maintained(d.t, d.top, M \ {n}, R)
      /\ M = {n} => d.top = NULL
  <2> HIDE DEF R
  <2> QED
    BY <1>1, <1>2, AvlDelBalances
<1> HIDE DEF d, R
<1>4. e \in Trees /\ Idle(e, n) /\ Elsewhere(d.t, e, {n})
  BY <1>3, InitReads
<1> HIDE DEF e
<1>5. Elsewhere(t, e, M)
  BY <1>3, <1>4 DEF Elsewhere
<1>6. Elsewhere(d.t, e, Node \ (M \ {n}))
  BY <1>4 DEF Elsewhere
<1>7. M # {n} => Maintained(e, d.top, M \ {n}, R)
  BY <1>3, <1>4, <1>6, Undisturbed
<1>8. M = {n} => M \ {n} = {} /\ d.top = NULL
  BY <1>3
<1>9. Kept(e, d.top, M \ {n}, sc)
  BY <1>4, <1>7, <1>8 DEF Kept, R
<1> QED
  BY <1>4, <1>5, <1>9 DEF d, e

(* The score of another member does not matter to the tree. *)
LEMMA RescoreKeeps ==
  ASSUME NEW sc \in [Node -> Score], NEW t, NEW r, NEW M \in SUBSET Node,
         Kept(t, r, M, sc), NEW n \in Node \ M, NEW s \in Score
  PROVE  Kept(t, r, M, [sc EXCEPT ![n] = s])
<1> DEFINE e == [sc EXCEPT ![n] = s]
<1>1. \A m \in M : e[m] = sc[m]
  OBVIOUS
<1> HIDE DEF e
<1>2. \A a, b \in M : <<a, b>> \in Less(sc) <=> <<a, b>> \in Less(e)
  BY <1>1 DEF Less, ZComp
<1>3. Maintained(t, r, M, Less(sc)) => Maintained(t, r, M, Less(e))
  BY <1>2, Reordered
<1> QED
  BY <1>3 DEF Kept, e

-----------------------------------------------------------------------------
(* The inductive invariant. *)

Numbers == /\ hmap \subseteq Node /\ score \in [Node -> Score] /\ ret \in BOOLEAN
           /\ tree \in Trees

\* A member is in the tree and the hashtable, or in neither.
IInv == Numbers /\ Spare(tree, hmap) /\ Kept(tree, root, hmap, score)

LEMMA NoScoreIsScore == NoScore \in Score
BY ParameterAssumption DEF NoScore

LEMMA FreshIsIdle == Fresh \in Trees /\ \A n \in Node : Idle(Fresh, n)
<1>1. NULL \in Links
  BY DEF Links
<1>2. Fresh \in Trees
  BY <1>1 DEF Fresh, Trees
<1>3. \A n \in Node : Idle(Fresh, n)
  BY DEF Fresh, Idle
<1> QED
  BY <1>2, <1>3

LEMMA EmptyKept ==
  ASSUME NEW sc
  PROVE  Spare(Fresh, {}) /\ Kept(Fresh, NULL, {}, sc)
BY FreshIsIdle DEF Spare, Kept

LEMMA InitEstablishes == Init => IInv
<1> SUFFICES ASSUME Init PROVE IInv
  OBVIOUS
<1>1. Numbers
  BY NoScoreIsScore, FreshIsIdle DEF Init, Numbers
<1> QED
  BY <1>1, EmptyKept DEF Init, IInv

LEMMA InsertPreserves ==
  ASSUME IInv, NEW n \in Node, NEW s \in Score, ZSetInsert(n, s)
  PROVE  IInv'
<1> DEFINE sc == [score EXCEPT ![n] = s]
<1>1. /\ hmap \subseteq Node /\ score \in [Node -> Score] /\ tree \in Trees
      /\ Spare(tree, hmap) /\ Kept(tree, root, hmap, score)
  BY DEF IInv, Numbers
<1>2. sc \in [Node -> Score] /\ score' = sc /\ ret' \in BOOLEAN
  BY <1>1 DEF ZSetInsert, ZSetUpdate
<1> HIDE DEF sc
<1>3. CASE n \notin hmap
  <2> DEFINE d == TreeInsert(tree, root, sc, n)
  <2>1. hmap' = hmap \union {n} /\ tree' = d.t /\ root' = d.top
    BY <1>3 DEF ZSetInsert, Becomes, sc
  <2>2. Kept(tree, root, hmap, sc)
    BY <1>1, <1>3, RescoreKeeps DEF sc
  <2>3. Idle(tree, n)
    BY <1>1, <1>3 DEF Spare
  <2>4. /\ Maintained(d.t, d.top, hmap \union {n}, Less(sc))
        /\ Elsewhere(tree, d.t, hmap \union {n})
    BY <1>2, <1>3, <2>2, <2>3, InsertKeeps
  <2> HIDE DEF d
  <2>5. d.t \in Trees
    BY <2>4 DEF Maintained, Tree
  <2>6. Spare(d.t, hmap \union {n})
    BY <1>1, <2>4 DEF Spare, Elsewhere, Idle
  <2>7. Kept(d.t, d.top, hmap \union {n}, sc)
    BY <2>4 DEF Kept
  <2> QED
    BY <1>1, <1>2, <2>1, <2>5, <2>6, <2>7 DEF IInv, Numbers
<1>4. CASE n \in hmap
  <2> DEFINE d == AvlDel(tree, n)
             e == AvlInit(d.t, n)
             f == TreeInsert(e, d.top, sc, n)
             M == hmap \ {n}
  <2>1. hmap' = hmap /\ tree' = f.t /\ root' = f.top
    BY <1>4 DEF ZSetInsert, ZSetUpdate, Becomes, sc
  <2>2. Kept(e, d.top, M, score) /\ Idle(e, n) /\ e \in Trees /\ Elsewhere(tree, e, hmap)
    BY <1>1, <1>4, DeleteKeeps
  <2> HIDE DEF d, e
  <2>3. Kept(e, d.top, M, sc)
    BY <1>1, <2>2, RescoreKeeps DEF sc
  <2>4. n \in Node \ M /\ M \union {n} = hmap
    BY <1>4
  <2>5. /\ Maintained(f.t, f.top, M \union {n}, Less(sc))
        /\ Elsewhere(e, f.t, M \union {n})
    <3> HIDE DEF M
    <3> QED
      BY <1>2, <2>2, <2>3, <2>4, InsertKeeps
  <2>6. Maintained(f.t, f.top, hmap, Less(sc)) /\ Elsewhere(e, f.t, hmap)
    BY <2>4, <2>5
  <2> HIDE DEF f
  <2>7. f.t \in Trees
    BY <2>6 DEF Maintained, Tree
  <2>8. Spare(f.t, hmap)
    BY <1>1, <2>2, <2>6 DEF Spare, Elsewhere, Idle
  <2>9. Kept(f.t, f.top, hmap, sc)
    BY <2>6 DEF Kept
  <2> QED
    BY <1>1, <1>2, <2>1, <2>7, <2>8, <2>9 DEF IInv, Numbers
<1> QED
  BY <1>3, <1>4

LEMMA DeletePreserves ==
  ASSUME IInv, NEW n \in Node, ZSetDelete(n)
  PROVE  IInv'
<1>1. /\ hmap \subseteq Node /\ score \in [Node -> Score] /\ tree \in Trees
      /\ Spare(tree, hmap) /\ Kept(tree, root, hmap, score)
  BY DEF IInv, Numbers
<1>2. ret' \in BOOLEAN
  BY DEF ZSetDelete
<1>3. CASE n \notin hmap
  BY <1>1, <1>2, <1>3 DEF ZSetDelete, IInv, Numbers
<1>4. CASE n \in hmap
  <2> DEFINE d  == AvlDel(tree, n)
             e  == AvlInit(d.t, n)
             sc == [score EXCEPT ![n] = NoScore]
             M  == hmap \ {n}
  <2>1. hmap' = M /\ tree' = e /\ root' = d.top /\ score' = sc
    BY <1>4 DEF ZSetDelete, Becomes
  <2>2. Kept(e, d.top, M, score) /\ Idle(e, n) /\ e \in Trees /\ Elsewhere(tree, e, hmap)
    BY <1>1, <1>4, DeleteKeeps
  <2> HIDE DEF d, e
  <2>3. Kept(e, d.top, M, sc)
    BY <1>1, <1>4, <2>2, NoScoreIsScore, RescoreKeeps
  <2>4. Spare(e, M)
    BY <1>1, <1>4, <2>2 DEF Spare, Elsewhere, Idle
  <2>5. sc \in [Node -> Score]
    BY <1>1, NoScoreIsScore
  <2> HIDE DEF sc
  <2> QED
    BY <1>1, <1>2, <2>1, <2>2, <2>3, <2>4, <2>5 DEF IInv, Numbers
<1> QED
  BY <1>3, <1>4

LEMMA ClearPreserves ==
  ASSUME IInv, ZSetClear
  PROVE  IInv'
<1>1. Numbers'
  BY NoScoreIsScore, FreshIsIdle DEF ZSetClear, Numbers
<1>2. Spare(tree', hmap') /\ Kept(tree', root', hmap', score')
  BY EmptyKept DEF ZSetClear
<1> QED
  BY <1>1, <1>2 DEF IInv

LEMMA StepPreserves == IInv /\ [Next]_vars => IInv'
<1> SUFFICES ASSUME IInv, [Next]_vars PROVE IInv'
  OBVIOUS
<1>1. ASSUME NEW n \in Node, NEW s \in Score, ZSetInsert(n, s) PROVE IInv'
  BY <1>1, InsertPreserves
<1>2. ASSUME NEW n \in Node, ZSetDelete(n) PROVE IInv'
  BY <1>2, DeletePreserves
<1>3. CASE ZSetClear
  BY <1>3, ClearPreserves
<1>4. CASE UNCHANGED vars
  BY <1>4 DEF vars, IInv, Numbers
<1> QED
  BY <1>1, <1>2, <1>3, <1>4 DEF Next

LEMMA AlwaysKept == Spec => []IInv
BY InitEstablishes, StepPreserves, PTL DEF Spec

-----------------------------------------------------------------------------
(* What the invariant says of the fields. *)
KeptAs(t, r, M, sc, u) ==
  /\ t \in Trees /\ Shape(t, M, u) /\ Sorted(t, M, u, Less(sc)) /\ u[r] = M
  /\ r \in M \/ (M = {} /\ r = NULL)
  /\ \A m \in M : Sound(t, m)

LEMMA KeptShape ==
  ASSUME NEW t, NEW r, NEW M \in SUBSET Node, NEW sc, Kept(t, r, M, sc)
  PROVE  \E u : KeptAs(t, r, M, sc, u)
<1>1. CASE M = {} /\ r = NULL /\ t \in Trees
  <2> DEFINE u == [m \in Links |-> {}]
  <2>1. u \in [Links -> SUBSET M] /\ u[NULL] = {}
    BY DEF Links
  <2> HIDE DEF u
  <2>2. Shape(t, M, u) /\ Sorted(t, M, u, Less(sc))
    BY <1>1, <2>1 DEF Shape, Sorted
  <2> QED
    BY <1>1, <2>1, <2>2 DEF KeptAs
<1>2. CASE Maintained(t, r, M, Less(sc))
  BY <1>2 DEF KeptAs, Maintained, Tree
<1> QED
  BY <1>1, <1>2 DEF Kept

LEMMA InvariantShape ==
  ASSUME IInv
  PROVE  \E u : /\ KeptAs(tree, root, hmap, score, u)
                /\ Under(tree)[NULL] = {} /\ \A m \in hmap : Under(tree)[m] = u[m]
                /\ Under(tree)[root] = hmap
<1>1. PICK u : KeptAs(tree, root, hmap, score, u)
  BY KeptShape DEF IInv, Numbers
<1>2. Shape(tree, hmap, u) /\ Spare(tree, hmap) /\ u[NULL] = {}
  BY <1>1 DEF IInv, KeptAs, Shape
<1>3. Under(tree)[NULL] = {} /\ \A m \in hmap : Under(tree)[m] = u[m]
  BY <1>2, UnderOf
<1>4. Under(tree)[root] = u[root]
  BY <1>1, <1>2, <1>3 DEF KeptAs
<1> QED
  BY <1>1, <1>3, <1>4 DEF KeptAs

LEMMA TypesHold == IInv => TypeOK
<1> SUFFICES ASSUME IInv PROVE TypeOK
  OBVIOUS
<1>1. root \in Node \union {NULL}
  BY DEF IInv, Numbers, Kept, Maintained
<1> QED
  BY <1>1 DEF IInv, Numbers, TypeOK, Trees, Links

LEMMA LinksHold == IInv => Linked
<1> SUFFICES ASSUME IInv PROVE Linked
  OBVIOUS
<1>1. PICK u : /\ KeptAs(tree, root, hmap, score, u)
               /\ Under(tree)[NULL] = {} /\ \A m \in hmap : Under(tree)[m] = u[m]
               /\ Under(tree)[root] = hmap
  BY InvariantShape
<1>2. /\ Shape(tree, hmap, u) /\ u[root] = hmap /\ hmap \subseteq Node /\ NULL \notin Node
      /\ root \in hmap \/ (hmap = {} /\ root = NULL)
  BY <1>1, NodeAssumption DEF KeptAs, IInv, Numbers
<1>3. root # NULL => root \in hmap /\ tree.parent[root] = NULL
  BY <1>2, RootFacts
<1>4. \A n \in InTree, s \in Side :
        LET c == tree.child[n][s]
        IN c # NULL => tree.parent[c] = n /\ c \in hmap
  BY <1>1, <1>2, KidFacts DEF InTree
<1>5. ASSUME NEW n \in hmap, n # root
      PROVE  /\ tree.parent[n] # NULL
             /\ n \in {tree.child[tree.parent[n]][s] : s \in Side}
  <2>1. root \in hmap
    BY <1>2
  <2>2. tree.parent[n] # NULL
    BY <1>2, <1>5, <2>1, RootFacts
  <2>3. \E s \in Side : tree.child[tree.parent[n]][s] = n
    BY <1>2, <2>2, Place
  <2> QED
    BY <2>2, <2>3
<1> QED
  BY <1>3, <1>4, <1>5 DEF Linked

LEMMA IndexesHold == IInv => Indexed
<1> SUFFICES ASSUME IInv PROVE Indexed
  OBVIOUS
<1>1. PICK u : /\ KeptAs(tree, root, hmap, score, u)
               /\ Under(tree)[NULL] = {} /\ \A m \in hmap : Under(tree)[m] = u[m]
               /\ Under(tree)[root] = hmap
  BY InvariantShape
<1>2. /\ Shape(tree, hmap, u) /\ Sorted(tree, hmap, u, Less(score))
      /\ hmap \subseteq Node /\ u[NULL] = {}
  BY <1>1 DEF KeptAs, IInv, Numbers, Shape
<1>3. "left" \in Side /\ "right" \in Side
  BY DEF Side
<1>4. ASSUME NEW n \in hmap, NEW s \in Side, NEW m \in Under(tree)[tree.child[n][s]]
      PROVE  m \in hmap /\ On(Less(score), s, m, n)
  <2>1. tree.child[n][s] \in hmap \union {NULL}
    BY <1>2 DEF Shape
  <2>2. m \in u[tree.child[n][s]]
    BY <1>1, <1>2, <1>4, <2>1
  <2>3. m \in hmap
    BY <1>2, <2>2, KidFacts
  <2> QED
    BY <1>2, <2>2, <2>3 DEF Sorted
<1>5. \A n \in hmap : \A m \in Under(tree)[tree.child[n]["left"]] : ZComp(score, m, n)
  BY <1>2, <1>3, <1>4 DEF On, Less
<1>6. \A n \in hmap : \A m \in Under(tree)[tree.child[n]["right"]] : ZComp(score, n, m)
  BY <1>2, <1>3, <1>4 DEF On, Less
<1> QED
  BY <1>1, <1>5, <1>6 DEF Indexed

LEMMA BalanceHolds == IInv => Balanced
<1> SUFFICES ASSUME IInv PROVE Balanced
  OBVIOUS
<1>1. PICK u : /\ KeptAs(tree, root, hmap, score, u)
               /\ Under(tree)[NULL] = {} /\ \A m \in hmap : Under(tree)[m] = u[m]
               /\ Under(tree)[root] = hmap
  BY InvariantShape
<1>2. /\ Shape(tree, hmap, u) /\ tree \in Trees /\ \A m \in hmap : Sound(tree, m)
      /\ hmap \subseteq Node /\ NULL \notin Node /\ Spare(tree, hmap)
  BY <1>1, NodeAssumption DEF KeptAs, IInv, Numbers
<1>3. Height(tree)[NULL] = 0 /\ \A m \in hmap : Height(tree)[m] = tree.height[m]
  BY <1>2, HeightOf
<1>4. \A c \in hmap \union {NULL} : AvlCnt(tree, c) = Cardinality(u[c])
  BY <1>2, CntOf
<1>5. \A c \in hmap \union {NULL} : Height(tree)[c] = AvlHeight(tree, c)
  BY <1>2, <1>3 DEF AvlHeight
<1>6. "left" \in Side /\ "right" \in Side /\ Opp("left") = "right"
  BY DEF Side, Opp
<1>7. ASSUME NEW n \in hmap
      PROVE  LET l == tree.child[n]["left"]
                 r == tree.child[n]["right"]
             IN /\ tree.height[n] = Height(tree)[n]
                /\ tree.cnt[n] = Cardinality(Under(tree)[n])
                /\ Height(tree)[l] - Height(tree)[r] \in -1 .. 1
  <2> DEFINE l == tree.child[n]["left"]
             r == tree.child[n]["right"]
  <2>1. l \in hmap \union {NULL} /\ r \in hmap \union {NULL}
    BY <1>2, <1>6 DEF Shape
  <2>2. AvlHeight(tree, l) - AvlHeight(tree, r) \in -1 .. 1
    BY <1>2, <1>6 DEF Sound
  <2>3. tree.cnt[n] = AvlCnt(tree, n)
    BY <1>2 DEF AvlCnt
  <2> HIDE DEF l, r
  <2>4. Height(tree)[l] - Height(tree)[r] \in -1 .. 1
    BY <1>5, <2>1, <2>2
  <2>5. tree.height[n] = Height(tree)[n] /\ tree.cnt[n] = Cardinality(Under(tree)[n])
    BY <1>1, <1>3, <1>4, <2>3
  <2> QED
    BY <2>4, <2>5 DEF l, r
<1> QED
  BY <1>7 DEF Balanced

-----------------------------------------------------------------------------
(* The theorems. *)

(* Every variable of the sorted set has its type in every state: in         *)
(* particular no height or cnt of avl_update is ever zero or less.          *)
THEOREM TypeCorrect == Spec => []TypeOK
BY AlwaysKept, TypesHold, PTL

(* Parent and child pointers mirror each other after every operation of     *)
(* range.cpp, whatever rotations and successor swaps avl.cpp made for it,   *)
(* and nothing in the tree points to a node that ZREM freed.                *)
THEOREM TreeLinked == Spec => []Linked
BY AlwaysKept, LinksHold, PTL

(* The tree holds the members that the hashtable holds, in the order of     *)
(* (score, name), whatever the updates: zset_update leaves none behind.     *)
THEOREM BothIndexesAgree == Spec => []Indexed
BY AlwaysKept, IndexesHold, PTL

(* avl_fix leaves height and cnt exact at every node and every node's       *)
(* subtrees at most one apart, after any insertions and deletes.            *)
THEOREM TreeBalanced == Spec => []Balanced
BY AlwaysKept, BalanceHolds, PTL

-----------------------------------------------------------------------------
(* The abstract sorted set. *)

\* The tree has the members in their order.
InOrder == TreeOrder = Promise!Ordered(Members)

(* The node where two others part: the lowest that both are under.          *)
LEMMA Parting ==
  ASSUME NEW t, NEW S, NEW u, Shape(t, S, u), NEW r \in S, u[r] = S,
         NEW a \in S, NEW b \in S
  PROVE  \E n \in S : /\ a \in u[n] /\ b \in u[n]
                      /\ \A s \in Side : ~(a \in u[t.child[n][s]] /\ b \in u[t.child[n][s]])
<1> DEFINE T == {n \in S : a \in u[n] /\ b \in u[n]}
           f == [n \in S |-> Cardinality(u[n])]
<1>1. \A n \in S : u[n] \in SUBSET Node
  BY DEF Shape, Links
<1>2. \A n \in S : f[n] \in Nat
  BY <1>1, NodesFinite
<1>3. T # {} /\ T \subseteq S
  OBVIOUS
<1>4. PICK n \in T : \A m \in T : f[n] <= f[m]
  <2> HIDE DEF f, T
  <2> QED
    BY <1>2, <1>3, Least
<1>5. ASSUME NEW s \in Side, a \in u[t.child[n][s]], b \in u[t.child[n][s]]
      PROVE  FALSE
  <2> DEFINE c == t.child[n][s]
  <2>1. c # NULL
    BY <1>5 DEF Shape
  <2>2. n \in S /\ c \in S /\ u[c] \subseteq u[n] /\ n \notin u[c] /\ n \in u[n]
    BY <2>1, KidFacts
  <2>3. c \in T
    BY <1>5, <2>2
  <2>4. f[c] < f[n]
    BY <1>1, <2>2, FewerNodes
  <2> HIDE DEF f, T, c
  <2> QED
    BY <1>2, <1>3, <1>4, <2>2, <2>3, <2>4
<1> QED
  BY <1>4, <1>5

LEMMA TreeInOrder == IInv => InOrder
<1> SUFFICES ASSUME IInv PROVE InOrder
  OBVIOUS
<1> DEFINE R == Less(score)
           l(n) == tree.child[n]["left"]
           r(n) == tree.child[n]["right"]
           under == Under(tree)
<1>1. PICK u : /\ KeptAs(tree, root, hmap, score, u)
               /\ Under(tree)[NULL] = {} /\ \A m \in hmap : Under(tree)[m] = u[m]
               /\ Under(tree)[root] = hmap
  BY InvariantShape
<1>2. /\ hmap \in SUBSET Node /\ score \in [Node -> Score] /\ DOMAIN Members = hmap
      /\ \A m \in hmap : Members[m] = score[m]
  BY DEF IInv, Numbers, Members
<1>3. /\ Shape(tree, hmap, u) /\ Sorted(tree, hmap, u, R) /\ u[NULL] = {}
      /\ "left" \in Side /\ "right" \in Side /\ Opp("left") = "right"
      /\ root \in hmap \/ hmap = {}
  BY <1>1 DEF KeptAs, Shape, Side, Opp
<1>4. Order(hmap, R)
  BY <1>2, LessOrders
<1>5. \A a, b \in hmap : Before(Members[a], a, Members[b], b) <=> <<a, b>> \in R
  BY <1>2, ZCompOrder DEF Less
<1>6. \A n \in hmap : under[l(n)] = u[l(n)] /\ under[r(n)] = u[r(n)]
  <2>1. \A c \in hmap \union {NULL} : under[c] = u[c]
    BY <1>1, <1>3
  <2>2. \A n \in hmap : l(n) \in hmap \union {NULL} /\ r(n) \in hmap \union {NULL}
    BY <1>3 DEF Shape
  <2> HIDE DEF l, r, under
  <2> QED
    BY <2>1, <2>2
<1>7. ASSUME NEW n \in hmap
      PROVE  /\ n \in u[n] /\ u[l(n)] \subseteq hmap /\ u[r(n)] \subseteq hmap
             /\ \A m \in u[n] : m = n \/ m \in u[l(n)] \/ m \in u[r(n)]
             /\ \A m \in u[l(n)] : <<m, n>> \in R
             /\ \A m \in u[r(n)] : <<n, m>> \in R
  <2>1. \A m \in u[l(n)] : <<m, n>> \in R
    BY <1>3 DEF Sorted, On
  <2>2. \A m \in u[r(n)] : <<n, m>> \in R
    BY <1>3 DEF Sorted, On
  <2>3. u[l(n)] \subseteq hmap /\ u[r(n)] \subseteq hmap
    BY <1>3, KidFacts
  <2>4. n \in u[n] /\ \A m \in u[n] : m = n \/ m \in u[l(n)] \/ m \in u[r(n)]
    BY <1>3, KidFacts
  <2> QED
    BY <2>1, <2>2, <2>3, <2>4
<1> HIDE DEF R, l, r, under
<1>8. ASSUME NEW n \in hmap, NEW a \in {n} \union u[l(n)], NEW b \in {n} \union u[r(n)]
      PROVE  a \in hmap /\ b \in hmap /\ (a = b \/ <<a, b>> \in R)
  BY <1>4, <1>7 DEF Order
<1>9. ASSUME NEW a \in hmap, NEW b \in hmap, a = b \/ <<a, b>> \in R
      PROVE  \E n \in hmap : a \in {n} \union u[l(n)] /\ b \in {n} \union u[r(n)]
  <2>1. PICK n \in hmap :
             /\ a \in u[n] /\ b \in u[n]
             /\ \A s \in Side : ~(a \in u[tree.child[n][s]] /\ b \in u[tree.child[n][s]])
    <3>1. root \in hmap /\ u[root] = hmap
      BY <1>1, <1>3 DEF KeptAs
    <3> QED
      BY <1>3, <3>1, Parting
  <2>2. /\ ~(a \in u[l(n)] /\ b \in u[l(n)])
        /\ ~(a \in u[r(n)] /\ b \in u[r(n)])
    BY <1>3, <2>1 DEF l, r
  <2>3. ~(<<b, a>> \in R) /\ (a = b => a = n)
    BY <1>4, <1>7, <1>9, <2>1, <2>2 DEF Order
  <2>4. a \in {n} \union u[l(n)]
    <3>1. CASE a \in u[r(n)]
      <4>1. <<n, a>> \in R /\ a # n
        BY <1>4, <1>7, <3>1 DEF Order
      <4>2. b = n \/ <<b, n>> \in R
        BY <1>7, <2>1, <2>2, <3>1
      <4>3. <<b, a>> \in R
        BY <1>4, <4>1, <4>2 DEF Order
      <4> QED
        BY <2>3, <4>3
    <3> QED
      BY <1>7, <2>1, <3>1
  <2>5. b \in {n} \union u[r(n)]
    <3>1. CASE b \in u[l(n)]
      <4>1. <<b, n>> \in R /\ b # n
        BY <1>4, <1>7, <3>1 DEF Order
      <4>2. a = n \/ <<n, a>> \in R
        BY <1>7, <2>1, <2>2, <3>1
      <4>3. <<b, a>> \in R
        BY <1>4, <4>1, <4>2 DEF Order
      <4> QED
        BY <2>3, <4>3
    <3> QED
      BY <1>7, <2>1, <3>1
  <2> QED
    BY <2>4, <2>5
<1>10. TreeOrder = UNION {({n} \union u[l(n)]) \X ({n} \union u[r(n)]) : n \in hmap}
  <2>1. TreeOrder = UNION {({n} \union under[l(n)]) \X ({n} \union under[r(n)])
                            : n \in under[root]}
    BY DEF TreeOrder, l, r, under
  <2>2. under[root] = hmap
    BY <1>1 DEF under
  <2> QED
    BY <1>6, <2>1, <2>2
<1>11. Promise!Ordered(Members) =
         {p \in hmap \X hmap : p[1] = p[2] \/ <<p[1], p[2]>> \in R}
  <2>1. Promise!Ordered(Members) =
          {p \in hmap \X hmap :
             p[1] = p[2] \/ Before(Members[p[1]], p[1], Members[p[2]], p[2])}
    <3> DEFINE mem == Members
    <3>1. Promise!Ordered(mem) =
            {p \in (DOMAIN mem) \X (DOMAIN mem) :
               p[1] = p[2] \/ Before(mem[p[1]], p[1], mem[p[2]], p[2])}
      BY DEF Promise!Ordered, Promise!Before, Promise!NameLess, Before, NameLess
    <3>2. DOMAIN mem = hmap
      BY <1>2
    <3> HIDE DEF mem
    <3>3. Promise!Ordered(mem) =
            {p \in hmap \X hmap :
               p[1] = p[2] \/ Before(mem[p[1]], p[1], mem[p[2]], p[2])}
      BY <3>1, <3>2
    <3> QED
      BY <3>3 DEF mem
  <2>2. \A p \in hmap \X hmap :
           Before(Members[p[1]], p[1], Members[p[2]], p[2]) <=> <<p[1], p[2]>> \in R
    BY <1>5
  <2> QED
    BY <2>1, <2>2
<1>12. \A p : p \in TreeOrder <=> p \in Promise!Ordered(Members)
  <2>1. ASSUME NEW p \in TreeOrder PROVE p \in Promise!Ordered(Members)
    <3>1. PICK n \in hmap : p \in ({n} \union u[l(n)]) \X ({n} \union u[r(n)])
      BY <1>10, <2>1
    <3> QED
      BY <1>8, <1>11, <3>1
  <2>2. ASSUME NEW p \in Promise!Ordered(Members) PROVE p \in TreeOrder
    <3>1. /\ p \in hmap \X hmap /\ p = <<p[1], p[2]>>
          /\ p[1] = p[2] \/ <<p[1], p[2]>> \in R
      BY <1>11, <2>2
    <3>2. PICK n \in hmap : p[1] \in {n} \union u[l(n)] /\ p[2] \in {n} \union u[r(n)]
      BY <1>9, <3>1
    <3>3. p \in ({n} \union u[l(n)]) \X ({n} \union u[r(n)])
      BY <3>1, <3>2
    <3> QED
      BY <1>10, <3>3
  <2> QED
    BY <2>1, <2>2
<1> QED
  BY <1>12 DEF InOrder

LEMMA StepRefines ==
  IInv /\ InOrder /\ InOrder' /\ [Next]_vars => [Promise!Next]_(Promise!vars)
<1> SUFFICES ASSUME IInv, InOrder, InOrder', [Next]_vars
             PROVE  [Promise!Next]_(Promise!vars)
  OBVIOUS
<1>1. hmap \subseteq Node /\ score \in [Node -> Score]
  BY DEF IInv, Numbers
<1>2. TreeOrder = Promise!Ordered(Members) /\ TreeOrder' = Promise!Ordered(Members')
  BY DEF InOrder
<1>3. ASSUME NEW n \in Node, NEW s \in Score, ZSetInsert(n, s)
      PROVE  Promise!Insert(n, s)
  <2>1. /\ score' = [score EXCEPT ![n] = s]
        /\ call' = <<"insert", n, s>> /\ ret' = (n \notin hmap)
    BY <1>3 DEF ZSetInsert, ZSetUpdate
  <2>2. hmap' = hmap \union {n}
    BY <1>3 DEF ZSetInsert
  <2>3. DOMAIN Members = hmap
    BY DEF Members
  <2>4. Members' = [m \in DOMAIN Members \union {n} |->
                      IF m = n THEN s ELSE Members[m]]
    BY <1>1, <2>1, <2>2 DEF Members
  <2> QED
    BY <1>2, <2>1, <2>3, <2>4 DEF Promise!Insert
<1>4. ASSUME NEW n \in Node, ZSetDelete(n)
      PROVE  Promise!Delete(n)
  <2>1. hmap' = hmap \ {n} /\ call' = <<"delete", n>> /\ ret' = (n \in hmap)
    BY <1>4 DEF ZSetDelete
  <2>2. \A m \in hmap \ {n} : score'[m] = score[m]
    BY <1>1, <1>4 DEF ZSetDelete
  <2>3. DOMAIN Members = hmap
    BY DEF Members
  <2>4. Members' = [m \in DOMAIN Members \ {n} |-> Members[m]]
    BY <2>1, <2>2 DEF Members
  <2> QED
    BY <1>2, <2>1, <2>3, <2>4 DEF Promise!Delete
<1>5. ASSUME ZSetClear PROVE Promise!Clear
  <2>1. hmap' = {} /\ call' = <<"clear">> /\ ret' = FALSE
    BY <1>5 DEF ZSetClear
  <2>2. Members' = Promise!NoMembers
    BY <2>1 DEF Members, Promise!NoMembers
  <2> QED
    BY <1>2, <2>1, <2>2 DEF Promise!Clear
<1>6. ASSUME UNCHANGED vars PROVE UNCHANGED Promise!vars
  <2>1. Members' = Members /\ call' = call /\ ret' = ret
    BY <1>6 DEF vars, Members
  <2> QED
    BY <1>2, <2>1 DEF Promise!vars
<1> QED
  BY <1>3, <1>4, <1>5, <1>6 DEF Next, Promise!Next

(* ZADD, ZREM and DEL of range.cpp change the scores of the members, and    *)
(* answer, as a plain sorted set does, and the pointers of avl.cpp have the *)
(* same members in the order of these scores: however often they are scored *)
(* again, the two structures are one sorted set.                            *)
THEOREM ImplementsSortedSet == Spec => SortedSetSpec
<1>1. Init => Promise!Init
  <2> SUFFICES ASSUME Init PROVE Promise!Init
    OBVIOUS
  <2>1. Members = Promise!NoMembers /\ call = <<"clear">> /\ ret = FALSE
    BY DEF Init, Members, Promise!NoMembers
  <2>2. TreeOrder = Promise!Ordered(Members)
    BY InitEstablishes, TreeInOrder DEF InOrder
  <2> QED
    BY <2>1, <2>2 DEF Promise!Init
<1> QED
  BY <1>1, StepRefines, TreeInOrder, AlwaysKept, PTL DEF Spec, SortedSetSpec, Promise!Spec

-----------------------------------------------------------------------------
(* Searches: zset_rank and zset_ceil. *)

\* Is the member m before the position (s, name)?
Ahead(m, s, name) == Before(score[m], m, s, name)

LEMMA RankAhead ==
  ASSUME NEW s, NEW name
  PROVE  Rank(Members, s, name) = Cardinality({m \in hmap : Ahead(m, s, name)})
<1>1. Predecessors(Members, s, name) = {m \in hmap : Ahead(m, s, name)}
  BY DEF Predecessors, Members, Ahead
<1> QED
  BY <1>1 DEF Rank

LEMMA KeyFacts ==
  ASSUME Numbers, NEW s \in Int, NEW name \in Name
  PROVE  /\ \A n \in Node : /\ ZComp2(n, s, name) \in {0, 1, 2}
                            /\ ZComp2(n, s, name) = 1 <=> Ahead(n, s, name)
         /\ \A m, n \in Node : <<m, n>> \in Less(score) =>
              /\ Ahead(n, s, name) => Ahead(m, s, name)
              /\ ZComp2(n, s, name) = 2 => Ahead(m, s, name)
<1>1. \A m \in Node : m \in Name /\ score[m] \in Int
  BY ParameterAssumption DEF Name, Numbers
<1>2. \A m, n \in Node : <<m, n>> \in Less(score) <=> Before(score[m], m, score[n], n)
  BY ZCompOrder DEF Less, Numbers
<1>3. ASSUME NEW n \in Node
      PROVE  /\ ZComp2(n, s, name) \in {0, 1, 2}
             /\ ZComp2(n, s, name) = 1 <=> Ahead(n, s, name)
             /\ ZComp2(n, s, name) = 2 => score[n] = s /\ n = name
  <2>1. NameLess(n, name) <=> IF MemEqual(n, name) THEN Len(n) < Len(name)
                                                   ELSE MemLess(n, name)
    BY <1>1, ByteOrder
  <2>2. MemEqual(n, name) /\ Len(n) = Len(name) => n = name
    <3> SUFFICES ASSUME MemEqual(n, name), Len(n) = Len(name) PROVE n = name
      OBVIOUS
    <3>1. \A j \in 1 .. Len(n) : n[j] = name[j]
      BY DEF MemEqual, Shorter
    <3> QED
      BY <1>1, <3>1, SameLetters
  <2>3. Len(n) \in Nat /\ Len(name) \in Nat /\ score[n] \in Int
    BY <1>1, LettersAreNumbers
  <2> QED
    BY <2>1, <2>2, <2>3 DEF ZComp2, Ahead, Before
<1>4. ASSUME NEW m \in Node, NEW n \in Node, <<m, n>> \in Less(score), Ahead(n, s, name)
      PROVE  Ahead(m, s, name)
  <2>1. Before(score[m], m, score[n], n) /\ Before(score[n], n, s, name)
    BY <1>2, <1>4 DEF Ahead
  <2> QED
    BY <1>1, <2>1, NameTransitive DEF Before, Ahead
<1>5. ASSUME NEW m \in Node, NEW n \in Node, <<m, n>> \in Less(score),
             ZComp2(n, s, name) = 2
      PROVE  Ahead(m, s, name)
  BY <1>2, <1>3, <1>5 DEF Ahead
<1> QED
  BY <1>3, <1>4, <1>5

\* How many of the members under v are before the position (s, name).
AheadUnder(u, v, s, name) == Cardinality({m \in u[v] : Ahead(m, s, name)})

(* One turn of zset_rank: what it counts and what is left to count are      *)
(* always the members before the position.                                  *)
LEMMA RankTurns ==
  ASSUME Numbers, NEW u, KeptAs(tree, root, hmap, score, u),
         NEW s \in Int, NEW name \in Name,
         NEW y \in [node : hmap \union {NULL}, rank : Nat], y.node # NULL
  PROVE  LET z == RankTurn(s, name, y)
         IN  /\ z \in [node : hmap \union {NULL}, rank : Nat]
             /\ z.rank + AheadUnder(u, z.node, s, name) =
                  y.rank + AheadUnder(u, y.node, s, name)
             /\ Cardinality(u[z.node]) < Cardinality(u[y.node])
<1> DEFINE n == y.node
           l == tree.child[n]["left"]
           r == tree.child[n]["right"]
           c == ZComp2(n, s, name)
           k == AvlCnt(tree, l)
           Part(v) == {m \in u[v] : Ahead(m, s, name)}
           C(v) == Cardinality(Part(v))
           z == RankTurn(s, name, y)
           Goal == /\ z \in [node : hmap \union {NULL}, rank : Nat]
                   /\ z.rank + C(z.node) = y.rank + C(n)
                   /\ Cardinality(u[z.node]) < Cardinality(u[n])
<1> SUFFICES Goal
  BY DEF AheadUnder
<1>1. /\ Shape(tree, hmap, u) /\ Sorted(tree, hmap, u, Less(score)) /\ hmap \subseteq Node
      /\ u[NULL] = {} /\ tree \in Trees /\ n \in hmap /\ y.rank \in Nat
      /\ "left" \in Side /\ "right" \in Side /\ Opp("left") = "right"
      /\ \A m \in hmap : Sound(tree, m)
  BY DEF KeptAs, Numbers, Shape, Side, Opp
<1>2. /\ l \in hmap \union {NULL} /\ r \in hmap \union {NULL}
      /\ u[n] = {n} \union u[l] \union u[r] /\ u[l] \intersect u[r] = {}
      /\ u[n] \subseteq hmap
  <2>1. l \in hmap \union {NULL} /\ r \in hmap \union {NULL} /\ u[l] \intersect u[r] = {}
    <3>1. \A x \in Side : /\ tree.child[n][x] \in hmap \union {NULL}
                          /\ u[tree.child[n][x]] \intersect u[tree.child[n][Opp(x)]] = {}
      BY <1>1 DEF Shape
    <3> QED
      BY <1>1, <3>1
  <2>2. u[n] = {n} \union u[l] \union u[r]
    BY <1>1 DEF Shape
  <2>3. u[n] \subseteq hmap
    BY <1>1, KidFacts
  <2> QED
    BY <2>1, <2>2, <2>3
<1>3. n \notin u[l] /\ n \notin u[r]
  BY <1>1, KidFacts
<1>4. /\ \A m \in u[l] : m \in Node /\ <<m, n>> \in Less(score)
      /\ \A m \in u[r] : m \in Node /\ <<n, m>> \in Less(score)
  BY <1>1, <1>2 DEF Sorted, On
<1>5. k = Cardinality(u[l])
  BY <1>1, <1>2, CntOf
<1>6. \A A \in SUBSET u[n] : IsFiniteSet(A) /\ Cardinality(A) \in Nat
  BY <1>1, <1>2, NodesFinite
<1>7. \A v \in {l, r, NULL} : Cardinality(u[v]) < Cardinality(u[n])
  <2>1. \A v \in {l, r, NULL} : u[v] \in SUBSET u[n] /\ u[v] # u[n]
    BY <1>1, <1>2, <1>3
  <2>2. u[n] \in SUBSET Node
    BY <1>1, <1>2
  <2> QED
    BY <2>1, <2>2, FewerNodes
<1>8. /\ c \in {0, 1, 2} /\ (c = 1 <=> Ahead(n, s, name))
      /\ \A m \in u[l] : /\ Ahead(n, s, name) => Ahead(m, s, name)
                         /\ c = 2 => Ahead(m, s, name)
      /\ \A m \in u[r] : Ahead(m, s, name) => Ahead(n, s, name)
  BY <1>1, <1>4, KeyFacts
<1>9. k \in Nat
  BY <1>2, <1>5, <1>6
<1> HIDE DEF l, r, c, k, n
<1>10. CASE c = 0
  <2>1. z = [y EXCEPT !.node = l]
    BY <1>1, <1>10, NodeAssumption DEF RankTurn, n, c, l
  <2>2. z.node = l /\ z.rank = y.rank /\ z \in [node : hmap \union {NULL}, rank : Nat]
    BY <1>2, <2>1
  <2>3. Part(n) = Part(l)
    BY <1>2, <1>3, <1>8, <1>10
  <2> HIDE DEF z, Part
  <2> QED
    BY <1>7, <2>2, <2>3
<1>11. CASE c = 1
  <2>1. z = [node |-> r, rank |-> y.rank + k + 1]
    BY <1>1, <1>11, NodeAssumption DEF RankTurn, n, c, l, r, k
  <2>2. z.node = r /\ z.rank = y.rank + k + 1 /\ z \in [node : hmap \union {NULL}, rank : Nat]
    BY <1>1, <1>2, <1>9, <2>1
  <2>3. Part(n) = (u[l] \union Part(r)) \union {n}
    BY <1>2, <1>8, <1>11
  <2>4. u[l] \intersect Part(r) = {} /\ n \notin u[l] \union Part(r)
    BY <1>2, <1>3
  <2>5. u[l] \in SUBSET u[n] /\ Part(r) \in SUBSET u[n]
    BY <1>2
  <2> HIDE DEF z, Part
  <2>6. /\ IsFiniteSet(u[l]) /\ IsFiniteSet(Part(r))
        /\ Cardinality(u[l]) \in Nat /\ Cardinality(Part(r)) \in Nat
    BY <1>6, <2>5
  <2>7. IsFiniteSet(u[l] \union Part(r))
    BY <2>6, FS_Union
  <2>8. Cardinality(u[l] \union Part(r)) = Cardinality(u[l]) + Cardinality(Part(r))
    <3>1. Cardinality(u[l] \intersect Part(r)) = 0
      BY <2>4, FS_EmptySet
    <3>2. Cardinality(u[l] \union Part(r)) =
            Cardinality(u[l]) + Cardinality(Part(r)) - Cardinality(u[l] \intersect Part(r))
      BY <2>6, FS_Union
    <3> QED
      BY <2>6, <3>1, <3>2
  <2>9. Cardinality((u[l] \union Part(r)) \union {n}) = Cardinality(u[l] \union Part(r)) + 1
    BY <2>4, <2>7, FS_AddElement
  <2>10. C(n) = k + C(r) + 1
    BY <1>5, <2>3, <2>8, <2>9
  <2>11. C(r) \in Nat
    BY <2>6
  <2> HIDE DEF C
  <2>12. z.rank + C(r) = y.rank + C(n)
    BY <1>1, <1>9, <2>2, <2>10, <2>11
  <2> QED
    BY <1>7, <2>2, <2>12
<1>12. CASE c = 2
  <2>1. z = [node |-> NULL, rank |-> y.rank + k]
    BY <1>1, <1>12, NodeAssumption DEF RankTurn, n, c, l, k
  <2>2. z.node = NULL /\ z.rank = y.rank + k /\ z \in [node : hmap \union {NULL}, rank : Nat]
    BY <1>1, <1>9, <2>1
  <2>3. Part(n) = u[l] /\ Part(NULL) = {}
    BY <1>1, <1>2, <1>3, <1>8, <1>12
  <2> HIDE DEF z, Part
  <2>4. C(n) = k /\ C(NULL) = 0
    BY <1>5, <2>3, FS_EmptySet
  <2> QED
    BY <1>1, <1>7, <1>9, <2>2, <2>4
<1> HIDE DEF Goal
<1> QED
  BY <1>8, <1>10, <1>11, <1>12

(* zset_rank counts the members before any position, itself a member or not. *)
THEOREM RankCounts ==
  ASSUME IInv, NEW s \in Int, NEW name \in Name
  PROVE  ZSetRank(s, name) = Rank(Members, s, name)
<1> DEFINE N == Cardinality(Node)
           Turn(y) == RankTurn(s, name, y)
           st == [node |-> root, rank |-> 0]
<1>0. PICK u : /\ KeptAs(tree, root, hmap, score, u)
               /\ Under(tree)[NULL] = {} /\ \A m \in hmap : Under(tree)[m] = u[m]
               /\ Under(tree)[root] = hmap
  BY InvariantShape
<1> DEFINE C(v) == AheadUnder(u, v, s, name)
           Local == [node : hmap \union {NULL}, rank : Nat]
           X == [k \in Nat |-> {y \in Local : /\ y.rank + C(y.node) = C(root)
                                              /\ Cardinality(u[y.node]) <= k}]
<1>1. /\ N \in Nat /\ hmap \in SUBSET Node /\ NULL \notin Node /\ Numbers /\ u[NULL] = {}
      /\ u[root] = hmap /\ root \in hmap \union {NULL} /\ Shape(tree, hmap, u)
  BY <1>0, NodesFinite, NodeAssumption DEF IInv, Numbers, KeptAs, Shape
<1>2. \A v \in hmap \union {NULL} : Cardinality(u[v]) \in 0 .. N /\ C(v) \in Nat
  <2> SUFFICES ASSUME NEW v \in hmap \union {NULL}
               PROVE  Cardinality(u[v]) \in 0 .. N /\ C(v) \in Nat
    OBVIOUS
  <2>1. u[v] \in SUBSET Node
    BY <1>1 DEF Shape, Links
  <2>2. {m \in u[v] : Ahead(m, s, name)} \in SUBSET Node
    BY <2>1
  <2> QED
    BY <2>1, <2>2, NodesFinite DEF AheadUnder
<1>3. st \in X[N]
  <2> HIDE DEF C, N
  <2>1. C(root) \in Nat /\ Cardinality(u[root]) <= N
    BY <1>1, <1>2
  <2> QED
    BY <1>1, <2>1
<1>4. ASSUME NEW k \in Nat, NEW y \in X[k]
      PROVE  Turn(y) \in X[IF k = 0 THEN 0 ELSE k - 1]
  <2>1. y \in Local /\ y.rank + C(y.node) = C(root) /\ Cardinality(u[y.node]) <= k
    BY <1>4
  <2>2. CASE y.node = NULL
    <3>1. Turn(y) = y
      BY <2>2 DEF RankTurn
    <3>2. Cardinality(u[NULL]) = 0
      BY <1>1, FS_EmptySet
    <3> HIDE DEF Turn, C
    <3> QED
      BY <2>1, <2>2, <3>1, <3>2
  <2>3. CASE y.node # NULL
    <3> DEFINE z == Turn(y)
    <3>1. /\ z \in Local /\ z.rank + C(z.node) = y.rank + C(y.node)
          /\ Cardinality(u[z.node]) < Cardinality(u[y.node])
      <4>1. KeptAs(tree, root, hmap, score, u) /\ Numbers
        BY <1>1, <1>0
      <4> QED
        BY <4>1, <2>1, <2>3, RankTurns
    <3> HIDE DEF z, C
    <3>2. Cardinality(u[z.node]) \in Nat /\ Cardinality(u[y.node]) \in Nat
      BY <1>2, <2>1, <3>1
    <3>3. k # 0 /\ Cardinality(u[z.node]) <= k - 1
      BY <2>1, <3>1, <3>2
    <3>4. z \in X[k - 1]
      BY <2>1, <3>1, <3>3
    <3> QED
      BY <3>3, <3>4 DEF z
  <2> QED
    BY <2>2, <2>3
<1> DEFINE D == UNION {X[k] : k \in Nat}
           g == [y \in D |-> Turn(y)]
           P(f) == f = [k \in Nat |-> IF k = 0 THEN st ELSE Turn(f[k - 1])]
<1> HIDE DEF N
<1>5. g \in [D -> D] /\ st \in D
  <2> HIDE DEF X, Turn
  <2>1. \A k \in Nat : (IF k = 0 THEN 0 ELSE k - 1) \in Nat
    OBVIOUS
  <2>2. \A y \in D : Turn(y) \in D
    BY <1>4, <2>1
  <2> QED
    BY <1>1, <1>3, <2>2
<1>6. \E f : P(f)
  <2>1. PICK f : Iterate(f, D, g, st)
    <3> HIDE DEF D, g, st
    <3> QED
      BY <1>5, Iterates
  <2>2. \A k \in Nat : k # 0 => k - 1 \in Nat /\ f[k] = Turn(f[k - 1])
    <3> HIDE DEF X, Turn, st
    <3> SUFFICES ASSUME NEW k \in Nat, k # 0 PROVE k - 1 \in Nat /\ f[k] = Turn(f[k - 1])
      OBVIOUS
    <3>1. k - 1 \in Nat /\ (k - 1) + 1 = k
      OBVIOUS
    <3>2. f[k - 1] \in D /\ f[(k - 1) + 1] = g[f[k - 1]]
      BY <2>1, <3>1 DEF Iterate
    <3> QED
      BY <3>1, <3>2
  <2>3. f = [k \in Nat |-> f[k]] /\ f[0] = st
    BY <2>1 DEF Iterate
  <2> HIDE DEF Turn, st
  <2>4. f = [k \in Nat |-> IF k = 0 THEN st ELSE Turn(f[k - 1])]
    BY <2>2, <2>3
  <2> QED
    BY <2>4
<1> DEFINE f == CHOOSE f : P(f)
<1>7. P(f)
  <2> HIDE DEF P
  <2> QED
    BY <1>6
<1>8. ZSetRank(s, name) = f[N].rank
  BY DEF ZSetRank, Loop, N
<1> HIDE DEF f, X, Turn, st
<1>9. f[0] \in X[N] /\ \A k \in 0 .. N - 1 : f[k] \in X[N - k] => f[k + 1] \in X[N - k - 1]
  <2>1. f[0] = st
    BY <1>7
  <2>2. ASSUME NEW k \in 0 .. N - 1, f[k] \in X[N - k] PROVE f[k + 1] \in X[N - k - 1]
    <3>1. /\ k + 1 \in Nat /\ k + 1 # 0 /\ (k + 1) - 1 = k /\ N - k \in Nat /\ N - k # 0
          /\ N - k - 1 = (N - k) - 1
      BY <1>1
    <3>2. f[k + 1] = Turn(f[k])
      BY <1>7, <3>1
    <3> QED
      BY <1>4, <2>2, <3>1, <3>2
  <2> QED
    BY <1>3, <2>1, <2>2
<1>10. f[N] \in X[0]
  <2> HIDE DEF P
  <2> QED
    BY <1>1, <1>9, LoopReaches
<1>11. f[N].node = NULL
  <2>1. f[N].node \in hmap \union {NULL} /\ Cardinality(u[f[N].node]) <= 0
    BY <1>10 DEF X
  <2>2. \/ f[N].node \in u[f[N].node] /\ u[f[N].node] \in SUBSET Node
        \/ f[N].node = NULL
    BY <1>1, <2>1, KidFacts DEF Side
  <2>3. u[f[N].node] = {} \/ f[N].node = NULL
    <3>1. ASSUME f[N].node # NULL PROVE u[f[N].node] = {}
      <4>1. u[f[N].node] \in SUBSET Node
        BY <2>2, <3>1
      <4>2. IsFiniteSet(u[f[N].node]) /\ Cardinality(u[f[N].node]) \in Nat
        BY <4>1, NodesFinite
      <4> QED
        BY <2>1, <4>2, FS_EmptySet
    <3> QED
      BY <3>1
  <2> QED
    BY <2>2, <2>3
<1>12. C(NULL) = 0
  <2>1. {m \in u[NULL] : Ahead(m, s, name)} = {}
    BY <1>1
  <2> QED
    BY <2>1, FS_EmptySet DEF AheadUnder
<1>13. f[N].rank \in Nat /\ f[N].rank + C(f[N].node) = C(root)
  BY <1>10 DEF X
<1>14. C(root) = Rank(Members, s, name)
  BY <1>1, RankAhead DEF AheadUnder
<1> HIDE DEF C
<1> QED
  BY <1>8, <1>11, <1>12, <1>13, <1>14

(* One turn of zset_ceil: every member that is not before the position is   *)
(* found, or after what is found, or still below.                           *)
Ceiling(u, s, name, y) ==
  /\ y.found # NULL => ~Ahead(y.found, s, name)
  /\ \A m \in u[y.node] : y.found # NULL => <<m, y.found>> \in Less(score)
  /\ \A m \in hmap : ~Ahead(m, s, name) =>
       \/ m \in u[y.node] \/ m = y.found
       \/ y.found # NULL /\ <<y.found, m>> \in Less(score)

LEMMA CeilTurns ==
  ASSUME Numbers, NEW u, KeptAs(tree, root, hmap, score, u),
         NEW s \in Int, NEW name \in Name,
         NEW y \in [node : hmap \union {NULL}, found : hmap \union {NULL}],
         y.node # NULL, Ceiling(u, s, name, y)
  PROVE  LET z == CeilTurn(s, name, y)
         IN  /\ z \in [node : hmap \union {NULL}, found : hmap \union {NULL}]
             /\ Ceiling(u, s, name, z)
             /\ Cardinality(u[z.node]) < Cardinality(u[y.node])
<1> DEFINE n == y.node
           e == y.found
           l == tree.child[n]["left"]
           r == tree.child[n]["right"]
           c == ZComp2(n, s, name)
           z == CeilTurn(s, name, y)
           R == Less(score)
           Goal == /\ z \in [node : hmap \union {NULL}, found : hmap \union {NULL}]
                   /\ Ceiling(u, s, name, z)
                   /\ Cardinality(u[z.node]) < Cardinality(u[n])
<1> SUFFICES Goal
  OBVIOUS
<1>1. /\ Shape(tree, hmap, u) /\ Sorted(tree, hmap, u, R) /\ hmap \subseteq Node
      /\ u[NULL] = {} /\ n \in hmap /\ e \in hmap \union {NULL} /\ NULL \notin Node
      /\ "left" \in Side /\ "right" \in Side /\ Opp("left") = "right"
  BY NodeAssumption DEF KeptAs, Numbers, Shape, Side, Opp
<1>2. /\ l \in hmap \union {NULL} /\ r \in hmap \union {NULL}
      /\ \A m \in u[n] : m = n \/ m \in u[l] \/ m \in u[r]
      /\ u[n] \subseteq hmap /\ u[l] \subseteq u[n] /\ u[r] \subseteq u[n] /\ n \in u[n]
  <2>1. \A x \in Side : tree.child[n][x] \in hmap \union {NULL}
    BY <1>1 DEF Shape
  <2>2. /\ \A m \in u[n] : m = n \/ m \in u[l] \/ m \in u[r]
        /\ u[n] \subseteq hmap /\ u[l] \subseteq u[n] /\ n \in u[n]
    BY <1>1, KidFacts
  <2>3. u[r] \subseteq u[n]
    BY <1>1, KidFacts
  <2> QED
    BY <1>1, <2>1, <2>2, <2>3
<1>3. n \notin u[l] /\ n \notin u[r]
  BY <1>1, KidFacts
<1>4. /\ \A m \in u[l] : m \in hmap /\ <<m, n>> \in R
      /\ \A m \in u[r] : m \in hmap /\ <<n, m>> \in R
  BY <1>1, <1>2 DEF Sorted, On
<1>5. \A v \in {l, r, NULL} : Cardinality(u[v]) < Cardinality(u[n])
  <2>1. \A v \in {l, r, NULL} : u[v] \in SUBSET u[n] /\ u[v] # u[n]
    BY <1>1, <1>2, <1>3
  <2>2. u[n] \in SUBSET Node
    BY <1>1, <1>2
  <2> QED
    BY <2>1, <2>2, FewerNodes
<1>6. /\ c \in {0, 1, 2} /\ (c = 1 <=> Ahead(n, s, name))
      /\ \A m \in u[l] : /\ Ahead(n, s, name) => Ahead(m, s, name)
                         /\ c = 2 => Ahead(m, s, name)
      /\ \A m \in u[r] : Ahead(m, s, name) => Ahead(n, s, name)
  BY <1>1, <1>4, KeyFacts
<1>7. \A a, b, d \in hmap : <<a, b>> \in R /\ <<b, d>> \in R => <<a, d>> \in R
  <2>1. Order(hmap, R)
    BY <1>1, LessOrders DEF Numbers
  <2> QED
    BY <2>1 DEF Order
<1>8. /\ e # NULL => ~Ahead(e, s, name)
      /\ \A m \in u[n] : e # NULL => <<m, e>> \in R
      /\ \A m \in hmap : ~Ahead(m, s, name) =>
           m \in u[n] \/ m = e \/ (e # NULL /\ <<e, m>> \in R)
  BY DEF Ceiling
<1> HIDE DEF l, r, c, n, e, R
<1>9. CASE c = 1
  <2>1. z = [y EXCEPT !.node = r]
    BY <1>1, <1>9 DEF CeilTurn, n, c, r
  <2>2. /\ z.node = r /\ z.found = e
        /\ z \in [node : hmap \union {NULL}, found : hmap \union {NULL}]
    BY <1>2, <2>1 DEF e
  <2> HIDE DEF z
  <2>3. \A m \in hmap : ~Ahead(m, s, name) =>
           m \in u[r] \/ m = e \/ (e # NULL /\ <<e, m>> \in R)
    BY <1>2, <1>6, <1>8, <1>9
  <2>4. Ceiling(u, s, name, z)
    BY <1>2, <1>8, <2>2, <2>3 DEF Ceiling, R
  <2> QED
    BY <1>5, <2>2, <2>4
<1>10. ASSUME c # 1
       PROVE  /\ ~Ahead(n, s, name)
              /\ \A m \in u[l] : <<m, n>> \in R
              /\ \A m \in hmap : ~Ahead(m, s, name) =>
                   m \in u[l] \/ m = n \/ <<n, m>> \in R
  <2>1. ~Ahead(n, s, name)
    BY <1>6, <1>10
  <2>2. ASSUME NEW m \in hmap, ~Ahead(m, s, name)
        PROVE  m \in u[l] \/ m = n \/ <<n, m>> \in R
    <3>1. CASE m \in u[n]
      BY <1>2, <1>4, <3>1
    <3>2. CASE e # NULL /\ (m = e \/ <<e, m>> \in R)
      <4>1. <<n, e>> \in R
        BY <1>2, <1>8, <3>2
      <4> QED
        BY <1>1, <1>7, <3>2, <4>1
    <3> QED
      BY <1>1, <1>8, <2>2, <3>1, <3>2
  <2> QED
    BY <1>4, <2>1, <2>2
<1>11. CASE c = 0
  <2>1. z = [node |-> l, found |-> n]
    BY <1>1, <1>11 DEF CeilTurn, n, c, l
  <2>2. /\ z.node = l /\ z.found = n
        /\ z \in [node : hmap \union {NULL}, found : hmap \union {NULL}]
    BY <1>1, <1>2, <2>1
  <2> HIDE DEF z
  <2>3. Ceiling(u, s, name, z)
    BY <1>1, <1>10, <1>11, <2>2 DEF Ceiling, R
  <2> QED
    BY <1>5, <2>2, <2>3
<1>12. CASE c = 2
  <2>1. z = [node |-> NULL, found |-> n]
    BY <1>1, <1>12 DEF CeilTurn, n, c
  <2>2. /\ z.node = NULL /\ z.found = n
        /\ z \in [node : hmap \union {NULL}, found : hmap \union {NULL}]
    BY <1>1, <2>1
  <2> HIDE DEF z
  <2>3. \A m \in u[l] : Ahead(m, s, name)
    BY <1>6, <1>12
  <2>4. Ceiling(u, s, name, z)
    BY <1>1, <1>10, <1>12, <2>2, <2>3 DEF Ceiling, R
  <2> QED
    BY <1>5, <2>2, <2>4
<1> HIDE DEF Goal
<1> QED
  BY <1>6, <1>9, <1>11, <1>12

(* zset_ceil finds the first member that is not before the position, if any. *)
LEMMA CeilFinds ==
  ASSUME IInv, NEW s \in Int, NEW name \in Name
  PROVE  \/ ZSetCeil(s, name) = NULL /\ \A m \in hmap : Ahead(m, s, name)
         \/ /\ ZSetCeil(s, name) \in hmap
            /\ ~Ahead(ZSetCeil(s, name), s, name)
            /\ \A m \in hmap : ~Ahead(m, s, name) =>
                 m = ZSetCeil(s, name) \/ <<ZSetCeil(s, name), m>> \in Less(score)
<1> DEFINE N == Cardinality(Node)
           Turn(y) == CeilTurn(s, name, y)
           st == [node |-> root, found |-> NULL]
<1>0. PICK u : /\ KeptAs(tree, root, hmap, score, u)
               /\ Under(tree)[NULL] = {} /\ \A m \in hmap : Under(tree)[m] = u[m]
               /\ Under(tree)[root] = hmap
  BY InvariantShape
<1> DEFINE Local == [node : hmap \union {NULL}, found : hmap \union {NULL}]
           X == [k \in Nat |-> {y \in Local : /\ Ceiling(u, s, name, y)
                                              /\ Cardinality(u[y.node]) <= k}]
<1>1. /\ N \in Nat /\ hmap \in SUBSET Node /\ NULL \notin Node /\ Numbers /\ u[NULL] = {}
      /\ u[root] = hmap /\ root \in hmap \union {NULL} /\ Shape(tree, hmap, u)
  BY <1>0, NodesFinite, NodeAssumption DEF IInv, Numbers, KeptAs, Shape
<1>2. \A v \in hmap \union {NULL} : Cardinality(u[v]) \in 0 .. N
  <2> SUFFICES ASSUME NEW v \in hmap \union {NULL}
               PROVE  Cardinality(u[v]) \in 0 .. N
    OBVIOUS
  <2>1. u[v] \in SUBSET Node
    BY <1>1 DEF Shape, Links
  <2> QED
    BY <2>1, NodesFinite
<1>3. st \in X[N]
  <2> HIDE DEF N
  <2>1. Cardinality(u[root]) <= N
    BY <1>1, <1>2
  <2>2. Ceiling(u, s, name, st)
    BY <1>1 DEF Ceiling
  <2> QED
    BY <1>1, <2>1, <2>2
<1>4. ASSUME NEW k \in Nat, NEW y \in X[k]
      PROVE  Turn(y) \in X[IF k = 0 THEN 0 ELSE k - 1]
  <2>1. y \in Local /\ Ceiling(u, s, name, y) /\ Cardinality(u[y.node]) <= k
    BY <1>4
  <2>2. CASE y.node = NULL
    <3>1. Turn(y) = y
      BY <2>2 DEF CeilTurn
    <3>2. Cardinality(u[NULL]) = 0
      BY <1>1, FS_EmptySet
    <3> HIDE DEF Turn
    <3> QED
      BY <2>1, <2>2, <3>1, <3>2
  <2>3. CASE y.node # NULL
    <3> DEFINE z == Turn(y)
    <3>1. /\ z \in Local /\ Ceiling(u, s, name, z)
          /\ Cardinality(u[z.node]) < Cardinality(u[y.node])
      <4>1. KeptAs(tree, root, hmap, score, u) /\ Numbers
        BY <1>1, <1>0
      <4> QED
        BY <4>1, <2>1, <2>3, CeilTurns
    <3> HIDE DEF z
    <3>2. Cardinality(u[z.node]) \in Nat /\ Cardinality(u[y.node]) \in Nat
      BY <1>2, <2>1, <3>1
    <3>3. k # 0 /\ Cardinality(u[z.node]) <= k - 1
      BY <2>1, <3>1, <3>2
    <3>4. z \in X[k - 1]
      BY <2>1, <3>1, <3>3
    <3> QED
      BY <3>3, <3>4 DEF z
  <2> QED
    BY <2>2, <2>3
<1> DEFINE D == UNION {X[k] : k \in Nat}
           g == [y \in D |-> Turn(y)]
           P(f) == f = [k \in Nat |-> IF k = 0 THEN st ELSE Turn(f[k - 1])]
<1> HIDE DEF N
<1>5. g \in [D -> D] /\ st \in D
  <2> HIDE DEF X, Turn
  <2>1. \A k \in Nat : (IF k = 0 THEN 0 ELSE k - 1) \in Nat
    OBVIOUS
  <2>2. \A y \in D : Turn(y) \in D
    BY <1>4, <2>1
  <2> QED
    BY <1>1, <1>3, <2>2
<1>6. \E f : P(f)
  <2>1. PICK f : Iterate(f, D, g, st)
    <3> HIDE DEF D, g, st
    <3> QED
      BY <1>5, Iterates
  <2>2. \A k \in Nat : k # 0 => k - 1 \in Nat /\ f[k] = Turn(f[k - 1])
    <3> HIDE DEF X, Turn, st
    <3> SUFFICES ASSUME NEW k \in Nat, k # 0 PROVE k - 1 \in Nat /\ f[k] = Turn(f[k - 1])
      OBVIOUS
    <3>1. k - 1 \in Nat /\ (k - 1) + 1 = k
      OBVIOUS
    <3>2. f[k - 1] \in D /\ f[(k - 1) + 1] = g[f[k - 1]]
      BY <2>1, <3>1 DEF Iterate
    <3> QED
      BY <3>1, <3>2
  <2>3. f = [k \in Nat |-> f[k]] /\ f[0] = st
    BY <2>1 DEF Iterate
  <2> HIDE DEF Turn, st
  <2>4. f = [k \in Nat |-> IF k = 0 THEN st ELSE Turn(f[k - 1])]
    BY <2>2, <2>3
  <2> QED
    BY <2>4
<1> DEFINE f == CHOOSE f : P(f)
<1>7. P(f)
  <2> HIDE DEF P
  <2> QED
    BY <1>6
<1>8. ZSetCeil(s, name) = f[N].found
  BY DEF ZSetCeil, Loop, N
<1> HIDE DEF f, X, Turn, st
<1>9. f[0] \in X[N] /\ \A k \in 0 .. N - 1 : f[k] \in X[N - k] => f[k + 1] \in X[N - k - 1]
  <2>1. f[0] = st
    BY <1>7
  <2>2. ASSUME NEW k \in 0 .. N - 1, f[k] \in X[N - k] PROVE f[k + 1] \in X[N - k - 1]
    <3>1. /\ k + 1 \in Nat /\ k + 1 # 0 /\ (k + 1) - 1 = k /\ N - k \in Nat /\ N - k # 0
          /\ N - k - 1 = (N - k) - 1
      BY <1>1
    <3>2. f[k + 1] = Turn(f[k])
      BY <1>7, <3>1
    <3> QED
      BY <1>4, <2>2, <3>1, <3>2
  <2> QED
    BY <1>3, <2>1, <2>2
<1>10. f[N] \in X[0]
  <2> HIDE DEF P
  <2> QED
    BY <1>1, <1>9, LoopReaches
<1>11. f[N].node = NULL
  <2>1. f[N].node \in hmap \union {NULL} /\ Cardinality(u[f[N].node]) <= 0
    BY <1>10 DEF X
  <2>2. \/ f[N].node \in u[f[N].node] /\ u[f[N].node] \in SUBSET Node
        \/ f[N].node = NULL
    BY <1>1, <2>1, KidFacts DEF Side
  <2>3. u[f[N].node] = {} \/ f[N].node = NULL
    <3>1. ASSUME f[N].node # NULL PROVE u[f[N].node] = {}
      <4>1. u[f[N].node] \in SUBSET Node
        BY <2>2, <3>1
      <4>2. IsFiniteSet(u[f[N].node]) /\ Cardinality(u[f[N].node]) \in Nat
        BY <4>1, NodesFinite
      <4> QED
        BY <2>1, <4>2, FS_EmptySet
    <3> QED
      BY <3>1
  <2> QED
    BY <2>2, <2>3
<1>12. f[N].found \in hmap \union {NULL} /\ Ceiling(u, s, name, f[N])
  BY <1>10 DEF X
<1> QED
  BY <1>1, <1>8, <1>11, <1>12 DEF Ceiling

-----------------------------------------------------------------------------
(* Positions. *)

\* The place of a member: how many members are before it.
PlaceOf(n) == Rank(Members, score[n], n)

LEMMA MembersScored ==
  ASSUME IInv
  PROVE  /\ Scores(Members) /\ DOMAIN Members = hmap /\ IsFiniteSet(hmap)
         /\ \A m \in hmap : Members[m] = score[m] /\ score[m] \in Int /\ m \in Name
         /\ Cardinality(hmap) \in 0 .. Cardinality(Node)
<1>1. hmap \in SUBSET Node /\ score \in [Node -> Score]
  BY DEF IInv, Numbers
<1>2. DOMAIN Members = hmap /\ \A m \in hmap : Members[m] = score[m]
  BY DEF Members
<1>3. \A m \in hmap : score[m] \in Int /\ m \in Name
  BY <1>1, ParameterAssumption DEF Name
<1>4. IsFiniteSet(hmap) /\ Cardinality(hmap) \in 0 .. Cardinality(Node)
  BY <1>1, NodesFinite
<1> QED
  BY <1>2, <1>3, <1>4 DEF Scores

(* The members have the places 0, 1, .. up to their number, each one.       *)
LEMMA Places ==
  ASSUME IInv
  PROVE  /\ \A n \in hmap : PlaceOf(n) \in 0 .. Cardinality(hmap) - 1
         /\ \A m, n \in hmap : PlaceOf(m) = PlaceOf(n) => m = n
         /\ \A i \in 0 .. Cardinality(hmap) - 1 : \E n \in hmap : PlaceOf(n) = i
         /\ \A i : At(Members, i) = {n \in hmap : PlaceOf(n) = i}
<1>1. /\ Scores(Members) /\ DOMAIN Members = hmap
      /\ \A m \in hmap : Members[m] = score[m] /\ score[m] \in Int /\ m \in Name
      /\ IsFiniteSet(hmap) /\ Cardinality(hmap) \in Nat
  BY MembersScored, NodesFinite
<1>2. \A i : At(Members, i) = {n \in hmap : PlaceOf(n) = i}
  BY <1>1 DEF At, PlaceOf
<1>3. ASSUME NEW n \in hmap PROVE PlaceOf(n) \in 0 .. Cardinality(hmap) - 1
  <2> DEFINE P == Predecessors(Members, score[n], n)
  <2>1. P \in SUBSET hmap /\ n \notin P
    BY <1>1, NameIrreflexive DEF Predecessors, Before
  <2> HIDE DEF P
  <2>2. /\ Cardinality(P) <= Cardinality(hmap) /\ Cardinality(P) # Cardinality(hmap)
        /\ Cardinality(P) \in Nat
    BY <1>1, <2>1, FS_Subset, FS_CardinalityType
  <2> QED
    BY <1>1, <2>2 DEF PlaceOf, Rank, P
<1>4. \A m, n \in hmap : PlaceOf(m) = PlaceOf(n) => m = n
  BY <1>1, RanksDiffer DEF PlaceOf
<1>5. ASSUME NEW i \in 0 .. Cardinality(hmap) - 1 PROVE \E n \in hmap : PlaceOf(n) = i
  <2>1. At(Members, i) # {}
    BY <1>1, PlaceTaken
  <2> QED
    BY <1>2, <2>1
<1> QED
  BY <1>2, <1>3, <1>4, <1>5

LEMMA PlaceIsPos ==
  ASSUME IInv, NEW n \in hmap
  PROVE  PlaceOf(n) = Pos(hmap, Less(score), n)
<1>1. hmap \subseteq Node /\ score \in [Node -> Score]
  BY DEF IInv, Numbers
<1>2. \A m \in hmap : Ahead(m, score[n], n) <=> <<m, n>> \in Less(score)
  BY <1>1, ZCompOrder DEF Less, Ahead
<1>3. {m \in hmap : Ahead(m, score[n], n)} = Beyond(hmap, Less(score), "left", n)
  BY <1>2 DEF Beyond, On
<1> QED
  BY <1>3, RankAhead DEF PlaceOf, Pos

(* From a member, avl_offset reaches the member of any other place, or      *)
(* finds that none has it.                                                  *)
LEMMA OffsetPlace ==
  ASSUME IInv, NEW n \in hmap, NEW d \in Int
  PROVE  \/ /\ AvlOffset(tree, n, d) = NULL
            /\ \A m \in hmap : PlaceOf(m) # PlaceOf(n) + d
         \/ /\ AvlOffset(tree, n, d) \in hmap
            /\ PlaceOf(AvlOffset(tree, n, d)) = PlaceOf(n) + d
<1> DEFINE x == AvlOffset(tree, n, d)
           R == Less(score)
<1>1. PICK u : KeptAs(tree, root, hmap, score, u)
  BY InvariantShape
<1>2. hmap \subseteq Node /\ score \in [Node -> Score]
  BY DEF IInv, Numbers
<1>3. Tree(tree, hmap, u, R)
  <2>1. root \in hmap /\ u[root] = hmap
    BY <1>1 DEF KeptAs
  <2> QED
    BY <1>1, <2>1 DEF KeptAs, Tree, Rooted
<1>4. Order(hmap, R)
  BY <1>2, LessOrders
<1>5. \A m \in hmap : Sound(tree, m)
  BY <1>1 DEF KeptAs
<1> HIDE DEF R
<1>6. \/ x = NULL /\ \A m \in hmap : Pos(hmap, R, m) # Pos(hmap, R, n) + d
      \/ x \in hmap /\ Pos(hmap, R, x) = Pos(hmap, R, n) + d
  BY <1>3, <1>4, <1>5, AvlOffsetFinds
<1>7. \A m \in hmap : PlaceOf(m) = Pos(hmap, R, m)
  BY PlaceIsPos DEF R
<1> HIDE DEF x
<1> QED
  BY <1>6, <1>7 DEF x

LEMMA PositionsHold == IInv => PositionsExact
<1> SUFFICES ASSUME IInv, hmap \subseteq Queried PROVE PositionsExact
  BY DEF PositionsExact
<1>1. ASSUME NEW s \in Score, NEW n \in Queried
      PROVE  ZSetRank(s, n) = Rank(Members, s, n)
  <2>1. s \in Int /\ n \in Name
    BY ParameterAssumption DEF Name
  <2> QED
    BY <2>1, RankCounts
<1>2. ASSUME NEW n \in hmap, NEW d \in Int
      PROVE  LET at == At(Members, Rank(Members, score[n], n) + d)
             IN IF at = {} THEN AvlOffset(tree, n, d) = NULL
                           ELSE AvlOffset(tree, n, d) \in at
  <2> DEFINE at == At(Members, PlaceOf(n) + d)
             x  == AvlOffset(tree, n, d)
  <2>1. at = {m \in hmap : PlaceOf(m) = PlaceOf(n) + d}
    BY Places
  <2>2. \/ x = NULL /\ \A m \in hmap : PlaceOf(m) # PlaceOf(n) + d
        \/ x \in hmap /\ PlaceOf(x) = PlaceOf(n) + d
    BY OffsetPlace
  <2> HIDE DEF at, x
  <2>3. IF at = {} THEN x = NULL ELSE x \in at
    BY <2>1, <2>2
  <2> QED
    BY <2>3 DEF at, x, PlaceOf
<1>3. \A d \in -(Cardinality(hmap) + 1) .. Cardinality(hmap) + 1 : d \in Int
  OBVIOUS
<1> QED
  BY <1>1, <1>2, <1>3 DEF PositionsExact

(* zset_rank and avl_offset use the counts of the tree to go straight to a  *)
(* position; in every state they find the one the order of the members      *)
(* gives, from any member and in either direction.                          *)
THEOREM PositionsAreExact == Spec => []PositionsExact
BY AlwaysKept, PositionsHold, PTL

-----------------------------------------------------------------------------
(* Queries. *)

(* Before any turn of the loop of do_zquery: node is the member whose place *)
(* comes next, and NULL once no place is left of those the page may have.   *)
Emitted(first, left, limit, y) ==
  /\ y.node = NULL => left <= Len(y.names)
  /\ y.node # NULL => PlaceOf(y.node) = first + Len(y.names) /\ Len(y.names) < left
  /\ \A i \in 1 .. Len(y.names) : PlaceOf(y.names[i]) = first + i - 1
  /\ y.names # <<>> => 2 * Len(y.names) <= limit + 1 /\ Len(y.names) <= left

\* The loop has ended.
Over(limit, y) == y.node = NULL \/ 2 * Len(y.names) >= limit

LEMMA EmitTurns ==
  ASSUME IInv, NEW first \in Int, NEW left \in Int, NEW limit \in Int,
         left > 0 => first >= 0 /\ left = Cardinality(hmap) - first,
         NEW y \in [node : hmap \union {NULL}, names : Seq(hmap)],
         Emitted(first, left, limit, y), ~Over(limit, y)
  PROVE  LET z == EmitTurn(limit, y)
         IN  /\ z \in [node : hmap \union {NULL}, names : Seq(hmap)]
             /\ Emitted(first, left, limit, z)
             /\ Len(z.names) = Len(y.names) + 1
<1> DEFINE n == y.node
           l == Len(y.names)
           x == AvlOffset(tree, n, 1)
           z == EmitTurn(limit, y)
           size == Cardinality(hmap)
<1>1. /\ n \in hmap /\ n # NULL /\ l \in Nat /\ 2 * l < limit
      /\ PlaceOf(n) = first + l /\ l < left /\ size \in Nat /\ NULL \notin hmap
      /\ \A i \in 1 .. l : PlaceOf(y.names[i]) = first + i - 1
  <2>1. y.names \in Seq(hmap) /\ n # NULL /\ n \in hmap \union {NULL} /\ ~(2 * l >= limit)
    BY DEF Over
  <2>2. l \in Nat
    BY <2>1
  <2>3. NULL \notin hmap
    BY NodeAssumption DEF IInv, Numbers
  <2>4. size \in Nat
    BY MembersScored, NodesFinite
  <2> QED
    BY <2>1, <2>2, <2>3, <2>4 DEF Emitted
<1>2. first >= 0 /\ left = size - first
  BY <1>1
<1>3. z = [node |-> x, names |-> Append(y.names, n)]
  BY <1>1 DEF EmitTurn, ZNodeOffset
<1>4. \/ x = NULL /\ \A m \in hmap : PlaceOf(m) # PlaceOf(n) + 1
      \/ x \in hmap /\ PlaceOf(x) = PlaceOf(n) + 1
  BY <1>1, OffsetPlace
<1>5. /\ \A m \in hmap : PlaceOf(m) \in 0 .. size - 1
      /\ \A i \in 0 .. size - 1 : \E m \in hmap : PlaceOf(m) = i
  BY Places
<1> DEFINE p == Append(y.names, n)
<1>6. /\ p \in Seq(hmap) /\ Len(p) = l + 1 /\ p # <<>>
      /\ \A i \in 1 .. l + 1 : p[i] = IF i = l + 1 THEN n ELSE y.names[i]
  <2> DEFINE q == y.names
  <2>1. q \in Seq(hmap) /\ l = Len(q)
    OBVIOUS
  <2> HIDE DEF q, l, n
  <2>2. Append(q, n) \in Seq(hmap) /\ Len(Append(q, n)) = l + 1
    BY <1>1, <2>1
  <2>3. \A i \in 1 .. l + 1 : Append(q, n)[i] = IF i = l + 1 THEN n ELSE q[i]
    BY <1>1, <2>1
  <2>4. Append(q, n) # <<>>
    <3> DEFINE a == Append(q, n)
    <3>1. Len(a) # 0
      BY <1>1, <2>2
    <3> HIDE DEF a
    <3>2. a # <<>>
      BY <3>1
    <3> QED
      BY <3>2 DEF a
  <2> QED
    BY <2>2, <2>3, <2>4 DEF q
<1> HIDE DEF x, z, p, n, l, size
<1>7. z.node = x /\ z.names = p /\ z \in [node : hmap \union {NULL}, names : Seq(hmap)]
  BY <1>3, <1>4, <1>6 DEF p
<1>8. x = NULL => left <= l + 1
  <2> SUFFICES ASSUME x = NULL, l + 1 < left PROVE FALSE
    BY <1>1
  <2>1. first + l + 1 \in 0 .. size - 1
    BY <1>1, <1>2
  <2>2. PICK m \in hmap : PlaceOf(m) = first + l + 1
    BY <1>5, <2>1
  <2> QED
    BY <1>1, <1>4, <2>2
<1>9. x # NULL => PlaceOf(x) = first + (l + 1) /\ l + 1 < left
  BY <1>1, <1>2, <1>4, <1>5
<1>10. \A i \in 1 .. l + 1 : PlaceOf(p[i]) = first + i - 1
  <2> SUFFICES ASSUME NEW i \in 1 .. l + 1 PROVE PlaceOf(p[i]) = first + i - 1
    OBVIOUS
  <2>1. CASE i = l + 1
    BY <1>1, <1>6, <2>1
  <2>2. CASE i # l + 1
    <3>1. i \in 1 .. l
      BY <1>1, <2>2
    <3> QED
      BY <1>1, <1>6, <2>2, <3>1
  <2> QED
    BY <2>1, <2>2
<1>11. 2 * (l + 1) <= limit + 1 /\ l + 1 <= left
  BY <1>1
<1>12. Emitted(first, left, limit, z)
  BY <1>6, <1>7, <1>8, <1>9, <1>10, <1>11 DEF Emitted
<1> QED
  BY <1>6, <1>7, <1>12 DEF z, l

(* Where a query starts: at the offset from the ceiling.                    *)
LEMMA QueryStarts ==
  ASSUME IInv, NEW s \in Int, NEW name \in Name, NEW offset \in Int, NEW limit \in Int
  PROVE  LET start == Rank(Members, s, name)
             size  == Cardinality(hmap)
             left  == IF start + offset < 0 \/ start >= size
                        THEN 0 ELSE size - (start + offset)
             y     == [node |-> ZNodeOffset(ZSetCeil(s, name), offset), names |-> <<>>]
         IN  /\ y \in [node : hmap \union {NULL}, names : Seq(hmap)]
             /\ Emitted(start + offset, left, limit, y)
<1> DEFINE start == Rank(Members, s, name)
           size  == Cardinality(hmap)
           left  == IF start + offset < 0 \/ start >= size
                      THEN 0 ELSE size - (start + offset)
           x     == ZSetCeil(s, name)
           e     == ZNodeOffset(x, offset)
           y     == [node |-> e, names |-> <<>>]
<1>1. /\ NULL \notin hmap /\ size \in Nat /\ IsFiniteSet(hmap) /\ start \in 0 .. size
      /\ Scores(Members) /\ DOMAIN Members = hmap
  <2>1. NULL \notin hmap
    BY NodeAssumption DEF IInv, Numbers
  <2>2. /\ IsFiniteSet(hmap) /\ Scores(Members) /\ DOMAIN Members = hmap
    BY MembersScored
  <2>3. size \in Nat
    BY <2>2, FS_CardinalityType
  <2>4. start \in 0 .. size
    BY <2>2, RankBounded
  <2> QED
    BY <2>1, <2>2, <2>3, <2>4
<1>2. start = Cardinality({m \in hmap : Ahead(m, s, name)})
  BY RankAhead
<1>3. CASE x = NULL /\ \A m \in hmap : Ahead(m, s, name)
  <2>1. {m \in hmap : Ahead(m, s, name)} = hmap
    BY <1>3
  <2>2. start = size
    BY <1>2, <2>1
  <2>3. e = NULL
    BY <1>3 DEF ZNodeOffset
  <2>4. left = 0
    BY <1>1, <2>2
  <2> HIDE DEF start, size, x, e, left
  <2>5. y.node = NULL /\ y.names = <<>> /\ Len(y.names) = 0
    BY <2>3
  <2>6. y \in [node : hmap \union {NULL}, names : Seq(hmap)]
    BY <2>3
  <2>7. Emitted(start + offset, left, limit, y)
    BY <2>4, <2>5 DEF Emitted
  <2> QED
    BY <2>6, <2>7 DEF left, start, size, e, x
<1>4. CASE /\ x \in hmap /\ ~Ahead(x, s, name)
           /\ \A m \in hmap : ~Ahead(m, s, name) => m = x \/ <<x, m>> \in Less(score)
  <2>1. {m \in hmap : Ahead(m, s, name)} = Beyond(hmap, Less(score), "left", x)
    <3>1. Order(hmap, Less(score)) /\ Numbers
      BY LessOrders DEF IInv, Numbers
    <3>2. \A m \in hmap : <<m, x>> \in Less(score) <=> m # x /\ <<x, m>> \notin Less(score)
      BY <1>4, <3>1 DEF Order
    <3>3. \A m \in hmap : <<x, m>> \in Less(score) /\ Ahead(m, s, name) => Ahead(x, s, name)
      <4>1. \A m, k \in Node : <<m, k>> \in Less(score) =>
              (Ahead(k, s, name) => Ahead(m, s, name))
        BY <3>1, KeyFacts
      <4> QED
        BY <1>4, <3>1, <4>1 DEF Numbers
    <3>4. \A m \in hmap : Ahead(m, s, name) <=> <<m, x>> \in Less(score)
      BY <1>4, <3>2, <3>3
    <3> QED
      BY <3>4 DEF Beyond, On
  <2>2. PlaceOf(x) = start
    BY <1>2, <1>4, <2>1, PlaceIsPos DEF Pos
  <2>3. /\ \A m \in hmap : PlaceOf(m) \in 0 .. size - 1
        /\ \A i \in 0 .. size - 1 : \E m \in hmap : PlaceOf(m) = i
    BY Places
  <2>4. e = AvlOffset(tree, x, offset)
    BY <1>1, <1>4 DEF ZNodeOffset
  <2>5. \/ e = NULL /\ \A m \in hmap : PlaceOf(m) # PlaceOf(x) + offset
        \/ e \in hmap /\ PlaceOf(e) = PlaceOf(x) + offset
    BY <1>4, <2>4, OffsetPlace
  <2> HIDE DEF start, size, x, e
  <2>6. e = NULL => left <= 0
    <3> SUFFICES ASSUME e = NULL, left > 0 PROVE FALSE
      BY <1>1
    <3>1. start + offset \in 0 .. size - 1
      BY <1>1
    <3> QED
      BY <1>1, <1>4, <2>2, <2>3, <2>5, <3>1
  <2>7. e # NULL => PlaceOf(e) = start + offset /\ left > 0
    BY <1>1, <1>4, <2>2, <2>3, <2>5
  <2> HIDE DEF left
  <2>8. y.node = e /\ y.names = <<>> /\ Len(y.names) = 0
    OBVIOUS
  <2>9. y \in [node : hmap \union {NULL}, names : Seq(hmap)]
    BY <2>5
  <2>10. left \in Int
    BY <1>1 DEF left
  <2>11. Emitted(start + offset, left, limit, y)
    BY <1>1, <2>6, <2>7, <2>8, <2>10 DEF Emitted
  <2> QED
    BY <2>9, <2>11 DEF left, start, size, e, x
<1>5. \/ x = NULL /\ \A m \in hmap : Ahead(m, s, name)
      \/ /\ x \in hmap /\ ~Ahead(x, s, name)
         /\ \A m \in hmap : ~Ahead(m, s, name) => m = x \/ <<x, m>> \in Less(score)
  BY CeilFinds
<1> QED
  BY <1>3, <1>4, <1>5

(* The loop ends with the whole page.                                       *)
LEMMA QueryLoops ==
  ASSUME IInv, NEW s \in Int, NEW name \in Name, NEW offset \in Int,
         NEW limit \in Int, limit > 0
  PROVE  LET start == Rank(Members, s, name)
             size  == Cardinality(hmap)
             left  == IF start + offset < 0 \/ start >= size
                        THEN 0 ELSE size - (start + offset)
         IN  \E y : /\ y \in [node : hmap \union {NULL}, names : Seq(hmap)]
                    /\ Emitted(start + offset, left, limit, y) /\ Over(limit, y)
                    /\ ZQuery(s, name, offset, limit) = y.names
<1> DEFINE N == Cardinality(Node)
           Turn(y) == EmitTurn(limit, y)
           st == [node |-> ZNodeOffset(ZSetCeil(s, name), offset), names |-> <<>>]
           start == Rank(Members, s, name)
           size  == Cardinality(hmap)
           first == start + offset
           left  == IF first < 0 \/ start >= size THEN 0 ELSE size - first
           Local == [node : hmap \union {NULL}, names : Seq(hmap)]
           X == [k \in Nat |-> {y \in Local :
                   /\ Emitted(first, left, limit, y)
                   /\ Over(limit, y) \/ N <= Len(y.names) + k}]
<1>1. /\ N \in Nat /\ size \in 0 .. N /\ start \in Nat /\ first \in Int
      /\ left \in Int /\ left <= N
      /\ left > 0 => first >= 0 /\ left = size - first
  <2>1. N \in Nat /\ size \in 0 .. N
    BY MembersScored, NodesFinite
  <2>2. start \in Nat
    BY MembersScored, RankBounded, FS_CardinalityType
  <2> HIDE DEF N, size, start
  <2> QED
    BY <2>1, <2>2
<1>2. st \in Local /\ Emitted(first, left, limit, st)
  BY QueryStarts
<1> HIDE DEF left, first, start, size
<1>3. st \in X[N]
  <2>1. Len(st.names) = 0
    OBVIOUS
  <2> HIDE DEF N, st
  <2>2. N <= Len(st.names) + N
    BY <1>1, <2>1
  <2> QED
    BY <1>1, <1>2, <2>2
<1>4. ASSUME NEW k \in Nat, NEW y \in X[k]
      PROVE  Turn(y) \in X[IF k = 0 THEN 0 ELSE k - 1]
  <2>1. /\ y \in Local /\ Emitted(first, left, limit, y)
        /\ Over(limit, y) \/ N <= Len(y.names) + k
        /\ Len(y.names) \in Nat
    BY <1>4
  <2>2. CASE Over(limit, y)
    <3>1. Turn(y) = y
      BY <2>1, <2>2 DEF EmitTurn, Over
    <3> HIDE DEF Turn
    <3> QED
      BY <2>1, <2>2, <3>1
  <2>3. CASE ~Over(limit, y)
    <3> DEFINE z == Turn(y)
    <3>1. /\ z \in Local /\ Emitted(first, left, limit, z)
          /\ Len(z.names) = Len(y.names) + 1
      BY <1>1, <2>1, <2>3, EmitTurns DEF size
    <3>2. Len(y.names) < left
      BY <2>1, <2>3 DEF Emitted, Over
    <3> DEFINE j == k - 1
    <3> HIDE DEF z, N
    <3>3. k # 0 /\ j \in Nat /\ N <= Len(z.names) + j
      BY <1>1, <2>1, <2>3, <3>1, <3>2
    <3> HIDE DEF j, Turn, st
    <3>4. z \in X[j]
      BY <3>1, <3>3
    <3> QED
      BY <3>3, <3>4 DEF z, j
  <2> QED
    BY <2>2, <2>3
<1> DEFINE D == UNION {X[k] : k \in Nat}
           g == [y \in D |-> Turn(y)]
           P(f) == f = [k \in Nat |-> IF k = 0 THEN st ELSE Turn(f[k - 1])]
<1> HIDE DEF N
<1>5. g \in [D -> D] /\ st \in D
  <2> HIDE DEF X, Turn
  <2>1. \A k \in Nat : (IF k = 0 THEN 0 ELSE k - 1) \in Nat
    OBVIOUS
  <2>2. \A y \in D : Turn(y) \in D
    BY <1>4, <2>1
  <2> QED
    BY <1>1, <1>3, <2>2
<1>6. \E f : P(f)
  <2>1. PICK f : Iterate(f, D, g, st)
    <3> HIDE DEF D, g, st
    <3> QED
      BY <1>5, Iterates
  <2>2. \A k \in Nat : k # 0 => k - 1 \in Nat /\ f[k] = Turn(f[k - 1])
    <3> HIDE DEF X, Turn, st
    <3> SUFFICES ASSUME NEW k \in Nat, k # 0 PROVE k - 1 \in Nat /\ f[k] = Turn(f[k - 1])
      OBVIOUS
    <3>1. k - 1 \in Nat /\ (k - 1) + 1 = k
      OBVIOUS
    <3>2. f[k - 1] \in D /\ f[(k - 1) + 1] = g[f[k - 1]]
      BY <2>1, <3>1 DEF Iterate
    <3> QED
      BY <3>1, <3>2
  <2>3. f = [k \in Nat |-> f[k]] /\ f[0] = st
    BY <2>1 DEF Iterate
  <2> HIDE DEF Turn, st
  <2>4. f = [k \in Nat |-> IF k = 0 THEN st ELSE Turn(f[k - 1])]
    BY <2>2, <2>3
  <2> QED
    BY <2>4
<1> DEFINE f == CHOOSE f : P(f)
<1>7. P(f)
  <2> HIDE DEF P
  <2> QED
    BY <1>6
<1>8. ZQuery(s, name, offset, limit) = f[N].names
  BY DEF ZQuery, Loop, N
<1> HIDE DEF f, X, Turn, st
<1>9. f[0] \in X[N] /\ \A k \in 0 .. N - 1 : f[k] \in X[N - k] => f[k + 1] \in X[N - k - 1]
  <2>1. f[0] = st
    BY <1>7
  <2>2. ASSUME NEW k \in 0 .. N - 1, f[k] \in X[N - k] PROVE f[k + 1] \in X[N - k - 1]
    <3>1. /\ k + 1 \in Nat /\ k + 1 # 0 /\ (k + 1) - 1 = k /\ N - k \in Nat /\ N - k # 0
          /\ N - k - 1 = (N - k) - 1
      BY <1>1
    <3>2. f[k + 1] = Turn(f[k])
      BY <1>7, <3>1
    <3> QED
      BY <1>4, <2>2, <3>1, <3>2
  <2> QED
    BY <1>3, <2>1, <2>2
<1>10. f[N] \in X[0]
  <2> HIDE DEF P
  <2> QED
    BY <1>1, <1>9, LoopReaches
<1>11. f[N] \in Local /\ Emitted(first, left, limit, f[N]) /\ Len(f[N].names) \in Nat
  BY <1>10 DEF X
<1>12. Over(limit, f[N])
  <2> SUFFICES ASSUME ~Over(limit, f[N]) PROVE FALSE
    OBVIOUS
  <2>1. N <= Len(f[N].names) + 0
    BY <1>10 DEF X
  <2>2. Len(f[N].names) < left
    BY <1>11 DEF Emitted, Over
  <2> QED
    BY <1>1, <1>11, <2>1, <2>2
<1> QED
  BY <1>8, <1>11, <1>12 DEF left, first, start, size

LEMMA QueryAnswers ==
  ASSUME IInv, NEW s \in Int, NEW name \in Name, NEW offset \in Int,
         NEW limit \in Int
  PROVE  ZQuery(s, name, offset, limit) =
           Query(Members, s, name, offset, IF limit <= 0 THEN 0 ELSE (limit + 1) \div 2)
<1> DEFINE start  == Rank(Members, s, name)
           size   == Cardinality(hmap)
           first  == start + offset
           left   == IF first < 0 \/ start >= size THEN 0 ELSE size - first
           number == IF limit <= 0 THEN 0 ELSE (limit + 1) \div 2
           len    == IF left < number THEN left ELSE number
           place(i) == CHOOSE m \in hmap : m \in At(Members, first + i - 1)
<1>1. Query(Members, s, name, offset, number) = [i \in 1 .. len |-> place(i)]
  BY MembersScored DEF Query
<1>2. /\ size \in Nat /\ start \in Nat /\ first \in Int /\ left \in Int
      /\ number \in Nat /\ len \in Int
  <2>1. size \in Nat
    BY MembersScored, NodesFinite
  <2>2. start \in Nat
    BY MembersScored, RankBounded, FS_CardinalityType
  <2> HIDE DEF size, start
  <2> QED
    BY <2>1, <2>2
<1>3. CASE limit <= 0
  <2>1. ZQuery(s, name, offset, limit) = <<>>
    BY <1>3 DEF ZQuery
  <2>2. len <= 0
    BY <1>2, <1>3
  <2> HIDE DEF len, place, number
  <2>3. [i \in 1 .. len |-> place(i)] = <<>>
    <3>1. 1 .. len = {}
      BY <1>2, <2>2
    <3> QED
      BY <3>1
  <2> QED
    BY <1>1, <2>1, <2>3 DEF number
<1>4. CASE limit > 0
  <2>1. PICK y : /\ y \in [node : hmap \union {NULL}, names : Seq(hmap)]
                 /\ Emitted(first, left, limit, y) /\ Over(limit, y)
                 /\ ZQuery(s, name, offset, limit) = y.names
    BY <1>4, QueryLoops
  <2> DEFINE q == y.names
  <2>2. q \in Seq(hmap) /\ Len(q) \in Nat /\ \A i \in 1 .. Len(q) : q[i] \in hmap
    BY <2>1
  <2>3. \A i \in 1 .. Len(q) : PlaceOf(q[i]) = first + i - 1
    BY <2>1 DEF Emitted
  <2>4. /\ q # <<>> => 2 * Len(q) <= limit + 1 /\ Len(q) <= left
        /\ left <= Len(q) \/ 2 * Len(q) >= limit
    BY <2>1 DEF Emitted, Over
  <2>5. number \in Nat /\ (2 * number = limit + 1 \/ 2 * number = limit)
    BY <1>4
  <2>6. Len(q) = IF len < 0 THEN 0 ELSE len
    <3> HIDE DEF q, number, left
    <3>1. q = <<>> => Len(q) = 0
      OBVIOUS
    <3>2. q = <<>> \/ (2 * Len(q) <= limit + 1 /\ Len(q) <= left)
      BY <2>4
    <3> QED
      BY <1>2, <1>4, <2>2, <2>4, <2>5, <3>1, <3>2
  <2>7. ASSUME NEW i \in 1 .. Len(q) PROVE q[i] = place(i)
    <3>1. At(Members, first + i - 1) = {m \in hmap : PlaceOf(m) = first + i - 1}
      BY Places
    <3>2. \A m \in hmap : PlaceOf(m) = first + i - 1 => m = q[i]
      BY <2>2, <2>3, Places
    <3> HIDE DEF q, first
    <3> QED
      BY <2>2, <2>3, <3>1, <3>2
  <2> HIDE DEF q, place, len, number
  <2>8. 1 .. len = 1 .. Len(q)
    BY <1>2, <2>6
  <2>9. q = [i \in 1 .. Len(q) |-> q[i]]
    BY <2>2
  <2>10. q = [i \in 1 .. len |-> place(i)]
    BY <2>7, <2>8, <2>9
  <2> QED
    BY <1>1, <2>1, <2>10 DEF q, number
<1> QED
  BY <1>3, <1>4

LEMMA QueriesHold == IInv => QueryExact
<1> SUFFICES ASSUME IInv,
                    NEW s \in Score, NEW n \in Queried,
                    NEW offset \in Offsets, NEW limit \in Limits
             PROVE  ZQuery(s, n, offset, limit) =
                      Query(Members, s, n, offset,
                            IF limit <= 0 THEN 0 ELSE (limit + 1) \div 2)
  BY DEF QueryExact
<1>1. s \in Int /\ n \in Name /\ offset \in Int /\ limit \in Int
  BY ParameterAssumption DEF Name
<1> QED
  BY <1>1, QueryAnswers

(* ZQUERY answers, in every state, the page that the order of the members   *)
(* gives: zset_ceil finds where it starts, avl_offset follows the offset    *)
(* and every next member, and limit counts the elements of the pairs.       *)
THEOREM QueriesAreExact == Spec => []QueryExact
BY AlwaysKept, QueriesHold, PTL
=============================================================================
