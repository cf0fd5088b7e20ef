---------------------------- MODULE ZOrderProofs ----------------------------
(***************************************************************************)
(* The order of a sorted set is total, so every place below its size is    *)
(* that of exactly one member: what a query takes from it exists.          *)
(***************************************************************************)
EXTENDS ZOrder, FiniteSetTheorems, NaturalsInduction, WellFoundedInduction, TLAPS

Name == Seq(Nat)

(* A set of numbers has a least one. *)
LEMMA LeastNumber ==
  ASSUME NEW S, S \subseteq Nat, S # {}
  PROVE  \E n \in S : \A m \in S : n <= m
<1>1. PICK n \in S : \A m \in S : <<m, n>> \notin OpToRel(<, Nat)
  BY NatLessThanWellFounded, WFMin
<1>2. \A m \in S : ~(m < n)
  BY <1>1 DEF OpToRel
<1> QED
  BY <1>2

LEMMA LettersAreNumbers ==
  ASSUME NEW a \in Name
  PROVE  Len(a) \in Nat /\ \A j \in 1 .. Len(a) : a[j] \in Nat
BY DEF Name

LEMMA SameLetters ==
  ASSUME NEW a \in Name, NEW b \in Name, Len(a) = Len(b),
         \A j \in 1 .. Len(a) : a[j] = b[j]
  PROVE  a = b
<1>1. a = [j \in 1 .. Len(a) |-> a[j]] /\ b = [j \in 1 .. Len(b) |-> b[j]]
  BY DEF Name
<1> QED
  BY <1>1

(* Of two names, one is less when it ends, or has the smaller letter, where *)
(* they first differ.                                                       *)
LEMMA LessAt ==
  ASSUME NEW a \in Name, NEW b \in Name
  PROVE  NameLess(a, b) <=>
           \E i \in 0 .. Len(a) :
             /\ i < Len(b)
             /\ \A j \in 1 .. i : a[j] = b[j]
             /\ i = Len(a) \/ a[i + 1] < b[i + 1]
<1>1. ASSUME NEW i \in 0 .. Len(a), i < Len(b)
      PROVE  SubSeq(a, 1, i) = SubSeq(b, 1, i) <=> \A j \in 1 .. i : a[j] = b[j]
  <2>1. /\ Len(SubSeq(a, 1, i)) = i /\ Len(SubSeq(b, 1, i)) = i
        /\ \A j \in 1 .. i : SubSeq(a, 1, i)[j] = a[j] /\ SubSeq(b, 1, i)[j] = b[j]
    BY <1>1 DEF Name
  <2>2. SubSeq(a, 1, i) \in Name /\ SubSeq(b, 1, i) \in Name
    BY <1>1 DEF Name
  <2> QED
    BY <2>1, <2>2, <1>1 DEF Name
<1> QED
  BY <1>1 DEF NameLess, Name

LEMMA NameIrreflexive ==
  ASSUME NEW a \in Name
  PROVE  ~NameLess(a, a)
<1>1. \A i \in 0 .. Len(a) : i < Len(a) => a[i + 1] \in Nat
  BY DEF Name
<1> QED
  BY LessAt, <1>1 DEF Name

LEMMA NameTransitive ==
  ASSUME NEW a \in Name, NEW b \in Name, NEW c \in Name,
         NameLess(a, b), NameLess(b, c)
  PROVE  NameLess(a, c)
<1>1. PICK i \in 0 .. Len(a) : /\ i < Len(b)
                               /\ \A j \in 1 .. i : a[j] = b[j]
                               /\ i = Len(a) \/ a[i + 1] < b[i + 1]
  BY LessAt
<1>2. PICK k \in 0 .. Len(b) : /\ k < Len(c)
                               /\ \A j \in 1 .. k : b[j] = c[j]
                               /\ k = Len(b) \/ b[k + 1] < c[k + 1]
  BY LessAt
<1>3. /\ Len(a) \in Nat /\ \A j \in 1 .. Len(a) : a[j] \in Nat
      /\ Len(b) \in Nat /\ \A j \in 1 .. Len(b) : b[j] \in Nat
      /\ Len(c) \in Nat /\ \A j \in 1 .. Len(c) : c[j] \in Nat
  BY LettersAreNumbers
<1>4. CASE i <= k
  <2>1. i < Len(c) /\ \A j \in 1 .. i : a[j] = c[j]
    BY <1>1, <1>2, <1>3, <1>4
  <2>2. i = Len(a) \/ a[i + 1] < c[i + 1]
    <3>1. CASE i = k
      BY <1>1, <1>2, <1>3, <3>1
    <3>2. CASE i < k
      <4>1. b[i + 1] = c[i + 1]
        BY <1>2, <1>1, <1>3, <3>2
      <4> QED
        BY <4>1, <1>1
    <3> QED
      BY <1>4, <1>1, <1>2, <1>3, <3>1, <3>2
  <2> QED
    BY <2>1, <2>2, LessAt
<1>5. CASE k < i
  <2>1. k \in 0 .. Len(a) /\ k < Len(a) /\ \A j \in 1 .. k : a[j] = c[j]
    BY <1>1, <1>2, <1>3, <1>5
  <2>2. a[k + 1] = b[k + 1] /\ k # Len(b)
    BY <1>1, <1>2, <1>3, <1>5
  <2> QED
    BY <2>1, <2>2, <1>2, LessAt
<1> QED
  BY <1>4, <1>5, <1>1, <1>2, <1>3

LEMMA NameTotal ==
  ASSUME NEW a \in Name, NEW b \in Name, a # b
  PROVE  NameLess(a, b) \/ NameLess(b, a)
<1> DEFINE D == {j \in Nat : j \in 1 .. Len(a) /\ j \in 1 .. Len(b) /\ a[j] # b[j]}
<1>1. /\ Len(a) \in Nat /\ \A j \in 1 .. Len(a) : a[j] \in Nat
      /\ Len(b) \in Nat /\ \A j \in 1 .. Len(b) : b[j] \in Nat
  BY LettersAreNumbers
<1>2. CASE D = {}
  <2>1. \A j \in 1 .. Len(a) : j \in 1 .. Len(b) => a[j] = b[j]
    BY <1>2, <1>1
  <2>2. Len(a) # Len(b)
    BY <2>1, SameLetters
  <2>3. CASE Len(a) < Len(b)
    <3>1. NameLess(a, b)
      BY <2>1, <2>3, <1>1, LessAt
    <3> QED
      BY <3>1
  <2>4. CASE Len(b) < Len(a)
    <3>1. \A j \in 1 .. Len(b) : b[j] = a[j]
      BY <2>1, <2>4, <1>1
    <3>2. NameLess(b, a)
      BY <3>1, <2>4, <1>1, LessAt
    <3> QED
      BY <3>2
  <2> QED
    BY <2>2, <2>3, <2>4, <1>1
<1>3. CASE D # {}
  <2>1. PICK n \in D : \A m \in D : n <= m
    BY <1>3, LeastNumber
  <2> DEFINE i == n - 1
  <2>2. /\ i \in Nat /\ i < Len(a) /\ i < Len(b) /\ i + 1 = n
        /\ a[i + 1] # b[i + 1]
        /\ a[i + 1] \in Nat /\ b[i + 1] \in Nat
    BY <2>1, <1>1
  <2>3. \A j \in 1 .. i : a[j] = b[j]
    <3> SUFFICES ASSUME NEW j \in 1 .. i, a[j] # b[j]
                 PROVE  FALSE
      OBVIOUS
    <3>1. j \in D
      BY <2>2, <1>1
    <3> QED
      BY <3>1, <2>1, <2>2
  <2> HIDE DEF i
  <2>4. CASE a[i + 1] < b[i + 1]
    <3>1. NameLess(a, b)
      BY <2>2, <2>3, <2>4, <1>1, LessAt
    <3> QED
      BY <3>1
  <2>5. CASE b[i + 1] < a[i + 1]
    <3>1. NameLess(b, a)
      BY <2>2, <2>3, <2>5, <1>1, LessAt
    <3> QED
      BY <3>1
  <2> QED
    BY <2>2, <2>4, <2>5
<1> QED
  BY <1>2, <1>3

-----------------------------------------------------------------------------
(* What a sorted set is: finitely many names, each with a score.            *)
Scores(mem) == /\ IsFiniteSet(DOMAIN mem)
               /\ DOMAIN mem \subseteq Name
               /\ \A m \in DOMAIN mem : mem[m] \in Int

(* The members before a position are some of the members, so a rank is at   *)
(* most the size; the rank of a member is less.                             *)
LEMMA RankBounded ==
  ASSUME NEW mem, Scores(mem), NEW s \in Int, NEW n \in Name
  PROVE  /\ IsFiniteSet(Predecessors(mem, s, n))
         /\ Rank(mem, s, n) \in 0 .. Cardinality(DOMAIN mem)
<1>1. Predecessors(mem, s, n) \in SUBSET DOMAIN mem
  BY DEF Predecessors
<1>2. IsFiniteSet(Predecessors(mem, s, n))
  BY <1>1, FS_Subset DEF Scores
<1> QED
  BY <1>1, <1>2, FS_Subset, FS_CardinalityType DEF Scores, Rank

(* The rank of a later member is greater: it has the earlier one, and all   *)
(* before that, before it.                                                  *)
LEMMA RankIncreases ==
  ASSUME NEW mem, Scores(mem), NEW m \in DOMAIN mem, NEW n \in DOMAIN mem,
         Before(mem[m], m, mem[n], n)
  PROVE  Rank(mem, mem[m], m) < Rank(mem, mem[n], n)
<1> DEFINE P == Predecessors(mem, mem[m], m)
           Q == Predecessors(mem, mem[n], n)
<1>1. m \in Name /\ n \in Name /\ mem[m] \in Int /\ mem[n] \in Int
  BY DEF Scores
<1>2. m \in Q
  BY DEF Predecessors
<1>3. m \notin P
  BY <1>1, NameIrreflexive DEF Predecessors, Before
<1>4. P \subseteq Q
  <2> SUFFICES ASSUME NEW x \in DOMAIN mem, Before(mem[x], x, mem[m], m)
               PROVE  Before(mem[x], x, mem[n], n)
    BY DEF Predecessors
  <2>1. x \in Name /\ mem[x] \in Int
    BY DEF Scores
  <2> QED
    BY <1>1, <2>1, NameTransitive DEF Before
<1>5. IsFiniteSet(Q) /\ IsFiniteSet(P)
  BY <1>1, RankBounded
<1> HIDE DEF P, Q
<1>6. Cardinality(P) <= Cardinality(Q) /\ Cardinality(P) # Cardinality(Q)
  BY <1>2, <1>3, <1>4, <1>5, FS_Subset
<1>7. Cardinality(P) \in Nat /\ Cardinality(Q) \in Nat
  BY <1>5, FS_CardinalityType
<1> QED
  BY <1>6, <1>7 DEF Rank, P, Q

(* Two members never have the same place. *)
LEMMA RanksDiffer ==
  ASSUME NEW mem, Scores(mem), NEW m \in DOMAIN mem, NEW n \in DOMAIN mem, m # n
  PROVE  Rank(mem, mem[m], m) # Rank(mem, mem[n], n)
<1>1. m \in Name /\ n \in Name /\ mem[m] \in Int /\ mem[n] \in Int
  BY DEF Scores
<1>2. Before(mem[m], m, mem[n], n) \/ Before(mem[n], n, mem[m], m)
  BY <1>1, NameTotal DEF Before
<1>3. /\ Rank(mem, mem[m], m) \in Int
      /\ Rank(mem, mem[n], n) \in Int
  BY <1>1, RankBounded, FS_CardinalityType DEF Scores
<1> QED
  BY <1>2, <1>3, RankIncreases

(* Every place below the size of a sorted set is that of a member: ranks    *)
(* are different, and there are as many places as members.                  *)
LEMMA PlaceTaken ==
  ASSUME NEW mem, Scores(mem), NEW i \in 0 .. Cardinality(DOMAIN mem) - 1
  PROVE  At(mem, i) # {}
<1> DEFINE S == DOMAIN mem
           N == Cardinality(S)
           T == 0 .. N - 1
           r == [m \in S |-> Rank(mem, mem[m], m)]
<1>1. IsFiniteSet(S) /\ N \in Nat
  BY FS_CardinalityType DEF Scores
<1>2. ASSUME NEW m \in S PROVE Rank(mem, mem[m], m) \in T
  <2>1. m \in Name /\ mem[m] \in Int
    BY DEF Scores
  <2>2. m \notin Predecessors(mem, mem[m], m)
    BY <2>1, NameIrreflexive DEF Predecessors, Before
  <2>3. Predecessors(mem, mem[m], m) \in SUBSET S
    BY DEF Predecessors
  <2>4. /\ Cardinality(Predecessors(mem, mem[m], m)) <= N
        /\ Cardinality(Predecessors(mem, mem[m], m)) # N
    BY <2>2, <2>3, <1>1, FS_Subset
  <2> QED
    BY <2>1, <2>4, <1>1, RankBounded DEF Rank
<1>3. r \in Injection(S, T)
  BY <1>2, RanksDiffer DEF Injection, IsInjective
<1>4. IsFiniteSet(T) /\ Cardinality(T) = N
  BY <1>1, FS_Interval
<1>5. r \in Surjection(S, T)
  BY <1>1, <1>3, <1>4, FS_Injection
<1>6. PICK m \in S : r[m] = i
  BY <1>5 DEF Surjection
<1> QED
  BY <1>6 DEF At

(* What a query answers are members, at the places that follow the offset:  *)
(* no member twice.                                                         *)
THEOREM PageOfMembers ==
  ASSUME NEW mem, Scores(mem), NEW s \in Int, NEW n \in Name,
         NEW offset \in Int, NEW number \in Nat
  PROVE  LET page == Query(mem, s, n, offset, number)
         IN  /\ page \in Seq(DOMAIN mem)
             /\ Len(page) \in 0 .. number
             /\ \A i \in 1 .. Len(page) :
                  Rank(mem, mem[page[i]], page[i]) = Rank(mem, s, n) + offset + i - 1
<1> DEFINE start == Rank(mem, s, n)
           size  == Cardinality(DOMAIN mem)
           first == start + offset
           left  == IF first < 0 \/ start >= size THEN 0 ELSE size - first
           len   == IF left < number THEN left ELSE number
           some  == IF len < 0 THEN 0 ELSE len
           place(i) == CHOOSE m \in DOMAIN mem : m \in At(mem, first + i - 1)
<1>1. start \in Nat /\ size \in Nat
  BY RankBounded, FS_CardinalityType DEF Scores
<1>2. len \in Int /\ some \in 0 .. number /\ 1 .. len = 1 .. some
  BY <1>1
<1>3. Query(mem, s, n, offset, number) = [i \in 1 .. some |-> place(i)]
  BY <1>2 DEF Query
<1>4. ASSUME NEW i \in 1 .. some
      PROVE  place(i) \in DOMAIN mem /\ place(i) \in At(mem, first + i - 1)
  <2>1. first + i - 1 \in 0 .. size - 1
    BY <1>1
  <2>2. PICK m \in DOMAIN mem : m \in At(mem, first + i - 1)
    BY <2>1, PlaceTaken DEF At
  <2> QED
    BY <2>2
<1> HIDE DEF some, place, first
<1>5. /\ [i \in 1 .. some |-> place(i)] \in Seq(DOMAIN mem)
      /\ Len([i \in 1 .. some |-> place(i)]) = some
  BY <1>2, <1>4
<1>6. ASSUME NEW i \in 1 .. some
      PROVE  Rank(mem, mem[place(i)], place(i)) = start + offset + i - 1
  BY <1>4 DEF At, first
<1> QED
  BY <1>2, <1>3, <1>5, <1>6
=============================================================================
