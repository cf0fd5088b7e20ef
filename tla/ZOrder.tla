------------------------------- MODULE ZOrder -------------------------------
(***************************************************************************)
(* The order of a sorted set and what its queries answer, for a function   *)
(* mem from the members to their scores.                                   *)
(***************************************************************************)
EXTENDS Integers, Sequences, FiniteSets

\* Lexicographic order: b extends a, or is larger at the first difference.
NameLess(a, b) ==
  \E i \in 0 .. Len(a) :
     /\ i <= Len(b) /\ SubSeq(a, 1, i) = SubSeq(b, 1, i)
     /\ i < Len(b) /\ (i = Len(a) \/ a[i + 1] < b[i + 1])

Before(s1, n1, s2, n2) == s1 < s2 \/ (s1 = s2 /\ NameLess(n1, n2))

\* The members before the position (s, n), which need not be a member.
Predecessors(mem, s, n) ==
  {m \in DOMAIN mem : Before(mem[m], m, s, n)}

Rank(mem, s, n) == Cardinality(Predecessors(mem, s, n))

\* The member with exactly i members before it.
At(mem, i) == {m \in DOMAIN mem : Rank(mem, mem[m], m) = i}

\* The names of a query: at most the given number, from the offset-th place
\* at or after (s, n).  With no member at or after it there is no answer,
\* whatever the offset.
Query(mem, s, n, offset, number) ==
  LET start == Rank(mem, s, n)
      size  == Cardinality(DOMAIN mem)
      first == start + offset
      left  == IF first < 0 \/ start >= size THEN 0 ELSE size - first
      len   == IF left < number THEN left ELSE number
  IN [i \in 1 .. len |-> CHOOSE m \in DOMAIN mem : m \in At(mem, first + i - 1)]
=============================================================================
