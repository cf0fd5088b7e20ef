----------------------------- MODULE HMapProofs -----------------------------
(* Proofs about HMap, for every set of keys, hash function, rehashing work *)
(* and initial table size.                                                 *)
EXTENDS HMap, FiniteSetTheorems, TLAPS

(***************************************************************************)
(* One table.                                                              *)
(***************************************************************************)

\* hcode & mask selects one of the mask + 1 slots (h_insert, h_lookup).
LEMMA IndexInTable ==
  ASSUME NEW t, IsTable(t), NEW k \in Key
  PROVE  Index(t, k) \in 0 .. t.mask
<1>1. Hash[k] \in Nat /\ Slots(t) \in Nat /\ Slots(t) > 0
  BY HashAssumption DEF IsTable, Slots
<1> QED
  BY <1>1 DEF Index, Slots, IsTable

\* The domain of a table: no slot of Htab{}, all mask + 1 slots of any other.
LEMMA TableDomain ==
  ASSUME NEW t, IsTable(t)
  PROVE  /\ Allocated(t) <=> t # Htab
         /\ Allocated(t) => /\ DOMAIN t.tab = 0 .. t.mask /\ t.mask > 0
                            /\ t.tab \in [0 .. t.mask -> SUBSET Key]
         /\ ~Allocated(t) => t = Htab /\ DOMAIN t.tab = {}
         /\ Content(t) \subseteq Key
<1>1. CASE t = Htab
  BY <1>1 DEF Allocated, Htab, NULL, Content
<1>2. CASE t # Htab
  <2>1. t.mask \in Nat /\ t.mask > 0 /\ t.tab \in [0 .. t.mask -> SUBSET Key]
    BY <1>2 DEF IsTable
  <2>2. DOMAIN t.tab = 0 .. t.mask /\ 0 \in 0 .. t.mask
    BY <2>1
  <2>3. Content(t) \subseteq Key
    BY <2>1, <2>2 DEF Content
  <2> QED
    BY <1>2, <2>1, <2>2, <2>3 DEF Allocated
<1> QED
  BY <1>1, <1>2

\* A key is in a table when it is in one of its chains.
LEMMA InContent ==
  ASSUME NEW t, NEW x
  PROVE  x \in Content(t) <=> \E i \in DOMAIN t.tab : x \in t.tab[i]
BY DEF Content

\* h_init makes an empty table of n slots.
LEMMA HInitTable ==
  ASSUME NEW n \in Nat, n > 1
  PROVE  /\ IsTable(HInit(n)) /\ Sound(HInit(n)) /\ Allocated(HInit(n))
         /\ Content(HInit(n)) = {} /\ HInit(n).size = 0 /\ Slots(HInit(n)) = n
<1> DEFINE t == HInit(n)
<1>1. t = [tab |-> t.tab, mask |-> t.mask, size |-> t.size]
      /\ t.mask = n - 1 /\ t.size = 0 /\ t.tab = [i \in 0 .. n - 1 |-> {}]
  BY DEF HInit
<1>2. t.tab \in [0 .. t.mask -> SUBSET Key]
  BY <1>1
<1>3. Content(t) = {}
  BY <1>1 DEF Content
<1>4. 0 \in DOMAIN t.tab
  BY <1>1
<1>5. Sound(t)
  BY <1>1, <1>3, FS_EmptySet DEF Sound
<1> QED
  BY <1>1, <1>2, <1>3, <1>4, <1>5 DEF IsTable, Allocated, Slots

\* The empty Htab{} holds nothing.
LEMMA EmptyTable == IsTable(Htab) /\ Sound(Htab) /\ Content(Htab) = {}
                    /\ ~Allocated(Htab) /\ Htab.size = 0
<1>1. Content(Htab) = {} /\ ~Allocated(Htab) /\ IsTable(Htab)
  BY DEF Htab, NULL, Content, Allocated, IsTable
<1>2. \A i \in DOMAIN Htab.tab : FALSE
  BY DEF Htab, NULL
<1> QED
  BY <1>1, <1>2, FS_EmptySet DEF Sound, Htab

\* size is zero exactly when no key is left.
LEMMA SizeZero ==
  ASSUME NEW t, IsTable(t), Sound(t)
  PROVE  t.size = 0 <=> Content(t) = {}
BY FS_EmptySet DEF Sound, IsTable

\* h_lookup finds a key exactly when the table holds it.
LEMMA LookupExact ==
  ASSUME NEW t, IsTable(t), Sound(t), NEW k \in Key
  PROVE  /\ HLookup(t, k) <=> k \in Content(t)
         /\ HLookup(t, k) => Index(t, k) \in DOMAIN t.tab
BY IndexInTable, TableDomain DEF HLookup, Content, Sound

\* h_insert of a key the table does not hold.
LEMMA InsertExact ==
  ASSUME NEW t, IsTable(t), Sound(t), Allocated(t),
         NEW k \in Key, k \notin Content(t)
  PROVE  LET u == HInsert(t, k)
         IN /\ IsTable(u) /\ Sound(u) /\ Allocated(u)
            /\ Content(u) = Content(t) \union {k}
            /\ u.size = t.size + 1 /\ u.mask = t.mask
<1> DEFINE u == HInsert(t, k)
           j == Index(t, k)
<1>1. j \in DOMAIN t.tab /\ DOMAIN t.tab = 0 .. t.mask /\ t.mask > 0
      /\ t.tab \in [0 .. t.mask -> SUBSET Key]
  BY IndexInTable, TableDomain
<1>2. /\ u = [tab |-> u.tab, mask |-> u.mask, size |-> u.size]
      /\ u.mask = t.mask /\ u.size = t.size + 1
      /\ u.tab = [t.tab EXCEPT ![j] = @ \union {k}]
  BY DEF HInsert, IsTable
<1>3. /\ u.tab \in [0 .. u.mask -> SUBSET Key] /\ DOMAIN u.tab = DOMAIN t.tab
      /\ u.tab[j] = t.tab[j] \union {k}
      /\ \A i \in DOMAIN t.tab : i # j => u.tab[i] = t.tab[i]
  BY <1>1, <1>2
<1>4. IsTable(u) /\ Allocated(u)
  BY <1>1, <1>2, <1>3 DEF IsTable, Allocated
<1>5. Content(u) = Content(t) \union {k}
  <2> HIDE DEF u, j
  <2>1. ASSUME NEW x PROVE x \in Content(u) <=> x \in Content(t) \/ x = k
    <3>1. x \in Content(t) <=> \E i \in DOMAIN t.tab : x \in t.tab[i]
      BY InContent
    <3>2. x \in Content(u) <=> \E i \in DOMAIN u.tab : x \in u.tab[i]
      BY InContent
    <3> QED
      BY <1>1, <1>3, <3>1, <3>2
  <2> QED
    BY <2>1
<1>6. Sound(u)
  <2>1. IsFiniteSet(Content(u)) /\ Cardinality(Content(u)) = u.size
    BY <1>2, <1>5, FS_AddElement DEF Sound
  <2>2. ASSUME NEW i \in DOMAIN u.tab, NEW x \in u.tab[i]
        PROVE  i = Index(u, x)
    <3>1. Index(u, x) = Index(t, x)
      BY <1>2 DEF Index, Slots
    <3> HIDE DEF u
    <3>2. x \in t.tab[i] \/ (i = j /\ x = k)
      BY <1>3, <2>2
    <3> QED
      BY <1>3, <3>1, <3>2 DEF Sound
  <2> QED
    BY <2>1, <2>2 DEF Sound
<1> QED
  BY <1>2, <1>4, <1>5, <1>6

\* h_detach of a key of chain i: only that key goes, and no chain grows.
LEMMA DetachExact ==
  ASSUME NEW t, IsTable(t), Sound(t), NEW i \in DOMAIN t.tab, NEW k \in t.tab[i]
  PROVE  LET u == HDetach(t, i, k)
         IN /\ IsTable(u) /\ Sound(u) /\ Allocated(u)
            /\ Content(u) = Content(t) \ {k}
            /\ k \in Content(t) /\ k \in Key
            /\ u.size = t.size - 1 /\ u.mask = t.mask
            /\ DOMAIN u.tab = DOMAIN t.tab
            /\ \A j \in DOMAIN t.tab : u.tab[j] \subseteq t.tab[j]
<1> DEFINE u == HDetach(t, i, k)
<1>1. DOMAIN t.tab = 0 .. t.mask /\ t.mask > 0 /\ k \in Key
      /\ t.tab \in [0 .. t.mask -> SUBSET Key]
  BY TableDomain DEF Allocated
<1>2. /\ u = [tab |-> u.tab, mask |-> u.mask, size |-> u.size]
      /\ u.mask = t.mask /\ u.size = t.size - 1
      /\ u.tab = [t.tab EXCEPT ![i] = @ \ {k}]
  BY DEF HDetach, IsTable
<1>3. /\ u.tab \in [0 .. u.mask -> SUBSET Key] /\ DOMAIN u.tab = DOMAIN t.tab
      /\ u.tab[i] = t.tab[i] \ {k}
      /\ \A j \in DOMAIN t.tab : j # i => u.tab[j] = t.tab[j]
  BY <1>1, <1>2
<1>4. k \in Content(t)
  BY DEF Content
<1>5. Content(u) = Content(t) \ {k}
  <2>1. ASSUME NEW j \in DOMAIN t.tab, j # i PROVE k \notin t.tab[j]
    BY <2>1 DEF Sound
  <2> HIDE DEF u
  <2>2. ASSUME NEW x PROVE x \in Content(u) <=> x \in Content(t) /\ x # k
    <3>1. x \in Content(t) <=> \E j \in DOMAIN t.tab : x \in t.tab[j]
      BY InContent
    <3>2. x \in Content(u) <=> \E j \in DOMAIN u.tab : x \in u.tab[j]
      BY InContent
    <3> QED
      BY <1>3, <2>1, <3>1, <3>2
  <2> QED
    BY <2>2
<1>6. IsFiniteSet(Content(u)) /\ Cardinality(Content(u)) = u.size /\ u.size \in Nat
  <2>1. IsFiniteSet(Content(t)) /\ Cardinality(Content(t)) = t.size
    BY DEF Sound
  <2>2. /\ IsFiniteSet(Content(t) \ {k})
        /\ Cardinality(Content(t) \ {k}) = Cardinality(Content(t)) - 1
    BY <1>4, <2>1, FS_RemoveElement
  <2>3. Cardinality(Content(t) \ {k}) \in Nat
    BY <2>2, FS_CardinalityType
  <2> QED
    BY <1>2, <1>5, <2>1, <2>2, <2>3
<1>7. IsTable(u) /\ Allocated(u)
  BY <1>1, <1>2, <1>3, <1>6 DEF IsTable, Allocated
<1>8. ASSUME NEW j \in DOMAIN u.tab, NEW x \in u.tab[j]
      PROVE  j = Index(u, x)
  <2>1. Index(u, x) = Index(t, x)
    BY <1>2 DEF Index, Slots
  <2> HIDE DEF u
  <2>2. x \in t.tab[j] /\ j \in DOMAIN t.tab
    BY <1>3, <1>8
  <2> QED
    BY <2>1, <2>2 DEF Sound
<1>9. \A j \in DOMAIN t.tab : u.tab[j] \subseteq t.tab[j]
  <2> HIDE DEF u
  <2> QED
    BY <1>3
<1>10. Sound(u)
  <2> HIDE DEF u
  <2> QED
    BY <1>6, <1>8 DEF Sound
<1> HIDE DEF u
<1>11. /\ IsTable(u) /\ Sound(u) /\ Allocated(u)
       /\ Content(u) = Content(t) \ {k}
       /\ k \in Content(t) /\ k \in Key
       /\ u.size = t.size - 1 /\ u.mask = t.mask
       /\ DOMAIN u.tab = DOMAIN t.tab
       /\ \A j \in DOMAIN t.tab : u.tab[j] \subseteq t.tab[j]
  BY <1>1, <1>2, <1>3, <1>4, <1>5, <1>7, <1>9, <1>10
<1> QED
  BY <1>11 DEF u

(***************************************************************************)
(* The inductive invariant.                                                *)
(***************************************************************************)

\* While keys are left in the old table the cursor of hm_help_rehashing is a
\* slot of it, and some slot at or after it is not empty.
LEMMA Cursor ==
  ASSUME IInv, prev.size > 0
  PROVE  /\ Allocated(prev) /\ migrated_pos \in DOMAIN prev.tab
         /\ \E i \in DOMAIN prev.tab : i >= migrated_pos /\ prev.tab[i] # {}
<1>1. Content(prev) # {}
  BY SizeZero DEF IInv, TypeOK, Placed
<1>2. PICK i \in DOMAIN prev.tab : prev.tab[i] # {}
  BY <1>1, InContent
<1>3. Allocated(prev)
  BY <1>2 DEF Allocated
<1>4. DOMAIN prev.tab = 0 .. prev.mask /\ prev.mask \in Nat
  BY <1>3, TableDomain DEF IInv, TypeOK, IsTable
<1>5. migrated_pos \in Nat /\ ~(i < migrated_pos)
  BY <1>2 DEF IInv, TypeOK, PrefixMigrated
<1> QED
  BY <1>2, <1>3, <1>4, <1>5

\* What hm_help_rehashing leaves of the old table holds what it held.
LEMMA DiscardExact ==
  ASSUME IInv
  PROVE  /\ IsTable(Discarded) /\ Sound(Discarded)
         /\ Content(Discarded) = Content(prev) /\ Discarded.size = prev.size
         /\ Allocated(Discarded) <=> prev.size > 0
         /\ Discarded = prev \/ Discarded = Htab
         /\ prev.size > 0 => Discarded = prev
<1>1. IsTable(prev) /\ Sound(prev) /\ prev.size \in Nat
  BY DEF IInv, TypeOK, Placed, IsTable
<1>2. CASE prev.size = 0 /\ Allocated(prev)
  BY <1>1, <1>2, EmptyTable, SizeZero DEF Discarded
<1>3. CASE prev.size = 0 /\ ~Allocated(prev)
  BY <1>1, <1>3 DEF Discarded
<1>4. CASE prev.size > 0
  BY <1>1, <1>4, Cursor DEF Discarded
<1> QED
  BY <1>1, <1>2, <1>3, <1>4

\* The calls that change no table.
LEMMA BeginStep ==
  ASSUME IInv, NEW op \in {"lookup", "delete"}, NEW k \in Key, Begin(op, k)
  PROVE  IInv'
<1>1. /\ curr' = curr /\ prev' = prev /\ migrated_pos' = migrated_pos
      /\ pc' = op /\ arg' = k /\ rehashed' = 0 /\ ret' = ret
  BY DEF Begin
<1>2. TypeOK' /\ Placed' /\ Disjoint' /\ PrevHasCurr' /\ PrefixMigrated' /\ MissIsTrue'
  BY <1>1 DEF IInv, TypeOK, Placed, Disjoint, PrevHasCurr, PrefixMigrated, MissIsTrue
<1>3. pc \in {"idle", "missed"}
  BY DEF Begin, Ready
<1>4. LoadBound'
  BY <1>1, <1>3 DEF IInv, LoadBound, Slack, HmSize, Ready
<1> QED
  BY <1>2, <1>4 DEF IInv

\* The empty map, at the start and after hm_clear.
LEMMA EmptyMap ==
  ASSUME curr = Htab, prev = Htab, migrated_pos = 0, pc = "idle",
         arg \in Key, ret \in BOOLEAN, rehashed \in Nat
  PROVE  IInv
<1>1. TypeOK /\ Placed /\ Disjoint
  BY EmptyTable DEF TypeOK, Placed, Disjoint
<1>2. PrevHasCurr /\ LoadBound /\ MissIsTrue
  BY EmptyTable DEF PrevHasCurr, LoadBound, MissIsTrue
<1>3. PrefixMigrated
  <2>1. DOMAIN prev.tab = {}
    BY EmptyTable, TableDomain
  <2> QED
    BY <2>1 DEF PrefixMigrated
<1> QED
  BY <1>1, <1>2, <1>3 DEF IInv

LEMMA SkipStep == ASSUME IInv, HelpSkip PROVE IInv'
<1>1. /\ prev.size > 0 /\ prev.tab[migrated_pos] = {}
      /\ migrated_pos' = migrated_pos + 1
      /\ UNCHANGED <<curr, prev, pc, arg, ret, rehashed>>
  BY DEF HelpSkip, MoreWork
<1>2. TypeOK' /\ Placed' /\ Disjoint' /\ PrevHasCurr' /\ MissIsTrue'
  BY <1>1 DEF IInv, TypeOK, Placed, Disjoint, PrevHasCurr, MissIsTrue, Elems
<1>3. DOMAIN prev.tab = 0 .. prev.mask
  BY <1>1, Cursor, TableDomain DEF IInv, TypeOK
<1>4. PrefixMigrated'
  <2>1. ASSUME NEW i \in 0 .. prev.mask, i < migrated_pos + 1
        PROVE  i = migrated_pos \/ i < migrated_pos
    BY <2>1 DEF IInv, TypeOK
  <2> QED
    BY <1>1, <1>3, <2>1 DEF IInv, PrefixMigrated
<1>5. LoadBound'
  BY <1>1 DEF IInv, LoadBound, Slack, HmSize, Ready
<1> QED
  BY <1>2, <1>4, <1>5 DEF IInv

\* A moved key stays in the map.
LEMMA MoveStep == ASSUME IInv, HelpMove PROVE IInv' /\ Elems' = Elems
<1> DEFINE p == migrated_pos
<1>1. PICK k \in prev.tab[p] : prev' = HDetach(prev, p, k) /\ curr' = HInsert(curr, k)
  BY DEF HelpMove
<1>2. /\ prev.size > 0 /\ pc \in {"lookup", "insert", "delete"}
      /\ rehashed' = rehashed + 1
      /\ migrated_pos' = p /\ pc' = pc /\ arg' = arg /\ ret' = ret
  BY DEF HelpMove, MoreWork, Ready, IInv, TypeOK
<1>3. p \in DOMAIN prev.tab /\ Allocated(prev)
  BY <1>2, Cursor
<1>4. /\ IsTable(prev') /\ Sound(prev') /\ Allocated(prev')
      /\ Content(prev') = Content(prev) \ {k} /\ k \in Content(prev) /\ k \in Key
      /\ prev'.size = prev.size - 1 /\ DOMAIN prev'.tab = DOMAIN prev.tab
      /\ \A j \in DOMAIN prev.tab : prev'.tab[j] \subseteq prev.tab[j]
  BY <1>1, <1>3, DetachExact DEF IInv, TypeOK, Placed
<1>5. k \notin Content(curr) /\ Allocated(curr)
  BY <1>3, <1>4 DEF IInv, Disjoint, PrevHasCurr
<1>6. /\ IsTable(curr') /\ Sound(curr') /\ Allocated(curr')
      /\ Content(curr') = Content(curr) \union {k}
      /\ curr'.size = curr.size + 1 /\ curr'.mask = curr.mask
  BY <1>1, <1>4, <1>5, InsertExact DEF IInv, TypeOK, Placed
<1>7. TypeOK'
  BY <1>2, <1>4, <1>6 DEF IInv, TypeOK
<1>8. Placed' /\ PrevHasCurr'
  BY <1>4, <1>6 DEF Placed, PrevHasCurr
<1>9. Disjoint'
  BY <1>4, <1>6 DEF IInv, Disjoint
<1>10. PrefixMigrated'
  BY <1>2, <1>4 DEF IInv, PrefixMigrated
<1>11. LoadBound'
  <2>1. /\ curr.size \in Nat /\ prev.size \in Nat /\ curr.mask \in Nat
        /\ rehashed \in Nat
    BY DEF IInv, TypeOK, IsTable
  <2>2. HmSize + prev.size < Slots(curr) + Slack
    BY <1>3 DEF IInv, LoadBound
  <2>3. Slack \in {0, 1} /\ Slack' = 0
    BY <1>2, <2>1 DEF Slack
  <2>4. ~Ready'
    BY <1>2 DEF Ready
  <2> QED
    BY <1>4, <1>6, <2>1, <2>2, <2>3, <2>4 DEF LoadBound, HmSize, Slots
<1>12. MissIsTrue'
  BY <1>2 DEF MissIsTrue
<1>13. Elems' = Elems
  BY <1>4, <1>6 DEF Elems
<1> QED
  BY <1>7, <1>8, <1>9, <1>10, <1>11, <1>12, <1>13 DEF IInv

\* hm_lookup and hm_insert after their loop: the old table is kept or, when
\* drained, freed; neither table changes its keys.
LEMMA DiscardStep ==
  ASSUME IInv, pc \in {"lookup", "insert"}, ~MoreWork,
         prev' = Discarded, pc' \in {"idle", "missed"}, ret' \in BOOLEAN,
         UNCHANGED <<curr, migrated_pos, arg, rehashed>>
  PROVE  /\ TypeOK' /\ Placed' /\ Disjoint' /\ PrevHasCurr'
         /\ PrefixMigrated' /\ LoadBound'
<1>1. TypeOK' /\ Placed'
  BY DiscardExact DEF IInv, TypeOK, Placed
<1>2. Disjoint' /\ PrevHasCurr'
  BY DiscardExact, Cursor DEF IInv, Disjoint, PrevHasCurr
<1>3. PrefixMigrated'
  BY DiscardExact, EmptyTable, TableDomain DEF IInv, PrefixMigrated, TypeOK
<1>4. LoadBound'
  <2>1. /\ curr.size \in Nat /\ prev.size \in Nat /\ curr.mask \in Nat
        /\ rehashed \in Nat
    BY DEF IInv, TypeOK, IsTable
  <2>2. ~Ready
    BY DEF Ready
  <2>3. CASE prev.size > 0
    <3>1. Allocated(prev) /\ prev' = prev
      BY <2>3, DiscardExact, Cursor
    <3>2. ~(rehashed < k_rehashing_work)
      BY <2>2, <2>3 DEF MoreWork
    <3>3. Slack = 0 /\ Slack' = 0
      BY <2>1, <3>2, WorkAssumption DEF Slack
    <3> QED
      BY <2>1, <2>3, <3>1, <3>3 DEF IInv, LoadBound, HmSize, Slots
  <2>4. CASE prev.size = 0
    <3>1. ~Allocated(prev') /\ Slack = 0
      BY <2>4, DiscardExact DEF Slack
    <3>2. ASSUME Allocated(curr) PROVE curr.size < Slots(curr)
      <4>1. CASE Allocated(prev)
        BY <2>1, <2>4, <3>1, <4>1 DEF IInv, LoadBound, HmSize, Slots
      <4>2. CASE ~Allocated(prev)
        BY <3>2, <4>2 DEF IInv, LoadBound
      <4> QED
        BY <4>1, <4>2
    <3> QED
      BY <3>1, <3>2 DEF LoadBound, Slots, Allocated
  <2> QED
    BY <2>1, <2>3, <2>4
<1> QED
  BY <1>1, <1>2, <1>3, <1>4

\* Lookups search the newer table, then what is left of the older one.
LEMMA FoundExact ==
  ASSUME IInv
  PROVE  /\ HLookup(curr, arg) <=> arg \in Content(curr)
         /\ HLookup(Discarded, arg) <=> arg \in Content(prev)
         /\ HLookup(curr, arg) => Index(curr, arg) \in DOMAIN curr.tab
         /\ HLookup(Discarded, arg) => Index(Discarded, arg) \in DOMAIN Discarded.tab
<1>1. arg \in Key /\ IsTable(curr) /\ Sound(curr)
  BY DEF IInv, TypeOK, Placed
<1> QED
  BY <1>1, DiscardExact, LookupExact

LEMMA LookupReturnStep == ASSUME IInv, LookupReturn PROVE IInv'
<1>1. /\ pc = "lookup" /\ ~MoreWork /\ prev' = Discarded
      /\ UNCHANGED <<curr, migrated_pos, arg, rehashed>>
      /\ ret' = Found /\ pc' = IF Found THEN "idle" ELSE "missed"
      /\ Found \in BOOLEAN
  BY DEF LookupReturn, HelpDone, Found
<1>2. ret' \in BOOLEAN /\ pc' \in {"idle", "missed"}
  BY <1>1
<1>3. TypeOK' /\ Placed' /\ Disjoint' /\ PrevHasCurr' /\ PrefixMigrated' /\ LoadBound'
  BY <1>1, <1>2, DiscardStep
<1>4. MissIsTrue'
  <2>1. Content(prev') = Content(prev) /\ Content(curr') = Content(curr)
    BY <1>1, DiscardExact
  <2> QED
    BY <1>1, <2>1, FoundExact DEF MissIsTrue, Elems, Found
<1> QED
  BY <1>3, <1>4 DEF IInv

LEMMA InsertReturnStep == ASSUME IInv, InsertReturn PROVE IInv'
<1>1. /\ pc = "insert" /\ ~MoreWork /\ prev' = Discarded /\ pc' = "idle"
      /\ UNCHANGED <<curr, migrated_pos, arg, rehashed>> /\ ret' = ret
  BY DEF InsertReturn, HelpDone
<1>2. ret' \in BOOLEAN
  BY <1>1 DEF IInv, TypeOK
<1>3. TypeOK' /\ Placed' /\ Disjoint' /\ PrevHasCurr' /\ PrefixMigrated' /\ LoadBound'
  BY <1>1, <1>2, DiscardStep
<1>4. MissIsTrue'
  BY <1>1 DEF MissIsTrue
<1> QED
  BY <1>3, <1>4 DEF IInv

LEMMA DeleteReturnStep ==
  ASSUME IInv, DeleteReturn
  PROVE  IInv' /\ Elems' = Elems \ {arg} /\ ret' = (arg \in Elems)
<1> DEFINE old    == Discarded
           inCurr == HLookup(curr, arg)
           inPrev == ~inCurr /\ HLookup(old, arg)
<1>1. /\ pc = "delete" /\ ~MoreWork /\ pc' = "idle"
      /\ curr' = IF inCurr THEN HDetach(curr, Index(curr, arg), arg) ELSE curr
      /\ prev' = IF inPrev THEN HDetach(old, Index(old, arg), arg) ELSE old
      /\ ret' = (inCurr \/ inPrev)
      /\ UNCHANGED <<migrated_pos, arg, rehashed>>
  BY DEF DeleteReturn, HelpDone
<1>2. /\ IsTable(old) /\ Sound(old) /\ Content(old) = Content(prev)
      /\ old.size = prev.size /\ (Allocated(old) <=> prev.size > 0)
      /\ old = prev \/ old = Htab
  BY DiscardExact
<1>3. /\ IsTable(curr') /\ Sound(curr')
      /\ (Allocated(curr') <=> Allocated(curr)) /\ curr'.mask = curr.mask
      /\ Content(curr') = Content(curr) \ {arg}
      /\ curr'.size = IF inCurr THEN curr.size - 1 ELSE curr.size
  <2>1. CASE inCurr
    <3>1. arg \in curr.tab[Index(curr, arg)] /\ Index(curr, arg) \in DOMAIN curr.tab
          /\ Allocated(curr)
      BY <2>1, FoundExact DEF HLookup
    <3> QED
      BY <1>1, <2>1, <3>1, DetachExact DEF IInv, TypeOK, Placed
  <2>2. CASE ~inCurr
    BY <1>1, <2>2, FoundExact DEF IInv, TypeOK, Placed
  <2> QED
    BY <2>1, <2>2
<1>4. /\ IsTable(prev') /\ Sound(prev') /\ (Allocated(prev') <=> prev.size > 0)
      /\ Content(prev') = Content(prev) \ {arg}
      /\ prev'.size = IF inPrev THEN prev.size - 1 ELSE prev.size
      /\ DOMAIN prev'.tab = DOMAIN old.tab
      /\ \A j \in DOMAIN old.tab : prev'.tab[j] \subseteq old.tab[j]
  <2>1. CASE inPrev
    <3>1. arg \in old.tab[Index(old, arg)] /\ Index(old, arg) \in DOMAIN old.tab
          /\ Allocated(old)
      BY <2>1, FoundExact DEF HLookup
    <3> QED
      BY <1>1, <1>2, <2>1, <3>1, DetachExact
  <2>2. CASE ~inPrev
    <3>1. arg \notin Content(prev)
      BY <2>2, FoundExact DEF IInv, Disjoint
    <3> QED
      BY <1>1, <1>2, <2>2, <3>1
  <2> QED
    BY <2>1, <2>2
<1>5. TypeOK' /\ Placed'
  BY <1>1, <1>3, <1>4 DEF IInv, TypeOK, Placed
<1>6. Disjoint' /\ PrevHasCurr'
  BY <1>3, <1>4, Cursor DEF IInv, Disjoint, PrevHasCurr
<1>7. PrefixMigrated'
  <2>1. \A i \in DOMAIN old.tab : i < migrated_pos => old.tab[i] = {}
    BY <1>2, EmptyTable, TableDomain DEF IInv, PrefixMigrated
  <2> QED
    BY <1>1, <1>4, <2>1 DEF PrefixMigrated
<1>8. LoadBound'
  <2>1. /\ curr.size \in Nat /\ prev.size \in Nat /\ curr.mask \in Nat
        /\ rehashed \in Nat /\ prev'.size \in Nat /\ curr'.size \in Nat
    BY <1>3, <1>4 DEF IInv, TypeOK, IsTable
  <2>2. Slack = 0 /\ Slack' = 0
    BY <1>1 DEF Slack
  <2>3. Allocated(prev) => HmSize + prev.size < Slots(curr)
    BY <2>1, <2>2 DEF IInv, LoadBound, HmSize, Slots
  <2>4. CASE prev.size > 0
    <3>1. Allocated(prev) /\ Allocated(prev')
      BY <1>4, <2>4, Cursor
    <3>2. HmSize' + prev'.size < Slots(curr')
      BY <1>3, <1>4, <2>1, <2>3, <3>1 DEF HmSize, Slots
    <3>3. prev'.size = 0 => HmSize' + 1 < Slots(curr')
      BY <1>3, <1>4, <2>1, <2>3, <2>4, <3>1 DEF HmSize, Slots
    <3>4. Slots(curr') \in Int
      BY <1>3, <2>1 DEF Slots, IsTable
    <3>5. HmSize' + prev'.size < Slots(curr') + Slack'
      BY <2>2, <3>2, <3>4
    <3> QED
      BY <3>1, <3>3, <3>5 DEF LoadBound
  <2>5. CASE prev.size = 0
    <3>1. ~Allocated(prev')
      BY <1>4, <2>5
    <3>2. Allocated(curr) => curr.size < Slots(curr)
      BY <2>1, <2>3, <2>5 DEF IInv, LoadBound, HmSize, Slots
    <3> QED
      BY <1>3, <2>1, <3>1, <3>2 DEF LoadBound, Slots
  <2> QED
    BY <2>1, <2>4, <2>5
<1>9. MissIsTrue'
  BY <1>1 DEF MissIsTrue
<1>10. Elems' = Elems \ {arg}
  BY <1>3, <1>4 DEF Elems
<1>11. ret' = (arg \in Elems)
  BY <1>1, FoundExact DEF Elems
<1> QED
  BY <1>5, <1>6, <1>7, <1>8, <1>9, <1>10, <1>11 DEF IInv

LEMMA InsertStep ==
  ASSUME IInv, HmInsert
  PROVE  IInv' /\ Elems' = Elems \union {arg}
<1> DEFINE first == IF Allocated(curr) THEN curr ELSE HInit(InitSlots)
           t     == HInsert(first, arg)
           grow  == ~Allocated(prev) /\ Overloaded(t)
<1>1. /\ pc = "missed" /\ pc' = "insert" /\ rehashed' = 0
      /\ arg' = arg /\ ret' = ret
      /\ IF grow THEN TriggerRehashing(t)
                 ELSE curr' = t /\ UNCHANGED <<prev, migrated_pos>>
  BY DEF HmInsert
<1>2. arg \notin Content(curr) /\ arg \notin Content(prev)
  BY <1>1 DEF IInv, MissIsTrue, Elems
<1>3. /\ IsTable(first) /\ Sound(first) /\ Allocated(first)
      /\ Content(first) = Content(curr) /\ first.size = curr.size
      /\ Allocated(curr) => first = curr
  <2>1. CASE Allocated(curr)
    BY <2>1 DEF IInv, TypeOK, Placed
  <2>2. CASE ~Allocated(curr)
    <3>1. curr = Htab
      BY <2>2, TableDomain DEF IInv, TypeOK
    <3> QED
      BY <2>2, <3>1, EmptyTable, HInitTable, SlotsAssumption
  <2> QED
    BY <2>1, <2>2
<1>4. /\ IsTable(t) /\ Sound(t) /\ Allocated(t)
      /\ Content(t) = Content(curr) \union {arg}
      /\ t.size = curr.size + 1 /\ t.mask = first.mask
  <2>1. arg \in Key
    BY DEF IInv, TypeOK
  <2> QED
    BY <1>2, <1>3, <2>1, InsertExact
<1>5. /\ curr.size \in Nat /\ prev.size \in Nat /\ t.size \in Nat
      /\ t.mask \in Nat /\ t.mask > 0
  BY <1>4, TableDomain DEF IInv, TypeOK, IsTable
<1>6. pc \in {"idle", "missed"} /\ Ready /\ Slack = 0
  BY <1>1 DEF Ready, Slack
<1>7. MissIsTrue'
  BY <1>1 DEF MissIsTrue
<1>8. CASE grow
  <2>1. curr' = HInit(2 * Slots(t)) /\ prev' = t /\ migrated_pos' = 0
    BY <1>1, <1>8 DEF TriggerRehashing
  <2>2. Slots(t) \in Nat /\ Slots(t) > 1
    BY <1>5 DEF Slots
  <2>3. /\ IsTable(curr') /\ Sound(curr') /\ Allocated(curr')
        /\ Content(curr') = {} /\ curr'.size = 0 /\ Slots(curr') = 2 * Slots(t)
    BY <2>1, <2>2, HInitTable
  <2>4. TypeOK'
    BY <1>1, <1>4, <2>1, <2>3 DEF IInv, TypeOK
  <2>5. Placed' /\ Disjoint' /\ PrevHasCurr'
    BY <1>4, <2>1, <2>3 DEF Placed, Disjoint, PrevHasCurr
  <2>6. PrefixMigrated'
    <3>1. DOMAIN t.tab = 0 .. t.mask
      BY <1>4, TableDomain
    <3>2. \A i \in DOMAIN t.tab : ~(i < 0)
      BY <1>5, <3>1
    <3> QED
      BY <1>5, <2>1, <3>2 DEF PrefixMigrated
  <2>7. LoadBound'
    \* before this insert curr held fewer keys than slots, so t is just full
    <3>1. t.size <= Slots(t)
      <4>1. CASE Allocated(curr)
        BY <1>3, <1>4, <1>5, <1>8, <4>1 DEF IInv, LoadBound, Slots
      <4>2. CASE ~Allocated(curr)
        <5>1. curr.size = 0
          BY <4>2, TableDomain DEF IInv, TypeOK, Htab
        <5> QED
          BY <1>4, <2>2, <5>1
      <4> QED
        BY <4>1, <4>2
    <3>2. Slack' = 1 /\ ~Ready'
      BY <1>1, <1>4, <1>5, <2>1 DEF Slack, Ready
    <3>3. HmSize' + prev'.size < Slots(curr') + Slack'
      BY <1>5, <2>1, <2>2, <2>3, <3>1, <3>2 DEF HmSize
    <3> QED
      BY <1>4, <2>1, <3>2, <3>3 DEF LoadBound
  <2>8. Elems' = Elems \union {arg}
    <3>1. Content(prev) = {}
      BY <1>8, TableDomain, EmptyTable DEF IInv, TypeOK
    <3> QED
      BY <1>4, <2>1, <2>3, <3>1 DEF Elems
  <2> QED
    BY <1>7, <2>4, <2>5, <2>6, <2>7, <2>8 DEF IInv
<1>9. CASE ~grow
  <2>1. curr' = t /\ prev' = prev /\ migrated_pos' = migrated_pos
    BY <1>1, <1>9
  <2>2. TypeOK'
    BY <1>1, <1>4, <2>1 DEF IInv, TypeOK
  <2>3. Placed' /\ Disjoint' /\ PrevHasCurr'
    BY <1>2, <1>4, <2>1 DEF IInv, Placed, Disjoint, PrevHasCurr
  <2>4. PrefixMigrated'
    BY <2>1 DEF IInv, PrefixMigrated
  <2>5. LoadBound'
    <3>1. CASE Allocated(prev)
      <4>1. Allocated(curr) /\ first = curr /\ Slots(t) = Slots(curr)
        BY <1>3, <1>4, <3>1 DEF IInv, PrevHasCurr, Slots
      <4>2. /\ HmSize + prev.size < Slots(curr)
            /\ prev.size = 0 => HmSize + 1 < Slots(curr)
        BY <1>4, <1>5, <1>6, <3>1, <4>1 DEF IInv, LoadBound, Slots
      <4>3. ~Ready' /\ Slack' = IF prev.size > 0 THEN 1 ELSE 0
        BY <1>1, <2>1 DEF Ready, Slack
      <4>4. HmSize' + prev'.size < Slots(curr') + Slack'
        <5>1. Slots(t) \in Nat
          BY <1>5 DEF Slots
        <5>2. /\ HmSize = curr.size + prev.size
              /\ HmSize' = curr.size + 1 + prev.size
          BY <1>4, <2>1 DEF HmSize
        <5>3. CASE prev.size > 0
          BY <1>5, <2>1, <4>1, <4>2, <4>3, <5>1, <5>2, <5>3
        <5>4. CASE prev.size = 0
          BY <1>5, <2>1, <4>1, <4>2, <4>3, <5>1, <5>2, <5>4
        <5> QED
          BY <1>5, <5>3, <5>4
      <4> QED
        BY <2>1, <3>1, <4>3, <4>4 DEF LoadBound
    <3>2. CASE ~Allocated(prev)
      <4>1. t.size < Slots(t)
        BY <1>5, <1>9, <3>2 DEF Overloaded, Slots
      <4> QED
        BY <2>1, <3>2, <4>1 DEF LoadBound
    <3> QED
      BY <3>1, <3>2
  <2>6. Elems' = Elems \union {arg}
    BY <1>4, <2>1 DEF Elems
  <2> QED
    BY <1>7, <2>2, <2>3, <2>4, <2>5, <2>6 DEF IInv
<1> QED
  BY <1>8, <1>9

\* The invariant holds in every state: the key to all the results below.
THEOREM Invariant == Spec => []IInv
<1>1. Init => IInv
  <2> SUFFICES ASSUME Init PROVE IInv
    OBVIOUS
  <2>1. /\ curr = Htab /\ prev = Htab /\ migrated_pos = 0 /\ pc = "idle"
        /\ arg \in Key /\ ret \in BOOLEAN /\ rehashed \in Nat
    BY DEF Init
  <2> QED
    BY <2>1, EmptyMap
<1>2. IInv /\ [Next]_vars => IInv'
  <2> SUFFICES ASSUME IInv, [Next]_vars PROVE IInv'
    OBVIOUS
  <2>1. CASE HmLookup
    BY <2>1, BeginStep DEF HmLookup
  <2>2. CASE HmDelete
    BY <2>2, BeginStep DEF HmDelete
  <2>3. CASE HmInsert
    BY <2>3, InsertStep
  <2>4. CASE HmClear
    <3>1. /\ curr' = Htab /\ prev' = Htab /\ migrated_pos' = 0 /\ pc' = "idle"
          /\ arg' \in Key /\ ret' \in BOOLEAN /\ rehashed' \in Nat
      BY <2>4 DEF HmClear, IInv, TypeOK
    <3>2. TypeOK' /\ Placed' /\ Disjoint'
      BY <3>1, EmptyTable DEF TypeOK, Placed, Disjoint
    <3>3. PrevHasCurr' /\ LoadBound' /\ MissIsTrue'
      BY <3>1, EmptyTable DEF PrevHasCurr, LoadBound, MissIsTrue
    <3>4. PrefixMigrated'
      BY <3>1, EmptyTable, TableDomain DEF PrefixMigrated
    <3> QED
      BY <3>2, <3>3, <3>4 DEF IInv
  <2>5. CASE HelpSkip
    BY <2>5, SkipStep
  <2>6. CASE HelpMove
    BY <2>6, MoveStep
  <2>7. CASE LookupReturn
    BY <2>7, LookupReturnStep
  <2>8. CASE InsertReturn
    BY <2>8, InsertReturnStep
  <2>9. CASE DeleteReturn
    BY <2>9, DeleteReturnStep
  <2>10. CASE UNCHANGED vars
    BY <2>10 DEF vars, IInv, TypeOK, Placed, Disjoint, PrevHasCurr,
       PrefixMigrated, LoadBound, Slack, HmSize, Ready, MissIsTrue, Elems
  <2> QED
    BY <2>1, <2>2, <2>3, <2>4, <2>5, <2>6, <2>7, <2>8, <2>9, <2>10
       DEF Next, Internal
<1> QED
  BY <1>1, <1>2, PTL DEF Spec

(***************************************************************************)
(* What follows from it.                                                   *)
(***************************************************************************)

\* No counter of the table underflows and the tables keep their shape.
THEOREM TypeCorrect == Spec => []TypeOK
<1>1. IInv => TypeOK
  BY DEF IInv
<1> QED
  BY <1>1, Invariant, PTL

\* hm_help_rehashing never reads past the end of the old table.
THEOREM CursorSafe == Spec => []CursorInBounds
<1>1. IInv => CursorInBounds
  BY Cursor DEF CursorInBounds
<1> QED
  BY <1>1, Invariant, PTL

\* A migration ends before the new table is full: the load stays under one
\* key per slot although hm_insert checks it only when no migration runs.
THEOREM LoadStaysLow == Spec => []LoadFactor
<1>1. IInv => LoadFactor
  <2> SUFFICES ASSUME IInv, Ready, Allocated(curr)
               PROVE  HmSize < Slots(curr)
    BY DEF LoadFactor
  <2>1. /\ curr.size \in Nat /\ prev.size \in Nat /\ curr.mask \in Nat
    BY DEF IInv, TypeOK, IsTable
  <2>2. Slack = 0
    BY DEF Ready, Slack
  <2>3. CASE Allocated(prev)
    BY <2>1, <2>2, <2>3 DEF IInv, LoadBound, HmSize, Slots
  <2>4. CASE ~Allocated(prev)
    <3>1. prev.size = 0
      BY <2>4, TableDomain DEF IInv, TypeOK, Htab
    <3> QED
      BY <2>1, <2>4, <3>1 DEF IInv, LoadBound, HmSize, Slots
  <2> QED
    BY <2>3, <2>4
<1> QED
  BY <1>1, Invariant, PTL

\* An insert that follows a failed lookup adds a key the map does not hold.
THEOREM InsertIsFresh == Spec => []MissIsTrue
<1>1. IInv => MissIsTrue
  BY DEF IInv
<1> QED
  BY <1>1, Invariant, PTL

\* hm_foreach emits every key, and hm_size announces their number.
THEOREM KeysAreExact == Spec => []KeysExact
<1>1. IInv => KeysExact
  <2> SUFFICES ASSUME IInv PROVE KeysExact
    OBVIOUS
  <2>1. HForeach(curr) = Content(curr) /\ HForeach(prev) = Content(prev)
    <3>1. ASSUME NEW t, IsTable(t) PROVE HForeach(t) = Content(t)
      <4>1. CASE Allocated(t)
        BY <3>1, <4>1, TableDomain DEF HForeach
      <4>2. CASE ~Allocated(t)
        BY <3>1, <4>2, TableDomain, EmptyTable DEF HForeach
      <4> QED
        BY <4>1, <4>2
    <3> QED
      BY <3>1 DEF IInv, TypeOK
  <2>2. HmForeach = Elems
    BY <2>1 DEF HmForeach, Elems
  <2>3. /\ IsFiniteSet(Content(curr)) /\ curr.size = Cardinality(Content(curr))
        /\ IsFiniteSet(Content(prev)) /\ prev.size = Cardinality(Content(prev))
        /\ Content(curr) \intersect Content(prev) = {}
        /\ curr.size \in Nat /\ prev.size \in Nat
    BY DEF IInv, Placed, Sound, Disjoint, TypeOK, IsTable
  <2>4. Cardinality(Elems) = curr.size + prev.size - Cardinality({})
    BY <2>3, FS_Union DEF Elems
  <2> QED
    BY <2>2, <2>3, <2>4, FS_EmptySet DEF KeysExact, HmSize
<1> QED
  BY <1>1, Invariant, PTL

\* Progressive rehashing is invisible: the hashtable implements the set of
\* keys of Dict, every lookup and delete answering by what was inserted and
\* not deleted since, wherever the migration stands.
THEOREM ImplementsDict == Spec => DictSpec
<1>1. Init => D!Init
  <2> SUFFICES ASSUME Init PROVE D!Init
    OBVIOUS
  <2> QED
    BY EmptyTable DEF Init, D!Init, Elems
<1>2. IInv /\ [Next]_vars => [D!Next]_D!vars
  <2> SUFFICES ASSUME IInv, [Next]_vars PROVE [D!Next]_D!vars
    OBVIOUS
  <2> USE DEF D!Next, D!vars
  <2>1. CASE HmLookup
    BY <2>1 DEF HmLookup, Begin, Ready, D!Lookup, D!Ready, Elems
  <2>2. CASE HmDelete
    BY <2>2 DEF HmDelete, Begin, Ready, D!Delete, D!Ready, Elems
  <2>3. CASE HmInsert
    <3>1. Elems' = Elems \union {arg}
      BY <2>3, InsertStep
    <3>2. arg \notin Elems
      BY <2>3 DEF HmInsert, IInv, MissIsTrue
    <3> QED
      BY <2>3, <3>1, <3>2 DEF HmInsert, D!Insert
  <2>4. CASE HmClear
    BY <2>4, EmptyTable DEF HmClear, Ready, D!Clear, D!Ready, Elems
  <2>5. CASE HelpSkip
    BY <2>5 DEF HelpSkip, Elems
  <2>6. CASE HelpMove
    <3>1. Elems' = Elems
      BY <2>6, MoveStep
    <3> QED
      BY <2>6, <3>1 DEF HelpMove
  <2>7. CASE LookupReturn
    <3>1. Elems' = Elems
      BY <2>7, DiscardExact DEF LookupReturn, Elems
    <3> QED
      BY <2>7, <3>1, FoundExact
         DEF LookupReturn, HelpDone, Found, D!LookupReturn, Elems
  <2>8. CASE InsertReturn
    <3>1. Elems' = Elems
      BY <2>8, DiscardExact DEF InsertReturn, Elems
    <3> QED
      BY <2>8, <3>1 DEF InsertReturn, HelpDone, D!InsertReturn
  <2>9. CASE DeleteReturn
    <3>1. /\ Elems' = Elems \ {arg} /\ ret' = (arg \in Elems)
      BY <2>9, DeleteReturnStep
    <3> QED
      BY <2>9, <3>1 DEF DeleteReturn, HelpDone, D!DeleteReturn
  <2>10. CASE UNCHANGED vars
    BY <2>10 DEF vars, Elems
  <2> QED
    BY <2>1, <2>2, <2>3, <2>4, <2>5, <2>6, <2>7, <2>8, <2>9, <2>10
       DEF Next, Internal
<1> QED
  BY <1>1, <1>2, Invariant, PTL DEF Spec, DictSpec, D!Spec
=============================================================================
