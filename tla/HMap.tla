-------------------------------- MODULE HMap --------------------------------
(***************************************************************************)
(* The progressively rehashed hashtable of key_value_server/hash.cpp.  One *)
(* call of the interface is a sequence of steps: the call itself, the      *)
(* iterations of the loop of hm_help_rehashing, and the return.            *)
(*                                                                         *)
(* A chain is the set of its keys (the order inside a chain is abstracted, *)
(* so "the first list item" is any member), and hcode & mask is            *)
(* Hash[k] % (mask + 1), the table sizes being powers of two.              *)
(***************************************************************************)
EXTENDS Integers, FiniteSets

CONSTANTS Key,              \* the keys callers use
          Hash,             \* Hash[k] is the hcode stored in the node of k
          k_rehashing_work, \* keys one call moves at most
          InitSlots         \* slots of the first table, 4 in hm_insert

ASSUME HashAssumption == Hash \in [Key -> Nat]
ASSUME WorkAssumption == k_rehashing_work \in Nat /\ k_rehashing_work > 0
\* h_foreach takes mask = 0 for "no table": a table of one slot would hide
\* its keys.
ASSUME SlotsAssumption == InitSlots \in Nat /\ InitSlots > 1

VARIABLES curr, prev,   \* the two Htab: newer and older
          migrated_pos, \* slots of prev below it are drained
          pc,           \* "idle", "missed", or the call in progress
          arg,          \* the key of the latest call
          ret,          \* did the latest lookup or delete find its key
          rehashed      \* keys moved by the running hm_help_rehashing

vars == <<curr, prev, migrated_pos, pc, arg, ret, rehashed>>

-----------------------------------------------------------------------------
(* One fixed-size table. *)

NULL == [i \in {} |-> {}]

Htab == [tab |-> NULL, mask |-> 0, size |-> 0]

Allocated(t) == DOMAIN t.tab # {}

Slots(t) == t.mask + 1

Content(t) == UNION {t.tab[i] : i \in DOMAIN t.tab}

Index(t, k) == Hash[k] % Slots(t)

HInit(n) == [tab |-> [i \in 0 .. n - 1 |-> {}], mask |-> n - 1, size |-> 0]

HInsert(t, k) == [tab  |-> [t.tab EXCEPT ![Index(t, k)] = @ \union {k}],
                  mask |-> t.mask,
                  size |-> t.size + 1]

HLookup(t, k) == Allocated(t) /\ k \in t.tab[Index(t, k)]

HDetachCountedTwice(t, i, k) == [tab  |-> [t.tab EXCEPT ![i] = @ \ {k}],
                                 mask |-> t.mask,
                                 size |-> t.size - 2]

HDetach(t, i, k) == [tab  |-> [t.tab EXCEPT ![i] = @ \ {k}],
                     mask |-> t.mask,
                     size |-> t.size - 1]

-----------------------------------------------------------------------------
(* The keys and the size of the map. *)

Elems == Content(curr) \union Content(prev)

HmSize == curr.size + prev.size

HForeach(t) == IF t.mask # 0 THEN Content(t) ELSE {}

HmForeachCurrOnly == HForeach(curr)

HmForeach == HForeach(curr) \union HForeach(prev)

-----------------------------------------------------------------------------
Ready == pc \in {"idle", "missed"}

Init == /\ curr = Htab /\ prev = Htab /\ migrated_pos = 0
        /\ pc = "idle" /\ arg \in Key /\ ret = FALSE /\ rehashed = 0

(* Calls. *)

Begin(op, k) == /\ Ready
                /\ pc' = op /\ arg' = k /\ rehashed' = 0
                /\ UNCHANGED <<curr, prev, migrated_pos, ret>>

HmLookup == \E k \in Key : Begin("lookup", k)

HmDelete == \E k \in Key : Begin("delete", k)

\* The load check of hm_insert: keys per slot have reached k_max_load_factor.
OverloadedLate(t) == Slots(t) < t.size

Overloaded(t) == Slots(t) <= t.size

TriggerRehashingKeepPos(t) == /\ prev' = t
                              /\ curr' = HInit(2 * Slots(t))
                              /\ UNCHANGED migrated_pos

TriggerRehashing(t) == /\ prev' = t
                       /\ curr' = HInit(2 * Slots(t))
                       /\ migrated_pos' = 0

\* The body of hm_insert up to its call of hm_help_rehashing.
HmInsert ==
  LET first == IF Allocated(curr) THEN curr ELSE HInit(InitSlots)
      t     == HInsert(first, arg)
  IN /\ pc = "missed"
     /\ IF ~Allocated(prev) /\ Overloaded(t)
          THEN TriggerRehashing(t)
          ELSE curr' = t /\ UNCHANGED <<prev, migrated_pos>>
     /\ pc' = "insert" /\ rehashed' = 0
     /\ UNCHANGED <<arg, ret>>

HmClear == /\ Ready
           /\ curr' = Htab /\ prev' = Htab /\ migrated_pos' = 0
           /\ pc' = "idle"
           /\ UNCHANGED <<arg, ret, rehashed>>

(* The loop of hm_help_rehashing. *)

MoreWork == ~Ready /\ rehashed < k_rehashing_work /\ prev.size > 0

HelpSkipStuck == MoreWork /\ prev.tab[migrated_pos] = {} /\ UNCHANGED vars

HelpSkip == /\ MoreWork
            /\ prev.tab[migrated_pos] = {}
            /\ migrated_pos' = migrated_pos + 1
            /\ UNCHANGED <<curr, prev, pc, arg, ret, rehashed>>

HelpMove == /\ MoreWork
            /\ \E k \in prev.tab[migrated_pos] :
                 /\ prev' = HDetach(prev, migrated_pos, k)
                 /\ curr' = HInsert(curr, k)
            /\ rehashed' = rehashed + 1
            /\ UNCHANGED <<migrated_pos, pc, arg, ret>>

DiscardedEarly == IF Allocated(prev) THEN Htab ELSE prev

\* prev after the loop: a drained table is freed.
Discarded == IF prev.size = 0 /\ Allocated(prev) THEN Htab ELSE prev

HelpDone(op) == pc = op /\ ~MoreWork

(* Returns. *)

FoundInCurr == HLookup(curr, arg)

Found == HLookup(curr, arg) \/ HLookup(Discarded, arg)

LookupReturn == /\ HelpDone("lookup")
                /\ ret' = Found
                /\ pc' = IF Found THEN "idle" ELSE "missed"
                /\ prev' = Discarded
                /\ UNCHANGED <<curr, migrated_pos, arg, rehashed>>

InsertReturn == /\ HelpDone("insert")
                /\ prev' = Discarded
                /\ pc' = "idle"
                /\ UNCHANGED <<curr, migrated_pos, arg, ret, rehashed>>

\* Detach the key from the table that holds it, the newer one first.
DeleteReturn ==
  LET old    == Discarded
      inCurr == HLookup(curr, arg)
      inPrev == ~inCurr /\ HLookup(old, arg)
  IN /\ HelpDone("delete")
     /\ curr' = IF inCurr THEN HDetach(curr, Index(curr, arg), arg) ELSE curr
     /\ prev' = IF inPrev THEN HDetach(old, Index(old, arg), arg) ELSE old
     /\ ret' = (inCurr \/ inPrev)
     /\ pc' = "idle"
     /\ UNCHANGED <<migrated_pos, arg, rehashed>>

Internal == HelpSkip \/ HelpMove \/ LookupReturn \/ InsertReturn \/ DeleteReturn

Next == HmLookup \/ HmDelete \/ HmInsert \/ HmClear \/ Internal

Spec == Init /\ [][Next]_vars

\* A call that has begun runs: the process executes the function's steps.
FairSpec == Spec /\ WF_vars(Internal)
-----------------------------------------------------------------------------
(* Correctness. *)

IsTable(t) ==
  /\ t = [tab |-> t.tab, mask |-> t.mask, size |-> t.size]
  /\ t.mask \in Nat /\ t.size \in Nat
  /\ t = Htab \/ (t.mask > 0 /\ t.tab \in [0 .. t.mask -> SUBSET Key])

\* Each variable has its type: a table is the empty Htab{} or has mask + 1
\* chains, and no size_t counter of hash.cpp ever goes below zero.
TypeOK == /\ IsTable(curr) /\ IsTable(prev)
          /\ migrated_pos \in Nat
          /\ pc \in {"idle", "missed", "lookup", "insert", "delete"}
          /\ arg \in Key /\ ret \in BOOLEAN /\ rehashed \in Nat

Sound(t) == /\ \A i \in DOMAIN t.tab : \A k \in t.tab[i] : i = Index(t, k)
            /\ IsFiniteSet(Content(t)) /\ t.size = Cardinality(Content(t))

\* Every key sits in the chain its hash selects, and Htab::size counts the
\* keys of the table, so "prev.size > 0" in hm_help_rehashing is "a key is left".
Placed == Sound(curr) /\ Sound(prev)

\* No key is in both tables: the migration moves keys, it never copies them,
\* and an insert never shadows a key the old table still holds.
Disjoint == Content(curr) \intersect Content(prev) = {}

\* There is an old table only beside a new one.
PrevHasCurr == Allocated(prev) => Allocated(curr)

\* The slots of the old table below migrated_pos are drained, deletes in the
\* middle of a migration and restarts of it included.
PrefixMigrated ==
  \A i \in DOMAIN prev.tab : i < migrated_pos => prev.tab[i] = {}

\* hm_help_rehashing dereferences prev.tab[migrated_pos] with no bounds test:
\* while keys are left a nonempty slot lies at or after the cursor, so the
\* cursor is inside the table and the loop that skips empty slots ends.
CursorInBounds ==
  prev.size > 0 => \E i \in DOMAIN prev.tab : i >= migrated_pos /\ prev.tab[i] # {}

\* An insert puts prev's keys one step behind: the slack until its first move.
Slack == IF pc = "insert" /\ rehashed = 0 /\ prev.size > 0 THEN 1 ELSE 0

\* Why the migration ends before the new table fills up (the assert of
\* hm_trigger_rehashing, and why hm_insert may skip its load check while a
\* migration runs): each insert into the new table also drains the old one.
LoadBound ==
  IF Allocated(prev)
    THEN /\ HmSize + prev.size < Slots(curr) + Slack
         /\ Ready /\ prev.size = 0 => HmSize + 1 < Slots(curr)
    ELSE Allocated(curr) => curr.size < Slots(curr)

\* Between calls the map holds fewer keys than the newer table has slots,
\* whatever mix of inserts, lookups and deletes ran during a migration.
LoadFactor == Ready /\ Allocated(curr) => HmSize < Slots(curr)

\* The insert that follows a failed lookup never adds a key that is there,
\* though the lookup itself moved keys between the tables.
MissIsTrue == pc = "missed" => arg \notin Elems

\* KEYS walks both tables and answers hm_size keys first: the array header
\* and the elements written after it agree, in the middle of a migration too.
KeysExact == /\ HmForeach = Elems
             /\ HmSize = Cardinality(HmForeach)

\* The inductive invariant.
IInv == /\ TypeOK /\ Placed /\ Disjoint /\ PrevHasCurr
        /\ PrefixMigrated /\ LoadBound /\ MissIsTrue

\* The table implements the dictionary: a lookup or delete answers by the set
\* of keys, wherever the migration stands.
D == INSTANCE Dict WITH elems <- Elems

DictSpec == D!Spec

\* Every call returns: the loop of hm_help_rehashing terminates.
CallsReturn == ~Ready ~> Ready
=============================================================================
