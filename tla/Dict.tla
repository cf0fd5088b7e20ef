-------------------------------- MODULE Dict --------------------------------
(***************************************************************************)
(* What the hashtable of hash.h promises its callers: a set of keys,       *)
(* looked up, extended and reduced one call at a time.  A call begins with *)
(* its argument (arg) and ends with its answer (ret).  Nothing is said of  *)
(* tables, slots or rehashing: HMap implements this specification.         *)
(*                                                                         *)
(* Every caller inserts a key only as the call that follows a lookup which *)
(* did not find it (server_4.cpp do_request and do_add, range.cpp          *)
(* zset_insert): pc = "missed" is the state such a lookup leaves.          *)
(***************************************************************************)
CONSTANT Key

VARIABLES elems,   \* the keys held
          pc,      \* "idle", "missed", or the call in progress
          arg,     \* the key of the latest call
          ret      \* what the latest lookup or delete answered

vars == <<elems, pc, arg, ret>>

Ready == pc \in {"idle", "missed"}

Init == /\ elems = {}
        /\ pc = "idle"
        /\ arg \in Key
        /\ ret = FALSE

Lookup == /\ Ready
          /\ pc' = "lookup"
          /\ arg' \in Key
          /\ UNCHANGED <<elems, ret>>

Delete == /\ Ready
          /\ pc' = "delete"
          /\ arg' \in Key
          /\ UNCHANGED <<elems, ret>>

\* The key was missing, so the set really grows.
Insert == /\ pc = "missed"
          /\ arg \notin elems
          /\ elems' = elems \union {arg}
          /\ pc' = "insert"
          /\ UNCHANGED <<arg, ret>>

LookupReturn == /\ pc = "lookup"
                /\ ret' = (arg \in elems)
                /\ pc' = IF arg \in elems THEN "idle" ELSE "missed"
                /\ UNCHANGED <<elems, arg>>

DeleteReturn == /\ pc = "delete"
                /\ ret' = (arg \in elems)
                /\ elems' = elems \ {arg}
                /\ pc' = "idle"
                /\ UNCHANGED arg

InsertReturn == /\ pc = "insert"
                /\ pc' = "idle"
                /\ UNCHANGED <<elems, arg, ret>>

Clear == /\ Ready
         /\ elems' = {}
         /\ pc' = "idle"
         /\ UNCHANGED <<arg, ret>>

Next == \/ Lookup \/ Delete \/ Insert
        \/ LookupReturn \/ DeleteReturn \/ InsertReturn
        \/ Clear

Spec == Init /\ [][Next]_vars
=============================================================================
