------------------------------- MODULE MCHMap -------------------------------
(* Six keys: the table grows 2 -> 4 -> 8 slots, 1 and 5 share a slot of the *)
(* four-slot table only, 2 and 3 share their whole hash.                    *)
EXTENDS HMap

MCKey == 1 .. 6

MCHash == [k \in MCKey |-> CASE k = 1 -> 0 [] k = 5 -> 4 [] k = 3 -> 2
                             [] k = 4 -> 3 [] OTHER -> k]
=============================================================================
