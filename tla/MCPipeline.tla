----------------------------- MODULE MCPipeline -----------------------------
(* query_list: three short queries, whose replies fill the client's side, a *)
(* large one and two short ones.                                            *)
EXTENDS Pipeline

MCEnd == [k \in 0 .. 6 |-> IF k <= 3 THEN 5 * k ELSE 5 * k + 15]
=============================================================================
