----------------------------- MODULE SortedSet ------------------------------
(***************************************************************************)
(* What a sorted set promises the commands ZADD, ZREM, ZSCORE, ZRANK and   *)
(* ZQUERY: a score for each member, and one total order of the members, by *)
(* score and then by name as byte strings.  ZSet implements it.            *)
(***************************************************************************)
EXTENDS ZOrder

CONSTANTS Name,   \* member names: sequences of bytes
          Score   \* scores, compared as numbers

VARIABLES members,  \* the score of each member
          order,    \* the pairs of a member and itself or a later one
          call,     \* the latest operation and its arguments
          ret       \* the answer it was given

vars == <<members, order, call, ret>>

\* By score and then by name.
Ordered(mem) ==
  {p \in (DOMAIN mem) \X (DOMAIN mem) :
     p[1] = p[2] \/ Before(mem[p[1]], p[1], mem[p[2]], p[2])}

NoMembers == [n \in {} |-> 0]

-----------------------------------------------------------------------------
Init == /\ members = NoMembers /\ order = Ordered(NoMembers)
        /\ call = <<"clear">> /\ ret = FALSE

\* Whether the member is new.
Insert(n, s) ==
  /\ call' = <<"insert", n, s>>
  /\ members' = [m \in DOMAIN members \union {n} |->
                   IF m = n THEN s ELSE members[m]]
  /\ order' = Ordered(members')
  /\ ret' = (n \notin DOMAIN members)

\* Whether there was such a member.
Delete(n) == /\ call' = <<"delete", n>>
             /\ members' = [m \in DOMAIN members \ {n} |-> members[m]]
             /\ order' = Ordered(members')
             /\ ret' = (n \in DOMAIN members)

Clear == /\ call' = <<"clear">> /\ ret' = FALSE
         /\ members' = NoMembers /\ order' = Ordered(members')

Next == \/ \E n \in Name, s \in Score : Insert(n, s)
        \/ \E n \in Name : Delete(n)
        \/ Clear

Spec == Init /\ [][Next]_vars
=============================================================================
