------------------------------ MODULE Service -------------------------------
(***************************************************************************)
(* What the server promises each client, whatever its sockets and its      *)
(* scheduling do: it runs the requests one by one in the order asked, and  *)
(* the client reads their replies in that order.  A client whose connection *)
(* closes may miss replies, but only the latest ones.                      *)
(***************************************************************************)
EXTENDS Integers, Sequences

CONSTANT Client

VARIABLES asked,     \* requests each client has made
          executed,  \* those that ran, in the order they did
          owed,      \* replies of those that may still be read
          got,       \* replies that were read
          lost       \* clients whose connection has closed on either side

vars == <<asked, executed, owed, got, lost>>

Init == /\ asked = [c \in Client |-> 0] /\ executed = [c \in Client |-> <<>>]
        /\ owed = [c \in Client |-> <<>>] /\ got = [c \in Client |-> <<>>]
        /\ lost = {}

Ask(c) == /\ asked' = [asked EXCEPT ![c] = @ + 1]
          /\ UNCHANGED <<executed, owed, got, lost>>

\* The next request, never one that was not made.
Run(c) == LET n == Len(executed[c]) + 1
          IN /\ n <= asked[c]
             /\ executed' = [executed EXCEPT ![c] = Append(@, n)]
             /\ owed' = IF c \in lost THEN owed ELSE [owed EXCEPT ![c] = Append(@, n)]
             /\ UNCHANGED <<asked, got, lost>>

Answer(c) == /\ owed[c] # <<>>
             /\ got' = [got EXCEPT ![c] = Append(@, Head(owed[c]))]
             /\ owed' = [owed EXCEPT ![c] = Tail(@)]
             /\ UNCHANGED <<asked, executed, lost>>

\* Connections of some clients close, of all when the server dies: of the
\* replies each is owed the latest are lost.
Lose(some) ==
  /\ lost' = lost \union some
  /\ DOMAIN owed' = Client
  /\ \A c \in Client : IF c \in some
                        THEN \E n \in 0 .. Len(owed[c]) : owed'[c] = SubSeq(owed[c], 1, n)
                        ELSE owed'[c] = owed[c]
  /\ UNCHANGED <<asked, executed, got>>

Next == \/ \E c \in Client : Ask(c) \/ Run(c) \/ Answer(c)
        \/ \E some \in SUBSET Client : Lose(some)

Spec == Init /\ [][Next]_vars
=============================================================================
