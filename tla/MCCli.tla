------------------------------- MODULE MCCli -------------------------------
(* A verb is one or two bytes here; names, values and numbers are one.      *)
EXTENDS Cli, TLC

CONSTANTS c1, c2

\* The clients differ in nothing.
Alike == Permutations({c1, c2})

MCVerb == (<<71>> :> "GET") @@ (<<83>> :> "SET") @@ (<<68>> :> "DEL") @@ (<<75>> :> "KEYS")
          @@ (<<90, 65>> :> "ZADD") @@ (<<90, 83>> :> "ZSCORE") @@ (<<90, 82>> :> "ZRANK")
          @@ (<<90, 81>> :> "ZQUERY") @@ (<<90, 77>> :> "ZREM")

MCExit == <<101>>

\* The digits 0, 2, 4 and 6, and "3.", a double that is no integer;
\* the doubles of these.
MCInteger == (<<48>> :> 0) @@ (<<50>> :> 2) @@ (<<52>> :> 4) @@ (<<54>> :> 6)
MCDouble  == MCInteger @@ (<<51, 46>> :> 3)

MCDblBytes == (0 :> <<0, 0, 0, 0, 0, 0, 0, 0>>) @@ (2 :> <<0, 0, 0, 0, 0, 0, 0, 64>>)
              @@ (3 :> <<0, 0, 0, 0, 0, 0, 8, 64>>) @@ (4 :> <<0, 0, 0, 0, 0, 0, 16, 64>>)
              @@ (6 :> <<0, 0, 0, 0, 0, 0, 24, 64>>)

k == <<107>>
z == <<122>>
a == <<97>>
d == <<255>>
Value == <<195, 188>>

\* A page of three members (50 bytes) is over ClientMax; a command with
\* LongValue is too; the names of MCNames (68 bytes) are over ServerMax.
LongName(i) == [j \in 1 .. 16 |-> IF j = 16 THEN i ELSE 110]
LongValue   == [j \in 1 .. 40 |-> 118]

MCLines ==
  {<<>>, <<MCExit>>,
   <<<<71>>>>, <<<<71>>, k>>, <<<<71>>, z>>,
   <<<<83>>, k, Value>>, <<<<83>>, k, LongValue>>, <<<<68>>, k>>, <<<<75>>>>,
   <<<<90, 65>>, z, <<51, 46>>, a>>, <<<<90, 65>>, z, a, a>>,
   <<<<90, 83>>, z, a>>, <<<<90, 82>>, z, a>>, <<<<90, 77>>, z, a>>,
   <<<<90, 81>>, z, <<50>>, a, <<48>>, <<52>>>>,
   <<<<90, 81>>, z, <<50>>, a, <<48>>, <<51, 46>>>>,
   <<<<90, 81>>, z, <<50>>, a, <<48>>, <<54>>>>}

MCStores ==
  {[key \in {z} |-> ZSetEntry((a :> 2) @@ (d :> 3) @@ (<<99>> :> 3))],
   [key \in {LongName(i) : i \in 1 .. 3} |-> StrEntry(Value)]}
=============================================================================
