------------------------------ MODULE Commands ------------------------------
(***************************************************************************)
(* do_request of server_4.cpp: what each command does to the global store  *)
(* and what it answers.  The store db is a function from its keys to typed *)
(* entries; the hashtable below it is the set of keys that HMap implements *)
(* and a sorted set is the function from members to scores that ZSet       *)
(* implements.                                                             *)
(*                                                                         *)
(* A command is the sequence of its words.  A numeric word stands for the  *)
(* number it parses to, or for NaN when str2dbl or str2int refuses it.     *)
(***************************************************************************)
EXTENDS ZOrder

CONSTANT NaN

ASSUME NaNAssumption == NaN \notin Int

-----------------------------------------------------------------------------
(* Entries, replies. *)

NoMembers == [n \in {} |-> 0]

StrEntry(v)   == [type |-> "str",  value |-> v]
ZSetEntry(m)  == [type |-> "zset", value |-> m]

Put(db, k, entry) == [x \in DOMAIN db \union {k} |-> IF x = k THEN entry ELSE db[x]]

Nil      == [tag |-> "nil"]
Err(e)   == [tag |-> "err", val |-> e]
Str(v)   == [tag |-> "str", val |-> v]
Num(n)   == [tag |-> "int", val |-> n]
Dbl(s)   == [tag |-> "dbl", val |-> s]
Arr(seq) == [tag |-> "arr", val |-> seq]

Answer(db, reply) == [db |-> db, reply |-> reply]

Has(db, k) == k \in DOMAIN db

OfType(db, k, type) == Has(db, k) => db[k].type = type

\* expect_zset: a key that is missing is an empty sorted set.
Members(db, k) == IF Has(db, k) THEN db[k].value ELSE NoMembers

-----------------------------------------------------------------------------
(* Strings and keys. *)

Get(db, k) ==
  Answer(db, IF ~Has(db, k) THEN Nil
             ELSE IF OfType(db, k, "str") THEN Str(db[k].value)
             ELSE Err("BAD_TYPE"))

SetAnyType(db, k, v) == Answer(Put(db, k, StrEntry(v)), Nil)

Set(db, k, v) == IF OfType(db, k, "str")
                   THEN Answer(Put(db, k, StrEntry(v)), Nil)
                   ELSE Answer(db, Err("BAD_TYPE"))

Del(db, k) == Answer([x \in DOMAIN db \ {k} |-> db[x]],
                     Num(IF Has(db, k) THEN 1 ELSE 0))

\* In the order of the hashtable: any.
Keys(db) ==
  LET names == CHOOSE seq \in [1 .. Cardinality(DOMAIN db) -> DOMAIN db] :
                 \A k \in DOMAIN db : \E i \in DOMAIN seq : seq[i] = k
  IN Answer(db, Arr([i \in DOMAIN names |-> Str(names[i])]))

-----------------------------------------------------------------------------
(* Sorted sets. *)

\* The score added to the one there.
ScoredSum(mem, n, s) ==
  [m \in DOMAIN mem \union {n} |->
     IF m # n THEN mem[m] ELSE IF n \in DOMAIN mem THEN mem[n] + s ELSE s]

Scored(mem, n, s) == [m \in DOMAIN mem \union {n} |-> IF m = n THEN s ELSE mem[m]]

\* The entry made before the score is looked at.
DoAddEarly(db, k, s, n) ==
  LET made == IF Has(db, k) THEN db ELSE Put(db, k, ZSetEntry(NoMembers))
      mem  == Members(made, k)
  IN IF s = NaN \/ ~OfType(made, k, "zset")
       THEN Answer(made, Err("BAD_ARGUMENT"))
       ELSE Answer(Put(made, k, ZSetEntry(Scored(mem, n, s))),
                   Num(IF n \in DOMAIN mem THEN 0 ELSE 1))

DoAdd(db, k, s, n) ==
  IF s = NaN \/ ~OfType(db, k, "zset")
    THEN Answer(db, Err("BAD_ARGUMENT"))
    ELSE LET mem == Members(db, k)
         IN Answer(Put(db, k, ZSetEntry(Scored(mem, n, s))),
                   Num(IF n \in DOMAIN mem THEN 0 ELSE 1))

\* Deleting the last member leaves the key, with an empty sorted set.
DoZRem(db, k, n) ==
  IF ~OfType(db, k, "zset") THEN Answer(db, Err("BAD_TYPE"))
  ELSE LET mem == Members(db, k)
       IN IF n \in DOMAIN mem
            THEN Answer(Put(db, k, ZSetEntry([m \in DOMAIN mem \ {n} |-> mem[m]])),
                        Num(1))
            ELSE Answer(db, Num(0))

DoZScore(db, k, n) ==
  Answer(db, IF ~OfType(db, k, "zset") THEN Err("BAD_TYPE")
             ELSE IF n \in DOMAIN Members(db, k) THEN Dbl(Members(db, k)[n])
             ELSE Nil)

DoZRank(db, k, n) ==
  LET mem == Members(db, k)
  IN Answer(db, IF ~OfType(db, k, "zset") THEN Err("BAD_TYPE")
                ELSE IF n \in DOMAIN mem THEN Num(Rank(mem, mem[n], n))
                ELSE Err("NOT_FOUND"))

\* A flat array: name, score, name, score, ...
DoZQuery(db, k, s, n, offset, limit) ==
  LET mem  == Members(db, k)
      page == Query(mem, s, n, offset, (limit + 1) \div 2)
      flat == [i \in 1 .. 2 * Len(page) |->
                 IF i % 2 = 1 THEN Str(page[(i + 1) \div 2])
                              ELSE Dbl(mem[page[i \div 2]])]
  IN Answer(db, IF NaN \in {s, offset, limit} THEN Err("BAD_ARGUMENT")
                ELSE IF ~OfType(db, k, "zset") THEN Err("BAD_TYPE")
                ELSE IF limit <= 0 THEN Arr(<<>>)
                ELSE Arr(flat))

-----------------------------------------------------------------------------
(* A request: dispatch by name and number of words.  (A reply over 32 MiB,  *)
(* which end_response replaces by an error, is out of the model's reach.)   *)

Is(cmd, name, size) == Len(cmd) = size /\ cmd[1] = name

DoRequest(db, cmd) ==
  CASE Is(cmd, "GET", 2)    -> Get(db, cmd[2])
    [] Is(cmd, "SET", 3)    -> Set(db, cmd[2], cmd[3])
    [] Is(cmd, "DEL", 2)    -> Del(db, cmd[2])
    [] Is(cmd, "KEYS", 1)   -> Keys(db)
    [] Is(cmd, "ZADD", 4)   -> DoAdd(db, cmd[2], cmd[3], cmd[4])
    [] Is(cmd, "ZSCORE", 3) -> DoZScore(db, cmd[2], cmd[3])
    [] Is(cmd, "ZRANK", 3)  -> DoZRank(db, cmd[2], cmd[3])
    [] Is(cmd, "ZQUERY", 6) -> DoZQuery(db, cmd[2], cmd[3], cmd[4], cmd[5], cmd[6])
    [] Is(cmd, "ZREM", 3)   -> DoZRem(db, cmd[2], cmd[3])
    [] OTHER                -> Answer(db, Err("UNKNOWN"))
=============================================================================
