-------------------------- MODULE LeaderboardProofs -------------------------
(***************************************************************************)
(* What holds of the store and of the pages whatever they are and however  *)
(* their commands interleave: any players, points, limits, pages and users *)
(* that satisfy UserAssumption.                                            *)
(***************************************************************************)
EXTENDS Leaderboard, ZOrderProofs, SequenceTheorems

-----------------------------------------------------------------------------
(* The commands. *)

LEMMA Dispatch ==
  ASSUME NEW db, NEW a, NEW b, NEW c, NEW d, NEW e
  PROVE  /\ DoRequest(db, <<"GET", a>>) = Get(db, a)
         /\ DoRequest(db, <<"SET", a, b>>) = Set(db, a, b)
         /\ DoRequest(db, <<"ZADD", a, b, c>>) = DoAdd(db, a, b, c)
         /\ DoRequest(db, <<"ZQUERY", a, b, c, d, e>>) = DoZQuery(db, a, b, c, d, e)
BY DEF DoRequest, Is

(* A command that is refused changes nothing. *)
LEMMA RefusedKeeps ==
  ASSUME NEW db, NEW cmd, DoRequest(db, cmd).reply.tag = "err"
  PROVE  DoRequest(db, cmd).db = db
<1>1. \A k, v : Set(db, k, v).reply.tag = "err" => Set(db, k, v).db = db
  BY DEF Set, Answer, Nil, Err
<1>2. \A k : Del(db, k).reply.tag # "err"
  BY DEF Del, Answer, Num
<1>3. \A k, s, n : DoAdd(db, k, s, n).reply.tag = "err" => DoAdd(db, k, s, n).db = db
  BY DEF DoAdd, Answer, Num, Err
<1>4. \A k, n : DoZRem(db, k, n).reply.tag = "err" => DoZRem(db, k, n).db = db
  BY DEF DoZRem, Answer, Num, Err
<1>5. /\ \A k : Get(db, k).db = db
      /\ Keys(db).db = db
      /\ \A k, n : DoZScore(db, k, n).db = db /\ DoZRank(db, k, n).db = db
      /\ \A k, s, n, o, l : DoZQuery(db, k, s, n, o, l).db = db
      /\ Answer(db, Err("UNKNOWN")).db = db
  BY DEF Get, Keys, DoZScore, DoZRank, DoZQuery, Answer
<1> QED
  BY <1>1, <1>2, <1>3, <1>4, <1>5 DEF DoRequest

(* A command changes at most one key of the store, which is then a string,  *)
(* deleted, or a sorted set; and it was missing, or of that type.           *)
LEMMA CommandChanges ==
  ASSUME NEW db, NEW cmd
  PROVE  LET new == DoRequest(db, cmd).db
         IN \/ new = db
            \/ /\ Is(cmd, "SET", 3) /\ OfType(db, cmd[2], "str")
               /\ new = Put(db, cmd[2], StrEntry(cmd[3]))
            \/ new = [x \in DOMAIN db \ {cmd[2]} |-> db[x]]
            \/ /\ Is(cmd, "ZADD", 4) /\ OfType(db, cmd[2], "zset") /\ cmd[3] # NaN
               /\ new = Put(db, cmd[2], ZSetEntry(Scored(Members(db, cmd[2]), cmd[4], cmd[3])))
            \/ LET mem == Members(db, cmd[2])
               IN /\ OfType(db, cmd[2], "zset") /\ cmd[3] \in DOMAIN mem
                  /\ new = Put(db, cmd[2], ZSetEntry([m \in DOMAIN mem \ {cmd[3]} |-> mem[m]]))
<1>1. CASE Is(cmd, "SET", 3)
  BY <1>1 DEF DoRequest, Is, Set, Answer
<1>2. CASE Is(cmd, "DEL", 2)
  BY <1>2 DEF DoRequest, Is, Del, Answer
<1>3. CASE Is(cmd, "ZADD", 4)
  BY <1>3 DEF DoRequest, Is, DoAdd, Answer
<1>4. CASE Is(cmd, "ZREM", 3)
  BY <1>4 DEF DoRequest, Is, DoZRem, Answer
<1>5. CASE ~ \/ Is(cmd, "SET", 3) \/ Is(cmd, "DEL", 2)
             \/ Is(cmd, "ZADD", 4) \/ Is(cmd, "ZREM", 3)
  <2>1. /\ \A k : Get(db, k).db = db
        /\ Keys(db).db = db
        /\ \A k, n : DoZScore(db, k, n).db = db /\ DoZRank(db, k, n).db = db
        /\ \A k, s, n, o, l : DoZQuery(db, k, s, n, o, l).db = db
        /\ Answer(db, Err("UNKNOWN")).db = db
    BY DEF Get, Keys, DoZScore, DoZRank, DoZQuery, Answer
  <2>2. DoRequest(db, cmd).db = db
    BY <2>1, <1>5 DEF DoRequest
  <2> QED
    BY <2>2
<1> QED
  BY <1>1, <1>2, <1>3, <1>4, <1>5

(* A key that is there before and after a command has the same type. *)
LEMMA CommandKeepsTypes ==
  ASSUME NEW db, NEW cmd,
         NEW k \in DOMAIN db, k \in DOMAIN DoRequest(db, cmd).db
  PROVE  DoRequest(db, cmd).db[k].type = db[k].type
<1> DEFINE new == DoRequest(db, cmd).db
<1>1. \A x, e : k \in DOMAIN Put(db, x, e) /\ Put(db, x, e)[k] = IF k = x THEN e ELSE db[k]
  BY DEF Put
<1>2. \A v : StrEntry(v).type = "str" /\ ZSetEntry(v).type = "zset"
  BY DEF StrEntry, ZSetEntry
<1>3. \A x : k # x => [y \in DOMAIN db \ {x} |-> db[y]][k] = db[k]
  OBVIOUS
<1>4. CASE new = [x \in DOMAIN db \ {cmd[2]} |-> db[x]]
  BY <1>4
<1>5. CASE \E x, v : OfType(db, x, "str") /\ new = Put(db, x, StrEntry(v))
  BY <1>5, <1>1, <1>2 DEF OfType, Has
<1>6. CASE \E x, v : OfType(db, x, "zset") /\ new = Put(db, x, ZSetEntry(v))
  BY <1>6, <1>1, <1>2 DEF OfType, Has
<1> QED
  BY CommandChanges, <1>4, <1>5, <1>6

-----------------------------------------------------------------------------
(* What steps do to the store. *)

LEMMA StepExecutes ==
  ASSUME [Next]_vars
  PROVE  \/ UNCHANGED store
         \/ \E cmd : Execute(cmd)
<1> USE DEF Send, Ask
<1>1. CASE User
  BY <1>1 DEF User
<1>2. CASE UNCHANGED vars
  BY <1>2 DEF vars
<1>3. ASSUME NEW p \in Page, PageStep(p)
      PROVE  UNCHANGED store \/ \E cmd : Execute(cmd)
  <2>1. CASE Open(p) \/ Close(p) \/ Button(p) \/ Arrive(p)
    BY <2>1 DEF Open, Close, Button, Press, Arrive
  <2>2. CASE Load(p) \/ AwardPoints(p) \/ AddPlayer(p) \/ Simulate(p) \/ Reset(p)
    BY <2>2 DEF Load, AwardPoints, AddPlayer, Simulate, Reset
  <2>3. CASE \/ InitPlayers(p) \/ InitGames(p) \/ LoadPlayers(p) \/ LoadGames(p)
             \/ ResetPlayers(p) \/ ResetGames(p)
    BY <2>3 DEF InitPlayers, InitGames, LoadPlayers, LoadGames, ResetPlayers, ResetGames
  <2>4. CASE GetGames(p) \/ SetGames(p) \/ GetPlayers(p) \/ SetPlayers(p)
    BY <2>4 DEF GetGames, SetGames, GetPlayers, SetPlayers, GetCount
  <2> QED
    BY <1>3, <2>1, <2>2, <2>3, <2>4 DEF PageStep
<1> QED
  BY <1>1, <1>2, <1>3 DEF Next

(* A command that is refused leaves the store as it was, whichever page or  *)
(* user sends it and whatever the store holds (RefusedChangesNothing).      *)
THEOREM RefusalsHarmless == Spec => RefusedChangesNothing
<1>1. [Next]_vars => (last'.reply.tag = "err" => UNCHANGED store)
  <2> SUFFICES ASSUME [Next]_vars, last'.reply.tag = "err"
               PROVE  UNCHANGED store
    OBVIOUS
  <2>1. ASSUME NEW cmd, Execute(cmd)
        PROVE  UNCHANGED store
    BY <2>1, RefusedKeeps DEF Execute, Reply
  <2> QED
    BY <2>1, StepExecutes
<1> QED
  BY <1>1, PTL DEF Spec, RefusedChangesNothing

(* A key that exists before and after a step keeps its type (TypeKept). *)
THEOREM TypesStay == Spec => TypeKept
<1>1. [Next]_vars => \A k \in DOMAIN store \intersect DOMAIN store' :
                       store'[k].type = store[k].type
  <2> SUFFICES ASSUME [Next]_vars,
                      NEW k \in DOMAIN store, k \in DOMAIN store'
               PROVE  store'[k].type = store[k].type
    OBVIOUS
  <2>1. ASSUME NEW cmd, Execute(cmd)
        PROVE  store'[k].type = store[k].type
    BY <2>1, CommandKeepsTypes DEF Execute
  <2> QED
    BY <2>1, StepExecutes
<1> QED
  BY <1>1, PTL DEF Spec, TypeKept

-----------------------------------------------------------------------------
(* The invariant: the store holds strings that are counts or text, and      *)
(* sorted sets of players; each page holds what it read; what was read has  *)
(* not been taken back; and a late reply holds no count and no score that   *)
(* its page could not have read.                                            *)

Typed(entry) ==
  \/ entry.type = "str" /\ entry.value \in Nat \union {Text}
  \/ /\ entry.type = "zset"
     /\ IsFiniteSet(DOMAIN entry.value) /\ DOMAIN entry.value \subseteq Player
     /\ \A n \in DOMAIN entry.value : entry.value[n] \in Nat

Data(db) == \A k \in DOMAIN db : Typed(db[k])

PageState == [at : Label, list : Seq([name : Player, score : Nat]),
              used : SUBSET Nat, left : 0 .. 3, count : Nat]

\* A count that will be written back was counted; the scores a game started
\* from were given; a game has points left to give.
Knows(at, gamesPlayed, playersJoined, given) ==
  /\ at \in PageState
  /\ at.used \subseteq DOMAIN at.list
  /\ at.at = "award" => at.left \in 1 .. 3
  /\ at.at = "setGames" => at.count <= gamesPlayed
  /\ at.at = "setPlayers" => at.count <= playersJoined
  /\ \A i \in DOMAIN at.list : at.list[i].score <= given[at.list[i].name]

Pages == /\ page \in [Page -> PageState]
         /\ \A p \in Page : Knows(page[p], Most(played), Most(joined), earned)

\* What a page may make of a reply, whichever command it takes it for.
Credible(reply, count, given) ==
  /\ ParseCount(reply) \in Nat /\ ParseCount(reply) <= count
  /\ Parsed(reply) \in Seq([name : Player, score : Nat])
  /\ \A i \in DOMAIN Parsed(reply) : Parsed(reply)[i].score <= given[Parsed(reply)[i].name]

Counts == played + joined + 1

Late == /\ \E S : late \in [Page -> Seq(S)]
        /\ \A p \in Page : /\ Len(late[p]) <= timeouts
                            /\ \A i \in DOMAIN late[p] : Credible(late[p][i], Counts, earned)

Ghosts == /\ runs \in 0 .. MaxRuns /\ timeouts \in 0 .. MaxTimeouts
          /\ played \in Nat /\ joined \in Nat
          /\ earned \in [Player -> Nat] /\ crossed \in BOOLEAN

IInv == Data(store) /\ Pages /\ Late /\ Ghosts /\ NeverOvercounted /\ ScoresEarned

-----------------------------------------------------------------------------
(* What the commands of the pages and of the user do to counters, scores.   *)

CountIn(db, key) == IF OfType(db, key, "str") /\ Has(db, key) /\ db[key].value # Text
                      THEN db[key].value ELSE 0

LEMMA CountsAre ==
  /\ NeverOvercounted <=>
       CountIn(store, games) <= Most(played) /\ CountIn(store, players) <= Most(joined)
  /\ NeverOvercounted' <=>
       CountIn(store', games) <= Most(played)' /\ CountIn(store', players) <= Most(joined)'
BY DEF NeverOvercounted, Counted, CountIn, OfType, Has

LEMMA CountIsNatural ==
  ASSUME NEW db, Data(db), NEW key
  PROVE  CountIn(db, key) \in Nat
BY DEF CountIn, Data, Typed, OfType, Has

\* Every score on the board is one that was given.
Given(db, given) == OfType(db, board, "zset") =>
                      \A n \in DOMAIN Members(db, board) : Members(db, board)[n] <= given[n]

LEMMA ScoresAre ==
  (ScoresEarned <=> Given(store, earned)) /\ (ScoresEarned' <=> Given(store', earned'))
BY DEF ScoresEarned, Given, OfType, Has, Members

LEMMA EntryParts ==
  ASSUME NEW v
  PROVE  /\ StrEntry(v).type = "str" /\ StrEntry(v).value = v
         /\ ZSetEntry(v).type = "zset" /\ ZSetEntry(v).value = v
BY DEF StrEntry, ZSetEntry

LEMMA PutReads ==
  ASSUME NEW db, NEW k, NEW entry, NEW x
  PROVE  /\ Has(Put(db, k, entry), x) <=> x = k \/ Has(db, x)
         /\ x = k => Put(db, k, entry)[x] = entry
         /\ x # k /\ Has(db, x) => Put(db, k, entry)[x] = db[x]
BY DEF Put, Has

LEMMA PutKeepsData ==
  ASSUME NEW db, Data(db), NEW k, NEW entry, Typed(entry)
  PROVE  Data(Put(db, k, entry))
<1> SUFFICES ASSUME NEW x, Has(Put(db, k, entry), x)
             PROVE  Typed(Put(db, k, entry)[x])
  BY DEF Data, Has
<1>1. CASE x = k
  BY <1>1, PutReads
<1>2. CASE x # k
  <2>1. Has(db, x) /\ Put(db, k, entry)[x] = db[x]
    BY <1>2, PutReads
  <2> QED
    BY <2>1 DEF Data, Has
<1> QED
  BY <1>1, <1>2

(* Writing a string, or a sorted set over one, and what is read then.       *)
LEMMA PutOther ==
  ASSUME NEW db, NEW k, NEW entry, NEW x, x # k
  PROVE  /\ CountIn(Put(db, k, entry), x) = CountIn(db, x)
         /\ \A given : x = board /\ Given(db, given) => Given(Put(db, k, entry), given)
BY PutReads DEF CountIn, Given, OfType, Members, Has

LEMMA PutString ==
  ASSUME NEW db, NEW k, NEW v
  PROVE  LET new == Put(db, k, StrEntry(v))
         IN /\ CountIn(new, k) = IF v # Text THEN v ELSE 0
            /\ \A given : k = board => Given(new, given)
<1>1. /\ Has(Put(db, k, StrEntry(v)), k)
      /\ Put(db, k, StrEntry(v))[k].type = "str"
      /\ Put(db, k, StrEntry(v))[k].value = v
  BY PutReads, EntryParts
<1> QED
  BY <1>1 DEF CountIn, Given, OfType

LEMMA PutMembers ==
  ASSUME NEW db, NEW k, NEW mem
  PROVE  LET new == Put(db, k, ZSetEntry(mem))
         IN CountIn(new, k) = 0 /\ Members(new, k) = mem /\ OfType(new, k, "zset")
<1>1. /\ Has(Put(db, k, ZSetEntry(mem)), k)
      /\ Put(db, k, ZSetEntry(mem))[k].type = "zset"
      /\ Put(db, k, ZSetEntry(mem))[k].value = mem
  BY PutReads, EntryParts
<1> QED
  BY <1>1 DEF CountIn, Members, OfType

(* A score added or replaced. *)
LEMMA ScoredTyped ==
  ASSUME NEW db, Data(db), NEW k, OfType(db, k, "zset"), NEW s \in Nat, NEW n \in Player
  PROVE  Typed(ZSetEntry(Scored(Members(db, k), n, s)))
<1> DEFINE mem == Members(db, k)
<1>1. /\ IsFiniteSet(DOMAIN mem) /\ DOMAIN mem \subseteq Player
      /\ \A m \in DOMAIN mem : mem[m] \in Nat
  BY FS_EmptySet DEF Members, NoMembers, Data, Typed, OfType, Has
<1> HIDE DEF mem
<1>2. IsFiniteSet(DOMAIN mem \union {n})
  BY <1>1, FS_AddElement
<1>3. /\ DOMAIN Scored(mem, n, s) = DOMAIN mem \union {n}
      /\ \A m \in DOMAIN mem \union {n} : Scored(mem, n, s)[m] \in Nat
  BY <1>1 DEF Scored
<1> QED
  BY <1>1, <1>2, <1>3, EntryParts DEF Typed, mem

(* The members left after one is deleted. *)
LEMMA RemovedTyped ==
  ASSUME NEW db, Data(db), NEW k, OfType(db, k, "zset"), NEW n
  PROVE  LET mem == Members(db, k)
         IN Typed(ZSetEntry([m \in DOMAIN mem \ {n} |-> mem[m]]))
<1> DEFINE mem == Members(db, k)
           new == [m \in DOMAIN mem \ {n} |-> mem[m]]
<1>1. /\ IsFiniteSet(DOMAIN mem) /\ DOMAIN mem \subseteq Player
      /\ \A m \in DOMAIN mem : mem[m] \in Nat
  BY FS_EmptySet DEF Members, NoMembers, Data, Typed, OfType, Has
<1>2. IsFiniteSet(DOMAIN mem \ {n})
  BY <1>1, FS_RemoveElement
<1>3. /\ DOMAIN new = DOMAIN mem \ {n}
      /\ \A m \in DOMAIN new : new[m] \in Nat
  BY <1>1
<1> QED
  BY <1>1, <1>2, <1>3, EntryParts DEF Typed

\* What every command may send but those that count or give points: 0, text
\* or nothing to a counter, no points to the board.
Plain(cmd) == /\ Is(cmd, "SET", 3) => cmd[3] \in {0, Text}
              /\ Is(cmd, "ZADD", 4) =>
                   \/ cmd[3] = NaN
                   \/ cmd[2] # board /\ cmd[3] \in Nat /\ cmd[4] \in Player

(* Such a command raises no count and no score. *)
LEMMA PlainCommand ==
  ASSUME NEW db, Data(db), NEW cmd, Plain(cmd)
  PROVE  LET new == DoRequest(db, cmd).db
         IN /\ Data(new)
            /\ \A key : CountIn(new, key) <= CountIn(db, key)
            /\ \A given : Given(db, given) => Given(new, given)
<1> DEFINE new == DoRequest(db, cmd).db
           k   == cmd[2]
<1>0. \A key : CountIn(db, key) \in Nat
  BY CountIsNatural
<1>1. CASE new = db
  BY <1>0, <1>1
<1>2. CASE /\ Is(cmd, "SET", 3) /\ OfType(db, k, "str")
           /\ new = Put(db, k, StrEntry(cmd[3]))
  <2>1. cmd[3] \in {0, Text} /\ Typed(StrEntry(cmd[3]))
    BY <1>2, EntryParts DEF Plain, Typed
  <2>2. Data(new)
    BY <1>2, <2>1, PutKeepsData
  <2>3. CountIn(new, k) = 0 /\ \A key : key # k => CountIn(new, key) = CountIn(db, key)
    BY <1>2, <2>1, PutString, PutOther
  <2>4. ASSUME NEW given, Given(db, given) PROVE Given(new, given)
    <3>1. CASE k = board
      BY <1>2, <3>1, PutString
    <3>2. CASE k # board
      BY <1>2, <2>4, <3>2, PutOther
    <3> QED
      BY <3>1, <3>2
  <2> QED
    BY <1>0, <2>2, <2>3, <2>4
<1>3. CASE new = [x \in DOMAIN db \ {k} |-> db[x]]
  <2>1. Data(new)
    BY <1>3 DEF Data
  <2>2. ASSUME NEW key PROVE CountIn(new, key) <= CountIn(db, key)
    <3>1. CountIn(new, key) = 0 \/ CountIn(new, key) = CountIn(db, key)
      BY <1>3 DEF CountIn, OfType, Has
    <3> QED
      BY <3>1, <1>0
  <2>3. ASSUME NEW given, Given(db, given) PROVE Given(new, given)
    BY <1>3, <2>3 DEF Given, OfType, Has, Members, NoMembers
  <2> QED
    BY <2>1, <2>2, <2>3
<1>4. CASE /\ Is(cmd, "ZADD", 4) /\ OfType(db, k, "zset") /\ cmd[3] # NaN
           /\ new = Put(db, k, ZSetEntry(Scored(Members(db, k), cmd[4], cmd[3])))
  <2>1. k # board /\ cmd[3] \in Nat /\ cmd[4] \in Player
    BY <1>4 DEF Plain
  <2>2. Data(new)
    BY <1>4, <2>1, ScoredTyped, PutKeepsData
  <2>3. CountIn(new, k) = 0 /\ \A key : key # k => CountIn(new, key) = CountIn(db, key)
    BY <1>4, PutMembers, PutOther
  <2>4. \A given : Given(db, given) => Given(new, given)
    BY <1>4, <2>1, PutOther
  <2> QED
    BY <1>0, <2>2, <2>3, <2>4
<1>5. CASE LET mem == Members(db, k)
           IN /\ OfType(db, k, "zset") /\ cmd[3] \in DOMAIN mem
              /\ new = Put(db, k, ZSetEntry([m \in DOMAIN mem \ {cmd[3]} |-> mem[m]]))
  <2> DEFINE mem  == Members(db, k)
             less == [m \in DOMAIN mem \ {cmd[3]} |-> mem[m]]
  <2>1. Data(new)
    BY <1>5, RemovedTyped, PutKeepsData
  <2>2. CountIn(new, k) = 0 /\ \A key : key # k => CountIn(new, key) = CountIn(db, key)
    BY <1>5, PutMembers, PutOther
  <2>3. ASSUME NEW given, Given(db, given) PROVE Given(new, given)
    <3>1. CASE k = board
      <4>1. Members(new, board) = less
        BY <1>5, <3>1, PutMembers
      <4> QED
        BY <4>1, <1>5, <2>3, <3>1 DEF Given
    <3>2. CASE k # board
      BY <1>5, <2>3, <3>2, PutOther
    <3> QED
      BY <3>1, <3>2
  <2> QED
    BY <1>0, <2>1, <2>2, <2>3
<1> QED
  BY CommandChanges, <1>1, <1>2, <1>3, <1>4, <1>5

(* A counter written. *)
LEMMA CountWritten ==
  ASSUME NEW db, Data(db), NEW key, key # board, NEW count \in Nat
  PROVE  LET cmd == <<"SET", key, count>>
             new == DoRequest(db, cmd).db
         IN /\ Data(new)
            /\ \A other : other # key => CountIn(new, other) = CountIn(db, other)
            /\ IF DoRequest(db, cmd).reply.tag = "err"
                 THEN new = db ELSE CountIn(new, key) <= count
            /\ \A given : Given(db, given) => Given(new, given)
<1> DEFINE cmd == <<"SET", key, count>>
           new == DoRequest(db, cmd).db
<1>0. DoRequest(db, cmd) = Set(db, key, count)
  BY Dispatch
<1>1. CASE OfType(db, key, "str")
  <2>1. /\ new = Put(db, key, StrEntry(count))
        /\ DoRequest(db, cmd).reply.tag # "err"
    BY <1>0, <1>1 DEF Set, Answer, Nil
  <2>2. Data(new)
    <3>1. Typed(StrEntry(count))
      BY EntryParts DEF Typed
    <3> QED
      BY <2>1, <3>1, PutKeepsData
  <2>3. CountIn(new, key) = count
    BY <2>1, PutString, NumbersAssumption
  <2>4. \A other : other # key => CountIn(new, other) = CountIn(db, other)
    BY <2>1, PutOther
  <2>5. ASSUME NEW given, Given(db, given) PROVE Given(new, given)
    BY <2>1, <2>5, PutOther
  <2> QED
    BY <2>1, <2>2, <2>3, <2>4, <2>5
<1>2. CASE ~OfType(db, key, "str")
  <2>1. new = db /\ DoRequest(db, cmd).reply.tag = "err"
    BY <1>0, <1>2 DEF Set, Answer, Err
  <2> QED
    BY <2>1
<1> QED
  BY <1>1, <1>2

(* A score written: the others, and the counters, stay.  A board that is no *)
(* sorted set refuses it.                                                   *)
LEMMA ScoreWritten ==
  ASSUME NEW db, Data(db), NEW s \in Nat, NEW n \in Player
  PROVE  LET cmd == <<"ZADD", board, s, n>>
             new == DoRequest(db, cmd).db
         IN /\ Data(new)
            /\ \A key : CountIn(new, key) <= CountIn(db, key)
            /\ IF DoRequest(db, cmd).reply.tag = "err"
                 THEN new = db
                 ELSE \A given, raised :
                        /\ Given(db, given) /\ s <= raised[n]
                        /\ \A m \in DOMAIN Members(db, board) \ {n} : given[m] = raised[m]
                        => Given(new, raised)
<1> DEFINE cmd == <<"ZADD", board, s, n>>
           new == DoRequest(db, cmd).db
           mem == Members(db, board)
<1>0. /\ s # NaN
      /\ DoRequest(db, cmd) = DoAdd(db, board, s, n)
      /\ \A key : CountIn(db, key) \in Nat
  <2>1. s # NaN
    BY NaNAssumption
  <2>2. DoRequest(db, cmd) = DoAdd(db, board, s, n)
    BY Dispatch
  <2>3. \A key : CountIn(db, key) \in Nat
    BY CountIsNatural
  <2> QED
    BY <2>1, <2>2, <2>3
<1>1. CASE OfType(db, board, "zset")
  <2>1. /\ new = Put(db, board, ZSetEntry(Scored(mem, n, s)))
        /\ DoRequest(db, cmd).reply.tag # "err"
    BY <1>0, <1>1 DEF DoAdd, Answer, Num
  <2>2. Data(new)
    BY <1>1, <2>1, PutKeepsData, ScoredTyped
  <2>3. CountIn(new, board) = 0 /\ \A key : key # board => CountIn(new, key) = CountIn(db, key)
    BY <2>1, PutMembers, PutOther
  <2>4. Members(new, board) = Scored(mem, n, s)
    BY <2>1, PutMembers
  <2>5. ASSUME NEW given, NEW raised, Given(db, given), s <= raised[n],
               \A m \in DOMAIN mem \ {n} : given[m] = raised[m]
        PROVE  Given(new, raised)
    BY <1>1, <2>4, <2>5 DEF Given, Scored
  <2> QED
    BY <1>0, <2>1, <2>2, <2>3, <2>5
<1>2. CASE ~OfType(db, board, "zset")
  <2>1. new = db /\ DoRequest(db, cmd).reply.tag = "err"
    BY <1>0, <1>2 DEF DoAdd, Answer, Err
  <2> QED
    BY <2>1, <1>0
<1> QED
  BY <1>1, <1>2

(* The pairs a page makes of a flat answer: members of the board with the   *)
(* scores they have.                                                        *)
LEMMA TopAnswer ==
  ASSUME NEW db, Data(db), NEW limit \in Nat,
         DoRequest(db, TopPlayers(limit)).reply.tag # "err",
         NEW given, Given(db, given)
  PROVE  LET list == Parsed(DoRequest(db, TopPlayers(limit)).reply)
         IN /\ list \in Seq([name : Player, score : Nat])
            /\ \A i \in DOMAIN list : list[i].score <= given[list[i].name]
<1> DEFINE reply  == DoRequest(db, TopPlayers(limit)).reply
           mem    == Members(db, board)
           number == (limit + 1) \div 2
           names  == Query(mem, 0, <<>>, 0, number)
           size   == Len(names)
           flat   == [i \in 1 .. 2 * size |->
                        IF i % 2 = 1 THEN Str(names[(i + 1) \div 2])
                                     ELSE Dbl(mem[names[i \div 2]])]
           list   == Parsed(reply)
<1>1. /\ OfType(db, board, "zset")
      /\ reply = IF limit <= 0 THEN Arr(<<>>) ELSE Arr(flat)
  <2>1. DoRequest(db, TopPlayers(limit)) = DoZQuery(db, board, 0, <<>>, 0, limit)
    BY Dispatch DEF TopPlayers
  <2>2. NaN \notin {0, 0, limit}
    BY NaNAssumption
  <2>3. DoZQuery(db, board, 0, <<>>, 0, limit).reply =
          IF NaN \in {0, 0, limit} THEN Err("BAD_ARGUMENT")
          ELSE IF ~OfType(db, board, "zset") THEN Err("BAD_TYPE")
          ELSE IF limit <= 0 THEN Arr(<<>>)
          ELSE Arr(flat)
    BY DEF DoZQuery, Answer
  <2> HIDE DEF flat
  <2>4. OfType(db, board, "zset")
    BY <2>1, <2>2, <2>3 DEF Err
  <2> QED
    BY <2>1, <2>2, <2>3, <2>4
<1>2. /\ Scores(mem) /\ DOMAIN mem \subseteq Player
      /\ \A n \in DOMAIN mem : mem[n] \in Nat /\ mem[n] <= given[n]
  <2>1. /\ IsFiniteSet(DOMAIN mem) /\ DOMAIN mem \subseteq Player
        /\ \A n \in DOMAIN mem : mem[n] \in Nat
    BY <1>1, FS_EmptySet DEF Members, NoMembers, Data, Typed, OfType, Has
  <2> QED
    BY <2>1, <1>1, PlayerAssumption DEF Scores, Name, Given
<1>3. names \in Seq(DOMAIN mem)
  <2>1. <<>> \in Name /\ number \in Nat /\ 0 \in Int
    BY DEF Name
  <2> HIDE DEF number
  <2> QED
    BY <2>1, <1>2, PageOfMembers
<1> HIDE DEF mem, names
<1>4. CASE limit <= 0
  <2>1. reply.val = <<>>
    BY <1>1, <1>4 DEF Arr
  <2>2. list = <<>>
    BY <2>1 DEF Parsed
  <2> QED
    BY <2>2
<1>5. CASE limit > 0
  <2>1. size \in Nat /\ \A i \in 1 .. size : names[i] \in DOMAIN mem
    BY <1>3
  <2> HIDE DEF size
  <2>2. reply.val = flat /\ reply.tag = "arr"
    <3> HIDE DEF flat
    <3> QED
      BY <1>1, <1>5 DEF Arr
  <2>3. Len(flat) = 2 * size /\ Len(flat) \div 2 = size
    BY <2>1
  <2>4. ASSUME NEW i \in 1 .. size
        PROVE  flat[2 * i - 1].val = names[i] /\ flat[2 * i].val = mem[names[i]]
    <3>1. /\ 2 * i - 1 \in 1 .. 2 * size /\ (2 * i - 1) % 2 = 1
          /\ ((2 * i - 1) + 1) \div 2 = i
          /\ 2 * i \in 1 .. 2 * size /\ (2 * i) % 2 = 0 /\ (2 * i) \div 2 = i
      BY <2>1
    <3>2. flat[2 * i - 1] = Str(names[i]) /\ flat[2 * i] = Dbl(mem[names[i]])
      BY <3>1
    <3> QED
      BY <3>2 DEF Str, Dbl
  <2> HIDE DEF flat
  <2>5. list = [i \in 1 .. size |-> [name |-> names[i], score |-> mem[names[i]]]]
    <3> HIDE DEF reply
    <3> QED
      BY <2>2, <2>3, <2>4 DEF Parsed
  <2> QED
    BY <2>1, <2>5, <1>2
<1> QED
  BY <1>4, <1>5

-----------------------------------------------------------------------------
(* What pages know. *)

\* Where a page has nothing to answer for but its list.
Quiet == Label \ {"award", "setGames", "setPlayers"}

LEMMA Elements ==
  ASSUME NEW S, NEW seq \in Seq(S)
  PROVE  \A i \in DOMAIN seq : seq[i] \in S
OBVIOUS

(* Counts and points only grow, so what was known stays known. *)
LEMMA KnowsMore ==
  ASSUME NEW at, NEW g1 \in Nat, NEW j1 \in Nat, NEW e1 \in [Player -> Nat],
         Knows(at, g1, j1, e1),
         NEW g2 \in Nat, NEW j2 \in Nat, NEW e2 \in [Player -> Nat],
         g1 <= g2, j1 <= j2, \A n \in Player : e1[n] <= e2[n]
  PROVE  Knows(at, g2, j2, e2)
<1>1. /\ at \in PageState /\ at.count \in Nat
      /\ \A i \in DOMAIN at.list : at.list[i].name \in Player /\ at.list[i].score \in Nat
  <2>1. at \in PageState
    BY DEF Knows
  <2>2. at.count \in Nat /\ at.list \in Seq([name : Player, score : Nat])
    BY <2>1 DEF PageState
  <2>3. \A i \in DOMAIN at.list : at.list[i] \in [name : Player, score : Nat]
    BY <2>2, Elements
  <2> QED
    BY <2>1, <2>2, <2>3
<1>2. ASSUME NEW i \in DOMAIN at.list
      PROVE  at.list[i].score <= e2[at.list[i].name]
  BY <1>1 DEF Knows
<1> QED
  BY <1>1, <1>2 DEF Knows

LEMMA KnowsNothing ==
  ASSUME NEW label \in Quiet, NEW g, NEW j, NEW e
  PROVE  Knows(Local(label), g, j, e)
<1>1. /\ Local(label) \in PageState
      /\ Local(label).at = label /\ Local(label).used = {} /\ Local(label).list = <<>>
  BY DEF Local, PageState, Quiet
<1> QED
  BY <1>1 DEF Knows, Quiet

LEMMA KnowsOn ==
  ASSUME Pages, NEW p \in Page, NEW label \in Quiet
  PROVE  Knows(GoTo(p, label), Most(played), Most(joined), earned)
<1>1. Knows(page[p], Most(played), Most(joined), earned) /\ page[p] \in PageState
  BY DEF Pages
<1>2. /\ GoTo(p, label) \in PageState /\ GoTo(p, label).at = label
      /\ GoTo(p, label).used = page[p].used /\ GoTo(p, label).list = page[p].list
  BY <1>1 DEF GoTo, PageState, Quiet
<1> QED
  BY <1>1, <1>2 DEF Knows, Quiet

LEMMA KnowsList ==
  ASSUME NEW list \in Seq([name : Player, score : Nat]), NEW g, NEW j, NEW e,
         \A i \in DOMAIN list : list[i].score <= e[list[i].name]
  PROVE  /\ Knows([Local("resetPlayers") EXCEPT !.list = list], g, j, e)
         /\ \A left \in 1 .. 3 :
              Knows([Local("award") EXCEPT !.list = list, !.left = left], g, j, e)
<1>1. LET at == [Local("resetPlayers") EXCEPT !.list = list]
      IN at \in PageState /\ at.at = "resetPlayers" /\ at.used = {} /\ at.list = list
  BY DEF Local, PageState, Label
<1>2. ASSUME NEW left \in 1 .. 3
      PROVE  LET at == [Local("award") EXCEPT !.list = list, !.left = left]
             IN /\ at \in PageState /\ at.at = "award" /\ at.used = {}
                /\ at.list = list /\ at.left = left
  <2> DEFINE at == [Local("award") EXCEPT !.list = list, !.left = left]
  <2>1. Local("award") \in PageState /\ Local("award").at = "award" /\ Local("award").used = {}
    BY DEF Local, PageState, Label
  <2>2. left \in 0 .. 3
    OBVIOUS
  <2>3. at \in PageState
    BY <2>1, <2>2 DEF PageState
  <2>4. at.at = "award" /\ at.used = {} /\ at.list = list /\ at.left = left
    BY <2>1 DEF PageState
  <2> QED
    BY <2>3, <2>4
<1> QED
  BY <1>1, <1>2 DEF Knows

(* The count read is what the counter says, at most what was counted. *)
LEMMA CountRead ==
  ASSUME NEW db, Data(db), NEW key, NEW reply, reply = DoRequest(db, <<"GET", key>>).reply,
         reply.tag # "err"
  PROVE  ParseCount(reply) = CountIn(db, key)
<1>1. reply = Get(db, key).reply
  BY Dispatch
<1>2. CASE ~Has(db, key)
  BY <1>1, <1>2 DEF Get, Answer, Nil, ParseCount, CountIn
<1>3. CASE Has(db, key)
  <2>1. OfType(db, key, "str") /\ reply = Str(db[key].value)
    BY <1>1, <1>3 DEF Get, Answer, Err
  <2> QED
    BY <2>1, <1>3 DEF Str, ParseCount, CountIn
<1> QED
  BY <1>2, <1>3

LEMMA KnowsCount ==
  ASSUME NEW count \in Nat, NEW g, NEW j, NEW e, NEW to \in {"setGames", "setPlayers"},
         to = "setGames" => count <= g, to = "setPlayers" => count <= j
  PROVE  Knows([Local(to) EXCEPT !.count = count], g, j, e)
<1>1. LET at == [Local(to) EXCEPT !.count = count]
      IN /\ at \in PageState /\ at.at = to /\ at.used = {}
         /\ at.list = <<>> /\ at.count = count
  <2>1. /\ Local(to) \in PageState /\ Local(to).at = to
        /\ Local(to).used = {} /\ Local(to).list = <<>>
    BY DEF Local, PageState, Label
  <2> QED
    BY <2>1 DEF PageState
<1> QED
  BY <1>1 DEF Knows

-----------------------------------------------------------------------------
(* Replies, and what a page makes of one it takes for another's.            *)

(* What was credible stays so. *)
LEMMA CredibleMore ==
  ASSUME NEW reply, NEW c1 \in Nat, NEW e1 \in [Player -> Nat], Credible(reply, c1, e1),
         NEW c2 \in Nat, NEW e2 \in [Player -> Nat],
         c1 <= c2, \A n \in Player : e1[n] <= e2[n]
  PROVE  Credible(reply, c2, e2)
<1> DEFINE list == Parsed(reply)
           val  == ParseCount(reply)
<1>1. /\ val \in Nat /\ val <= c1
      /\ list \in Seq([name : Player, score : Nat])
      /\ \A i \in DOMAIN list : list[i].score <= e1[list[i].name]
  BY DEF Credible
<1> HIDE DEF list, val
<1>2. val <= c2
  BY <1>1
<1>3. ASSUME NEW i \in DOMAIN list
      PROVE  list[i].score <= e2[list[i].name]
  <2>1. list[i] \in [name : Player, score : Nat]
    BY <1>1, Elements
  <2>2. list[i].name \in Player /\ list[i].score \in Nat
    BY <2>1
  <2>3. list[i].score <= e1[list[i].name] /\ e1[list[i].name] <= e2[list[i].name]
    BY <1>1, <2>2
  <2>4. e1[list[i].name] \in Nat /\ e2[list[i].name] \in Nat
    BY <2>2
  <2> QED
    BY <2>2, <2>3, <2>4
<1> QED
  BY <1>1, <1>2, <1>3 DEF Credible, list, val

LEMMA CredibleParts ==
  ASSUME NEW reply, NEW count, NEW given,
         ParseCount(reply) \in Nat, ParseCount(reply) <= count,
         Parsed(reply) \in Seq([name : Player, score : Nat]),
         \A i \in DOMAIN Parsed(reply) : Parsed(reply)[i].score <= given[Parsed(reply)[i].name]
  PROVE  Credible(reply, count, given)
BY DEF Credible

(* A reply that is no array holds no players, and one that holds no count   *)
(* reads as 0.                                                              *)
LEMMA CredibleValue ==
  ASSUME NEW reply, reply.tag # "arr", NEW count \in Nat, NEW given,
         ParseCount(reply) \in Nat, ParseCount(reply) <= count
  PROVE  Credible(reply, count, given)
<1>1. Parsed(reply) = <<>>
  BY DEF Parsed
<1> QED
  BY <1>1 DEF Credible

LEMMA CredibleNone ==
  ASSUME NEW reply, reply.tag \in {"nil", "err"}, NEW count \in Nat, NEW given
  PROVE  Credible(reply, count, given)
<1>1. reply.tag # "arr" /\ ParseCount(reply) = 0
  BY DEF ParseCount
<1> QED
  BY <1>1, CredibleValue

LEMMA WriteAnswers ==
  ASSUME NEW count \in Nat, NEW given
  PROVE  /\ \A key, v : Credible(Reply(<<"SET", key, v>>), count, given)
         /\ count >= 1 =>
              \A s, n : Credible(Reply(<<"ZADD", board, s, n>>), count, given)
<1>1. ASSUME NEW key, NEW v
      PROVE  Credible(Reply(<<"SET", key, v>>), count, given)
  <2>1. Reply(<<"SET", key, v>>) = Set(store, key, v).reply
    BY Dispatch DEF Reply
  <2>2. Set(store, key, v).reply.tag \in {"nil", "err"}
    BY DEF Set, Answer, Nil, Err
  <2> QED
    BY <2>1, <2>2, CredibleNone
<1>2. ASSUME NEW s, NEW n, count >= 1
      PROVE  Credible(Reply(<<"ZADD", board, s, n>>), count, given)
  <2> DEFINE reply == DoAdd(store, board, s, n).reply
  <2>1. Reply(<<"ZADD", board, s, n>>) = reply
    BY Dispatch DEF Reply
  <2>2. reply.tag = "err" \/ \E val \in {0, 1} : reply = Num(val)
    BY DEF DoAdd, Answer, Err
  <2>3. CASE reply.tag = "err"
    BY <2>1, <2>3, CredibleNone
  <2>4. ASSUME NEW val \in {0, 1}, reply = Num(val)
        PROVE  Credible(reply, count, given)
    <3>1. reply.tag = "int" /\ reply.val = val
      BY <2>4 DEF Num
    <3>2. val # Text
      BY NumbersAssumption
    <3>3. ParseCount(reply) = val
      BY <3>1, <3>2 DEF ParseCount
    <3>4. ParseCount(reply) \in Nat /\ ParseCount(reply) <= count
      BY <3>3, <1>2
    <3> QED
      BY <3>1, <3>4, CredibleValue
  <2> QED
    BY <2>1, <2>2, <2>3, <2>4
<1> QED
  BY <1>1, <1>2

LEMMA CountsNatural ==
  ASSUME Ghosts
  PROVE  /\ Counts \in Nat /\ Counts >= 1
         /\ Most(played) \in Nat /\ Most(joined) \in Nat
         /\ Most(played) <= Counts /\ Most(joined) <= Counts
         /\ ~crossed => Most(played) = played /\ Most(joined) = joined
         /\ crossed => Most(played) = Counts /\ Most(joined) = Counts
BY DEF Ghosts, Counts, Most

LEMMA ReadAnswers ==
  ASSUME IInv
  PROVE  /\ \A key \in {games, players} : Credible(Reply(<<"GET", key>>), Counts, earned)
         /\ \A limit \in Nat : Credible(Reply(TopPlayers(limit)), Counts, earned)
<1>1. Counts \in Nat /\ Most(played) <= Counts /\ Most(joined) <= Counts
      /\ Most(played) \in Nat /\ Most(joined) \in Nat
  BY CountsNatural DEF IInv
<1>2. ASSUME NEW key \in {games, players}
      PROVE  Credible(Reply(<<"GET", key>>), Counts, earned)
  <2> DEFINE reply == Reply(<<"GET", key>>)
  <2>1. reply = Get(store, key).reply
    BY Dispatch DEF Reply
  <2>2. reply.tag \in {"nil", "err", "str"}
    BY <2>1 DEF Get, Answer, Nil, Err, Str
  <2>3. CASE reply.tag = "str"
    <3>1. ParseCount(reply) = CountIn(store, key) /\ CountIn(store, key) \in Nat
      BY <2>3, CountRead, CountIsNatural DEF IInv, Reply
    <3>2. CountIn(store, games) <= Most(played) /\ CountIn(store, players) <= Most(joined)
      BY CountsAre DEF IInv
    <3>3. CountIn(store, key) <= Counts
      BY <1>1, <1>2, <3>1, <3>2
    <3> QED
      BY <1>1, <2>3, <3>1, <3>3, CredibleValue
  <2>4. CASE reply.tag \in {"nil", "err"}
    BY <1>1, <2>4, CredibleNone
  <2> QED
    BY <2>2, <2>3, <2>4
<1>3. ASSUME NEW limit \in Nat
      PROVE  Credible(Reply(TopPlayers(limit)), Counts, earned)
  <2> DEFINE reply == Reply(TopPlayers(limit))
  <2>1. reply = DoZQuery(store, board, 0, <<>>, 0, limit).reply
    BY Dispatch DEF Reply, TopPlayers
  <2>2. reply.tag \in {"err", "arr"}
    BY <2>1 DEF DoZQuery, Answer, Err, Arr
  <2>3. CASE reply.tag = "err"
    BY <1>1, <2>3, CredibleNone
  <2>4. CASE reply.tag = "arr"
    <3>1. ParseCount(reply) = 0
      BY <2>4 DEF ParseCount
    <3>2. Given(store, earned)
      BY ScoresAre DEF IInv
    <3>3. /\ Parsed(reply) \in Seq([name : Player, score : Nat])
          /\ \A i \in DOMAIN Parsed(reply) :
               Parsed(reply)[i].score <= earned[Parsed(reply)[i].name]
      BY <2>4, <3>2, TopAnswer DEF IInv, Reply
    <3>4. ParseCount(reply) \in Nat /\ ParseCount(reply) <= Counts
      BY <1>1, <3>1
    <3>5. Credible(reply, Counts, earned)
      <4> HIDE DEF reply
      <4> QED
        BY <3>3, <3>4, CredibleParts
    <3> QED
      BY <3>5
  <2> QED
    BY <2>2, <2>3, <2>4
<1> QED
  BY <1>2, <1>3

-----------------------------------------------------------------------------
(* Steps. *)

\* Counts and points never go down.
Grown == /\ played' \in Nat /\ joined' \in Nat /\ earned' \in [Player -> Nat]
         /\ crossed' \in BOOLEAN /\ (crossed => crossed')
         /\ played <= played' /\ joined <= joined'
         /\ \A n \in Player : earned[n] <= earned'[n]

LEMMA SumsGrow ==
  ASSUME NEW a \in Nat, NEW b \in Nat, NEW c \in Nat, NEW d \in Nat, a <= c, b <= d
  PROVE  /\ a + b + 1 \in Nat /\ c + d + 1 \in Nat /\ c + d + 1 >= 1
         /\ a + b + 1 <= c + d + 1 /\ a <= c + d + 1 /\ b <= c + d + 1
OBVIOUS

LEMMA MostGrows ==
  ASSUME Ghosts, Grown
  PROVE  /\ Counts' \in Nat /\ Counts' >= 1 /\ Counts <= Counts'
         /\ Most(played)' \in Nat /\ Most(joined)' \in Nat
         /\ Most(played) <= Most(played)' /\ Most(joined) <= Most(joined)'
         /\ crossed' => (Most(played)' = Counts' /\ Most(joined)' = Counts')
<1>1. /\ played \in Nat /\ joined \in Nat /\ played' \in Nat /\ joined' \in Nat
      /\ played <= played' /\ joined <= joined'
  BY DEF Ghosts, Grown
<1>2. /\ Most(played) = IF crossed THEN Counts ELSE played
      /\ Most(joined) = IF crossed THEN Counts ELSE joined
      /\ Most(played)' = IF crossed' THEN Counts' ELSE played'
      /\ Most(joined)' = IF crossed' THEN Counts' ELSE joined'
  BY DEF Most, Counts
<1>3. /\ Counts \in Nat /\ Counts' \in Nat /\ Counts' >= 1 /\ Counts <= Counts'
      /\ played <= Counts' /\ joined <= Counts'
  <2>1. Counts = played + joined + 1 /\ Counts' = played' + joined' + 1
    BY DEF Counts
  <2> QED
    BY <1>1, <2>1, SumsGrow
<1>4. CASE crossed'
  BY <1>1, <1>2, <1>3, <1>4
<1>5. CASE ~crossed'
  <2>1. ~crossed
    BY <1>5 DEF Grown
  <2> QED
    BY <1>1, <1>2, <1>3, <1>5, <2>1
<1> QED
  BY <1>4, <1>5

LEMMA PageMoves ==
  ASSUME IInv, Grown, NEW p \in Page, NEW at, page' = [page EXCEPT ![p] = at],
         Knows(at, Most(played)', Most(joined)', earned')
  PROVE  Pages'
<1>1. at \in PageState
  BY DEF Knows
<1>2. page' \in [Page -> PageState]
  BY <1>1 DEF IInv, Pages
<1>3. ASSUME NEW q \in Page
      PROVE  Knows(page'[q], Most(played)', Most(joined)', earned')
  <2>1. CASE q = p
    BY <2>1 DEF IInv, Pages
  <2>2. CASE q # p
    <3>1. page'[q] = page[q] /\ Knows(page[q], Most(played), Most(joined), earned)
      BY <2>2 DEF IInv, Pages
    <3>2. Knows(page[q], Most(played)', Most(joined)', earned')
      BY <3>1, KnowsMore, MostGrows, CountsNatural DEF IInv, Ghosts, Grown
    <3> QED
      BY <3>1, <3>2
  <2> QED
    BY <2>1, <2>2
<1> QED
  BY <1>2, <1>3 DEF Pages

(* The replies to come to one page change; the others wait for theirs.      *)
LEMMA LateMoves ==
  ASSUME IInv, Grown, NEW p \in Page, NEW R, NEW seq \in Seq(R),
         late' = [late EXCEPT ![p] = seq],
         timeouts' \in Nat, timeouts <= timeouts', Len(seq) <= timeouts',
         \A i \in DOMAIN seq : Credible(seq[i], Counts', earned')
  PROVE  Late'
<1>1. PICK S : late \in [Page -> Seq(S)]
  BY DEF IInv, Late
<1>2. late' \in [Page -> Seq(S \union R)]
  BY <1>1
<1>3. ASSUME NEW q \in Page
      PROVE  /\ Len(late'[q]) <= timeouts'
             /\ \A i \in DOMAIN late'[q] : Credible(late'[q][i], Counts', earned')
  <2>1. CASE q = p
    <3>1. late'[q] = seq
      BY <1>1, <2>1
    <3> QED
      BY <3>1
  <2>2. CASE q # p
    <3>1. late'[q] = late[q] /\ late[q] \in Seq(S)
      BY <1>1, <2>2
    <3>2. Len(late[q]) \in Nat /\ Len(late[q]) <= timeouts /\ timeouts \in Nat
      BY <3>1, NumbersAssumption DEF IInv, Late, Ghosts
    <3>3. Len(late[q]) <= timeouts'
      BY <3>2
    <3>4. ASSUME NEW i \in DOMAIN late[q]
          PROVE  Credible(late[q][i], Counts', earned')
      <4>1. Credible(late[q][i], Counts, earned)
        BY DEF IInv, Late
      <4> QED
        BY <4>1, CredibleMore, MostGrows, CountsNatural DEF IInv, Ghosts, Grown
    <3> QED
      BY <3>1, <3>3, <3>4
  <2> QED
    BY <2>1, <2>2
<1> QED
  BY <1>2, <1>3 DEF Late

LEMMA LateStays ==
  ASSUME IInv, Grown, late' = late, timeouts' = timeouts
  PROVE  Late'
<1>1. ASSUME NEW q \in Page, NEW i \in DOMAIN late[q]
      PROVE  Credible(late[q][i], Counts', earned')
  <2>1. Credible(late[q][i], Counts, earned)
    BY DEF IInv, Late
  <2> QED
    BY <2>1, CredibleMore, MostGrows, CountsNatural DEF IInv, Ghosts, Grown
<1> QED
  BY <1>1 DEF IInv, Late

(* The answer a command gets and the replies left to come. *)
LEMMA Answered ==
  ASSUME IInv, Grown, NEW p \in Page, NEW cmd, NEW answer \in Answers(p, cmd), NEW next,
         Ask(p, cmd, answer, next), Credible(Reply(cmd), Counts', earned')
  PROVE  /\ Late' /\ timeouts' \in 0 .. MaxTimeouts
         /\ Credible(answer.reply, Counts', earned')
         /\ crossed' \/ answer.reply = TimedOut \/ answer.reply = Reply(cmd)
<1> DEFINE all == Append(late[p], Reply(cmd))
<1>1. PICK S : late \in [Page -> Seq(S)]
  BY DEF IInv, Late
<1>2. /\ late[p] \in Seq(S) /\ Len(late[p]) \in Nat /\ Len(late[p]) <= timeouts
      /\ timeouts \in Nat
      /\ \A i \in DOMAIN late[p] : Credible(late[p][i], Counts, earned)
  BY <1>1, NumbersAssumption DEF IInv, Late, Ghosts
<1>3. /\ all \in Seq(S \union {Reply(cmd)}) /\ Len(all) = Len(late[p]) + 1
      /\ \A i \in 1 .. Len(late[p]) : all[i] = late[p][i]
      /\ all[Len(all)] = Reply(cmd)
  <2>1. late[p] \in Seq(S \union {Reply(cmd)})
    BY <1>2
  <2> QED
    BY <2>1, AppendProperties
<1>4. ASSUME NEW i \in DOMAIN all
      PROVE  Credible(all[i], Counts', earned')
  <2>1. i \in 1 .. Len(late[p]) + 1
    BY <1>3
  <2>2. CASE i = Len(late[p]) + 1
    BY <1>3, <2>2
  <2>3. CASE i \in 1 .. Len(late[p])
    <3>1. all[i] = late[p][i] /\ Credible(late[p][i], Counts, earned)
      BY <1>2, <1>3, <2>3
    <3>2. Credible(late[p][i], Counts', earned')
      BY <3>1, CredibleMore, MostGrows, CountsNatural DEF IInv, Ghosts, Grown
    <3> QED
      BY <3>1, <3>2
  <2> QED
    BY <1>2, <2>1, <2>2, <2>3
<1>5. /\ late' = [late EXCEPT ![p] = answer.late]
      /\ timeouts' = answer.timeouts /\ timeouts' <= MaxTimeouts
      /\ crossed' = (crossed \/ late[p] # <<>>)
  BY DEF Ask
<1>6. \/ answer = [reply |-> Head(all), late |-> Tail(all), timeouts |-> timeouts]
      \/ answer = [reply |-> TimedOut, late |-> all, timeouts |-> timeouts + 1]
  BY DEF Answers
<1> HIDE DEF all
<1>7. CASE answer = [reply |-> Head(all), late |-> Tail(all), timeouts |-> timeouts]
  <2>1. all # <<>> /\ DOMAIN all = 1 .. Len(all) /\ 1 \in DOMAIN all
    BY <1>2, <1>3
  <2>2. /\ Head(all) = all[1] /\ Tail(all) \in Seq(S \union {Reply(cmd)})
        /\ Len(Tail(all)) = Len(late[p])
        /\ \A i \in 1 .. Len(Tail(all)) : Tail(all)[i] = all[i + 1]
    BY <1>2, <1>3, <2>1, HeadTailProperties
  <2>3. ASSUME NEW i \in DOMAIN Tail(all)
        PROVE  Credible(Tail(all)[i], Counts', earned')
    <3>1. i \in 1 .. Len(Tail(all)) /\ i + 1 \in DOMAIN all
      BY <1>2, <1>3, <2>1, <2>2
    <3> QED
      BY <1>4, <2>2, <3>1
  <2>4. Late'
    <3>1. late' = [late EXCEPT ![p] = Tail(all)] /\ timeouts' = timeouts
      BY <1>5, <1>7
    <3>2. timeouts' \in Nat /\ timeouts <= timeouts' /\ Len(Tail(all)) <= timeouts'
      BY <1>2, <2>2, <3>1
    <3>3. Tail(all) \in Seq(S \union {Reply(cmd)})
      BY <2>2
    <3> DEFINE rest == Tail(all)
               R    == S \union {Reply(cmd)}
    <3>4. /\ rest \in Seq(R) /\ late' = [late EXCEPT ![p] = rest] /\ Len(rest) <= timeouts'
          /\ \A i \in DOMAIN rest : Credible(rest[i], Counts', earned')
      BY <2>3, <3>1, <3>2, <3>3
    <3> HIDE DEF rest, R
    <3> QED
      BY <3>2, <3>4, LateMoves
  <2>5. Credible(answer.reply, Counts', earned')
    BY <1>4, <1>7, <2>1, <2>2
  <2>6. crossed' \/ answer.reply = Reply(cmd)
    <3>1. CASE late[p] = <<>>
      <4>1. Len(all) = 1
        BY <1>3, <3>1
      <4> QED
        BY <1>3, <1>7, <2>2, <4>1
    <3> QED
      BY <1>5, <3>1
  <2> QED
    BY <1>2, <1>5, <1>7, <2>4, <2>5, <2>6
<1>8. CASE answer = [reply |-> TimedOut, late |-> all, timeouts |-> timeouts + 1]
  <2>1. /\ late' = [late EXCEPT ![p] = all] /\ timeouts' = timeouts + 1
        /\ answer.reply = TimedOut
    BY <1>5, <1>8
  <2>2. Late'
    <3>1. timeouts' \in Nat /\ timeouts <= timeouts' /\ Len(all) <= timeouts'
      BY <1>2, <1>3, <2>1
    <3> QED
      BY <1>3, <1>4, <2>1, <3>1, LateMoves
  <2>3. Credible(TimedOut, Counts', earned')
    <3>1. TimedOut.tag = "err"
      BY DEF TimedOut, Err
    <3>2. Counts' \in Nat
      BY MostGrows DEF IInv
    <3> QED
      BY <3>1, <3>2, CredibleNone
  <2>4. timeouts' \in 0 .. MaxTimeouts
    BY <1>2, <1>5, <2>1, NumbersAssumption
  <2> QED
    BY <2>1, <2>2, <2>3, <2>4
<1> QED
  BY <1>6, <1>7, <1>8

(* A command of a page: whether it goes on or ends its procedure. *)
LEMMA Asked ==
  ASSUME IInv, Grown, NEW p \in Page, NEW cmd, NEW answer \in Answers(p, cmd), NEW next,
         Ask(p, cmd, answer, next), runs' = runs,
         Data(store'), NeverOvercounted', ScoresEarned',
         Credible(Reply(cmd), Counts', earned'),
         answer.reply.tag # "err" => Knows(next, Most(played)', Most(joined)', earned')
  PROVE  IInv'
<1>1. Late' /\ timeouts' \in 0 .. MaxTimeouts
  BY Answered
<1>2. Pages'
  <2>1. Knows(Local("idle"), Most(played)', Most(joined)', earned')
    BY KnowsNothing DEF Quiet, Label
  <2>2. page' = [page EXCEPT ![p] = IF answer.reply.tag = "err" THEN Local("idle") ELSE next]
    BY DEF Ask
  <2> QED
    BY <2>1, <2>2, PageMoves
<1>3. Ghosts'
  BY <1>1 DEF Grown, IInv, Ghosts
<1> QED
  BY <1>1, <1>2, <1>3 DEF IInv

LEMMA Sent ==
  ASSUME IInv, Grown, NEW p \in Page, NEW label, NEW cmd, NEW next,
         Send(p, label, cmd, next),
         Data(store'), NeverOvercounted', ScoresEarned',
         Credible(Reply(cmd), Counts', earned'),
         Knows(next, Most(played)', Most(joined)', earned')
  PROVE  IInv'
BY Asked DEF Send

(* crossed is set and never reset. *)
LEMMA AskCrosses ==
  ASSUME IInv, NEW p \in Page, NEW cmd, NEW answer, NEW next, Ask(p, cmd, answer, next)
  PROVE  crossed' \in BOOLEAN /\ (crossed => crossed') /\ Execute(cmd)
BY DEF Ask, IInv, Ghosts

(* The store after a command that counts nothing and gives no points. *)
LEMMA PlainStore ==
  ASSUME IInv, NEW cmd, Plain(cmd), Execute(cmd), UNCHANGED ghosts,
         crossed' \in BOOLEAN, crossed => crossed'
  PROVE  Data(store') /\ NeverOvercounted' /\ ScoresEarned' /\ Grown
<1>1. /\ Data(store')
      /\ \A key : CountIn(store', key) <= CountIn(store, key)
      /\ Given(store, earned) => Given(store', earned)
  BY PlainCommand DEF Execute, IInv
<1>2. Grown
  BY DEF Grown, ghosts, IInv, Ghosts
<1>3. NeverOvercounted'
  <2>1. /\ CountIn(store, games) \in Nat /\ CountIn(store, players) \in Nat
        /\ CountIn(store', games) \in Nat /\ CountIn(store', players) \in Nat
    BY <1>1, CountIsNatural DEF IInv
  <2>2. CountIn(store, games) <= Most(played) /\ CountIn(store, players) <= Most(joined)
    BY CountsAre DEF IInv
  <2>3. /\ Most(played) <= Most(played)' /\ Most(joined) <= Most(joined)'
        /\ Most(played) \in Nat /\ Most(joined) \in Nat
        /\ Most(played)' \in Nat /\ Most(joined)' \in Nat
    BY <1>2, MostGrows, CountsNatural DEF IInv
  <2>4. /\ CountIn(store', games) <= CountIn(store, games)
        /\ CountIn(store', players) <= CountIn(store, players)
    BY <1>1
  <2>5. CountIn(store', games) <= Most(played)' /\ CountIn(store', players) <= Most(joined)'
    BY <2>1, <2>2, <2>3, <2>4
  <2> QED
    BY <2>5, CountsAre
<1>4. ScoresEarned'
  BY <1>1, ScoresAre DEF ghosts, IInv
<1> QED
  BY <1>1, <1>2, <1>3, <1>4

(* A page's command that counts nothing and gives no points. *)
LEMMA AskedPlain ==
  ASSUME IInv, NEW p \in Page, NEW cmd, NEW answer \in Answers(p, cmd), NEW next, Plain(cmd),
         Ask(p, cmd, answer, next), runs' = runs, UNCHANGED ghosts,
         Credible(Reply(cmd), Counts, earned),
         /\ answer.reply.tag # "err"
         /\ Credible(answer.reply, Counts', earned')
         /\ crossed' \/ answer.reply = Reply(cmd)
         => Knows(next, Most(played)', Most(joined)', earned')
  PROVE  IInv'
<1>1. Data(store') /\ NeverOvercounted' /\ ScoresEarned' /\ Grown
  BY PlainStore, AskCrosses
<1>2. Credible(Reply(cmd), Counts', earned')
  <2>1. Counts' = Counts /\ earned' = earned
    BY DEF ghosts, Counts
  <2> QED
    BY <2>1
<1>3. /\ Credible(answer.reply, Counts', earned')
      /\ crossed' \/ answer.reply = TimedOut \/ answer.reply = Reply(cmd)
  BY <1>1, <1>2, Answered
<1>4. TimedOut.tag = "err"
  BY DEF TimedOut, Err
<1> QED
  BY <1>1, <1>2, <1>3, <1>4, Asked

LEMMA SentPlain ==
  ASSUME IInv, NEW p \in Page, NEW label, NEW cmd, NEW next, Plain(cmd),
         Send(p, label, cmd, next), UNCHANGED ghosts,
         Credible(Reply(cmd), Counts, earned),
         Knows(next, Most(played), Most(joined), earned)
  PROVE  IInv'
<1>1. PICK answer \in Answers(p, cmd) : Ask(p, cmd, answer, next) /\ runs' = runs
  BY DEF Send
<1>2. Grown
  BY <1>1, PlainStore, AskCrosses
<1>3. Knows(next, Most(played)', Most(joined)', earned')
  BY <1>2, KnowsMore, MostGrows, CountsNatural DEF IInv, Ghosts, Grown
<1> QED
  BY <1>1, <1>3, AskedPlain

(* Reads, and 0 written to a counter. *)
LEMMA PlainCommands ==
  ASSUME NEW key, NEW limit
  PROVE  /\ Plain(TopPlayers(limit)) /\ Plain(<<"GET", key>>)
         /\ Plain(<<"SET", key, 0>>)
BY DEF Plain, TopPlayers, Is

LEMMA InitHolds == Init => IInv
<1> SUFFICES ASSUME Init PROVE IInv
  OBVIOUS
<1>1. DOMAIN store = {}
  BY DEF Init
<1>2. Ghosts
  <2>1. crossed \in BOOLEAN
    BY DEF Init
  <2> QED
    BY <2>1, NumbersAssumption DEF Init, Ghosts
<1>3. Data(store) /\ NeverOvercounted /\ ScoresEarned
  <2>1. Data(store) /\ ScoresEarned
    BY <1>1 DEF Data, ScoresEarned, OfType, Has, Members, NoMembers
  <2>2. CountIn(store, games) = 0 /\ CountIn(store, players) = 0
    BY <1>1 DEF CountIn, Has
  <2>3. Most(played) \in Nat /\ Most(joined) \in Nat
    BY <1>2, CountsNatural
  <2> QED
    BY <2>1, <2>2, <2>3, CountsAre
<1>4. Pages
  <2>1. \A p \in Page : Knows(page[p], Most(played), Most(joined), earned)
    BY KnowsNothing DEF Init, Quiet, Label
  <2> QED
    BY <2>1 DEF Init, Pages, Knows
<1>5. Late
  <2>1. late \in [Page -> Seq({})]
    BY DEF Init
  <2>2. \A p \in Page : Len(late[p]) = 0 /\ DOMAIN late[p] = {}
    BY DEF Init
  <2> QED
    BY <1>2, <2>1, <2>2 DEF Late, Ghosts
<1> QED
  BY <1>2, <1>3, <1>4, <1>5 DEF IInv

(* Steps that send nothing. *)
LEMMA OthersKeep ==
  ASSUME IInv, NEW p \in Page, Open(p) \/ Close(p) \/ Button(p) \/ Arrive(p)
  PROVE  IInv'
<1>1. \/ page' = page
      \/ \E label \in Quiet : page' = [page EXCEPT ![p] = Local(label)]
  BY DEF Open, Close, Button, Press, Arrive, Quiet, Label
<1>2. /\ store' = store /\ played' = played /\ joined' = joined /\ earned' = earned
      /\ crossed' = crossed /\ timeouts' = timeouts
  BY DEF Open, Close, Button, Press, Arrive, ghosts
<1>3. runs' \in 0 .. MaxRuns
  BY NumbersAssumption DEF Open, Close, Button, Press, Arrive, IInv, Ghosts
<1>4. Grown /\ Ghosts'
  BY <1>2, <1>3 DEF Grown, IInv, Ghosts
<1>5. Most(played)' = Most(played) /\ Most(joined)' = Most(joined)
  BY <1>2 DEF Most
<1>6. Pages'
  <2>1. CASE page' = page
    BY <1>2, <1>5, <2>1 DEF IInv, Pages
  <2>2. ASSUME NEW label \in Quiet, page' = [page EXCEPT ![p] = Local(label)]
        PROVE  Pages'
    <3>1. Knows(Local(label), Most(played)', Most(joined)', earned')
      BY KnowsNothing
    <3> QED
      BY <1>4, <2>2, <3>1, PageMoves
  <2> QED
    BY <1>1, <2>1, <2>2
<1>7. Late'
  <2>0. timeouts \in Nat /\ timeouts' \in Nat /\ timeouts <= timeouts'
    BY <1>2, NumbersAssumption DEF IInv, Ghosts
  <2>1. CASE Open(p) \/ Button(p)
    <3>1. late' = late
      BY <2>1 DEF Open, Button, Press
    <3> QED
      BY <1>2, <1>4, <3>1, LateStays
  <2>2. CASE Close(p)
    <3> DEFINE seq == <<>>
    <3>1. /\ seq \in Seq({}) /\ late' = [late EXCEPT ![p] = seq] /\ Len(seq) = 0
          /\ DOMAIN seq = {}
      BY <2>2 DEF Close
    <3>2. Len(seq) <= timeouts'
      BY <1>2, <2>0, <3>1
    <3> HIDE DEF seq
    <3> QED
      BY <1>2, <1>4, <2>0, <3>1, <3>2, LateMoves
  <2>3. CASE Arrive(p)
    <3> DEFINE seq == Tail(late[p])
    <3>1. PICK S : late \in [Page -> Seq(S)]
      BY DEF IInv, Late
    <3>2. /\ late[p] \in Seq(S) /\ late[p] # <<>> /\ Len(late[p]) <= timeouts
          /\ \A i \in DOMAIN late[p] : Credible(late[p][i], Counts, earned)
      BY <2>3, <3>1 DEF Arrive, IInv, Late
    <3>3. /\ seq \in Seq(S) /\ Len(seq) = Len(late[p]) - 1 /\ Len(late[p]) \in Nat
          /\ \A i \in 1 .. Len(seq) : seq[i] = late[p][i + 1]
      BY <3>2, HeadTailProperties
    <3>4. Counts' = Counts /\ earned' = earned
      BY <1>2 DEF Counts
    <3>5. late' = [late EXCEPT ![p] = seq]
      BY <2>3 DEF Arrive
    <3> HIDE DEF seq
    <3>6. ASSUME NEW i \in DOMAIN seq
          PROVE  Credible(seq[i], Counts', earned')
      <4>1. i \in 1 .. Len(seq) /\ Len(seq) \in Nat
        BY <3>3
      <4>2. i + 1 \in DOMAIN late[p]
        BY <3>2, <3>3, <4>1
      <4> QED
        BY <3>2, <3>3, <3>4, <4>1, <4>2
    <3>7. Len(seq) <= timeouts'
      BY <1>2, <2>0, <3>2, <3>3
    <3> QED
      BY <1>2, <1>4, <2>0, <3>3, <3>5, <3>6, <3>7, LateMoves
  <2> QED
    BY <2>1, <2>2, <2>3
<1>8. Data(store') /\ ScoresEarned' /\ NeverOvercounted'
  <2>1. Data(store') /\ ScoresEarned'
    BY <1>2, ScoresAre DEF IInv
  <2>2. NeverOvercounted'
    BY <1>2, <1>5, CountsAre DEF IInv
  <2> QED
    BY <2>1, <2>2
<1> QED
  BY <1>4, <1>6, <1>7, <1>8 DEF IInv

(* initializeDatabase, resetLeaderboard and loadLeaderboard. *)
LEMMA SetupKeeps ==
  ASSUME IInv, NEW p \in Page,
         \/ InitPlayers(p) \/ InitGames(p) \/ LoadPlayers(p) \/ LoadGames(p)
         \/ ResetPlayers(p) \/ ResetGames(p)
  PROVE  IInv'
<1>1. \A label \in Quiet : /\ Knows(Local(label), Most(played), Most(joined), earned)
                           /\ Knows(GoTo(p, label), Most(played), Most(joined), earned)
  BY KnowsNothing, KnowsOn DEF IInv
<1>2. {"initGames", "load", "loadGames", "idle", "resetGames", "cleared"} \subseteq Quiet
  BY DEF Quiet, Label
<1>3. Counts \in Nat
  BY CountsNatural DEF IInv
<1>4. ASSUME NEW label, NEW key \in {games, players}, NEW next,
             Knows(next, Most(played), Most(joined), earned), UNCHANGED ghosts,
             \/ Send(p, label, <<"SET", key, 0>>, next)
             \/ Send(p, label, <<"GET", key>>, next)
      PROVE  IInv'
  <2>1. /\ Credible(Reply(<<"SET", key, 0>>), Counts, earned)
        /\ Credible(Reply(<<"GET", key>>), Counts, earned)
    BY <1>3, WriteAnswers, ReadAnswers
  <2> QED
    BY <1>4, <2>1, SentPlain, PlainCommands
<1>5. CASE InitPlayers(p)
  BY <1>1, <1>2, <1>4, <1>5 DEF InitPlayers
<1>6. CASE InitGames(p)
  BY <1>1, <1>2, <1>4, <1>6 DEF InitGames
<1>7. CASE LoadPlayers(p)
  BY <1>1, <1>2, <1>4, <1>7 DEF LoadPlayers
<1>8. CASE LoadGames(p)
  BY <1>1, <1>2, <1>4, <1>8 DEF LoadGames
<1>9. CASE ResetPlayers(p)
  BY <1>1, <1>2, <1>4, <1>9 DEF ResetPlayers
<1>10. CASE ResetGames(p)
  BY <1>1, <1>2, <1>4, <1>10 DEF ResetGames
<1> QED
  BY <1>5, <1>6, <1>7, <1>8, <1>9, <1>10

(* The list a page makes of the answer to a query of the board. *)
LEMMA ListRead ==
  ASSUME NEW reply, NEW count, Credible(reply, count, earned')
  PROVE  LET list == Parsed(reply)
         IN /\ list \in Seq([name : Player, score : Nat])
            /\ \A i \in DOMAIN list : list[i].score <= earned'[list[i].name]
BY DEF Credible

LEMMA ResetKeeps ==
  ASSUME IInv, NEW p \in Page, Reset(p)
  PROVE  IInv'
<1> DEFINE cmd     == TopPlayers(ResetLimit)
           next(r) == [Local("resetPlayers") EXCEPT !.list = Parsed(r)]
<1>1. PICK answer \in Answers(p, cmd) :
        Ask(p, cmd, answer, next(answer.reply)) /\ runs' = runs /\ UNCHANGED ghosts
  BY DEF Reset
<1>2. ASSUME Credible(answer.reply, Counts', earned')
      PROVE  Knows(next(answer.reply), Most(played)', Most(joined)', earned')
  BY <1>2, ListRead, KnowsList
<1>3. Plain(cmd) /\ Credible(Reply(cmd), Counts, earned)
  BY PlainCommands, ReadAnswers, NumbersAssumption
<1> HIDE DEF cmd, next
<1> QED
  BY <1>1, <1>2, <1>3, AskedPlain

LEMMA SimulateKeeps ==
  ASSUME IInv, NEW p \in Page, Simulate(p)
  PROVE  IInv'
<1> DEFINE cmd  == TopPlayers(QueryLimit)
           most(count, list) == IF count < Len(list) THEN count ELSE Len(list)
           next(list, left) == IF list = <<>> THEN Local("idle")
                               ELSE [Local("award") EXCEPT !.list = list, !.left = left]
<1>1. PICK answer \in Answers(p, cmd), count \in 1 .. 3 :
        LET list == Parsed(answer.reply)
        IN /\ Ask(p, cmd, answer, next(list, most(count, list)))
           /\ runs' = runs /\ UNCHANGED ghosts
  BY DEF Simulate
<1> DEFINE list == Parsed(answer.reply)
           left == most(count, list)
<1>2. ASSUME Credible(answer.reply, Counts', earned')
      PROVE  Knows(next(list, left), Most(played)', Most(joined)', earned')
  <2>1. /\ list \in Seq([name : Player, score : Nat])
        /\ \A i \in DOMAIN list : list[i].score <= earned'[list[i].name]
    BY <1>2, ListRead
  <2> HIDE DEF list
  <2>2. CASE list = <<>>
    BY <2>2, KnowsNothing DEF Quiet, Label
  <2>3. CASE list # <<>>
    <3>0. Len(list) \in Nat \ {0}
      BY <2>1, <2>3
    <3>1. left \in 1 .. 3
      <4>1. \A n \in Nat \ {0} : (IF count < n THEN count ELSE n) \in 1 .. 3
        OBVIOUS
      <4> QED
        BY <3>0, <4>1
    <3> HIDE DEF left
    <3>2. Knows([Local("award") EXCEPT !.list = list, !.left = left],
                Most(played)', Most(joined)', earned')
      BY <2>1, <3>1, KnowsList
    <3> QED
      BY <2>3, <3>2
  <2> QED
    BY <2>2, <2>3
<1>3. Plain(cmd) /\ Credible(Reply(cmd), Counts, earned)
  BY PlainCommands, ReadAnswers, NumbersAssumption
<1>4. Ask(p, cmd, answer, next(list, left)) /\ runs' = runs /\ UNCHANGED ghosts
  BY <1>1
<1> HIDE DEF cmd, next, left, list
<1> QED
  BY <1>2, <1>3, <1>4, AskedPlain

LEMMA LoadKeeps ==
  ASSUME IInv, NEW p \in Page, Load(p)
  PROVE  IInv'
<1> DEFINE cmd == TopPlayers(QueryLimit)
<1>1. Plain(cmd) /\ Credible(Reply(cmd), Counts, earned)
  BY PlainCommands, ReadAnswers, NumbersAssumption
<1>2. PICK answer \in Answers(p, cmd) :
        Ask(p, cmd, answer, Local("loadPlayers")) /\ runs' = runs /\ UNCHANGED ghosts
  BY DEF Load
<1>3. Knows(Local("loadPlayers"), Most(played)', Most(joined)', earned')
  BY KnowsNothing DEF Quiet, Label
<1> HIDE DEF cmd
<1> QED
  BY <1>1, <1>2, <1>3, AskedPlain

LEMMA UserKeeps ==
  ASSUME IInv, User
  PROVE  IInv'
<1>1. PICK cmd \in UserCommand :
        Execute(cmd) /\ UNCHANGED <<page, late, shown, runs, timeouts, ghosts, crossed>>
  BY DEF User
<1>2. Plain(cmd)
  BY UserAssumption DEF Plain
<1>3. crossed' \in BOOLEAN /\ (crossed => crossed')
  BY <1>1 DEF IInv, Ghosts
<1>4. Data(store') /\ NeverOvercounted' /\ ScoresEarned' /\ Grown
  BY <1>1, <1>2, <1>3, PlainStore
<1>5. Ghosts' /\ Late'
  BY <1>1, <1>4, LateStays DEF ghosts, IInv, Ghosts
<1>6. Pages'
  <2>1. Most(played)' = Most(played) /\ Most(joined)' = Most(joined) /\ earned' = earned
    BY <1>1 DEF ghosts, Most
  <2> QED
    BY <1>1, <2>1 DEF IInv, Pages
<1> QED
  BY <1>4, <1>5, <1>6 DEF IInv

(* A counter read before it is written: what it says, or, after a reply     *)
(* came late, any count a page could have read.                             *)
LEMMA GetKeeps ==
  ASSUME IInv, NEW p \in Page, GetGames(p) \/ GetPlayers(p)
  PROVE  IInv'
<1>1. ASSUME NEW from, NEW key, NEW to \in {"setGames", "setPlayers"},
             to = "setGames" => key = games, to = "setPlayers" => key = players,
             GetCount(p, from, key, to)
      PROVE  IInv'
  <2> DEFINE cmd  == <<"GET", key>>
             next(r) == [Local(to) EXCEPT !.count = ParseCount(r)]
  <2>1. PICK answer \in Answers(p, cmd) :
          Ask(p, cmd, answer, next(answer.reply)) /\ runs' = runs /\ UNCHANGED ghosts
    BY <1>1 DEF GetCount
  <2>2. key \in {games, players}
    BY <1>1
  <2>3. Plain(cmd) /\ Credible(Reply(cmd), Counts, earned)
    BY <2>2, PlainCommands, ReadAnswers
  <2>4. Grown
    BY <2>1, <2>3, PlainStore, AskCrosses
  <2>5. ASSUME answer.reply.tag # "err", Credible(answer.reply, Counts', earned'),
               crossed' \/ answer.reply = Reply(cmd)
        PROVE  Knows(next(answer.reply), Most(played)', Most(joined)', earned')
    <3> DEFINE count == ParseCount(answer.reply)
    <3>1. count \in Nat /\ count <= Counts'
      BY <2>5 DEF Credible
    <3>2. CASE crossed'
      <4>1. Most(played)' = Counts' /\ Most(joined)' = Counts'
        BY <2>4, <3>2, MostGrows DEF IInv
      <4> HIDE DEF count
      <4>2. count <= Most(played)' /\ count <= Most(joined)'
        BY <3>1, <4>1
      <4> QED
        BY <3>1, <4>2, KnowsCount DEF count
    <3>3. CASE ~crossed'
      <4>1. /\ count = CountIn(store, key)
        BY <2>5, <3>3, CountRead DEF IInv, Reply
      <4>2. CountIn(store, games) <= Most(played) /\ CountIn(store, players) <= Most(joined)
        BY CountsAre DEF IInv
      <4>3. /\ Most(played) <= Most(played)' /\ Most(joined) <= Most(joined)'
            /\ Most(played) \in Nat /\ Most(joined) \in Nat
            /\ Most(played)' \in Nat /\ Most(joined)' \in Nat
        BY <2>4, MostGrows, CountsNatural DEF IInv
      <4> HIDE DEF count
      <4>4. /\ to = "setGames" => count <= Most(played)'
            /\ to = "setPlayers" => count <= Most(joined)'
        BY <1>1, <3>1, <4>1, <4>2, <4>3
      <4> QED
        BY <3>1, <4>4, KnowsCount DEF count
    <3> QED
      BY <3>2, <3>3
  <2> HIDE DEF cmd, next
  <2> QED
    BY <2>1, <2>3, <2>5, AskedPlain
<1>2. CASE GetGames(p)
  BY <1>1, <1>2 DEF GetGames
<1>3. CASE GetPlayers(p)
  BY <1>1, <1>3 DEF GetPlayers
<1> QED
  BY <1>2, <1>3

LEMMA OneMoreSum ==
  ASSUME NEW a \in Nat, NEW b \in Nat, NEW c \in Nat
  PROVE  /\ c <= a + b + 1 => c + 1 <= (a + 1) + b + 1 /\ c + 1 <= a + (b + 1) + 1
         /\ c <= a => c + 1 <= (a + 1) + b + 1
         /\ c <= b => c + 1 <= a + (b + 1) + 1
OBVIOUS

(* One more than was known, and one more counted. *)
LEMMA OneMore ==
  ASSUME IInv, Grown, NEW count \in Nat
  PROVE  /\ played' = played + 1 /\ joined' = joined /\ count <= Most(played)
              => count + 1 <= Most(played)'
         /\ joined' = joined + 1 /\ played' = played /\ count <= Most(joined)
              => count + 1 <= Most(joined)'
<1>1. /\ played \in Nat /\ joined \in Nat /\ played' \in Nat /\ joined' \in Nat
      /\ crossed => crossed'
  BY DEF IInv, Ghosts, Grown
<1>2. /\ Most(played) = IF crossed THEN played + joined + 1 ELSE played
      /\ Most(joined) = IF crossed THEN played + joined + 1 ELSE joined
      /\ Most(played)' = IF crossed' THEN played' + joined' + 1 ELSE played'
      /\ Most(joined)' = IF crossed' THEN played' + joined' + 1 ELSE joined'
  BY DEF Most
<1>3. CASE crossed /\ crossed'
  <2>1. /\ Most(played) = played + joined + 1 /\ Most(joined) = played + joined + 1
        /\ Most(played)' = played' + joined' + 1 /\ Most(joined)' = played' + joined' + 1
    BY <1>2, <1>3
  <2> QED
    BY <1>1, <2>1, OneMoreSum
<1>4. CASE ~crossed /\ crossed'
  <2>1. /\ Most(played) = played /\ Most(joined) = joined
        /\ Most(played)' = played' + joined' + 1 /\ Most(joined)' = played' + joined' + 1
    BY <1>2, <1>4
  <2> QED
    BY <1>1, <2>1, OneMoreSum
<1>5. CASE ~crossed /\ ~crossed'
  BY <1>1, <1>2, <1>5
<1> QED
  BY <1>1, <1>3, <1>4, <1>5

(* Counts written back: one more than was known, when it is not refused.    *)
LEMMA SetGamesKeeps ==
  ASSUME IInv, NEW p \in Page, SetGames(p)
  PROVE  IInv'
<1> DEFINE count == page[p].count + 1
           cmd   == <<"SET", games, count>>
<1>1. /\ Send(p, "setGames", cmd, Local("load"))
      /\ played' = played + Ran(cmd) /\ joined' = joined /\ earned' = earned
  BY DEF SetGames, Incremented
<1>2. Execute(cmd) /\ crossed' \in BOOLEAN /\ (crossed => crossed')
  BY <1>1, AskCrosses DEF Send
<1>3. page[p].count \in Nat /\ page[p].count <= Most(played)
  BY <1>1 DEF Send, IInv, Pages, Knows, PageState
<1>4. count \in Nat
  BY <1>3
<1> HIDE DEF count
<1>5. /\ Data(store')
      /\ CountIn(store', players) = CountIn(store, players)
      /\ IF Reply(cmd).tag = "err" THEN store' = store ELSE CountIn(store', games) <= count
      /\ Given(store, earned) => Given(store', earned)
  <2>1. games # board /\ players # games
    BY DEF games, board, players
  <2> QED
    BY <1>2, <1>4, <2>1, CountWritten DEF Execute, Reply, IInv
<1>6. Ran(cmd) = IF Reply(cmd).tag = "err" THEN 0 ELSE 1
  BY DEF Ran
<1>7. Grown
  <2> HIDE DEF cmd
  <2>1. played \in Nat /\ Ran(cmd) \in {0, 1}
    BY <1>6 DEF IInv, Ghosts
  <2>2. played' \in Nat /\ played <= played'
    BY <1>1, <2>1
  <2> QED
    BY <1>1, <1>2, <2>2 DEF Grown, IInv, Ghosts
<1>8. Credible(Reply(cmd), Counts', earned')
  BY <1>7, WriteAnswers, MostGrows DEF IInv
<1> HIDE DEF cmd
<1>9. NeverOvercounted'
  <2>1. CountIn(store, games) <= Most(played) /\ CountIn(store, players) <= Most(joined)
    BY CountsAre DEF IInv
  <2>2. /\ CountIn(store', games) \in Nat /\ CountIn(store', players) \in Nat
        /\ CountIn(store, games) \in Nat
    BY <1>5, CountIsNatural DEF IInv
  <2>3. /\ Most(played) <= Most(played)' /\ Most(joined) <= Most(joined)'
        /\ Most(played) \in Nat /\ Most(joined) \in Nat
        /\ Most(played)' \in Nat /\ Most(joined)' \in Nat
    BY <1>7, MostGrows, CountsNatural DEF IInv
  <2>4. CountIn(store', players) <= Most(joined)'
    BY <1>5, <2>1, <2>2, <2>3
  <2>5. CountIn(store', games) <= Most(played)'
    <3>1. CASE Reply(cmd).tag = "err"
      <4>1. CountIn(store', games) = CountIn(store, games)
        BY <1>5, <3>1
      <4> QED
        BY <2>1, <2>2, <2>3, <4>1
    <3>2. CASE Reply(cmd).tag # "err"
      <4>1. played' = played + 1 /\ CountIn(store', games) <= count
        BY <1>1, <1>5, <1>6, <3>2
      <4>2. count <= Most(played)'
        BY <1>1, <1>3, <1>7, <4>1, OneMore DEF count
      <4> QED
        BY <1>4, <2>2, <2>3, <4>1, <4>2
    <3> QED
      BY <3>1, <3>2
  <2> QED
    BY <2>4, <2>5, CountsAre
<1>10. ScoresEarned'
  BY <1>1, <1>5, ScoresAre DEF IInv
<1>11. Knows(Local("load"), Most(played)', Most(joined)', earned')
  BY KnowsNothing DEF Quiet, Label
<1> QED
  BY <1>1, <1>5, <1>7, <1>8, <1>9, <1>10, <1>11, Sent

LEMMA SetPlayersKeeps ==
  ASSUME IInv, NEW p \in Page, SetPlayers(p)
  PROVE  IInv'
<1> DEFINE count == page[p].count + 1
           cmd   == <<"SET", players, count>>
<1>1. /\ Send(p, "setPlayers", cmd, Local("load"))
      /\ joined' = joined + Ran(cmd) /\ played' = played /\ earned' = earned
  BY DEF SetPlayers, Incremented
<1>2. Execute(cmd) /\ crossed' \in BOOLEAN /\ (crossed => crossed')
  BY <1>1, AskCrosses DEF Send
<1>3. page[p].count \in Nat /\ page[p].count <= Most(joined)
  BY <1>1 DEF Send, IInv, Pages, Knows, PageState
<1>4. count \in Nat
  BY <1>3
<1> HIDE DEF count
<1>5. /\ Data(store')
      /\ CountIn(store', games) = CountIn(store, games)
      /\ IF Reply(cmd).tag = "err" THEN store' = store ELSE CountIn(store', players) <= count
      /\ Given(store, earned) => Given(store', earned)
  <2>1. players # board /\ games # players
    BY DEF players, board, games
  <2> QED
    BY <1>2, <1>4, <2>1, CountWritten DEF Execute, Reply, IInv
<1>6. Ran(cmd) = IF Reply(cmd).tag = "err" THEN 0 ELSE 1
  BY DEF Ran
<1>7. Grown
  <2> HIDE DEF cmd
  <2>1. joined \in Nat /\ Ran(cmd) \in {0, 1}
    BY <1>6 DEF IInv, Ghosts
  <2>2. joined' \in Nat /\ joined <= joined'
    BY <1>1, <2>1
  <2> QED
    BY <1>1, <1>2, <2>2 DEF Grown, IInv, Ghosts
<1>8. Credible(Reply(cmd), Counts', earned')
  BY <1>7, WriteAnswers, MostGrows DEF IInv
<1> HIDE DEF cmd
<1>9. NeverOvercounted'
  <2>1. CountIn(store, players) <= Most(joined) /\ CountIn(store, games) <= Most(played)
    BY CountsAre DEF IInv
  <2>2. /\ CountIn(store', players) \in Nat /\ CountIn(store', games) \in Nat
        /\ CountIn(store, players) \in Nat
    BY <1>5, CountIsNatural DEF IInv
  <2>3. /\ Most(joined) <= Most(joined)' /\ Most(played) <= Most(played)'
        /\ Most(joined) \in Nat /\ Most(played) \in Nat
        /\ Most(joined)' \in Nat /\ Most(played)' \in Nat
    BY <1>7, MostGrows, CountsNatural DEF IInv
  <2>4. CountIn(store', games) <= Most(played)'
    BY <1>5, <2>1, <2>2, <2>3
  <2>5. CountIn(store', players) <= Most(joined)'
    <3>1. CASE Reply(cmd).tag = "err"
      <4>1. CountIn(store', players) = CountIn(store, players)
        BY <1>5, <3>1
      <4> QED
        BY <2>1, <2>2, <2>3, <4>1
    <3>2. CASE Reply(cmd).tag # "err"
      <4>1. joined' = joined + 1 /\ CountIn(store', players) <= count
        BY <1>1, <1>5, <1>6, <3>2
      <4>2. count <= Most(joined)'
        BY <1>1, <1>3, <1>7, <4>1, OneMore DEF count
      <4> QED
        BY <1>4, <2>2, <2>3, <4>1, <4>2
    <3> QED
      BY <3>1, <3>2
  <2> QED
    BY <2>4, <2>5, CountsAre
<1>10. ScoresEarned'
  BY <1>1, <1>5, ScoresAre DEF IInv
<1>11. Knows(Local("load"), Most(played)', Most(joined)', earned')
  BY KnowsNothing DEF Quiet, Label
<1> QED
  BY <1>1, <1>5, <1>7, <1>8, <1>9, <1>10, <1>11, Sent

(* Points given: the score written is at most what the player was given,    *)
(* counting these.                                                          *)
LEMMA PointsGiven ==
  ASSUME IInv, NEW n \in Player, NEW s \in Nat, NEW points \in Nat,
         s <= earned[n] + points,
         Execute(<<"ZADD", board, s, n>>),
         earned' = [earned EXCEPT ![n] = @ + points * Ran(<<"ZADD", board, s, n>>)],
         UNCHANGED <<played, joined>>, crossed' \in BOOLEAN, crossed => crossed'
  PROVE  /\ Data(store') /\ NeverOvercounted' /\ ScoresEarned' /\ Grown
         /\ Credible(Reply(<<"ZADD", board, s, n>>), Counts', earned')
<1> DEFINE cmd == <<"ZADD", board, s, n>>
<1>1. /\ Data(store')
      /\ \A key : CountIn(store', key) <= CountIn(store, key)
      /\ IF Reply(cmd).tag = "err"
           THEN store' = store
           ELSE \A given, raised :
                  /\ Given(store, given) /\ s <= raised[n]
                  /\ \A m \in DOMAIN Members(store, board) \ {n} : given[m] = raised[m]
                  => Given(store', raised)
  BY ScoreWritten DEF Execute, Reply, IInv
<1>2. points * Ran(cmd) = IF Reply(cmd).tag = "err" THEN 0 ELSE points
  BY DEF Ran
<1> HIDE DEF cmd
<1>3. /\ earned' = [earned EXCEPT ![n] = @ + points * Ran(cmd)]
      /\ earned \in [Player -> Nat]
  BY DEF cmd, IInv, Ghosts
<1>4. /\ earned'[n] = earned[n] + points * Ran(cmd)
      /\ \A m : m \in Player /\ m # n => earned'[m] = earned[m]
      /\ earned' \in [Player -> Nat]
  BY <1>2, <1>3
<1>5. Grown
  BY <1>2, <1>3, <1>4 DEF Grown, IInv, Ghosts
<1>6. NeverOvercounted'
  <2>1. /\ CountIn(store, games) \in Nat /\ CountIn(store, players) \in Nat
        /\ CountIn(store', games) \in Nat /\ CountIn(store', players) \in Nat
    BY <1>1, CountIsNatural DEF IInv
  <2>2. CountIn(store, games) <= Most(played) /\ CountIn(store, players) <= Most(joined)
    BY CountsAre DEF IInv
  <2>3. /\ Most(played) <= Most(played)' /\ Most(joined) <= Most(joined)'
        /\ Most(played) \in Nat /\ Most(joined) \in Nat
        /\ Most(played)' \in Nat /\ Most(joined)' \in Nat
    BY <1>5, MostGrows, CountsNatural DEF IInv
  <2>4. /\ CountIn(store', games) <= CountIn(store, games)
        /\ CountIn(store', players) <= CountIn(store, players)
    BY <1>1
  <2>5. CountIn(store', games) <= Most(played)' /\ CountIn(store', players) <= Most(joined)'
    BY <2>1, <2>2, <2>3, <2>4
  <2> QED
    BY <2>5, CountsAre
<1>7. ScoresEarned'
  <2>1. CASE Reply(cmd).tag = "err"
    <3>1. store' = store /\ earned' = earned
      BY <1>1, <1>2, <1>3, <2>1
    <3> QED
      BY <3>1, ScoresAre DEF IInv
  <2>2. CASE Reply(cmd).tag # "err"
    <3>1. s <= earned'[n]
      BY <1>2, <1>4, <2>2
    <3>2. CASE OfType(store, board, "zset")
      <4>1. \A m \in DOMAIN Members(store, board) : m \in Player
        BY <3>2 DEF IInv, Data, Typed, OfType, Has, Members, NoMembers
      <4>2. \A m \in DOMAIN Members(store, board) \ {n} : earned[m] = earned'[m]
        BY <4>1, <1>4
      <4>3. Given(store, earned)
        BY ScoresAre DEF IInv
      <4>4. Given(store', earned')
        BY <1>1, <2>2, <3>1, <4>2, <4>3
      <4> QED
        BY <4>4, ScoresAre
    <3>3. CASE ~OfType(store, board, "zset")
      <4>1. Reply(cmd).tag = "err"
        <5>1. Reply(cmd) = DoAdd(store, board, s, n).reply
          BY Dispatch DEF cmd, Reply
        <5> QED
          BY <5>1, <3>3 DEF DoAdd, Answer, Err
      <4> QED
        BY <4>1, <2>2
    <3> QED
      BY <3>2, <3>3
  <2> QED
    BY <2>1, <2>2
<1>8. Credible(Reply(<<"ZADD", board, s, n>>), Counts', earned')
  BY <1>5, WriteAnswers, MostGrows DEF IInv
<1> QED
  BY <1>1, <1>5, <1>6, <1>7, <1>8

LEMMA AddKeeps ==
  ASSUME IInv, NEW p \in Page, AddPlayer(p)
  PROVE  IInv'
<1>1. PICK n \in Player, s \in Start :
        /\ Send(p, "add", <<"ZADD", board, s, n>>, Local("getPlayers"))
        /\ earned' = [earned EXCEPT ![n] = @ + s * Ran(<<"ZADD", board, s, n>>)]
        /\ UNCHANGED <<played, joined>>
  BY DEF AddPlayer
<1> DEFINE cmd == <<"ZADD", board, s, n>>
<1>2. s \in Nat /\ s <= earned[n] + s
  <2>1. s \in Nat /\ earned[n] \in Nat
    BY NumbersAssumption DEF IInv, Ghosts
  <2> QED
    BY <2>1
<1>3. Execute(cmd) /\ crossed' \in BOOLEAN /\ (crossed => crossed')
  BY <1>1, AskCrosses DEF Send
<1>4. /\ Data(store') /\ NeverOvercounted' /\ ScoresEarned' /\ Grown
      /\ Credible(Reply(cmd), Counts', earned')
  BY <1>1, <1>2, <1>3, PointsGiven
<1>5. Knows(Local("getPlayers"), Most(played)', Most(joined)', earned')
  BY KnowsNothing DEF Quiet, Label
<1> QED
  BY <1>1, <1>4, <1>5, Sent

LEMMA AwardKeeps ==
  ASSUME IInv, NEW p \in Page, AwardPoints(p)
  PROVE  IInv'
<1> DEFINE at  == page[p]
           next(i) == IF at.left = 1 THEN Local("getGames")
                      ELSE [at EXCEPT !.used = @ \union {i}, !.left = @ - 1]
<1>1. PICK i \in DOMAIN at.list \ at.used, points \in Award :
        LET who == at.list[i]
            cmd == <<"ZADD", board, who.score + points, who.name>>
        IN /\ Send(p, "award", cmd, next(i))
           /\ earned' = [earned EXCEPT ![who.name] = @ + points * Ran(cmd)]
           /\ UNCHANGED <<played, joined>>
  BY DEF AwardPoints
<1> DEFINE who == at.list[i]
           s   == who.score + points
           cmd == <<"ZADD", board, s, who.name>>
<1>2. /\ at \in PageState /\ at.at = "award" /\ at.left \in 1 .. 3
      /\ at.list \in Seq([name : Player, score : Nat])
      /\ at.used \in SUBSET DOMAIN at.list
      /\ Knows(at, Most(played), Most(joined), earned)
  <2>1. at \in PageState /\ at.at = "award" /\ Knows(at, Most(played), Most(joined), earned)
    BY <1>1 DEF Send, IInv, Pages
  <2>2. at.list \in Seq([name : Player, score : Nat])
    BY <2>1 DEF PageState
  <2> QED
    BY <2>1, <2>2 DEF Knows
<1>3. who \in [name : Player, score : Nat] /\ points \in Nat
  BY <1>2, Elements, NumbersAssumption
<1>4. who.name \in Player /\ s \in Nat /\ s <= earned[who.name] + points
  <2>1. who.score <= earned[who.name]
    BY <1>2 DEF Knows
  <2>2. who.name \in Player /\ who.score \in Nat /\ earned[who.name] \in Nat
    BY <1>3 DEF IInv, Ghosts
  <2> QED
    BY <1>3, <2>1, <2>2
<1>5. Execute(cmd) /\ crossed' \in BOOLEAN /\ (crossed => crossed')
  BY <1>1, AskCrosses DEF Send
<1>6. /\ Data(store') /\ NeverOvercounted' /\ ScoresEarned' /\ Grown
      /\ Credible(Reply(cmd), Counts', earned')
  <2> HIDE DEF s, who
  <2>1. /\ Execute(<<"ZADD", board, s, who.name>>)
        /\ earned' = [earned EXCEPT ![who.name] = @ + points * Ran(<<"ZADD", board, s, who.name>>)]
        /\ UNCHANGED <<played, joined>>
    BY <1>1, <1>5 DEF who, s
  <2> QED
    BY <1>3, <1>4, <1>5, <2>1, PointsGiven
<1>7. Knows(next(i), Most(played)', Most(joined)', earned')
  <2>1. CASE at.left = 1
    BY <2>1, KnowsNothing DEF Quiet, Label
  <2>2. CASE at.left # 1
    <3> DEFINE on == [at EXCEPT !.used = @ \union {i}, !.left = @ - 1]
    <3>1. at.left - 1 \in 1 .. 3 /\ at.used \union {i} \in SUBSET DOMAIN at.list
      BY <1>2, <2>2
    <3>2. at.used \union {i} \in SUBSET Nat
      BY <1>2, <3>1
    <3>3. on \in PageState
      <4>1. on = [at EXCEPT !.used = at.used \union {i}, !.left = at.left - 1]
        OBVIOUS
      <4>2. at.left - 1 \in 0 .. 3
        BY <3>1
      <4> HIDE DEF on, at
      <4> QED
        BY <1>2, <3>2, <4>1, <4>2 DEF PageState
    <3>4. /\ on.at = "award" /\ on.left = at.left - 1 /\ on.list = at.list
          /\ on.used = at.used \union {i}
      BY <1>2 DEF PageState
    <3> HIDE DEF on
    <3>5. Knows(on, Most(played), Most(joined), earned)
      BY <1>2, <3>1, <3>3, <3>4 DEF Knows
    <3>6. Knows(on, Most(played)', Most(joined)', earned')
      BY <3>5, <1>6, KnowsMore, MostGrows, CountsNatural DEF Grown, IInv, Ghosts
    <3> QED
      BY <2>2, <3>6 DEF on
  <2> QED
    BY <2>1, <2>2
<1>8. Send(p, "award", cmd, next(i))
  BY <1>1
<1> HIDE DEF cmd, next
<1> QED
  BY <1>6, <1>7, <1>8, Sent

-----------------------------------------------------------------------------
(* The theorems. *)

(* IInv holds whatever the pages and the user do and however their commands *)
(* interleave.                                                              *)
THEOREM Invariant == Spec => []IInv
<1>1. IInv /\ [Next]_vars => IInv'
  <2> SUFFICES ASSUME IInv, [Next]_vars
               PROVE  IInv'
    OBVIOUS
  <2>1. CASE UNCHANGED vars
    BY <2>1 DEF vars, ghosts, IInv, Pages, Late, Counts, Ghosts, NeverOvercounted, Most,
                Counted, ScoresEarned, OfType, Has, Members
  <2>2. ASSUME NEW p \in Page, PageStep(p)
        PROVE  IInv'
    BY <2>2, OthersKeep, SetupKeeps, ResetKeeps, SimulateKeeps, LoadKeeps, GetKeeps,
       SetGamesKeeps, SetPlayersKeeps, AddKeeps, AwardKeeps DEF PageStep
  <2> QED
    BY <2>1, <2>2, UserKeeps DEF Next
<1> QED
  BY <1>1, InitHolds, PTL DEF Spec

(* Strings stay counts or text and sorted sets players with scores; a page  *)
(* holds players with scores and a count (TypeOK).                          *)
THEOREM TypeCorrect == Spec => []TypeOK
<1>1. IInv => TypeOK
  <2> SUFFICES ASSUME IInv PROVE TypeOK
    OBVIOUS
  <2>1. ASSUME NEW p \in Page
        PROVE  LET at == page[p]
               IN /\ at.at \in Label /\ at.list \in Seq([name : Player, score : Nat])
                  /\ at.used \subseteq DOMAIN at.list /\ at.left \in 0 .. 3
                  /\ at.count \in Nat
    BY DEF IInv, Pages, Knows, PageState
  <2>2. \A k \in DOMAIN store : Typed(store[k])
    BY DEF IInv, Data
  <2> QED
    BY <2>1, <2>2 DEF TypeOK, Typed, IInv, Late, Ghosts
<1> QED
  BY <1>1, Invariant, PTL

(* The counters never say more games or players than were counted, however  *)
(* the reads and writes of the pages, the user and resets overlap, and      *)
(* whatever times out, as long as no page sends a command before a reply it *)
(* gave up on has come; after that they are ahead of it by no more than     *)
(* what the other counter counted and one (NeverOvercounted).               *)
THEOREM CountersNeverAhead == Spec => []NeverOvercounted
<1>1. IInv => NeverOvercounted
  BY DEF IInv
<1> QED
  BY <1>1, Invariant, PTL

(* No player has more points than were ever given, however games overlap    *)
(* (ScoresEarned).                                                          *)
THEOREM PointsWereGiven == Spec => []ScoresEarned
<1>1. IInv => ScoresEarned
  BY DEF IInv
<1> QED
  BY <1>1, Invariant, PTL
=============================================================================
