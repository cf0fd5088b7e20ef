----------------------------- MODULE Leaderboard ----------------------------
(***************************************************************************)
(* The pages of app/web.html over the store of Commands.  A button's       *)
(* procedure is a chain of commands, each awaited before the next is sent; *)
(* between two commands of a page other pages, and a user at the           *)
(* command-line client, run theirs.  The bridge answers a page's command   *)
(* with the first reply that comes after it was sent, here a whole one     *)
(* (Bridge cuts them): its own, unless an earlier one is late.             *)
(***************************************************************************)
EXTENDS Commands

CONSTANTS Page,
          Player,       \* member names
          Start, Award, \* initial scores, points given by a game
          QueryLimit,   \* 20 in loadLeaderboard and simulateGame
          ResetLimit,   \* 1000 in resetLeaderboard
          UserCommand,  \* what the user may type
          Text,         \* a string that parseInt refuses
          MaxRuns,      \* bound: buttons pressed in all
          MaxTimeouts   \* bound: commands given up on in all

VARIABLES store,   \* the database
          page,    \* where each page is in its procedure, and its locals
          late,    \* replies to commands a page no longer awaits, to come
          shown,   \* the players each page displays, first rank first
          last,    \* the latest command and its reply
          runs,    \* buttons pressed
          timeouts, \* commands given up on
          played,  \* games whose count was written back
          joined,  \* players whose count was written back
          earned,  \* points ever given to each player
          crossed  \* some command was sent while an earlier reply was late

vars == <<store, page, late, shown, last, runs, timeouts, played, joined, earned, crossed>>

ghosts == <<played, joined, earned>>

board   == "leaderboard"
players == "game:total_players"
games   == "game:total_games"

ASSUME PlayerAssumption == Player \subseteq Seq(Nat)

ASSUME NumbersAssumption ==
  /\ Start \subseteq Nat /\ Award \subseteq Nat
  /\ QueryLimit \in Nat /\ ResetLimit \in Nat /\ MaxRuns \in Nat
  /\ MaxTimeouts \in Nat
  /\ Text \notin Nat

\* The user gives no points and counts no games: what is said of both is
\* about what the pages do.
ASSUME UserAssumption ==
  \A cmd \in UserCommand :
    /\ Is(cmd, "SET", 3) => cmd[3] = Text
    /\ Is(cmd, "ZADD", 4) =>
         \/ cmd[3] = NaN
         \/ cmd[2] # board /\ cmd[3] \in Nat /\ cmd[4] \in Player

Local(label) == [at |-> label, list |-> <<>>, used |-> {}, left |-> 0, count |-> 0]

Init == /\ store = [k \in {} |-> Nil]
        /\ page = [p \in Page |-> Local("closed")]
        /\ late = [p \in Page |-> <<>>] /\ crossed = FALSE
        /\ shown = [p \in Page |-> <<>>]
        /\ last = [cmd |-> <<>>, reply |-> Nil]
        /\ runs = 0 /\ timeouts = 0 /\ played = 0 /\ joined = 0
        /\ earned = [n \in Player |-> 0]

-----------------------------------------------------------------------------
(* One command.  It is sent when it runs in the database: until then its    *)
(* page does nothing that others see.                                       *)

Reply(cmd) == DoRequest(store, cmd).reply

Execute(cmd) == /\ store' = DoRequest(store, cmd).db
                /\ last' = [cmd |-> cmd, reply |-> Reply(cmd)]

TimedOut == Err("Command timeout")

\* What a command of p is answered: the first reply to come, or, after five
\* seconds, nothing, and its listener stays for a reply the page ignores.
Answers(p, cmd) ==
  LET replies == Append(late[p], Reply(cmd))
  IN {[reply |-> Head(replies), late |-> Tail(replies), timeouts |-> timeouts]} \union
     {[reply |-> TimedOut, late |-> replies, timeouts |-> timeouts + 1]}

\* The page goes on with its answer, or ends its procedure on an error.
Ask(p, cmd, answer, next) ==
  /\ Execute(cmd)
  /\ timeouts' = answer.timeouts /\ timeouts' <= MaxTimeouts
  /\ late' = [late EXCEPT ![p] = answer.late]
  /\ crossed' = (crossed \/ late[p] # <<>>)
  /\ page' = [page EXCEPT ![p] = IF answer.reply.tag = "err" THEN Local("idle") ELSE next]

Send(p, label, cmd, next) == /\ page[p].at = label
                             /\ \E answer \in Answers(p, cmd) : Ask(p, cmd, answer, next)
                             /\ UNCHANGED <<shown, runs>>

\* A late reply finds the page between two commands, and is dropped.
Arrive(p) == /\ late[p] # <<>>
             /\ late' = [late EXCEPT ![p] = Tail(@)]
             /\ UNCHANGED <<store, page, shown, last, runs, timeouts, ghosts, crossed>>

\* 1 when the command was not refused.
Ran(cmd) == IF Reply(cmd).tag = "err" THEN 0 ELSE 1

GoTo(p, label) == [page[p] EXCEPT !.at = label]

\* NaN kept.
ParseCountRaw(reply) == IF reply.tag \in {"str", "int", "dbl"} THEN reply.val ELSE 0

\* parseInt(result.value) || 0
ParseCount(reply) == IF reply.tag \in {"str", "int", "dbl"} /\ reply.val # Text
                       THEN reply.val ELSE 0

\* The (name, score) pairs of a flat array; none in another answer.
Parsed(reply) == IF reply.tag # "arr" THEN <<>>
                 ELSE [i \in 1 .. Len(reply.val) \div 2 |->
                         [name  |-> reply.val[2 * i - 1].val,
                          score |-> reply.val[2 * i].val]]

TopPlayers(limit) == <<"ZQUERY", board, 0, <<>>, 0, limit>>

-----------------------------------------------------------------------------
(* Buttons. *)

Press(p, label) == /\ page[p].at = "idle" /\ runs < MaxRuns
                   /\ page' = [page EXCEPT ![p] = Local(label)]
                   /\ runs' = runs + 1
                   /\ UNCHANGED <<store, late, shown, last, timeouts, ghosts, crossed>>

Button(p) == \E label \in {"load", "simulate", "add", "reset"} : Press(p, label)

\* onopen runs initializeDatabase.
Open(p) == /\ page[p].at = "closed"
           /\ page' = [page EXCEPT ![p] = Local("init")]
           /\ UNCHANGED <<store, late, shown, last, runs, timeouts, ghosts, crossed>>

\* At any time: commands sent run, nobody reads their answers.  (A page that
\* is back before its last command ran is another one of Page.)
Close(p) == /\ page[p].at # "closed"
            /\ page' = [page EXCEPT ![p] = Local("closed")]
            /\ shown' = [shown EXCEPT ![p] = <<>>]
            /\ late' = [late EXCEPT ![p] = <<>>]
            /\ UNCHANGED <<store, last, runs, timeouts, ghosts, crossed>>

(* initializeDatabase; every procedure ends with loadLeaderboard. *)

InitPlayers(p) == Send(p, "init", <<"SET", players, 0>>, GoTo(p, "initGames"))
                  /\ UNCHANGED ghosts

InitGames(p) == Send(p, "initGames", <<"SET", games, 0>>, Local("load"))
                /\ UNCHANGED ghosts

(* loadLeaderboard. *)

Load(p) ==
  LET cmd == TopPlayers(QueryLimit)
  IN \E answer \in Answers(p, cmd) :
       /\ page[p].at \in {"load", "cleared"}
       /\ Ask(p, cmd, answer, Local("loadPlayers"))
       /\ shown' = IF answer.reply.tag = "err" THEN shown
                   ELSE [shown EXCEPT ![p] = Parsed(answer.reply)]
       /\ UNCHANGED <<runs, ghosts>>

LoadPlayers(p) == Send(p, "loadPlayers", <<"GET", players>>, Local("loadGames"))
                  /\ UNCHANGED ghosts

LoadGames(p) == Send(p, "loadGames", <<"GET", games>>, Local("idle"))
                /\ UNCHANGED ghosts

(* simulateGame. *)

\* Up to three of the players read, when there are any.
Simulate(p) ==
  LET cmd == TopPlayers(QueryLimit)
  IN \E answer \in Answers(p, cmd), count \in 1 .. 3 :
       LET list == Parsed(answer.reply)
       IN /\ page[p].at = "simulate"
          /\ Ask(p, cmd, answer,
                 IF list = <<>> THEN Local("idle")
                 ELSE [Local("award") EXCEPT !.list = list,
                         !.left = IF count < Len(list) THEN count ELSE Len(list)])
          /\ UNCHANGED <<shown, runs, ghosts>>

\* The new score is the one read at the start plus the points.
AwardPoints(p) ==
  \E i \in DOMAIN page[p].list \ page[p].used, points \in Award :
    LET at  == page[p]
        who == at.list[i]
        cmd == <<"ZADD", board, who.score + points, who.name>>
    IN /\ Send(p, "award", cmd,
               IF at.left = 1 THEN Local("getGames")
               ELSE [at EXCEPT !.used = @ \union {i}, !.left = @ - 1])
       /\ earned' = [earned EXCEPT ![who.name] = @ + points * Ran(cmd)]
       /\ UNCHANGED <<played, joined>>

GetCount(p, from, key, to) ==
  LET cmd == <<"GET", key>>
  IN \E answer \in Answers(p, cmd) :
       /\ page[p].at = from
       /\ Ask(p, cmd, answer, [Local(to) EXCEPT !.count = ParseCount(answer.reply)])
       /\ UNCHANGED <<shown, runs, ghosts>>

GetGames(p) == GetCount(p, "getGames", games, "setGames")

IncrementedTwice(count) == count + 2

Incremented(count) == count + 1

SetGames(p) ==
  LET cmd == <<"SET", games, Incremented(page[p].count)>>
  IN /\ Send(p, "setGames", cmd, Local("load"))
     /\ played' = played + Ran(cmd)
     /\ UNCHANGED <<joined, earned>>

(* addRandomPlayer. *)

AddPlayer(p) ==
  \E n \in Player, s \in Start :
    LET cmd == <<"ZADD", board, s, n>>
    IN /\ Send(p, "add", cmd, Local("getPlayers"))
       /\ earned' = [earned EXCEPT ![n] = @ + s * Ran(cmd)]
       /\ UNCHANGED <<played, joined>>

GetPlayers(p) == GetCount(p, "getPlayers", players, "setPlayers")

SetPlayers(p) ==
  LET cmd == <<"SET", players, Incremented(page[p].count)>>
  IN /\ Send(p, "setPlayers", cmd, Local("load"))
     /\ joined' = joined + Ran(cmd)
     /\ UNCHANGED <<played, earned>>

(* resetLeaderboard.  ZREM is sent for each element of the reply that is an *)
(* array of two; the elements are strings and doubles, so none is sent.     *)

Reset(p) ==
  LET cmd == TopPlayers(ResetLimit)
  IN \E answer \in Answers(p, cmd) :
       /\ page[p].at = "reset"
       /\ Ask(p, cmd, answer, [Local("resetPlayers") EXCEPT !.list = Parsed(answer.reply)])
       /\ UNCHANGED <<shown, runs, ghosts>>

ResetPlayers(p) == Send(p, "resetPlayers", <<"SET", players, 0>>, GoTo(p, "resetGames"))
                   /\ UNCHANGED ghosts

\* "Leaderboard reset - all data cleared"
ResetGames(p) == Send(p, "resetGames", <<"SET", games, 0>>, GoTo(p, "cleared"))
                 /\ UNCHANGED ghosts

-----------------------------------------------------------------------------
User == \E cmd \in UserCommand :
          Execute(cmd) /\ UNCHANGED <<page, late, shown, runs, timeouts, ghosts, crossed>>

PageStep(p) ==
  \/ Open(p) \/ Close(p) \/ Button(p) \/ Arrive(p)
  \/ InitPlayers(p) \/ InitGames(p)
  \/ Load(p) \/ LoadPlayers(p) \/ LoadGames(p)
  \/ Simulate(p) \/ AwardPoints(p) \/ GetGames(p) \/ SetGames(p)
  \/ AddPlayer(p) \/ GetPlayers(p) \/ SetPlayers(p)
  \/ Reset(p) \/ ResetPlayers(p) \/ ResetGames(p)

Next == User \/ \E p \in Page : PageStep(p)

Spec == Init /\ [][Next]_vars

-----------------------------------------------------------------------------
(* Correctness. *)

Label == {"closed", "idle", "init", "initGames", "load", "loadPlayers", "loadGames",
          "simulate", "award", "getGames", "setGames", "add", "getPlayers",
          "setPlayers", "reset", "resetPlayers", "resetGames", "cleared"}

\* Strings hold counts or text, sorted sets hold players with scores.
TypeOK ==
  /\ \A k \in DOMAIN store :
       \/ store[k].type = "str"  /\ store[k].value \in Nat \union {Text}
       \/ store[k].type = "zset" /\ /\ DOMAIN store[k].value \subseteq Player
                                  /\ \A n \in DOMAIN store[k].value :
                                       store[k].value[n] \in Nat
  /\ \A p \in Page :
       LET at == page[p]
       IN /\ at.at \in Label /\ at.list \in Seq([name : Player, score : Nat])
          /\ at.used \subseteq DOMAIN at.list /\ at.left \in 0 .. 3
          /\ at.count \in Nat
  /\ \A p \in Page : Len(late[p]) <= timeouts
  /\ runs \in 0 .. MaxRuns /\ timeouts \in 0 .. MaxTimeouts /\ crossed \in BOOLEAN
  /\ played \in Nat /\ joined \in Nat /\ earned \in [Player -> Nat]

\* A command that is refused, for its arguments, its type or its name, leaves
\* the store as it was: each handler looks up, checks and creates in an order
\* of its own.
RefusedChangesNothing == [][last'.reply.tag = "err" => UNCHANGED store]_vars

\* A key keeps its type as long as it exists, whoever writes to it: what an
\* Entry holds is only released by its own type's destructor.
TypeKept ==
  [][\A k \in DOMAIN store \intersect DOMAIN store' :
        store'[k].type = store[k].type]_vars

Counted(key) == IF OfType(store, key, "str") /\ Has(store, key)
                  /\ store[key].value # Text
                THEN store[key].value ELSE 0

\* What a counter may say at most when own was counted.
Most(own) == IF crossed THEN played + joined + 1 ELSE own

\* The counters are read, incremented and written back with other pages, a
\* user, resets and timeouts in between.  Updates may be lost; a counter never
\* says more games or players than were counted, as long as no page sends a
\* command before a reply it gave up on has come (bridge.js:135, web.html:466).
\* After that a page may take the other counter, or the 1 that ZADD answers,
\* for its count: a counter may be ahead, but by no more than both counted and
\* that one.
NeverOvercounted == Counted(games) <= Most(played) /\ Counted(players) <= Most(joined)

\* A score is the one read at the start of a game plus the points, written
\* over whatever the board holds by then.  However games overlap, no player
\* has more points than were ever given.
ScoresEarned ==
  OfType(store, board, "zset") =>
    \A n \in DOMAIN Members(store, board) : Members(store, board)[n] <= earned[n]

\* "Leaderboard reset - all data cleared": of the players the reset read, none
\* is left when it reports success (nobody else writes).
ResetClears ==
  \A p \in Page : page[p].at = "cleared" =>
    \A i \in DOMAIN page[p].list :
       page[p].list[i].name \notin DOMAIN Members(store, board)

\* "Top Players": the first rank displayed is no lower than the next.
TopFirst ==
  \A p \in Page : \A i \in 1 .. Len(shown[p]) - 1 :
    shown[p][i].score >= shown[p][i + 1].score
=============================================================================
