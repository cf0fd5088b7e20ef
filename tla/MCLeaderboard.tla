---------------------------- MODULE MCLeaderboard ---------------------------
(* Two players, one point at a time.                                        *)
EXTENDS Leaderboard, TLC

CONSTANTS p, q

MCPlayer == {<<1>>, <<1, 2>>}

MCTwoPages == {p, q}

MCOnePage == {p}

\* A user who writes where the pages expect another type, and types commands
\* that are refused or only read.
MCUser ==
  {<<"SET", board, Text>>, <<"SET", players, Text>>,
   <<"ZADD", board, NaN, <<1>>>>, <<"KEYS">>, <<"GET">>}

MCNobody == {}

\* The pages are alike.
Alike == Permutations({p, q})

\* No action reads what the pages show or what was answered last, and TLC
\* checks every step, those to states it has seen included.
State == <<store, page, late, runs, timeouts, ghosts, crossed>>
=============================================================================
