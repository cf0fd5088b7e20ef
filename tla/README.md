# Specifications of the Redis clone

TLA+ models of the key-value server (`key_value_server/`), of the data
structures it is built from, of the protocol and the command-line client, of
the WebSocket bridge (`app/bridge.js`) that puts a web page in front of it, and
of the echo server and pipelining client it grew from (`event_loop/`). TLC
checks the models on small instances; every safety property of the passing runs is
also proved, for every value of the constants that satisfies the assumptions.
Paths below are relative to the repository's root (`src/` here).

To check a run: `tlc -workers 2 -config HMap.cfg MCHMap.tla`; to check the
proofs: `tlapm HMapProofs.tla`, and so for `ZSetProofs`, `PipelineProofs`,
`EventLoopProofs`, `BridgeProofs`, `ZOrderProofs`, `LeaderboardProofs` and
`CliProofs`; most take two to three minutes, `ZSetProofs` about fifteen.
`PROJECT.json` lists the runs, the lines each definition translates, the hazards
and the theorems.

## 1. The system

One process, one thread. `main` (`server_4.cpp:794`) runs a poll() loop over
non-blocking sockets. Each connection has two buffers and three flags. A
complete request in `incoming` is parsed, executed against one global
hashtable and answered into `outgoing`. A value is a string or a sorted set; a
sorted set indexes its members by name (hashtable) and by score and name (AVL
tree). A Node process relays the commands of a web page over one TCP
connection for every page.

| component | source | state | operations |
|---|---|---|---|
| hashtable | `hash.cpp`, `hash.h` | newer and older table, `migrated_pos` | lookup, insert, delete, clear, foreach, size |
| AVL tree | `avl.cpp`, `avl.h` | child and parent pointers, height, count | fix (insert), delete, offset |
| sorted set | `range.cpp`, `range.h` | tree, hashtable, score of each ZNode | insert, update, delete, clear, ceil, rank, offset |
| event loop | `server_4.cpp` | `fd2conn`, poll results, the Conn buffers and flags | accept, read, serve, write, close |
| commands | `server_4.cpp:205-550` | `g_data`: key to typed entry | GET SET DEL KEYS ZADD ZREM ZSCORE ZRANK ZQUERY |
| bridge | `app/bridge.js` | one socket per page, its listeners | connect, sendCommand, readResponse, parseResponse, close |
| leaderboard page | `app/web.html` | `pendingCommands`, sequences of commands | add player, simulate, reset, load |
| command-line client | `client_3.cpp` | one blocking socket | prompt, send_req, read_res, print_response |
| echo event loop | `event_loop/server_1.cpp`, `event_loop/client_1.cpp` | as the event loop; a client that pipelines | accept, read, echo, write, close |
| earlier versions | `server_1.cpp` .. `server_3.cpp`, `client_1.cpp`, `test_server.cpp` | iterations and a copy of `server_4.cpp` | |
| exercises, tests, `ws` | `event_loop/buffer.cpp`, `first_tcp_server/`, `Testing_Script/`, `node_modules/ws/` | | |

How they interact: the page sends JSON to the bridge; the bridge frames a
command and writes it to its TCP connection; the event loop cuts requests out
of the byte stream and calls `do_request`; that calls the hashtable for the
key and, for the Z commands, the sorted set; the sorted set calls the AVL tree
and a hashtable of its own. Intrusive nodes are shared: a ZNode hangs in the
tree and in the hashtable at once. Replies go back the same way, in order; no
message carries an identifier between the bridge and the server.

What is hard in it:

- *Hashtable.* Rehashing is spread over later calls. A lookup moves keys; a
  delete may empty the old table; a clear or a growth starts over. The cursor
  has no bounds test and an insert does no load check while a migration runs.
- *AVL tree and sorted set.* Counts and heights must be exact after rotations
  at several ancestors and after the successor swap; a score is the sort key of
  the tree and is stored in the node.
- *Event loop.* Frames cut anywhere, several frames in one read, partial
  writes, clients that shut down or vanish between poll() and the handler,
  descriptors closed and reused, three flags set by two handlers, and a `write()`
  that may end the process (SIGPIPE).
- *Bridge.* Several commands share one stream, each with a listener of its own;
  the page times out and the listener stays, so the next command gets the late
  reply. Either connection may close, with commands under way.
- *Command-line client.* It goes on to read a reply whether it sent the command
  or not, and its limit on a message is not the server's.
- *Pipelining.* The client writes everything before it reads and the server
  does not read while it owes: between them are only the kernel's buffers.

What makes each part correct: the hashtable is a set of keys whatever the
migration does, misses are true, calls return, the load stays bounded. The
sorted set is a map from members to scores and answers ranks, offsets and
pages by its order. The server runs the requests of a connection once, in
order, and answers each. The bridge gives each command its own reply (which it
does only while one waits at a time), and a client displays the reply to the command
it sent.

## 2. Modules

| module | stands for | state and actions |
|---|---|---|
| `Dict` | what a hashtable promises: a set of keys | one action per return of a call |
| `HMap` | `hash.cpp` | `curr`, `prev`, `migrated_pos`; a call begins, runs the loop of `hm_help_rehashing` an iteration at a time, returns |
| `HMapProofs` | theorems about `HMap` | |
| `AVLRotate`, `AVL` | `avl.cpp` | operators from nodes to nodes and a new root |
| `ZOrder` | the order of a sorted set, and rank, position and page by counting | operators |
| `ZOrderProofs` | theorems about `ZOrder` | |
| `SortedSet` | what a sorted set promises: members with scores, and their order | insert, delete, clear |
| `ZSet` | `range.cpp`, and the loop of `do_zquery` | `tree`, `root`, `hmap`, `score`; one action per operation |
| `ZSetProofs` | theorems about `AVL` and `ZSet`; that it implements `SortedSet` | |
| `Service` | what the server promises each client | ask, run, answer, lose the connections of some |
| `EventLoop` | the loop of `server_4.cpp` | one action per outcome of poll(), accept, read, request, write, SIGPIPE, close; clients and sockets around it |
| `EventLoopProofs` | theorems about `EventLoop`; that it implements `Service` | |
| `Pipeline` | `event_loop/server_1.cpp` and `client_1.cpp` | positions in the stream of frames; one action per call of either process |
| `PipelineProofs` | theorems about `Pipeline` | |
| `Bridge` | `sendCommand`, `readResponse` and the connections of `bridge.js` | connect, issue, serve, deliver a chunk, time out, close on either side |
| `BridgeProofs` | theorems about `Bridge` | |
| `Commands` | `do_request` and its handlers | operators from the store and a command to the store and a reply |
| `Wire` | the bytes of requests and replies: `parse_request`, `out_*`, `end_response`, `print_response`, `parseResponse` | operators |
| `Cli` | `client_3.cpp`, several of them on one server | the byte streams, `db`, where each client is; type, serve, read header, read body, quit |
| `CliProofs` | theorems about `Wire`, the replies of `Commands`, and `Cli` | |
| `Leaderboard` | the page of `web.html` over `Commands` | `store`, where each page is in its procedure, the replies it no longer awaits; one action per awaited command, late replies, and a user |
| `LeaderboardProofs` | theorems about `Commands` and `Leaderboard` | |
| `MCHMap`, `MCZSet`, `MCEventLoop`, `MCLeaderboard`, `MCCli`, `MCPipeline` | instances for TLC | |

How they compose: `HMap` implements `Dict`, a set of keys, and `ZSet` is built
on such a set and `AVL` and implements `SortedSet`. `Commands` uses sorted sets
as `SortedSet` has them. `EventLoop` implements `Service`, which is what `Cli`
and `Bridge` take of a server: it answers the requests of a connection in order.
`Cli` runs `Commands` through `Wire`; `Leaderboard` runs `Commands`.

Abstractions worth knowing:

- `HMap`: a chain is a set, so "the first item" is any of its items; `hcode &
  mask` is `% Slots`, sizes being powers of two. The table is single-threaded,
  so no call begins before the previous one returned; the small steps are there
  for the loop. The lines that call `hm_lookup` and, on a miss, `hm_insert`
  (`do_set`, `do_add`, `zset_insert`) are the `missed` state: an insert only
  follows a failed lookup of the same key.
- `AVL`: pointers are functions from nodes to nodes. The code answers roots by
  walking up; an operator answers the nodes and the root together. A loop is a
  number of turns of its body that is enough for any tree, each turn after the
  loop has ended changing nothing: `Cardinality(Node)` for a walk up or down,
  twice that for `avl_offset`, which goes up and then down. That it is enough is
  part of what is proved, so a loop of the code never runs longer.
- `ZSet`: the hashtable is the set of names that `HMap` is shown to implement.
  A name is a sequence of small numbers, since prefixes and the empty name
  decide what memcmp does. The offset loop is the one of `do_zquery`, which
  counts two for each pair. So `limit` bounds array elements, rounded up to
  whole pairs; "at most limit (score, name) pairs" (`server_4.cpp:354`) holds,
  but half of what it may suggest is returned. To `SortedSet` it is the map from
  the members of the hashtable to their scores, and, apart from that, the order
  `TreeOrder`, which the child pointers give and no score is read for: an update
  in place would leave the first right and the second wrong.
- `EventLoop`: a request is two pieces, header with the start of the body and
  the rest; a read takes up to `ReadMax` pieces, a socket holds `RecvBuf` and
  `SendBuf`. A reply is the number of its request. What a request does to the
  store is not looked at. Clients, and the kernel, act between any two steps of
  the loop: between poll() and a handler, between two requests of one buffer,
  and between a read and the write that follows it at once. A client that has
  closed with replies unread, written before it closed or after, has its kernel
  answer with a reset; a write after that raises SIGPIPE, which `server_4.cpp`
  neither handles nor avoids (`server_4.cpp:729` is a plain `write()`), and the
  process ends (`WriteKilled`, `pc = "dead"`): every connection closes, accepted
  or not, and what the kernel still holds for a client may or may not reach it.
  The kernel's timing is left open: such a write may also fail, or be taken for
  nobody (`WriteGone`).
- `Pipeline`: request and reply have the same bytes, so the streams and buffers
  are differences of positions in one sequence of frames. It is about one
  connection, that of the client; `EventLoop` has several.
- `Wire`: bytes are bytes. Numbers are those the commands answer, so an int64 is
  not negative. The text of an error is one byte. A double is given its eight
  bytes by a constant, since nothing but equality of them matters. A loop over the
  bytes is a function from the number of its turns to where it is (`Walk`), all
  positions past the end being one (`Past`): a walk that leaves the data does not
  come back. A decoder that calls itself is a function from a depth to what is
  found at every position when arrays nest less deep than that; an item starts a
  byte or more after its array, so the length of the data is depth enough.
  `getResponseSize` is the position where a value ends rather than its size.
  `toString('utf8')` leaves a string of UTF-8 as it is; any other becomes
  U+FFFD, of which one stands for the string (the code replaces each bad
  sequence and keeps the characters between). `Number()` keeps 53 bits of an
  int64. printf is what `print_response` gives it, not how it looks. A client's
  sum of a length and its header, taken in 32 bits, would wrap for a length
  within 9 of 2^32; here it does not, as no body is that long.
- `Cli`: write_all and read_full move whole messages; a line is the sequence of
  its words. `Double` and `Integer` are the words that `str2dbl` and `str2int`
  accept, not the same ones: "3." is a score and no limit. The
  server is the one step that `EventLoop` is shown to make of a request.
- `Commands`: keys of the store are what `HMap` holds, a sorted set is the
  function from members to scores that `ZSet` implements (`ZOrder` is shared with
  `SortedSet`), and a numeric word is its number, or `NaN` when the parse fails. A
  command is one step: the server has one thread.
- `Leaderboard`: each command of a procedure is a step of its own, because the
  page awaits it. It may be answered, be refused, or not be answered in time; the
  last two end the procedure, as its `catch` does. A command that was given up on
  leaves its listener on the socket (`bridge.js:135`, `bridge.js:194`) and its
  reply to come (`late`). If that comes before the next command, nobody listens
  (`Arrive`); if not, the next command takes it, its own reply is left over for the
  one after, and so on (`Answers`). Replies are whole here; `Bridge` cuts them. A
  page runs one procedure at a time; two in one page would meet the pairing that
  `Bridge` models. A page that is closed and opened again has another socket, and
  its commands that still run are those of the one before; a page opened before
  they have run is another element of `Page`. `loadLeaderboard`, called at the end
  without `await`, is run as the end of the procedure: it only reads.
- `Bridge`: a reply is a header piece and `BodyPieces` body pieces. A reader that
  takes body bytes for a length awaits a body of whatever they spell, which may be
  any number of 32 bits: from no piece to `Longest`, a constant that only has to be
  as large as a reply. The bridge allocates a buffer of that size
  (`bridge.js:161`); when it cannot, it dies of the error, which is one of the
  failures of `DbFails`. The database of this model answers commands in order,
  which `ServiceSpec` of `EventLoop` shows.

Definitions such as `HDetachCountedTwice` or `OverloadedLate`, next to the one they are
named after, are faulty variants of it: substituted for it, they make the
property that guards that line fail. No specification uses them.

## 3. Runs

| run | checks | instance |
|---|---|---|
| `hmap` | `TypeOK IInv CursorInBounds LoadFactor MissIsTrue KeysExact`, refinement of `Dict`, `CallsReturn` | 6 keys with colliding hashes, tables of 2, 4 and 8 slots, one key moved a call |
| `zset` | `TypeOK Linked Indexed Balanced`, refinement of `SortedSet` (order of the tree, scores of the hashtable); `PositionsExact QueryExact` | 7 names and 2 scores; the two thinnest trees of 12 names; any deletes. Queries: 5 names with prefixes and the empty one, offsets past both ends, limits 0, 1, 2, 5 |
| `event_loop` | `TypeOK Intentions NoStall EntriesLive`, refinement of `Service`, `NoReplyLostAtEOF` | 3 clients, 2 descriptors; good, bad and over-long frames pipelined |
| `event_loop_live` | `Answered` | 2 clients, fair |
| `event_loop_bad_request` | `BadRequestRefused`, violated | as `event_loop` |
| `pipeline` | `TypeOK NeverStuck Finishes` | 6 queries of 5 and 20 bytes; reads of 8 bytes; sockets of 10 and 15 |
| `cli` | `TypeOK InStep RepliesReadBack RequestsReadBack NoWaitInVain` | 2 clients, 17 lines, 3 typed; limits of 46 and 60 bytes, 12 words |
| `bridge` | `TypeOK MatchedAlone NeverAhead CommandsAnswered Released` | 4 commands, one too long, two at a time, timeouts, replies of 4 pieces, misread lengths of 0 to 4, connections that close |
| `bridge_pipelined` | `MatchedReplies`, violated | 3 commands, two at a time |
| `leaderboard` | `TypeOK NeverOvercounted ScoresEarned RefusedChangesNothing TypeKept` | 2 pages, a user, 2 players, 3 buttons pressed, 1 timeout |
| `leaderboard_reset` | `ResetClears`, violated | 1 page, nobody else |
| `leaderboard_top` | `TopFirst`, violated | 1 page, nobody else |

Bounds, and why they are enough:

- `hmap`. Six keys are the fewest that start a second growth. With one key
  moved a call every prefix of a migration is a state between calls; all the
  interleavings of inserts, deletes, lookups and clears with both migrations are
  reached. The table begins with 2 slots rather than 4 to get there with six
  keys. The proofs remove these bounds.
- `zset`. Seven members make every single and double rotation, at the root and
  below it, and every shape of the successor swap (successor the right child, or
  deeper; with and without a child). Two scores give ties, so names decide. But
  seven members never let one delete rotate at two ancestors: in the tree of
  height five with the fewest nodes, twelve, one delete does, and any number of
  deletes may follow.
  The queries are checked in every tree of five members, at every position of
  the two scores and five names, present or not. The proofs remove these bounds,
  for the offsets and the limits as well.
- `event_loop`. `RecvBuf = 4` lets two whole frames wait, so a read may take one
  and a half. `SendBuf = 1` makes a write of two replies partial and makes
  EAGAIN happen. Three frames of one client are the fewest with
  which data arrives while a reply waits. There are fewer descriptors than
  clients, so accept fails, and a closed descriptor is reused in a later round
  (accept comes before the closes of its own). Any client may quit with a reply
  unread and be written to again, so the process dies in the middle of a round
  with replies owed to another. The proofs remove these bounds.
- `pipeline`. The large query is over every buffer and over a read; the replies
  to it and to those before it do not fit into the client's socket, so the
  server stops reading and waits. The last two are what must then fit
  (`FitsAssumption`). The proofs remove the sizes.
- `cli`. `ClientMax = 46` and `ServerMax = 60` stand for 4096 bytes and 32 MiB: one
  line is over the first and not sent, a page of three members is read by the
  server's limit and not by the client's, and three long names are over both.
  `MaxTyped = 3`: one command to change the store or fail, and two after it, of
  this client or the other. Every reply to every line in every state is decoded,
  and every cut of every request is refused. One value is UTF-8 of two bytes, one
  member is not UTF-8. The clients are alike (`SYMMETRY`). No request of 46
  bytes holds over `k_max_args = 12` words, as none of 4096 holds 200,000: a word
  takes four bytes for its length. The proofs remove these bounds.
- `bridge`. Three body pieces cut a reply anywhere, header alone included.
  `Window = 2` is the least that lets two commands share the stream; with timeouts
  more of them do. `Longest = 4` is more than any body, so a misled reader may take
  one reply, part of one or more than one for its own. The third command is refused,
  so a command follows it.
- `leaderboard`. Two players and three buttons let two games of two pages
  overlap after a player was added, with a reset, a reload or a timeout at any
  point; one point at a time tells scores apart. One timeout shifts every reply of
  its page from then on, until one comes when nothing is awaited; three buttons
  make the shifted reply of one procedure the count of the next. The user may turn
  the board or a counter into the other type, and type what is refused. The pages
  are alike (`SYMMETRY`). `VIEW`
  leaves out what no action reads (the latest command, and what pages display); it
  does the same for the latest call in the runs of `ZSet`. TLC still checks every
  step against the action properties.

`CHECK_DEADLOCK FALSE` stands where the system may stop: a server with no
client blocks in poll(), a page may issue no more commands.

Fairness:

- `HMap!FairSpec`: weak fairness of the steps inside a call. A call runs on the
  only thread and waits for nothing.
- `EventLoop!FairSpec`: weak fairness of the server, whose thread runs and whose
  only blocking call is poll(), and of each client reading a reply that has
  arrived. Clients owe nothing else: they may stop in the middle of a frame.
  `Answered` promises nothing once the server is dead.
- `Pipeline!FairSpec`: weak fairness of the two processes. Each blocks only in
  a call that returns when the other has moved bytes.
- `Bridge!FairSpec`: the database answers what it received (`Answered`), the
  network delivers, a connection is made unless it fails, and the database
  closes its side once it reads the end (`want_close` in `handle_read`). The page
  is not fair: it need not issue anything or ever leave.

What the violated runs show:

- `event_loop_bad_request`. `try_one_request` keeps the answer of
  `parse_request` in a `uint32_t` and tests it for `< 0` (`server_4.cpp:690`), so
  the branch logged "bad request" is never taken: a body that does not parse is
  executed with the words read so far and answered.
- `bridge_pipelined`. `sendCommand` sends the request and reads "the response"
  (`bridge.js:134`), which the page matches to the command by its id
  (`bridge.js:36`, `web.html:491`); but every waiting command listens to the same
  stream, and the first reply is given to all of them. `NeverAhead` and
  `MatchedAlone` say what remains true: an answer is never that of a later
  command, and commands that never shared the socket get their own.
- `leaderboard_reset`. `resetLeaderboard` looks for arrays of two in a reply that
  is flat, so it sends no ZREM, resets the counters and reports "all data
  cleared" (`web.html:771`, `web.html:783`).
- `leaderboard_top`. The board "Top Players" (`web.html:346`) shows the first
  elements of an ascending order (`web.html:586`): the lowest score gets the
  gold medal, and beyond ten players the best are not shown.

## 4. Proofs

`HMapProofs` proves for every set of keys, hash function, positive work quota
and first size over one slot:

| theorem | property |
|---|---|
| `Invariant` | `IInv` |
| `TypeCorrect` | `TypeOK` |
| `CursorSafe` | `CursorInBounds` |
| `LoadStaysLow` | `LoadFactor` |
| `InsertIsFresh` | `MissIsTrue` |
| `KeysAreExact` | `KeysExact` |
| `ImplementsDict` | `DictSpec` |

Assumed of the constants: `HashAssumption` (a hash is a natural number),
`WorkAssumption` (`k_rehashing_work` is positive; 128 in the code) and
`SlotsAssumption` (the first table has more than one slot; 4 in the code; with
one slot `h_foreach` would take the table for a missing one).

None of the safety properties is inductive. `IInv` adds:

- `Placed`: a key is in the chain of its hash, and `size` counts the keys. Needed
  for a detach not to take `size` below zero and for "`prev.size > 0`" to mean
  that there is a key to find.
- `Disjoint`: no key in both tables. Without it `hm_size` is not the number of
  keys, and a delete would leave a second copy.
- `PrevHasCurr`: a migration always has a table to move into.
- `PrefixMigrated`: the slots below the cursor are empty. Together with `Placed`
  it gives `CursorInBounds`: a key that is left must be at or after the cursor.
- `LoadBound`: during a migration the keys, plus those still in the old table,
  are fewer than the slots of the newer one. Every insert adds one key and moves
  at least one, so the sum does not grow; `Slack` is the one step between the
  insert and its first move. When the old table is drained, the bound left is the
  one hm_insert checks again. This is why it may skip that check meanwhile.
- `MissIsTrue`: between a miss and the insert that follows, the key is in
  neither table. This keeps `Disjoint` over an insert.

Each action has one lemma or step that preserves `IInv`, with the effect of an
insert, a detach and a discard on one table stated once as lemmas.
`ImplementsDict` follows by mapping each step of `HMap` to a step of `Dict` or a
stutter under the invariant.

`ZSetProofs` proves for any finite set of names, any scores, offsets and limits,
and sequences of operations of any length:

| theorem | property |
|---|---|
| `TypeCorrect` | `TypeOK` |
| `TreeLinked` | `Linked` |
| `BothIndexesAgree` | `Indexed` |
| `TreeBalanced` | `Balanced` |
| `ImplementsSortedSet` | `SortedSetSpec` |
| `PositionsAreExact` | `PositionsExact` |
| `QueriesAreExact` | `QueryExact` |

Assumed: `NodeAssumption` (the nodes are finitely many, and NULL is none of them)
and `ParameterAssumption` (names are sequences of bytes; scores are numbers that
compare as integers do, which leaves out NaN; offsets and limits are integers).

The properties of a run speak of the tree through `Under`, which is computed from
the pointers and says nothing where they are wrong. The proofs start from the
other end. `Shape(t, S, u)` says that the pointers of `t` make one tree of the
nodes `S` and that `u[n]` are the nodes at and below `n`; `Sorted` that every
node separates what is on its left from what is on its right; `Sound(t, n)` that
`height` and `cnt` of `n` agree with its children and that these are at most one
apart. The inductive invariant, `IInv`, is that some `u` makes the tree of the
members such a tree, sound at every node (`Kept`), that the pointers of nodes
that are not members are as `avl_init` leaves them (`Spare`: without it an insert
would link a node that still points into the tree), and the types. `u` never
occurs in the model; that it is `Under` is `UnderOf`, shown by induction on the
number of nodes below.

Its preservation is that of the tree by `avl.cpp`, which the same module proves for
any tree, set of nodes and order:

| theorem | what it says |
|---|---|
| `AvlFixBalances` | `avl_fix` makes a tree sound that is so but for one node |
| `AvlDelBalances` | `avl_del` leaves the tree of the other nodes, sound and in order |
| `AvlOffsetFinds` | `avl_offset` finds the node `d` places away, or NULL if none is |

- *Rotations.* `rot_left` and `rot_right` are one operator by side (`Lift`); that
  they keep the shape and the order is `LiftShape` and `LiftSorted`. One of them, or
  two as `avl_fix_left` and `avl_fix_right` make them, put a subtree right and
  disturb nothing above it (`SingleRepairs`, `DoubleRepairs`, `Repaired`).
- *`avl_fix`.* The invariant of its loop is `FixHead`: every node is sound except
  the one the loop is at and its parent; that one's subtree had the height `o`
  before one child grew or shrank by one (`Due`), and its parent is sound if `o` is
  still taken for the height (`Awaits`). A turn either makes the tree sound or moves
  this up one level (`Passes`). The loop is no longer than the path to the root.
- *`avl_del`.* With one child or none, the node is taken out of its parent's link,
  and `FixHead` holds there. With two, the successor is taken out first, the tree is
  fixed from where it was, and then it takes the place of the node:
  every field is copied, so the tree is the same but for one name (`Renamed`).
- *Induction.* A loop reaches its last turn by induction on the number of turns,
  over a function from that number to the states allowed before it: `Iterates` and
  `LoopReaches` are proved from the least element of a set of numbers, since the
  library's induction rules are beyond the provers.

`zset_insert`, `zset_update` and `zset_delete` then keep `Kept`. `zset_update`
detaches a node while its old score is in the tree and links it under the new one;
`Less(score)`, the order that `ZComp` gives, is shown to be the lexicographic one
of `ZOrder` (`ByteOrder`, `ZCompOrder`), so it is total on names whatever prefixes
they share. The properties follow from `IInv` in every state.

`ImplementsSortedSet` also needs the order in which the pointers have the members
to be that of their scores: `TreeInOrder`, from `IInv` and from the node where two
members part (`Parting`), one being on its left and one on its right. Every step
then changes that order and the scores as a step of `SortedSet` does
(`StepRefines`).

The queries need the counts. `RankTurns` shows that what `zset_rank` has counted,
and the members before the position that are left below, always add up to the
rank (`RankCounts`); `CeilTurns` that no member at or after the position gets
lost; `WalkTurns` that the walk of `avl_offset` knows the distance from the start
to where it is and that the target is below, or above. `EmitTurns` has, turn by
turn, the page that `ZQUERY` answers, each name at the place after the last.

`EventLoopProofs` proves for any clients and requests, and any sizes of reads,
of sockets and of the descriptor table:

| theorem | property |
|---|---|
| `Invariant` | `IInv` |
| `TypeCorrect` | `TypeOK`: no connection buffers more than one read and a piece |
| `IntentionsHold` | `Intentions` |
| `RequestsServed` | `NoStall` |
| `EntriesStayLive` | `EntriesLive` |
| `RepliesKept` | `NoReplyLostAtEOF` |

Assumed: `BoundAssumption` (the sizes are positive) and `NullAssumption` (the
empty slot of `fd2conn` is not a connection). `EntriesLive` and `TypeOK` are part
of the invariant; it adds:

- `Waiting`: a connection that is not being handled is idle (it wants exactly one
  thing, has no complete request and is not to be closed), and what poll() said of
  it is still what it wants. Handlers of other entries run between poll() and its
  own, so this is what makes an old result usable.
- `Handling`: the flags of the connection being handled, step by step. An entry
  with POLLIN never has POLLOUT: poll() was asked for one, so after the read its
  handler cannot write twice.
- `GivenUp`: a connection is to be closed only for a client that is gone, with
  nothing owed, or for an over-long frame. So `RepliesKept` is left with two
  exceptions: that frame, and a process killed by its write to a client that went
  away with replies unread.
- `Admission`: a client waits to be accepted once and is not served meanwhile.
  Without it two descriptors could serve one client.
- `Turn`: where the loop is and the descriptor it is at agree.

It adds the order of what flows through the loop:

| theorem | property |
|---|---|
| `PiecesInOrder` | `Flow` |
| `Refinement` | `ServiceSpec` |
| `RepliesRead` | `RepliesInOrder` |

`Flow` says that what a client sent is, in order, the requests executed, then the
pieces in `incoming`, then those in the socket: so a request cut out of
`incoming` is the next one, and it was sent in full. The refinement maps `asked` to
the frames sent in full, `owed` to the replies in the client's socket followed by
those in `outgoing`, and `lost` to the clients whose connection is closed on
either side. The death of the process is the loss of all connections in one step.
Reading, polling and writing are stutters: a partial write moves replies from one
part of `owed` to the other. `RepliesRead` is shown of `Service`,
where replies read and owed are numbered without a gap, and carried over by the
refinement.

`PipelineProofs` proves for any queries and sizes that satisfy its assumptions:

| theorem | property |
|---|---|
| `Invariant` | `IInv` |
| `TypeCorrect` | `TypeOK`: bytes are read, served and written in order, and the server keeps less than one frame and one read of them |
| `NoDeadlock` | `NeverStuck` |

Assumed: `SizesAssumption` (positive sizes), `FramesAssumption` (a frame is a
header and at most `k_max_msg` bytes) and `FitsAssumption`: once the replies up to a
query are more than the client's side holds, the queries after it fit into the
server's side. The code does not enforce the last one: it is what the client
relies on, and `query_list` (`client_1.cpp:124`) satisfies it with kernel buffers
of the usual size. The invariant adds `ClientPhases` (nothing is read before
everything is sent), `Drained` (no complete request is left outside the loop that
serves them), `Intentions` (an open connection reads iff it owes nothing, writes
iff it does) and `Closing`. `NoDeadlock` is then arithmetic: a server that waits to
write has its side of the client full, so it owes replies past `CapOut`, and what
the client still has to send fits.

`BridgeProofs` proves for any commands, sizes of replies and pieces:

| theorem | property |
|---|---|
| `Invariant` | `IInv` |
| `TypeCorrect` | `TypeOK`: a listener that awaits the body of a known reply waits for no more than that has; one that misread a length may await any |
| `AnswersNotAhead` | `NeverAhead` |
| `AloneAnswersMatch` | `MatchedAlone` |

Assumed: `BridgeAssumption` (positive bounds, and a length in a header can be that of a
reply). The invariant adds:

- `Leaving`: the database's connection ends only after the page's, and once closed
  carries nothing.
- `Ordered`: replies on their way, and commands before the database, are in the
  order of the commands and none was not issued.
- `Readers`: a listener that has seen no header has its own reply still before it,
  so, replies being in order, the one it takes is not a later one.
- `Apart`: as long as no command has shared the socket, one command at most is under
  way, and is in one of the three states of `Single` (with the database, answered in
  full, partly read); once one has, no command that was alone is still waiting.

`ZOrderProofs` proves that the order of a sorted set is total on names and
scores, so that ranks differ, there are as many places as members, and a query
(`PageOfMembers`) answers members only, each at the place after the one before.
`LeaderboardProofs` uses it, and proves for any pages, players, points, limits
and number of buttons pressed and of timeouts:

| theorem | property |
|---|---|
| `Invariant` | `IInv` |
| `TypeCorrect` | `TypeOK` |
| `CountersNeverAhead` | `NeverOvercounted` |
| `PointsWereGiven` | `ScoresEarned` |
| `RefusalsHarmless` | `RefusedChangesNothing` |
| `TypesStay` | `TypeKept` |

Assumed: `NaNAssumption` and `NumbersAssumption` (what they are: numbers, or not),
`PlayerAssumption` (a name is a sequence of bytes) and `UserAssumption` (a user at
another client gives no points and counts no games; else the counts and scores
are his as well). The last two theorems need none of them: they hold for any store
and any command, and rest on two lemmas about `DoRequest`, `RefusedKeeps` and
`CommandChanges`. The others need more than the store: `Knows` says that the count a
page will write back was counted and that the scores it starts from were given,
and `Credible` the same of every reply still on its way to a page that gave up on
it, whichever command the page will take it for (`Late`). A counter may then be
read for the other one, and the 1 that ZADD answers for either: once a command was
sent before such a reply had come (`crossed`), a count is known to be no more than
both counted and one (`Most`, `Counts`), and `CountersNeverAhead` says no more than
that. Before, each counter is held to its own. All this stays true while other
pages write, because the ghosts only grow (`KnowsMore`, `CredibleMore`).
`PlainCommand` is the one lemma for the commands that neither count nor give
points, `CountWritten` and `ScoreWritten` those for the two that do.

`CliProofs` proves for any clients, any lines of words of bytes, any contents of
the store and any numbers of commands:

| theorem | property |
|---|---|
| `TypeCorrect` | `TypeOK` |
| `RepliesInStep` | `InStep` |
| `RepliesAreRead` | `RepliesReadBack` |
| `RequestsAreRead` | `RequestsReadBack` |
| `NobodyWaitsInVain` | `NoWaitInVain` |

Assumed: `LimitsAssumption` (both limits are below 2^32, the client's is not over the
server's, and a request within it cannot hold over `k_max_args` words: 4096 bytes,
32 MiB and 200,000 words in the code), `DblAssumption` (a double has eight bytes of
its own), `CliAssumption` (words, keys, values and names are bytes, and a word that
parses is a number whose bytes are known) and `NaNAssumption`.

- *Reading back.* A message is laid out as strings one after the other, each at the
  sum of the lengths before it (`Offsets`, `JoinedHas`, `HoldsParts`), and four bytes
  give back any number below 2^32 (`U32Value`). By induction on its turns, the loop
  of `parse_request` is after `k` turns where the k-th word ends, or past the data
  when that is cut (`WordsWalked`). So it reads the words (`RequestRead`), and a body
  that agrees with a request as far as it goes but has another length is refused
  (`RequestRefused`). For replies, `ScalarRead` has both decoders read the same value
  at a position and both agree where it ends; `ArrPrinted` and `ArrParsed` carry that
  along an array. Hence `ReplyRead`, for every reply of `Replies`. The page has of a
  value what JavaScript can hold (`ScalarInPage`): a number as it is, since
  those below 2^32 have zeros where 53 bits end (`NumberKept`), a string as it is
  when it is UTF-8. One that is not is replaced, and `RepliesAreRead` says so; where
  it ends comes from its length, so nothing after it is moved.
- *Replies.* That `do_request` answers one of those, and keeps keys, members and
  scores what they are, is `RunOK`, one lemma for each command. It uses the order of
  `ZOrder` for the numbers that ZRANK answers and the pages of ZQUERY. `CappedReply`
  is `end_response`: what is sent has a length that fits its header.
- *In step.* None of the five is inductive. `IInv` adds that a stream to the server
  is whole requests that were typed (`Stream`, the least set closed under putting a
  request in front: its first message is one of them, `StreamHead`, and one more may
  be sent, `StreamAppends`), and for each client that was refused nothing, where its
  one message is (`Stage`). Waiting for a header, it has its request with the server
  and nothing to read, or the whole reply to read and nothing with the server
  (`Asked`, `Replied`); in a body, exactly that body (`HalfRead`); at the prompt,
  nothing (`Settled`). A command that was not sent or a reply left unread breaks
  this for that client only: every other client's stage is about its own streams.
  `Stream` is a set of sequences of any length, so TLC checks the five properties
  and not `IInv`.

Only model-checked: everything temporal under fairness (`CallsReturn`,
`Answered`, `Finishes`, `CommandsAnswered`, `Released`), which the prover does not
do.

## 5. Not modelled

- Memory: an allocation does not fail, a freed node is one no structure names.
- `k_max_msg` and the buffers' byte sizes in `EventLoop`, where frames are pieces;
  `Pipeline` and `Cli` have them.
- More than one command of a page awaited at a time in `Leaderboard`, and replies
  that are cut there: `Bridge` shows what happens to both.
- The characters that stand for bytes that are not UTF-8, negative int64s, and the
  formatting of printf.
- JSON, and the wording of errors and of what is displayed.
- `avl.cpp`'s successor and predecessor, which nothing calls.
- The earlier versions of the key-value server: they are the present one with
  less in it, and the build does not use them. The exercises, which are not part of the
  program, the tests and the `ws` library.

Some hazards in `PROJECT.json` have no property, because the code as written does
what they fear and nothing in the repository promises otherwise; each has a note.
The model takes these steps:

- replies dropped with the connection of an over-long frame (`server_4.cpp:676`);
- the inert listeners of `bridge.js:190` (`inert` in `Bridge`), which nothing
  removes, so the code bounds them by the number of commands only;
- a counter that loses an update or is left behind (`web.html:754`, `web.html:750`);
- a command-line client that waits for the reply to a command it did not send, is
  out of step after a reply it left unread, or reads a word of an empty line
  (`client_3.cpp:60`, `:193`, `:242`).

The death of the server by SIGPIPE is in the list with `ServiceSpec`, which says
what it cannot do; that it loses replies is what `NoReplyLostAtEOF` and `Answered`
except.

## 6. Plan

Order of importance: the structures every command depends on, then the loop that
serves them, then the clients. All modules of it are done. What would add most
from here:

1. `Leaderboard` over `Bridge` rather than with replies of its own, so that
   replies are cut there too and two procedures of one page share the stream.
