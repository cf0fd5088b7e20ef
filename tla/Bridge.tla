------------------------------- MODULE Bridge -------------------------------
(***************************************************************************)
(* One connection of app/bridge.js: the page's commands go to the database *)
(* over one TCP connection, and every command adds a reader of its own to  *)
(* that socket's 'data' event.  Either connection may close, and takes the *)
(* other with it.                                                          *)
(*                                                                         *)
(* The database answers the commands in order (EventLoop).  A reply is a   *)
(* header piece and BodyPieces body pieces, and the stream of replies      *)
(* arrives cut anywhere: one 'data' event carries some pieces of it.       *)
(***************************************************************************)
EXTENDS Integers, Sequences, FiniteSets

CONSTANTS Commands,   \* the page issues the commands 1 .. Commands
          TooLong,    \* those whose packet would exceed 4096 bytes
          Window,     \* commands the page lets wait for an answer at a time
          TimesOut,   \* may an answer take longer than the page's 5 seconds
          BodyPieces,
          Longest     \* the largest length a header can hold, in pieces

ASSUME BridgeAssumption == {Commands, Window, BodyPieces} \subseteq Nat \ {0}
                           /\ Longest \in Nat /\ BodyPieces <= Longest
                           /\ TimesOut \in BOOLEAN

Command == 1 .. Commands
Garbage == Commands + 1   \* an answer read out of the middle of a reply
Refused == Commands + 2   \* the error of a command that is not sent
None    == 0

VARIABLES ws,        \* the page's connection: "open", "closed"
          link,      \* dbSocket: "connecting", "open", "ended" (by end()), "closed"
          issued,    \* commands the page has issued
          pending,   \* pendingCommands of the page
          toDb,      \* commands on their way to the database
          wire,      \* pieces of replies on their way back
          readers,   \* listeners of the 'data' event, each with its own state
          inert,     \* listeners left on the socket that do nothing any more
          answer,    \* what the page was answered to each command
          alone      \* commands that, like all before them, never shared the
                     \* socket; read by no action

conns  == <<ws, link>>
page   == <<issued, pending, answer, alone>>
socket == <<toDb, wire, readers, inert>>
vars   == <<conns, page, socket>>

\* A page has connected: dbSocket.connect is under way.
Init == /\ ws = "open" /\ link = "connecting"
        /\ issued = 0 /\ pending = {} /\ toDb = <<>> /\ wire = <<>>
        /\ readers = {} /\ inert = 0 /\ answer = [c \in Command |-> None]
        /\ alone = {}

-----------------------------------------------------------------------------
(* readResponse: a reader waits for a header (reply = None), then for the   *)
(* left pieces of that reply's body.                                        *)

Reader(c) == [cmd |-> c, reply |-> None, left |-> 0]

Header(c) == [reply |-> c, header |-> TRUE]
Body(c)   == [reply |-> c, header |-> FALSE]

Reply(c) == [i \in 1 .. BodyPieces + 1 |-> IF i = 1 THEN Header(c) ELSE Body(c)]

\* A reader that awaits a header takes whatever comes first for one.
Misread(r, chunk) == r.reply = None /\ ~Head(chunk).header

ReadSkipRest(r, chunk) ==
  IF r.reply = None
    THEN [r EXCEPT !.reply = Head(chunk).reply, !.left = BodyPieces]
    ELSE [r EXCEPT !.left = IF Len(chunk) < @ THEN @ - Len(chunk) ELSE 0]

ReadShort(r, chunk) ==
  LET after == ReadSkipRest(r, chunk)
  IN [after EXCEPT !.left = IF Len(chunk) < @ THEN @ - Len(chunk) ELSE 0]

ReadOverrun(r, chunk) ==
  IF r.reply = None
    THEN [r EXCEPT !.reply = Head(chunk).reply, !.left = BodyPieces - Len(chunk) + 1]
    ELSE [r EXCEPT !.left = @ - Len(chunk)]

\* The reader after a chunk; what follows the body it counts is dropped.
Read(r, chunk) ==
  LET start == IF r.reply = None
                 THEN [r EXCEPT !.reply = Head(chunk).reply, !.left = BodyPieces]
                 ELSE r
      here  == IF r.reply = None THEN Len(chunk) - 1 ELSE Len(chunk)
  IN [start EXCEPT !.left = IF here < @ THEN @ - here ELSE 0]

Finished(r) == r.reply # None /\ r.left = 0

KeptRearmed(rs) == {IF Finished(r) THEN Reader(r.cmd) ELSE r : r \in rs}

\* Finished readers remove themselves from the socket.
Kept(rs) == {r \in rs : ~Finished(r)}

-----------------------------------------------------------------------------
\* The page's sendCommand, and sendCommand of the bridge: the request goes
\* out, now or when dbSocket is connected, and its reader is added; a command
\* too long is refused at once.
Issue ==
  LET c == issued + 1
  IN /\ c \in Command /\ ws = "open" /\ Cardinality(pending) < Window
     /\ issued' = c
     /\ IF c \in TooLong
          THEN /\ answer' = [answer EXCEPT ![c] = Refused]
               /\ UNCHANGED <<pending, alone, toDb, readers>>
          ELSE /\ pending' = pending \union {c}
               /\ alone' = IF readers = {} /\ 1 .. issued \subseteq alone \union TooLong
                             THEN alone \union {c}
                             ELSE alone \ {r.cmd : r \in readers}
               /\ toDb' = Append(toDb, c)
               /\ readers' = readers \union {Reader(c)}
               /\ UNCHANGED answer
     /\ UNCHANGED <<conns, wire, inert>>

\* The database serves one command.
Serve == /\ link \in {"open", "ended"} /\ toDb # <<>>
         /\ toDb' = Tail(toDb)
         /\ wire' = wire \o Reply(Head(toDb))
         /\ UNCHANGED <<conns, page, readers, inert>>

\* A reader after a chunk.  One that takes body bytes for a length awaits a
\* body of whatever size they spell, and allocates it.
After(r, chunk, size) ==
  IF r \in DOMAIN size THEN [r EXCEPT !.reply = Garbage, !.left = size[r]]
                       ELSE Read(r, chunk)

\* What finished readers answer reaches the page while it is connected.
Answered(done) ==
  IF ws = "open"
    THEN /\ answer' = [c \in Command |->
                         IF \E r \in done : r.cmd = c
                           THEN (CHOOSE r \in done : r.cmd = c).reply
                           ELSE answer[c]]
         /\ pending' = pending \ {r.cmd : r \in done}
    ELSE UNCHANGED <<answer, pending>>

\* One 'data' event: every reader registered sees the same chunk.  A header
\* whose body is not complete adds a second listener and leaves the first.
Data ==
  \E n \in 1 .. Len(wire) :
    LET chunk  == SubSeq(wire, 1, n)
        misled == {r \in readers : Misread(r, chunk)}
    IN \E size \in [misled -> 0 .. Longest] :
         LET after == [r \in readers |-> After(r, chunk, size)]
             split == {r \in readers : r.reply = None /\ ~Finished(after[r])}
         IN /\ wire' = SubSeq(wire, n + 1, Len(wire))
            /\ readers' = Kept({after[r] : r \in readers})
            /\ inert' = inert + Cardinality(split)
            /\ Answered({after[r] : r \in {q \in readers : Finished(after[q])}})
            /\ UNCHANGED <<conns, issued, alone, toDb>>

\* The page gives up on a command; the bridge does not hear of it.
TimeOut(c) == /\ TimesOut /\ c \in pending
              /\ pending' = pending \ {c}
              /\ UNCHANGED <<conns, issued, answer, alone, socket>>

-----------------------------------------------------------------------------
(* Connecting and closing. *)

Connect == /\ link = "connecting"
           /\ link' = "open"
           /\ UNCHANGED <<ws, page, socket>>

\* The page is closed: dbSocket.end(), which sends what was written first.
PageClosesOnly == /\ ws = "open"
                  /\ ws' = "closed"
                  /\ UNCHANGED <<link, page, socket>>

PageCloses == /\ ws = "open"
              /\ ws' = "closed"
              /\ link' = "ended"
              /\ UNCHANGED <<page, socket>>

\* The database answers what it was sent, then closes its side.
DbCloses == /\ link = "ended" /\ toDb = <<>> /\ wire = <<>>
            /\ link' = "closed"
            /\ UNCHANGED <<ws, page, socket>>

\* It cannot be reached, fails or goes away: 'close', and the page's
\* connection is closed.  So they are when the bridge dies, of an uncaught
\* error: a misread length may be more than Buffer.alloc grants.
DbFails == /\ link # "closed"
           /\ link' = "closed" /\ ws' = "closed"
           /\ toDb' = <<>> /\ wire' = <<>>
           /\ UNCHANGED <<page, readers, inert>>

Next == \/ Issue \/ Serve \/ Data \/ \E c \in Command : TimeOut(c)
        \/ Connect \/ PageCloses \/ DbCloses \/ DbFails

Spec == Init /\ [][Next]_vars

\* The database serves what it received and the network delivers it; it is
\* reached unless it fails, and closes when the bridge has.
FairSpec == Spec /\ WF_vars(Serve) /\ WF_vars(Data)
                 /\ WF_vars(Connect) /\ WF_vars(DbCloses)

-----------------------------------------------------------------------------
(* Correctness. *)

\* Types; a listener that has its body in full is gone, and one that awaits
\* the body of a known reply waits for no more than that has.
TypeOK ==
  /\ ws \in {"open", "closed"} /\ link \in {"connecting", "open", "ended", "closed"}
  /\ issued \in 0 .. Commands /\ pending \subseteq 1 .. issued
  /\ toDb \in Seq(Command) /\ wire \in Seq([reply : Command, header : BOOLEAN])
  /\ readers \subseteq [cmd : 1 .. issued, reply : 0 .. Garbage, left : 0 .. Longest]
  /\ \A r \in readers : /\ r.reply = None <=> r.left = 0
                        /\ r.reply # Garbage => r.left <= BodyPieces
  /\ inert \in Nat /\ answer \in [Command -> 0 .. Refused] /\ alone \subseteq Command

\* The answer a command's callback gets is the database's reply to it.
MatchedReplies ==
  \A c \in Command \ TooLong : answer[c] \in {None, c}

\* As long as commands have the socket to themselves, one at a time, each is
\* answered with its own reply, however that arrives and whether the page
\* still waited for it or not.
MatchedAlone == \A c \in alone : answer[c] \in {None, c}

\* However many commands wait, an answer is never that of a later command:
\* a reader is on the socket before its own reply can be.
NeverAhead ==
  \A c \in Command \ TooLong : answer[c] \in {None, Garbage} \union 1 .. c

\* A command that keeps the socket to itself is answered, if the page stays.
CommandsAnswered ==
  \A c \in Command : issued >= c ~> \/ answer[c] # None \/ ws = "closed"
                                    \/ c \notin alone

\* A page that leaves does not leave a connection to the database behind,
\* whatever was under way (bridge.js:62).
Released == ws = "closed" ~> link = "closed"
=============================================================================
