----------------------------- MODULE EventLoop ------------------------------
(***************************************************************************)
(* The event loop of server_4.cpp, its connections, and the clients and    *)
(* sockets around it.                                                      *)
(*                                                                         *)
(* A client sends the frames of its Script in order, each as two pieces:   *)
(* the length header with the start of the body, and the rest.  Pieces are *)
(* numbered from 1 in the order sent, and a reply is the number of the     *)
(* frame it answers.  What a request does to the store is left to          *)
(* Commands; here executed only records that it ran.                       *)
(***************************************************************************)
EXTENDS Integers, Sequences, FiniteSets

CONSTANTS Client,
          Script,   \* Script[c][n]: the kind of the n-th frame of client c
          ReadMax,  \* pieces one read() takes at most: the 64 KiB buffer
          RecvBuf,  \* pieces a socket holds for the server to read
          SendBuf,  \* replies a socket holds for the client to read
          MaxFd,    \* descriptors the process may have open
          NULL

\* "ok"; "bad", a body parse_request refuses; "long", a length over k_max_msg.
Kind == {"ok", "bad", "long"}

ConnType == [client : Client, incoming : Seq(Nat), outgoing : Seq(Nat),
             want_read : BOOLEAN, want_write : BOOLEAN, want_close : BOOLEAN]

ASSUME ScriptAssumption == \A c \in Client : Script[c] \in Seq(Kind)
ASSUME BoundAssumption == /\ ReadMax \in Nat \ {0} /\ RecvBuf \in Nat \ {0}
                          /\ SendBuf \in Nat \ {0} /\ MaxFd \in Nat \ {0}
ASSUME NullAssumption == NULL \notin ConnType

Fd == 1 .. MaxFd

VARIABLES fd2conn,   \* the Conn of each descriptor, or NULL
          revents,   \* what the latest poll() said of descriptors not yet handled
          pc, cur,   \* where the loop is, and the descriptor it handles
          executed,  \* frames of each client that do_request ran
          backlog,   \* connected clients not yet accepted
          up,        \* a client's connection: "new", "open", "closed" by the server
          fin,       \* clients that send no more
          gone,      \* clients that have closed and do not read either
          recvq,     \* pieces a client's connection holds for the server
          sendq,     \* replies it holds for the client
          sent,      \* pieces the client has sent
          got        \* replies the client has read

server  == <<fd2conn, revents, pc, cur, executed>>
sockets == <<backlog, up, fin, gone, recvq, sendq>>
clients == <<sent, got>>
vars    == <<server, sockets, clients>>

Smaller(a, b) == IF a < b THEN a ELSE b
First(seq, n) == SubSeq(seq, 1, n)
Rest(seq, n)  == SubSeq(seq, n + 1, Len(seq))

Init ==
  /\ fd2conn = [fd \in Fd |-> NULL] /\ revents = [fd \in Fd |-> {}]
  /\ pc = "poll" /\ cur = 0 /\ executed = [c \in Client |-> <<>>]
  /\ backlog = <<>> /\ up = [c \in Client |-> "new"] /\ fin = {} /\ gone = {}
  /\ recvq = [c \in Client |-> <<>>] /\ sendq = [c \in Client |-> <<>>]
  /\ sent = [c \in Client |-> 0] /\ got = [c \in Client |-> <<>>]

-----------------------------------------------------------------------------
(* Requests in a connection's buffer, and the flags. *)

FrameOf(piece) == (piece + 1) \div 2

\* try_one_request on the incoming pieces of client c.
TooLong(c, in) == in # <<>> /\ Script[c][FrameOf(Head(in))] = "long"

Complete(c, in) == Len(in) >= 2 /\ ~TooLong(c, in)

AwaitWriteReadOn(conn) == [conn EXCEPT !.want_write = TRUE]

AwaitWrite(conn) == [conn EXCEPT !.want_read = FALSE, !.want_write = TRUE]

AwaitRead(conn) == [conn EXCEPT !.want_read = TRUE, !.want_write = FALSE]

-----------------------------------------------------------------------------
(* poll() and the order its results are handled in. *)

Live == {fd \in Fd : fd2conn[fd] # NULL}

\* POLLERR may be raised once the client is gone.
Readiness(fd) ==
  LET conn == fd2conn[fd]
      c    == conn.client
      in   == conn.want_read /\ (recvq[c] # <<>> \/ c \in fin)
      out  == conn.want_write /\ (Len(sendq[c]) < SendBuf \/ c \in gone)
      base == (IF in THEN {"POLLIN"} ELSE {}) \union (IF out THEN {"POLLOUT"} ELSE {})
  IN {base} \union (IF c \in gone THEN {base \union {"POLLERR"}} ELSE {})

\* The step an entry starts with.
StartOf(events) == IF "POLLIN" \in events THEN "read"
                   ELSE IF "POLLOUT" \in events THEN "write"
                   ELSE "close"

\* The step after its POLLIN.
AfterRead == IF "POLLOUT" \in revents[cur] THEN "write" ELSE "close"

\* Go on to the entry with the lowest descriptor of those left, or poll again.
Advance(left) ==
  \/ /\ \A fd \in Fd : left[fd] = {}
     /\ pc' = "poll" /\ cur' = 0
  \/ \E fd \in Fd : /\ left[fd] # {} /\ \A lower \in 1 .. fd - 1 : left[lower] = {}
                    /\ pc' = StartOf(left[fd]) /\ cur' = fd

\* poll() returns once something is ready.  The listener is handled first.
Poll ==
  /\ pc = "poll"
  /\ \E events \in [Fd -> SUBSET {"POLLIN", "POLLOUT", "POLLERR"}] :
       /\ \A fd \in Fd : IF fd \in Live THEN events[fd] \in Readiness(fd)
                                        ELSE events[fd] = {}
       /\ revents' = events
       /\ IF backlog # <<>> THEN pc' = "accept" /\ cur' = 0
          ELSE (\E fd \in Fd : events[fd] # {}) /\ Advance(events)
  /\ UNCHANGED <<fd2conn, executed, sockets, clients>>

Conn(c) == [client |-> c, incoming |-> <<>>, outgoing |-> <<>>,
            want_read |-> TRUE, want_write |-> FALSE, want_close |-> FALSE]

\* handle_accept: the lowest free descriptor, or an error when there is none.
Accept ==
  /\ pc = "accept"
  /\ \/ /\ Live = Fd
        /\ UNCHANGED <<fd2conn, backlog>>
     \/ \E fd \in Fd \ Live :
          /\ \A lower \in 1 .. fd - 1 : lower \in Live
          /\ fd2conn' = [fd2conn EXCEPT ![fd] = Conn(Head(backlog))]
          /\ backlog' = Tail(backlog)
  /\ Advance(revents)
  /\ UNCHANGED <<revents, executed, up, fin, gone, recvq, sendq, clients>>

-----------------------------------------------------------------------------
(* The handlers of the entry of descriptor cur. *)

This == fd2conn[cur]
Peer == This.client

Update(conn) == fd2conn' = [fd2conn EXCEPT ![cur] = conn]

\* handle_read, data: buffer it.
ReadData ==
  LET n == Smaller(ReadMax, Len(recvq[Peer]))
  IN /\ pc = "read" /\ recvq[Peer] # <<>>
     /\ Update([This EXCEPT !.incoming = @ \o First(recvq[Peer], n)])
     /\ recvq' = [recvq EXCEPT ![Peer] = Rest(@, n)]
     /\ pc' = "serve"
     /\ UNCHANGED <<revents, cur, executed, backlog, up, fin, gone, sendq, clients>>

\* handle_read, end of file (no data left), or an error from a client gone.
ReadEnd ==
  /\ pc = "read" /\ (Peer \in gone \/ (recvq[Peer] = <<>> /\ Peer \in fin))
  /\ Update([This EXCEPT !.want_close = TRUE])
  /\ pc' = AfterRead
  /\ UNCHANGED <<revents, cur, executed, sockets, clients>>

\* The request served is not taken out of incoming.
ServeOneKept ==
  LET frame == FrameOf(Head(This.incoming))
  IN /\ pc = "serve" /\ Complete(Peer, This.incoming)
     /\ Update([This EXCEPT !.outgoing = Append(@, frame)])
     /\ executed' = [executed EXCEPT ![Peer] = Append(@, frame)]
     /\ UNCHANGED <<revents, pc, cur, sockets, clients>>

\* Only the first of the requests received is served.
ServeOneOnly ==
  LET frame == FrameOf(Head(This.incoming))
  IN /\ pc = "serve" /\ Complete(Peer, This.incoming)
     /\ Update(AwaitWrite([This EXCEPT !.incoming = Rest(@, 2),
                                       !.outgoing = Append(@, frame)]))
     /\ executed' = [executed EXCEPT ![Peer] = Append(@, frame)]
     /\ pc' = "flush"
     /\ UNCHANGED <<revents, cur, sockets, clients>>

\* try_one_request on a complete request, good or bad: it is run, answered
\* and taken out of incoming, and the next one is tried.
ServeOne ==
  LET frame == FrameOf(Head(This.incoming))
  IN /\ pc = "serve" /\ Complete(Peer, This.incoming)
     /\ Update([This EXCEPT !.incoming = Rest(@, 2), !.outgoing = Append(@, frame)])
     /\ executed' = [executed EXCEPT ![Peer] = Append(@, frame)]
     /\ UNCHANGED <<revents, pc, cur, sockets, clients>>

\* try_one_request returns false.  When there is a reply, handle_read turns
\* to writing at once.
ServedAll ==
  LET conn == [This EXCEPT !.want_close = @ \/ TooLong(Peer, This.incoming)]
  IN /\ pc = "serve" /\ ~Complete(Peer, This.incoming)
     /\ IF conn.outgoing # <<>> THEN Update(AwaitWrite(conn)) /\ pc' = "flush"
                                ELSE Update(conn) /\ pc' = AfterRead
     /\ UNCHANGED <<revents, cur, executed, sockets, clients>>

\* The connection with what n written replies leave.
WrittenAll(conn, n) == AwaitRead([conn EXCEPT !.outgoing = <<>>])

WrittenStuck(conn, n) == [conn EXCEPT !.outgoing = Rest(@, n)]

Written(conn, n) ==
  LET rest == [conn EXCEPT !.outgoing = Rest(@, n)]
  IN IF rest.outgoing = <<>> THEN AwaitRead(rest) ELSE rest

\* Replies the socket takes from a write of len of them.
Takes(queue, len) == Smaller(SendBuf - Len(queue), len)

AfterWrite == pc' = IF pc = "flush" THEN AfterRead ELSE "close"

\* handle_write: what the socket takes; nothing is EAGAIN and changes nothing.
WriteData ==
  LET n == Takes(sendq[Peer], Len(This.outgoing))
  IN /\ pc \in {"flush", "write"} /\ Peer \notin gone
     /\ IF n = 0
          THEN UNCHANGED <<fd2conn, sendq>>
          ELSE /\ Update(Written(This, n))
               /\ sendq' = [sendq EXCEPT ![Peer] = @ \o First(This.outgoing, n)]
     /\ AfterWrite
     /\ UNCHANGED <<revents, cur, executed, backlog, up, fin, gone, recvq, clients>>

\* To a client gone a write fails, or takes what the socket takes for nobody.
WriteGone ==
  /\ pc \in {"flush", "write"} /\ Peer \in gone
  /\ \/ Update([This EXCEPT !.want_close = TRUE])
     \/ Update(Written(This, Takes(<<>>, Len(This.outgoing))))
  /\ AfterWrite
  /\ UNCHANGED <<revents, cur, executed, sockets, clients>>

\* Clients gone that left replies behind unread, written before they went or
\* after: their kernel has answered those with a reset.
Unread == {c \in gone :
             \E fd \in Live : /\ fd2conn[fd].client = c
                             /\ Len(got[c]) + Len(fd2conn[fd].outgoing) < Len(executed[c])}

\* A write after the reset raises SIGPIPE, for which there is no handler: the
\* process ends, and with it every connection, accepted or not.  What the
\* kernel holds for other clients may or may not reach them.
WriteKilled ==
  /\ pc \in {"flush", "write"} /\ Peer \in Unread
  /\ pc' = "dead" /\ cur' = 0
  /\ fd2conn' = [fd \in Fd |-> NULL] /\ revents' = [fd \in Fd |-> {}]
  /\ backlog' = <<>>
  /\ up' = [c \in Client |-> IF up[c] = "open" THEN "closed" ELSE up[c]]
  /\ \E cut \in SUBSET {c \in Client : up[c] # "new"} :
       sendq' = [c \in Client |-> IF c \in cut THEN <<>> ELSE sendq[c]]
  /\ UNCHANGED <<executed, fin, gone, recvq, clients>>

RemoveNot(fd) == fd2conn

Remove(fd) == [fd2conn EXCEPT ![fd] = NULL]

\* Closed for POLLERR or want_close, once its handlers have run.
CloseCheck ==
  /\ pc = "close"
  /\ IF "POLLERR" \in revents[cur] \/ This.want_close
       THEN /\ fd2conn' = Remove(cur)
            /\ up' = [up EXCEPT ![Peer] = "closed"]
       ELSE UNCHANGED <<fd2conn, up>>
  /\ revents' = [revents EXCEPT ![cur] = {}]
  /\ Advance(revents')
  /\ UNCHANGED <<executed, backlog, fin, gone, recvq, sendq, clients>>

Server == Poll \/ Accept \/ ReadData \/ ReadEnd \/ ServeOne \/ ServedAll
          \/ WriteData \/ WriteGone \/ WriteKilled \/ CloseCheck

-----------------------------------------------------------------------------
(* Clients: not part of the server, they may do anything a socket allows. *)

Connect(c) == /\ up[c] = "new" /\ pc # "dead"
              /\ up' = [up EXCEPT ![c] = "open"]
              /\ backlog' = Append(backlog, c)
              /\ UNCHANGED <<server, fin, gone, recvq, sendq, clients>>

Send(c) == /\ up[c] = "open" /\ c \notin fin
           /\ Len(recvq[c]) < RecvBuf /\ sent[c] < 2 * Len(Script[c])
           /\ sent' = [sent EXCEPT ![c] = @ + 1]
           /\ recvq' = [recvq EXCEPT ![c] = Append(@, sent[c] + 1)]
           /\ UNCHANGED <<server, backlog, up, fin, gone, sendq, got>>

Recv(c) == /\ sendq[c] # <<>> /\ c \notin gone
           /\ got' = [got EXCEPT ![c] = Append(@, Head(sendq[c]))]
           /\ sendq' = [sendq EXCEPT ![c] = Tail(@)]
           /\ UNCHANGED <<server, backlog, up, fin, gone, recvq, sent>>

\* shutdown(SHUT_WR), perhaps in the middle of a request.
Shutdown(c) == /\ up[c] = "open" /\ c \notin fin
               /\ fin' = fin \union {c}
               /\ UNCHANGED <<server, backlog, up, gone, recvq, sendq, clients>>

\* close(): what is on its way to the client is lost.
Quit(c) == /\ up[c] = "open" /\ c \notin gone
           /\ fin' = fin \union {c} /\ gone' = gone \union {c}
           /\ sendq' = [sendq EXCEPT ![c] = <<>>]
           /\ UNCHANGED <<server, backlog, up, recvq, clients>>

Clients == \E c \in Client : Connect(c) \/ Send(c) \/ Recv(c) \/ Shutdown(c) \/ Quit(c)

Next == Server \/ Clients

Spec == Init /\ [][Next]_vars

\* The server's thread runs, and a client that is there reads its replies.
FairSpec == Spec /\ WF_vars(Server) /\ \A c \in Client : WF_vars(Recv(c))

-----------------------------------------------------------------------------
(* Correctness. *)

Buffered(conn) == Len(conn.incoming) + 2 * Len(conn.outgoing) <= ReadMax + 1

\* Types, and the buffers of a connection, which nothing else limits: between
\* them incoming and outgoing never hold more than one read and the piece left
\* of the read before.  A connection that owes replies reads no more.
TypeOK ==
  /\ fd2conn \in [Fd -> ConnType \union {NULL}]
  /\ revents \in [Fd -> SUBSET {"POLLIN", "POLLOUT", "POLLERR"}]
  /\ pc \in {"poll", "accept", "read", "serve", "flush", "write", "close", "dead"}
  /\ cur \in 0 .. MaxFd
  /\ executed \in [Client -> Seq(Nat)]
  /\ backlog \in Seq(Client) /\ up \in [Client -> {"new", "open", "closed"}]
  /\ fin \subseteq Client /\ gone \subseteq fin
  /\ recvq \in [Client -> Seq(Nat)] /\ sendq \in [Client -> Seq(Nat)]
  /\ \A fd \in Live : Buffered(fd2conn[fd])
  /\ sent \in [Client -> Nat] /\ got \in [Client -> Seq(Nat)]

\* When the loop blocks in poll() a connection waits for exactly one thing:
\* to write while replies are left, to read otherwise.  So no connection is
\* forgotten, no second request is read while a reply is owed, and the asserts
\* of the loop and of handle_write hold when they are reached.
Intentions ==
  /\ pc = "poll" => \A fd \in Live :
       LET conn == fd2conn[fd]
       IN /\ conn.want_write = (conn.outgoing # <<>>)
          /\ conn.want_read # conn.want_write
  /\ pc = "read" => This.want_read
  /\ pc = "write" => This.want_write
  /\ pc \in {"flush", "write"} => This.outgoing # <<>>

\* When the loop blocks in poll() no complete request and no refused header
\* sits in a buffer: the client that sent it may never send another byte.
NoStall ==
  pc = "poll" => \A fd \in Live :
    LET conn == fd2conn[fd]
    IN ~Complete(conn.client, conn.incoming) /\ ~TooLong(conn.client, conn.incoming)

\* A poll result is used after other handlers ran, accepted and closed: its
\* descriptor still names an open connection (fd2conn is dereferenced with no
\* test), of a client no other descriptor serves.
EntriesLive ==
  /\ pc \notin {"poll", "accept", "dead"} => cur \in Live
  /\ \A fd \in Fd : revents[fd] # {} => fd \in Live
  /\ \A fd \in Live : up[fd2conn[fd].client] = "open"
  /\ \A fd, other \in Live :
        fd2conn[fd].client = fd2conn[other].client => fd = other

\* The replies of a connection that were not written yet.
Outgoing(c) ==
  IF \E fd \in Live : fd2conn[fd].client = c
    THEN fd2conn[CHOOSE fd \in Live : fd2conn[fd].client = c].outgoing
    ELSE <<>>

\* The service the loop gives each client: asked are its frames sent in full,
\* owed the replies it may still read, lost the clients that may miss some.
Asked == [c \in Client |-> sent[c] \div 2]

Owed == [c \in Client |-> IF c \in gone THEN <<>> ELSE sendq[c] \o Outgoing(c)]

Lost == gone \union {c \in Client : up[c] = "closed"}

S == INSTANCE Service WITH asked <- Asked, owed <- Owed, lost <- Lost

\* Requests are run once each, in the order sent, however they are cut into
\* pieces, and their replies reach the client in that order, none repeated
\* and none missing in between.
ServiceSpec == S!Spec

\* A client that ends its requests and still reads gets every reply: the
\* server takes its end of file only after writing what it owes.  Two things
\* break this, an over-long frame of its own, and a client that went away with
\* replies unread, whose next write ends the process.
NoReplyLostAtEOF ==
  [][\A fd \in Live :
       LET c == fd2conn[fd].client
       IN fd2conn'[fd] = NULL /\ c \notin gone
            => \/ fd2conn[fd].outgoing = <<>>
               \/ TooLong(c, fd2conn[fd].incoming)
               \/ pc' = "dead" /\ Unread # {}]_vars

\* Every request sent in full is answered, unless the client goes away or
\* the server dies of one that went away with replies unread.
Answered ==
  \A c \in Client : \A n \in DOMAIN Script[c] :
    (sent[c] >= 2 * n /\ \A m \in DOMAIN Script[c] : Script[c][m] # "long")
      ~> \/ c \in gone \/ n \in {got[c][i] : i \in DOMAIN got[c]}
         \/ pc = "dead" /\ \E other \in gone : Len(got[other]) < Len(executed[other])

\* What the "bad request" branch of try_one_request is for: a request that
\* parse_request refuses is not run.
BadRequestRefused ==
  \A c \in Client : \A i \in DOMAIN executed[c] : Script[c][executed[c][i]] # "bad"
=============================================================================
