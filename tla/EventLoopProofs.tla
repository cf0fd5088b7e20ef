-------------------------- MODULE EventLoopProofs ---------------------------
(* Proofs about EventLoop, for any clients and requests, and any sizes of   *)
(* the server's reads, of the sockets' buffers and of the descriptor table. *)
EXTENDS EventLoop, SequenceTheorems, TLAPS

(***************************************************************************)
(* The inductive invariant.                                                *)
(***************************************************************************)

\* A connection with nothing left to do until its socket is ready.
Idle(conn) ==
  /\ conn.want_write = (conn.outgoing # <<>>)
  /\ conn.want_read # conn.want_write
  /\ ~conn.want_close
  /\ ~Complete(conn.client, conn.incoming)
  /\ ~TooLong(conn.client, conn.incoming)

\* What poll() said of a connection is still what it wants.
Fresh(fd) ==
  /\ "POLLIN" \in revents[fd] => fd2conn[fd].want_read
  /\ "POLLOUT" \in revents[fd] => fd2conn[fd].want_write

\* Connections that are not being handled.
Waiting == \A fd \in Live : fd # cur => Idle(fd2conn[fd]) /\ Fresh(fd)

\* The connection being handled, by the step it is at.  No handler of an entry
\* with POLLIN leaves POLLOUT to be handled: poll() never reported both.
Handling ==
  /\ pc = "read" => /\ Idle(This) /\ This.want_read
                    /\ "POLLOUT" \notin revents[cur]
  /\ pc = "serve" => /\ This.want_read /\ ~This.want_write /\ ~This.want_close
                     /\ "POLLOUT" \notin revents[cur]
  /\ pc = "flush" => /\ This.want_write /\ ~This.want_read /\ This.outgoing # <<>>
                     /\ ~Complete(Peer, This.incoming)
                     /\ This.want_close = TooLong(Peer, This.incoming)
                     /\ "POLLOUT" \notin revents[cur]
  /\ pc = "write" => Idle(This) /\ This.want_write
  /\ pc = "close" => This.want_close \/ Idle(This)

\* A connection is given up on only when its client is gone, when no reply is
\* owed, or for an over-long frame.
GivenUp ==
  /\ \A fd \in Live : "POLLERR" \in revents[fd] => fd2conn[fd].client \in gone
  /\ pc = "close" /\ This.want_close
       => \/ Peer \in gone
          \/ This.outgoing = <<>>
          \/ TooLong(Peer, This.incoming)

\* Clients waiting to be accepted: each once, and not served yet.
Admission ==
  /\ \A i \in DOMAIN backlog : up[backlog[i]] = "open"
  /\ \A i, j \in DOMAIN backlog : backlog[i] = backlog[j] => i = j
  /\ \A i \in DOMAIN backlog : \A fd \in Live : fd2conn[fd].client # backlog[i]

Turn ==
  /\ pc \in {"poll", "accept", "dead"} <=> cur = 0
  /\ pc = "accept" => backlog # <<>>

\* A socket holds no more for its client than its buffer.
Room == \A c \in Client : Len(sendq[c]) <= SendBuf

IInv == /\ TypeOK /\ Room /\ EntriesLive /\ Turn
        /\ Waiting /\ Handling /\ GivenUp /\ Admission

-----------------------------------------------------------------------------
USE BoundAssumption, NullAssumption DEF Fd

(***************************************************************************)
(* The operators of the model.                                             *)
(***************************************************************************)

\* Cutting a sequence in two.
LEMMA Cut ==
  ASSUME NEW T, NEW seq \in Seq(T), NEW n \in 0 .. Len(seq)
  PROVE  /\ First(seq, n) \in Seq(T) /\ Len(First(seq, n)) = n
         /\ Rest(seq, n) \in Seq(T) /\ Len(Rest(seq, n)) = Len(seq) - n
<1>1. Len(seq) \in Nat /\ \A i \in 1 .. Len(seq) : seq[i] \in T
  BY LenProperties, ElementOfSeq
<1>2. \A i \in 1 .. n : seq[i] \in T
  BY <1>1
<1>3. \A i \in n + 1 .. Len(seq) : seq[i] \in T
  BY <1>1
<1>4. First(seq, n) \in Seq(T) /\ Len(First(seq, n)) = n
  BY <1>1, <1>2, SubSeqProperties DEF First
<1>5. Rest(seq, n) \in Seq(T) /\ Len(Rest(seq, n)) = Len(seq) - n
  BY <1>1, <1>3, SubSeqProperties DEF Rest
<1> QED
  BY <1>4, <1>5

LEMMA CutElements ==
  ASSUME NEW T, NEW seq \in Seq(T), NEW n \in 0 .. Len(seq)
  PROVE  /\ \A i \in 1 .. n : First(seq, n)[i] = seq[i]
         /\ \A i \in 1 .. Len(seq) - n : Rest(seq, n)[i] = seq[n + i]
         /\ First(seq, n) \o Rest(seq, n) = seq
<1>1. Len(seq) \in Nat /\ \A i \in 1 .. Len(seq) : seq[i] \in T
  BY LenProperties, ElementOfSeq
<1>2. \A i \in 1 .. n : seq[i] \in T
  BY <1>1
<1>3. \A i \in n + 1 .. Len(seq) : seq[i] \in T
  BY <1>1
<1>4. \A i \in 1 .. n : First(seq, n)[i] = seq[i]
  BY <1>1, <1>2, SubSeqProperties DEF First
<1>5. \A i \in 1 .. Len(seq) - n : Rest(seq, n)[i] = seq[n + i]
  BY <1>1, <1>3, SubSeqProperties DEF Rest
<1>6. First(seq, n) \o Rest(seq, n) = seq
  <2>1. 1 \in 1 .. Len(seq) + 1 /\ n \in 1 - 1 .. Len(seq) /\ Len(seq) \in n .. Len(seq)
    BY <1>1
  <2>2. SubSeq(seq, 1, n) \o SubSeq(seq, n + 1, Len(seq)) = SubSeq(seq, 1, Len(seq))
    BY <2>1, ConcatAdjacentSubSeq
  <2> QED
    BY <2>2, SubSeqFull DEF First, Rest
<1> QED
  BY <1>4, <1>5, <1>6

LEMMA SmallerOf ==
  ASSUME NEW m \in Nat, NEW n \in Nat
  PROVE  /\ Smaller(m, n) \in Nat /\ Smaller(m, n) <= m /\ Smaller(m, n) <= n
         /\ Smaller(m, n) \in 0 .. n
BY DEF Smaller

\* A request of which nothing was received is neither complete nor refused.
LEMMA NothingReceived ==
  ASSUME NEW c PROVE ~Complete(c, <<>>) /\ ~TooLong(c, <<>>)
BY DEF Complete, TooLong

LEMMA NewConn ==
  ASSUME NEW c \in Client
  PROVE  Conn(c) \in ConnType /\ Idle(Conn(c)) /\ Conn(c).client = c /\ Buffered(Conn(c))
<1>1. Conn(c) \in ConnType /\ Conn(c).client = c
  BY EmptySeq DEF Conn, ConnType
<1>2. /\ Conn(c).incoming = <<>> /\ Conn(c).outgoing = <<>>
      /\ Conn(c).want_read = TRUE /\ Conn(c).want_write = FALSE
      /\ Conn(c).want_close = FALSE
  BY DEF Conn
<1>3. ~Complete(Conn(c).client, Conn(c).incoming) /\ ~TooLong(Conn(c).client, Conn(c).incoming)
  BY <1>2, NothingReceived
<1>4. Buffered(Conn(c))
  <2>1. Len(<<>>) = 0
    BY EmptySeq
  <2> QED
    BY <1>2, <2>1 DEF Buffered
<1> QED
  BY <1>1, <1>2, <1>3, <1>4 DEF Idle

\* The loop goes on to an entry that is left, at its first handler, or polls.
LEMMA AdvanceTurns ==
  ASSUME NEW left \in [Fd -> SUBSET {"POLLIN", "POLLOUT", "POLLERR"}], Advance(left)
  PROVE  \/ pc' = "poll" /\ cur' = 0
         \/ /\ cur' \in Fd /\ left[cur'] # {} /\ pc' = StartOf(left[cur'])
            /\ pc' \in {"read", "write", "close"}
            /\ pc' = "read" => "POLLIN" \in left[cur']
            /\ pc' = "write" => "POLLOUT" \in left[cur'] /\ "POLLIN" \notin left[cur']
BY DEF Advance, StartOf

LEMMA ReadinessMeans ==
  ASSUME NEW fd \in Live, NEW events \in Readiness(fd)
  PROVE  /\ events \subseteq {"POLLIN", "POLLOUT", "POLLERR"}
         /\ "POLLIN" \in events => fd2conn[fd].want_read
         /\ "POLLOUT" \in events => fd2conn[fd].want_write
         /\ "POLLERR" \in events => fd2conn[fd].client \in gone
BY DEF Readiness

(***************************************************************************)
(* Handlers change the connection they handle and nothing else in fd2conn. *)
(***************************************************************************)

Handler == \/ ReadData \/ ReadEnd \/ ServeOne \/ ServedAll
           \/ WriteData \/ WriteGone

LEMMA LiveConn ==
  ASSUME TypeOK, NEW fd \in Live
  PROVE  fd \in Fd /\ fd2conn[fd] \in ConnType /\ fd2conn[fd].client \in Client
BY DEF TypeOK, Live, ConnType

LEMMA HandlerCur ==
  ASSUME IInv, Handler
  PROVE  /\ cur \in Live /\ cur # 0 /\ This \in ConnType /\ Peer \in Client
         /\ This.incoming \in Seq(Nat) /\ This.outgoing \in Seq(Nat)
         /\ recvq[Peer] \in Seq(Nat) /\ sendq[Peer] \in Seq(Nat)
         /\ Len(recvq[Peer]) \in Nat /\ Len(This.outgoing) \in Nat
         /\ Len(This.incoming) \in Nat /\ Len(sendq[Peer]) \in Nat
<1>1. pc \notin {"poll", "accept", "dead"}
  BY DEF Handler, ReadData, ReadEnd, ServeOne, ServedAll, WriteData, WriteGone
<1>2. cur \in Live /\ cur # 0
  BY <1>1 DEF IInv, EntriesLive, Turn
<1>3. This \in ConnType /\ Peer \in Client
  BY <1>2, LiveConn DEF IInv, This, Peer
<1>4. This.incoming \in Seq(Nat) /\ This.outgoing \in Seq(Nat)
  BY <1>3 DEF ConnType
<1>5. recvq[Peer] \in Seq(Nat) /\ sendq[Peer] \in Seq(Nat)
  BY <1>3 DEF IInv, TypeOK
<1> QED
  BY <1>2, <1>3, <1>4, <1>5, LenProperties

\* A step that replaces the connection being handled by conn.
Touched(conn) ==
  /\ conn \in ConnType /\ conn.client = Peer
  /\ fd2conn' \in [Fd -> ConnType \union {NULL}]
  /\ Live' = Live /\ fd2conn'[cur] = conn
  /\ \A fd \in Fd : fd # cur => fd2conn'[fd] = fd2conn[fd]

\* What a handler makes of the buffers of the connection.
Handled(in, out) == \E conn : Touched(conn) /\ conn.incoming = in /\ conn.outgoing = out

LEMMA UpdateTouches ==
  ASSUME TypeOK, cur \in Live, NEW conn \in ConnType, conn.client = Peer, Update(conn)
  PROVE  Touched(conn)
<1>1. cur \in Fd /\ fd2conn[cur] # NULL /\ conn # NULL
  BY DEF Live
<1>2. fd2conn \in [Fd -> ConnType \union {NULL}] /\ fd2conn' = [fd2conn EXCEPT ![cur] = conn]
  BY DEF TypeOK, Update
<1>3. /\ fd2conn' \in [Fd -> ConnType \union {NULL}] /\ fd2conn'[cur] = conn
      /\ \A fd \in Fd : fd # cur => fd2conn'[fd] = fd2conn[fd]
  BY <1>1, <1>2
<1>4. Live' = Live
  BY <1>1, <1>3 DEF Live
<1> QED
  BY <1>3, <1>4 DEF Touched

LEMMA NoTouch ==
  ASSUME TypeOK, cur \in Live, UNCHANGED fd2conn
  PROVE  Touched(This)
BY LiveConn DEF Touched, TypeOK, Live, This, Peer

\* The connection once its first n replies are written.
LEMMA WrittenConn ==
  ASSUME NEW conn \in ConnType, NEW n \in 1 .. Len(conn.outgoing)
  PROVE  /\ Written(conn, n) \in ConnType
         /\ Written(conn, n).client = conn.client
         /\ Written(conn, n).incoming = conn.incoming
         /\ Written(conn, n).outgoing = Rest(conn.outgoing, n)
         /\ Written(conn, n).want_close = conn.want_close
         /\ IF Rest(conn.outgoing, n) = <<>>
              THEN Written(conn, n).want_read = TRUE /\ Written(conn, n).want_write = FALSE
              ELSE /\ Written(conn, n).want_read = conn.want_read
                   /\ Written(conn, n).want_write = conn.want_write
<1>1. conn.outgoing \in Seq(Nat) /\ n \in 0 .. Len(conn.outgoing)
  BY LenProperties DEF ConnType
<1> DEFINE left == Rest(conn.outgoing, n)
           rest == [conn EXCEPT !.outgoing = left]
<1>2. left \in Seq(Nat)
  BY <1>1, Cut
<1>3. /\ rest \in ConnType /\ rest.client = conn.client /\ rest.incoming = conn.incoming
      /\ rest.outgoing = left /\ rest.want_close = conn.want_close
      /\ rest.want_read = conn.want_read /\ rest.want_write = conn.want_write
  BY <1>2 DEF ConnType
<1>4. Written(conn, n) = IF left = <<>> THEN AwaitRead(rest) ELSE rest
  <2>1. Rest(conn.outgoing, n) = left
    OBVIOUS
  <2> HIDE DEF left
  <2> QED
    BY <1>3, <2>1 DEF Written
<1> HIDE DEF rest, left
<1>5. /\ AwaitRead(rest) \in ConnType /\ AwaitRead(rest).client = conn.client
      /\ AwaitRead(rest).incoming = conn.incoming /\ AwaitRead(rest).outgoing = left
      /\ AwaitRead(rest).want_close = conn.want_close
      /\ AwaitRead(rest).want_read = TRUE /\ AwaitRead(rest).want_write = FALSE
  BY <1>3 DEF AwaitRead, ConnType
<1>6. left = Rest(conn.outgoing, n)
  BY DEF left
<1> QED
  BY <1>3, <1>4, <1>5, <1>6

\* What every handler keeps.
LEMMA HandlerKeeps ==
  ASSUME IInv, cur \in Live, cur # 0, NEW conn, Touched(conn), Buffered(conn),
         UNCHANGED <<revents, cur, backlog, up, fin, gone>>,
         pc' \in {"read", "serve", "flush", "write", "close"}
  PROVE  /\ EntriesLive' /\ Turn' /\ Waiting' /\ Admission'
         /\ \A fd \in Live' : Buffered(fd2conn'[fd])
         /\ \A fd \in Live' : "POLLERR" \in revents'[fd] => fd2conn'[fd].client \in gone'
         /\ This' = conn /\ Peer' = Peer
<1>1. This' = conn /\ Peer' = Peer
  BY DEF Touched, This, Peer
<1>2. /\ Live' = Live
      /\ \A fd \in Live : fd2conn'[fd].client = fd2conn[fd].client
      /\ \A fd \in Live : fd # cur => fd2conn'[fd] = fd2conn[fd]
  BY DEF Touched, Live, This, Peer
<1>3. EntriesLive'
  BY <1>2 DEF IInv, EntriesLive
<1>4. Turn'
  BY DEF Turn
<1>5. Waiting'
  BY <1>2 DEF IInv, Waiting, Idle, Fresh
<1>6. Admission'
  BY <1>2 DEF IInv, Admission
<1>7. \A fd \in Live' : "POLLERR" \in revents'[fd] => fd2conn'[fd].client \in gone'
  BY <1>2 DEF IInv, GivenUp
<1>8. \A fd \in Live' : Buffered(fd2conn'[fd])
  BY <1>2 DEF IInv, TypeOK, Touched
<1> QED
  BY <1>1, <1>3, <1>4, <1>5, <1>6, <1>7, <1>8

LEMMA BufferedSum ==
  ASSUME NEW conn, NEW in \in Nat, NEW out \in Nat,
         Len(conn.incoming) = in, Len(conn.outgoing) = out
  PROVE  Buffered(conn) <=> in + 2 * out <= ReadMax + 1
BY DEF Buffered

\* A connection whose buffers hold no more than they did.
LEMMA NoMoreBuffered ==
  ASSUME IInv, cur \in Live, NEW conn, conn.incoming = This.incoming,
         \/ conn.outgoing = This.outgoing
         \/ \E n \in 0 .. Len(This.outgoing) : conn.outgoing = Rest(This.outgoing, n)
  PROVE  Buffered(conn)
<1>1. This \in ConnType /\ Buffered(This)
  BY LiveConn DEF IInv, TypeOK, This
<1>2. /\ This.incoming \in Seq(Nat) /\ This.outgoing \in Seq(Nat)
      /\ Len(This.incoming) \in Nat /\ Len(This.outgoing) \in Nat
  BY <1>1, LenProperties DEF ConnType
<1>3. CASE conn.outgoing = This.outgoing
  BY <1>1, <1>3 DEF Buffered
<1>4. ASSUME NEW n \in 0 .. Len(This.outgoing), conn.outgoing = Rest(This.outgoing, n)
      PROVE  Buffered(conn)
  <2> DEFINE in == Len(This.incoming)
             out == Len(This.outgoing)
  <2>1. Len(conn.outgoing) = out - n /\ Len(conn.incoming) = in
    <3>1. Len(Rest(This.outgoing, n)) = Len(This.outgoing) - n
      BY <1>2, <1>4, Cut
    <3> QED
      BY <1>4, <3>1
  <2>2. in \in Nat /\ out \in Nat /\ n \in Nat /\ out - n \in Nat
    BY <1>2, <1>4
  <2>3. in + 2 * out <= ReadMax + 1
    BY <1>1, <2>2, BufferedSum
  <2> HIDE DEF in, out
  <2>4. in + 2 * (out - n) <= ReadMax + 1
    BY <2>2, <2>3
  <2> QED
    BY <2>1, <2>2, <2>4, BufferedSum
<1> QED
  BY <1>3, <1>4

\* Of an idle connection that reads, at most one piece is buffered.
LEMMA IdleReading ==
  ASSUME NEW conn \in ConnType, Idle(conn), conn.want_read
  PROVE  Len(conn.incoming) \in 0 .. 1 /\ conn.outgoing = <<>> /\ Len(conn.outgoing) = 0
<1>1. conn.incoming \in Seq(Nat) /\ Len(conn.incoming) \in Nat
  BY LenProperties DEF ConnType
<1>2. conn.outgoing = <<>>
  BY DEF Idle
<1>3. Len(conn.outgoing) = 0
  BY <1>2, EmptySeq
<1>4. ~(Len(conn.incoming) >= 2)
  BY DEF Idle, Complete
<1>5. Len(conn.incoming) \in 0 .. 1
  <2> DEFINE in == Len(conn.incoming)
  <2>1. in \in Nat /\ ~(in >= 2)
    BY <1>1, <1>4
  <2> HIDE DEF in
  <2>2. in \in 0 .. 1
    BY <2>1
  <2> QED
    BY <2>2 DEF in
<1> QED
  BY <1>2, <1>3, <1>5

(***************************************************************************)
(* The invariant is kept by each handler.                                  *)
(***************************************************************************)

LEMMA ReadDataStep ==
  ASSUME IInv, ReadData
  PROVE  /\ IInv'
         /\ Handled(This.incoming \o First(recvq[Peer], Smaller(ReadMax, Len(recvq[Peer]))),
                    This.outgoing)
<1> DEFINE n == Smaller(ReadMax, Len(recvq[Peer]))
           in == This.incoming \o First(recvq[Peer], n)
           conn == [This EXCEPT !.incoming = in]
<1>1. /\ cur \in Live /\ cur # 0 /\ This \in ConnType /\ Peer \in Client
      /\ recvq[Peer] \in Seq(Nat) /\ Len(recvq[Peer]) \in Nat
      /\ This.incoming \in Seq(Nat)
  BY HandlerCur DEF Handler
<1>2. n \in 0 .. Len(recvq[Peer]) /\ First(recvq[Peer], n) \in Seq(Nat)
      /\ Rest(recvq[Peer], n) \in Seq(Nat)
  <2>1. n \in 0 .. Len(recvq[Peer])
    BY <1>1, SmallerOf
  <2> HIDE DEF n
  <2>2. First(recvq[Peer], n) \in Seq(Nat)
    BY <1>1, <2>1, Cut
  <2>3. Rest(recvq[Peer], n) \in Seq(Nat)
    BY <1>1, <2>1, Cut
  <2> QED
    BY <2>1, <2>2, <2>3
<1>3. in \in Seq(Nat)
  BY <1>1, <1>2, ConcatProperties
<1>4. conn \in ConnType /\ conn.client = Peer /\ conn.want_read = This.want_read
      /\ conn.want_write = This.want_write /\ conn.want_close = This.want_close
      /\ conn.incoming = in /\ conn.outgoing = This.outgoing
  BY <1>1, <1>3 DEF ConnType, Peer
<1>5. /\ pc = "read" /\ pc' = "serve" /\ Update(conn)
      /\ recvq' = [recvq EXCEPT ![Peer] = Rest(@, n)]
      /\ UNCHANGED <<revents, cur, executed, backlog, up, fin, gone, sendq, clients>>
  BY DEF ReadData
<1>10. Len(in) = Len(This.incoming) + n /\ n <= ReadMax
  <2>1. n \in 0 .. Len(recvq[Peer]) /\ n <= ReadMax
    BY <1>1, SmallerOf
  <2> HIDE DEF n
  <2>2. First(recvq[Peer], n) \in Seq(Nat) /\ Len(First(recvq[Peer], n)) = n
    BY <1>1, <2>1, Cut
  <2> QED
    BY <1>1, <2>1, <2>2, ConcatProperties
<1> HIDE DEF n, in, conn
<1>11. Buffered(conn)
  <2>1. Len(This.incoming) \in 0 .. 1 /\ This.outgoing = <<>> /\ Len(This.outgoing) = 0
    BY <1>1, <1>5, IdleReading DEF IInv, Handling
  <2>2. Len(conn.incoming) = Len(This.incoming) + n /\ Len(conn.outgoing) = 0
    BY <1>4, <1>10, <2>1
  <2> DEFINE had == Len(This.incoming)
  <2>3. had \in 0 .. 1 /\ n \in Nat /\ n <= ReadMax
    BY <1>1, <1>2, <1>10, <2>1
  <2>4. Len(conn.incoming) = had + n
    BY <2>2
  <2> HIDE DEF had
  <2>5. had + n \in Nat /\ had + n + 2 * 0 <= ReadMax + 1
    BY <2>3
  <2> QED
    BY <2>2, <2>4, <2>5, BufferedSum
<1>6. Touched(conn)
  BY <1>1, <1>4, <1>5, UpdateTouches DEF IInv
<1>7. /\ EntriesLive' /\ Turn' /\ Waiting' /\ Admission'
      /\ \A fd \in Live' : "POLLERR" \in revents'[fd] => fd2conn'[fd].client \in gone'
      /\ \A fd \in Live' : Buffered(fd2conn'[fd])
      /\ This' = conn /\ Peer' = Peer
  BY <1>1, <1>5, <1>6, <1>11, HandlerKeeps
<1>8. Handling' /\ GivenUp'
  <2>1. Idle(This) /\ This.want_read /\ "POLLOUT" \notin revents[cur]
    BY <1>5 DEF IInv, Handling
  <2> QED
    BY <1>4, <1>5, <1>7, <2>1 DEF Handling, GivenUp, Idle
<1>9. TypeOK'
  <2>1. recvq' \in [Client -> Seq(Nat)]
    BY <1>1, <1>2, <1>5 DEF IInv, TypeOK
  <2> QED
    BY <1>5, <1>6, <1>7, <2>1 DEF IInv, TypeOK, Touched, clients
<1>12. Room'
  BY <1>5 DEF IInv, Room
<1> QED
  BY <1>4, <1>6, <1>7, <1>8, <1>9, <1>12 DEF IInv, Handled, in, n

LEMMA ReadEndStep ==
  ASSUME IInv, ReadEnd
  PROVE  IInv' /\ Handled(This.incoming, This.outgoing)
<1> DEFINE conn == [This EXCEPT !.want_close = TRUE]
<1>1. cur \in Live /\ cur # 0 /\ This \in ConnType /\ Peer \in Client
  BY HandlerCur DEF Handler
<1>2. /\ pc = "read" /\ pc' = AfterRead /\ Update(conn)
      /\ UNCHANGED <<revents, cur, executed, sockets, clients>>
  BY DEF ReadEnd
<1>3. Idle(This) /\ This.want_read /\ "POLLOUT" \notin revents[cur]
  BY <1>2 DEF IInv, Handling
<1>4. pc' = "close" /\ This.outgoing = <<>>
  BY <1>2, <1>3 DEF AfterRead, Idle
<1>5. conn \in ConnType /\ conn.client = Peer /\ conn.outgoing = <<>> /\ conn.want_close
      /\ conn.incoming = This.incoming
  BY <1>1, <1>4 DEF ConnType, Peer
<1> HIDE DEF conn
<1>6. Touched(conn) /\ Buffered(conn)
  BY <1>1, <1>2, <1>4, <1>5, UpdateTouches, NoMoreBuffered DEF IInv
<1>7. /\ EntriesLive' /\ Turn' /\ Waiting' /\ Admission'
      /\ \A fd \in Live' : "POLLERR" \in revents'[fd] => fd2conn'[fd].client \in gone'
      /\ \A fd \in Live' : Buffered(fd2conn'[fd])
      /\ This' = conn /\ Peer' = Peer
  BY <1>1, <1>2, <1>4, <1>6, HandlerKeeps DEF sockets
<1>8. Handling' /\ GivenUp'
  BY <1>4, <1>5, <1>7 DEF Handling, GivenUp
<1>9. TypeOK' /\ Room'
  BY <1>2, <1>4, <1>6, <1>7 DEF IInv, TypeOK, Room, Touched, sockets, clients
<1> QED
  BY <1>4, <1>5, <1>6, <1>7, <1>8, <1>9 DEF IInv, Handled

\* The oldest complete request, and what is left without it.
LEMMA CompleteRequest ==
  ASSUME NEW c, NEW in \in Seq(Nat), Complete(c, in)
  PROVE  /\ in # <<>> /\ Len(in) \in Nat /\ Len(in) >= 2
         /\ FrameOf(Head(in)) \in Nat /\ Head(in) = in[1] /\ ~TooLong(c, in)
         /\ Rest(in, 2) \in Seq(Nat) /\ Len(Rest(in, 2)) = Len(in) - 2
         /\ \A i \in 1 .. Len(in) - 2 : Rest(in, 2)[i] = in[2 + i]
<1>1. Len(in) \in Nat /\ Len(in) >= 2 /\ ~TooLong(c, in)
  BY LenProperties DEF Complete
<1>2. in # <<>> /\ Head(in) = in[1] /\ Head(in) \in Nat /\ 2 \in 0 .. Len(in)
  BY <1>1, EmptySeq, HeadTailProperties
<1>3. FrameOf(Head(in)) \in Nat
  BY <1>2 DEF FrameOf
<1> QED
  BY <1>1, <1>2, <1>3, Cut, CutElements

LEMMA ServeOneStep ==
  ASSUME IInv, ServeOne
  PROVE  /\ IInv'
         /\ Handled(Rest(This.incoming, 2),
                    Append(This.outgoing, FrameOf(Head(This.incoming))))
<1> DEFINE frame == FrameOf(Head(This.incoming))
           in == Rest(This.incoming, 2)
           out == Append(This.outgoing, frame)
           conn == [This EXCEPT !.incoming = in, !.outgoing = out]
<1>1. /\ cur \in Live /\ cur # 0 /\ This \in ConnType /\ Peer \in Client
      /\ This.incoming \in Seq(Nat) /\ This.outgoing \in Seq(Nat)
  BY HandlerCur DEF Handler
<1>2. /\ pc = "serve" /\ Update(conn) /\ executed' = [executed EXCEPT ![Peer] = Append(@, frame)]
      /\ UNCHANGED <<revents, pc, cur, sockets, clients>>
      /\ Complete(Peer, This.incoming)
  BY DEF ServeOne
<1>3. /\ frame \in Nat /\ in \in Seq(Nat)
      /\ Len(This.incoming) \in Nat /\ Len(in) = Len(This.incoming) - 2
  BY <1>1, <1>2, CompleteRequest
<1> HIDE DEF frame, in
<1>4. /\ out \in Seq(Nat)
      /\ Len(This.outgoing) \in Nat /\ Len(out) = Len(This.outgoing) + 1
  BY <1>1, <1>3, AppendProperties, LenProperties
<1>5. conn \in ConnType /\ conn.client = Peer /\ conn.want_read = This.want_read
      /\ conn.want_write = This.want_write /\ conn.want_close = This.want_close
      /\ conn.incoming = in /\ conn.outgoing = out
  BY <1>1, <1>3, <1>4 DEF ConnType, Peer
<1> HIDE DEF out, conn
<1>6. Touched(conn) /\ Buffered(conn)
  <2>1. Buffered(This)
    BY <1>1 DEF IInv, TypeOK, This
  <2>2. Buffered(conn)
    <3> DEFINE i == Len(This.incoming)
               o == Len(This.outgoing)
    <3>1. i \in Nat /\ o \in Nat /\ i + 2 * o <= ReadMax + 1
      BY <1>3, <1>4, <2>1, BufferedSum
    <3>2. /\ Len(conn.incoming) = i - 2 /\ Len(conn.outgoing) = o + 1
          /\ i - 2 \in Nat
      BY <1>1, <1>2, <1>3, <1>4, <1>5, CompleteRequest
    <3> HIDE DEF i, o
    <3>3. o + 1 \in Nat /\ (i - 2) + 2 * (o + 1) <= ReadMax + 1
      BY <3>1
    <3> QED
      BY <3>2, <3>3, BufferedSum
  <2> QED
    BY <1>1, <1>2, <1>5, <2>2, UpdateTouches DEF IInv
<1>7. /\ EntriesLive' /\ Turn' /\ Waiting' /\ Admission'
      /\ \A fd \in Live' : "POLLERR" \in revents'[fd] => fd2conn'[fd].client \in gone'
      /\ \A fd \in Live' : Buffered(fd2conn'[fd])
      /\ This' = conn /\ Peer' = Peer
  BY <1>1, <1>2, <1>6, HandlerKeeps DEF sockets
<1>8. Handling' /\ GivenUp'
  BY <1>2, <1>5, <1>7 DEF IInv, Handling, GivenUp
<1>9. TypeOK'
  <2>1. executed' \in [Client -> Seq(Nat)]
    <3>1. Append(executed[Peer], frame) \in Seq(Nat)
      BY <1>1, <1>3, AppendProperties DEF IInv, TypeOK
    <3> QED
      BY <1>1, <1>2, <3>1 DEF IInv, TypeOK
  <2> QED
    BY <1>2, <1>6, <1>7, <2>1 DEF IInv, TypeOK, Touched, sockets, clients
<1>10. Room'
  BY <1>2 DEF IInv, Room, sockets
<1> QED
  BY <1>5, <1>6, <1>7, <1>8, <1>9, <1>10 DEF IInv, Handled, in, out, frame

LEMMA ServedAllStep ==
  ASSUME IInv, ServedAll
  PROVE  IInv' /\ Handled(This.incoming, This.outgoing)
<1> DEFINE conn == [This EXCEPT !.want_close = @ \/ TooLong(Peer, This.incoming)]
<1>1. cur \in Live /\ cur # 0 /\ This \in ConnType /\ Peer \in Client
  BY HandlerCur DEF Handler
<1>2. /\ pc = "serve" /\ ~Complete(Peer, This.incoming)
      /\ IF conn.outgoing # <<>> THEN Update(AwaitWrite(conn)) /\ pc' = "flush"
                                 ELSE Update(conn) /\ pc' = AfterRead
      /\ UNCHANGED <<revents, cur, executed, sockets, clients>>
  BY DEF ServedAll
<1>3. This.want_read /\ ~This.want_write /\ ~This.want_close /\ "POLLOUT" \notin revents[cur]
  BY <1>2 DEF IInv, Handling
<1>4. /\ conn \in ConnType /\ conn.client = Peer /\ conn.incoming = This.incoming
      /\ conn.outgoing = This.outgoing /\ conn.want_close = TooLong(Peer, This.incoming)
      /\ conn.want_read /\ ~conn.want_write
  <2>1. TooLong(Peer, This.incoming) \in BOOLEAN
    BY DEF TooLong
  <2> QED
    BY <1>1, <1>3, <2>1 DEF ConnType, Peer
<1> HIDE DEF conn
<1>5. ASSUME NEW new \in ConnType, Update(new), new.client = Peer, pc' \in {"flush", "close"},
             new.incoming = This.incoming, new.outgoing = This.outgoing
      PROVE  /\ EntriesLive' /\ Turn' /\ Waiting' /\ Admission' /\ TypeOK' /\ Room'
             /\ \A fd \in Live' : "POLLERR" \in revents'[fd] => fd2conn'[fd].client \in gone'
             /\ This' = new /\ Peer' = Peer /\ Touched(new)
  <2>1. Touched(new) /\ Buffered(new)
    BY <1>1, <1>5, UpdateTouches, NoMoreBuffered DEF IInv
  <2>2. /\ EntriesLive' /\ Turn' /\ Waiting' /\ Admission'
        /\ \A fd \in Live' : "POLLERR" \in revents'[fd] => fd2conn'[fd].client \in gone'
        /\ \A fd \in Live' : Buffered(fd2conn'[fd])
        /\ This' = new /\ Peer' = Peer
    BY <1>1, <1>2, <1>5, <2>1, HandlerKeeps DEF sockets
  <2>3. TypeOK' /\ Room'
    BY <1>2, <1>5, <2>1, <2>2 DEF IInv, TypeOK, Room, Touched, sockets, clients
  <2> QED
    BY <2>1, <2>2, <2>3
<1>6. CASE conn.outgoing # <<>>
  <2>1. /\ AwaitWrite(conn) \in ConnType /\ AwaitWrite(conn).client = Peer
        /\ AwaitWrite(conn).incoming = This.incoming
        /\ AwaitWrite(conn).outgoing = This.outgoing /\ AwaitWrite(conn).outgoing # <<>>
        /\ AwaitWrite(conn).want_close = TooLong(Peer, This.incoming)
        /\ AwaitWrite(conn).want_write /\ ~AwaitWrite(conn).want_read
    BY <1>4, <1>6 DEF AwaitWrite, ConnType
  <2>2. Update(AwaitWrite(conn)) /\ pc' = "flush"
    BY <1>2, <1>6
  <2>3. /\ EntriesLive' /\ Turn' /\ Waiting' /\ Admission' /\ TypeOK' /\ Room'
        /\ \A fd \in Live' : "POLLERR" \in revents'[fd] => fd2conn'[fd].client \in gone'
        /\ This' = AwaitWrite(conn) /\ Peer' = Peer /\ Touched(AwaitWrite(conn))
    BY <1>5, <2>1, <2>2
  <2>4. Handling' /\ GivenUp'
    BY <1>2, <1>3, <2>1, <2>2, <2>3 DEF Handling, GivenUp
  <2> QED
    BY <2>1, <2>3, <2>4 DEF IInv, Handled
<1>7. CASE conn.outgoing = <<>>
  <2>1. Update(conn) /\ pc' = "close"
    BY <1>2, <1>3, <1>7 DEF AfterRead
  <2>2. /\ EntriesLive' /\ Turn' /\ Waiting' /\ Admission' /\ TypeOK' /\ Room'
        /\ \A fd \in Live' : "POLLERR" \in revents'[fd] => fd2conn'[fd].client \in gone'
        /\ This' = conn /\ Peer' = Peer /\ Touched(conn)
    BY <1>4, <1>5, <2>1
  <2>3. conn.want_close \/ Idle(conn)
    <3>1. conn.want_write = FALSE /\ conn.want_read = TRUE /\ conn.want_close \in BOOLEAN
      BY <1>4 DEF ConnType
    <3>2. CASE ~TooLong(Peer, This.incoming)
      <4>1. ~TooLong(conn.client, conn.incoming) /\ ~Complete(conn.client, conn.incoming)
        BY <1>2, <1>4, <3>2
      <4>2. conn.want_close = FALSE
        BY <1>4, <3>1, <3>2
      <4> QED
        BY <1>7, <3>1, <4>1, <4>2 DEF Idle
    <3> QED
      BY <1>4, <3>2
  <2>4. Handling' /\ GivenUp'
    BY <1>7, <2>1, <2>2, <2>3 DEF Handling, GivenUp
  <2> QED
    BY <1>4, <2>2, <2>4 DEF IInv, Handled
<1> QED
  BY <1>6, <1>7

\* handle_write is reached with replies to write and nothing more to serve.
LEMMA Writing ==
  ASSUME IInv, pc \in {"flush", "write"}, AfterWrite, This \in ConnType
  PROVE  /\ pc' = "close"
         /\ This.want_write = TRUE /\ This.want_read = FALSE /\ This.outgoing # <<>>
         /\ ~Complete(Peer, This.incoming)
         /\ This.want_close = TooLong(Peer, This.incoming)
<1>1. This.want_write \in BOOLEAN /\ This.want_read \in BOOLEAN /\ This.want_close \in BOOLEAN
  BY DEF ConnType
<1>2. CASE pc = "flush"
  BY <1>1, <1>2 DEF IInv, Handling, AfterWrite, AfterRead
<1>3. CASE pc = "write"
  <2>1. Idle(This) /\ This.want_write
    BY <1>3 DEF IInv, Handling
  <2>2. ~TooLong(Peer, This.incoming) /\ This.want_close = FALSE
    BY <1>1, <2>1 DEF Idle, Peer
  <2>3. TooLong(Peer, This.incoming) = FALSE
    BY <2>2 DEF TooLong
  <2> QED
    BY <1>1, <1>3, <2>1, <2>2, <2>3 DEF Idle, Peer, AfterWrite
<1> QED
  BY <1>2, <1>3

\* A connection some of whose replies are written is idle, or to be closed.
LEMMA WrittenReady ==
  ASSUME NEW conn \in ConnType, NEW n \in 1 .. Len(conn.outgoing),
         conn.want_write = TRUE, conn.want_read = FALSE,
         ~Complete(conn.client, conn.incoming),
         conn.want_close = TooLong(conn.client, conn.incoming)
  PROVE  /\ Written(conn, n).want_close \/ Idle(Written(conn, n))
         /\ Written(conn, n).want_close => TooLong(conn.client, conn.incoming)
<1> DEFINE new == Written(conn, n)
<1>1. /\ new.client = conn.client /\ new.incoming = conn.incoming
      /\ new.outgoing = Rest(conn.outgoing, n) /\ new.want_close = conn.want_close
      /\ IF Rest(conn.outgoing, n) = <<>>
           THEN new.want_read = TRUE /\ new.want_write = FALSE
           ELSE new.want_read = conn.want_read /\ new.want_write = conn.want_write
  BY WrittenConn
<1> HIDE DEF new
<1>2. CASE TooLong(conn.client, conn.incoming)
  <2>1. new.want_close
    BY <1>1, <1>2
  <2> QED
    BY <1>2, <2>1 DEF new
<1>3. CASE ~TooLong(conn.client, conn.incoming)
  <2>1. ~new.want_close /\ ~TooLong(new.client, new.incoming) /\ ~Complete(new.client, new.incoming)
    BY <1>1, <1>3
  <2>2. new.want_write = (new.outgoing # <<>>) /\ new.want_read # new.want_write
    BY <1>1
  <2>3. Idle(new)
    BY <2>1, <2>2 DEF Idle
  <2> QED
    BY <2>1, <2>3 DEF new
<1> QED
  BY <1>1, <1>2, <1>3 DEF new

\* A write leaves the connection to the check for closing.
LEMMA WriteStep ==
  ASSUME IInv, pc \in {"flush", "write"}, AfterWrite, cur \in Live, cur # 0,
         NEW conn, Touched(conn), conn.incoming = This.incoming,
         \/ conn = This
         \/ \E n \in 1 .. Len(This.outgoing) : conn = Written(This, n)
         \/ conn.want_close /\ Peer \in gone,
         Buffered(conn),
         UNCHANGED <<revents, cur, executed, backlog, up, fin, gone, recvq, clients>>,
         sendq' \in [Client -> Seq(Nat)],
         Room'
  PROVE  IInv'
<1>1. This \in ConnType /\ Peer = This.client
  BY LiveConn DEF IInv, This, Peer
<1>2. /\ pc' = "close"
      /\ This.want_write = TRUE /\ This.want_read = FALSE /\ This.outgoing # <<>>
      /\ ~Complete(Peer, This.incoming) /\ This.want_close = TooLong(Peer, This.incoming)
  BY <1>1, Writing
<1>3. /\ EntriesLive' /\ Turn' /\ Waiting' /\ Admission'
      /\ \A fd \in Live' : "POLLERR" \in revents'[fd] => fd2conn'[fd].client \in gone'
      /\ \A fd \in Live' : Buffered(fd2conn'[fd])
      /\ This' = conn /\ Peer' = Peer
  BY <1>2, HandlerKeeps
<1>4. TypeOK'
  BY <1>2, <1>3 DEF IInv, TypeOK, Touched, clients
<1>5. /\ conn.want_close \/ Idle(conn)
      /\ conn.want_close => Peer \in gone \/ TooLong(Peer, This.incoming)
  <2>1. CASE conn = This
    <3>1. CASE TooLong(Peer, This.incoming)
      BY <1>2, <2>1, <3>1
    <3>2. CASE ~TooLong(Peer, This.incoming)
      BY <1>1, <1>2, <2>1, <3>2 DEF Idle
    <3> QED
      BY <3>1, <3>2
  <2>2. CASE \E n \in 1 .. Len(This.outgoing) : conn = Written(This, n)
    BY <1>1, <1>2, <2>2, WrittenReady
  <2>3. CASE conn.want_close /\ Peer \in gone
    BY <2>3
  <2> QED
    BY <2>1, <2>2, <2>3
<1>6. Handling' /\ GivenUp'
  BY <1>2, <1>3, <1>5 DEF Handling, GivenUp
<1> QED
  BY <1>3, <1>4, <1>6 DEF IInv

LEMMA WriteDataStep ==
  ASSUME IInv, WriteData
  PROVE  /\ IInv'
         /\ \E n \in 0 .. Len(This.outgoing) :
              /\ Handled(This.incoming, Rest(This.outgoing, n))
              /\ sendq' = [sendq EXCEPT ![Peer] = @ \o First(This.outgoing, n)]
<1> DEFINE n == Takes(sendq[Peer], Len(This.outgoing))
<1>1. /\ cur \in Live /\ cur # 0 /\ This \in ConnType /\ Peer \in Client
      /\ This.outgoing \in Seq(Nat) /\ sendq[Peer] \in Seq(Nat)
      /\ Len(This.outgoing) \in Nat /\ Len(sendq[Peer]) \in Nat
  BY HandlerCur DEF Handler
<1>2. sendq \in [Client -> Seq(Nat)] /\ \A c \in Client : Len(sendq[c]) <= SendBuf
  BY DEF IInv, TypeOK, Room
<1>3. n \in 0 .. Len(This.outgoing) /\ n <= SendBuf - Len(sendq[Peer])
  <2>1. SendBuf - Len(sendq[Peer]) \in Nat
    BY <1>1, <1>2
  <2> QED
    BY <1>1, <2>1, SmallerOf DEF Takes
<1>4. /\ pc \in {"flush", "write"} /\ AfterWrite
      /\ IF n = 0
           THEN UNCHANGED <<fd2conn, sendq>>
           ELSE /\ Update(Written(This, n))
                /\ sendq' = [sendq EXCEPT ![Peer] = sendq[Peer] \o First(This.outgoing, n)]
      /\ UNCHANGED <<revents, cur, executed, backlog, up, fin, gone, recvq, clients>>
  BY DEF WriteData
<1> HIDE DEF n
<1>5. CASE n = 0
  <2>1. Touched(This) /\ Buffered(This) /\ Room'
    BY <1>1, <1>4, <1>5, NoTouch, NoMoreBuffered DEF IInv, Room
  <2> QED
    <3>1. IInv'
      BY <1>1, <1>2, <1>4, <1>5, <2>1, WriteStep
    <3>2. First(This.outgoing, 0) = <<>> /\ Rest(This.outgoing, 0) = This.outgoing
      BY <1>1, SubSeqEmpty, SubSeqFull DEF First, Rest
    <3>3. sendq' = [sendq EXCEPT ![Peer] = sendq[Peer] \o <<>>]
      BY <1>1, <1>2, <1>4, <1>5, ConcatEmptySeq
    <3>4. Handled(This.incoming, Rest(This.outgoing, 0)) /\ 0 \in 0 .. Len(This.outgoing)
      BY <1>1, <2>1, <3>2 DEF Handled
    <3> QED
      BY <3>1, <3>2, <3>3, <3>4
<1>6. CASE n # 0
  <2>1. n \in 1 .. Len(This.outgoing)
    BY <1>1, <1>3, <1>6
  <2>2. /\ Written(This, n) \in ConnType /\ Written(This, n).client = Peer
        /\ Written(This, n).incoming = This.incoming
        /\ Written(This, n).outgoing = Rest(This.outgoing, n)
    BY <1>1, <2>1, WrittenConn DEF Peer
  <2>3. Touched(Written(This, n)) /\ Buffered(Written(This, n))
    BY <1>1, <1>3, <1>4, <1>6, <2>2, UpdateTouches, NoMoreBuffered DEF IInv
  <2>4. /\ First(This.outgoing, n) \in Seq(Nat) /\ Len(First(This.outgoing, n)) = n
    BY <1>1, <1>3, Cut
  <2>5. /\ sendq[Peer] \o First(This.outgoing, n) \in Seq(Nat)
        /\ Len(sendq[Peer] \o First(This.outgoing, n)) = Len(sendq[Peer]) + n
    BY <1>1, <2>4, ConcatProperties
  <2>6. Len(sendq[Peer] \o First(This.outgoing, n)) <= SendBuf
    BY <1>1, <1>3, <2>1, <2>5
  <2>7. sendq' \in [Client -> Seq(Nat)] /\ Room'
    BY <1>1, <1>2, <1>4, <1>6, <2>5, <2>6 DEF Room
  <2> QED
    <3>1. IInv'
      BY <1>1, <1>4, <2>1, <2>2, <2>3, <2>7, WriteStep
    <3>2. Handled(This.incoming, Rest(This.outgoing, n))
      BY <2>2, <2>3 DEF Handled
    <3> QED
      BY <1>3, <1>4, <1>6, <3>1, <3>2
<1> QED
  BY <1>5, <1>6

LEMMA WriteGoneStep ==
  ASSUME IInv, WriteGone
  PROVE  IInv' /\ \E out : Handled(This.incoming, out)
<1>1. /\ cur \in Live /\ cur # 0 /\ This \in ConnType /\ Peer \in Client
      /\ This.outgoing \in Seq(Nat) /\ Len(This.outgoing) \in Nat
  BY HandlerCur DEF Handler
<1>2. /\ pc \in {"flush", "write"} /\ AfterWrite /\ Peer \in gone
      /\ UNCHANGED <<revents, cur, executed, sockets, clients>>
  BY DEF WriteGone
<1>3. sendq' \in [Client -> Seq(Nat)] /\ Room'
  BY <1>2 DEF IInv, TypeOK, Room, sockets
<1>4. CASE Update([This EXCEPT !.want_close = TRUE])
  <2> DEFINE conn == [This EXCEPT !.want_close = TRUE]
  <2>1. /\ conn \in ConnType /\ conn.client = Peer /\ conn.want_close
        /\ conn.incoming = This.incoming /\ conn.outgoing = This.outgoing
    BY <1>1 DEF ConnType, Peer
  <2>2. Update(conn)
    BY <1>4
  <2> HIDE DEF conn
  <2>3. Touched(conn) /\ Buffered(conn)
    BY <1>1, <2>1, <2>2, UpdateTouches, NoMoreBuffered DEF IInv
  <2> QED
    BY <1>1, <1>2, <1>3, <2>1, <2>3, WriteStep DEF sockets, Handled
<1>5. CASE Update(Written(This, Takes(<<>>, Len(This.outgoing))))
  <2> DEFINE n == Takes(<<>>, Len(This.outgoing))
  <2>1. This.outgoing # <<>>
    BY <1>1, <1>2, Writing
  <2>2. n \in 1 .. Len(This.outgoing)
    <3>1. Len(<<>>) = 0 /\ Len(This.outgoing) >= 1
      BY <1>1, <2>1, EmptySeq
    <3> QED
      BY <1>1, <3>1 DEF Takes, Smaller
  <2>3. Update(Written(This, n))
    BY <1>5
  <2> HIDE DEF n
  <2>4. /\ Written(This, n) \in ConnType /\ Written(This, n).client = Peer
        /\ Written(This, n).incoming = This.incoming
        /\ Written(This, n).outgoing = Rest(This.outgoing, n)
    BY <1>1, <2>2, WrittenConn DEF Peer
  <2>6. n \in 0 .. Len(This.outgoing)
    BY <1>1, <2>2
  <2>5. Touched(Written(This, n)) /\ Buffered(Written(This, n))
    BY <1>1, <2>3, <2>4, <2>6, UpdateTouches, NoMoreBuffered DEF IInv
  <2> QED
    BY <1>1, <1>2, <1>3, <2>2, <2>4, <2>5, WriteStep DEF sockets, Handled
<1> QED
  BY <1>4, <1>5 DEF WriteGone

\* A write that raises SIGPIPE leaves no connection and no client to accept.
LEMMA WriteKilledStep == ASSUME IInv, WriteKilled PROVE IInv' /\ Live' = {}
<1>1. /\ pc' = "dead" /\ cur' = 0 /\ backlog' = <<>>
      /\ fd2conn' = [fd \in Fd |-> NULL] /\ revents' = [fd \in Fd |-> {}]
      /\ up' = [c \in Client |-> IF up[c] = "open" THEN "closed" ELSE up[c]]
      /\ UNCHANGED <<executed, fin, gone, recvq, clients>>
  BY DEF WriteKilled
<1>2. PICK cut \in SUBSET {c \in Client : up[c] # "new"} :
        sendq' = [c \in Client |-> IF c \in cut THEN <<>> ELSE sendq[c]]
  BY DEF WriteKilled
<1>3. Live' = {}
  BY <1>1 DEF Live
<1>4. \A T : <<>> \in Seq(T) /\ Len(<<>>) = 0
  BY EmptySeq
<1>5. sendq' \in [Client -> Seq(Nat)] /\ Room'
  BY <1>2, <1>4 DEF IInv, TypeOK, Room
<1>6. TypeOK'
  <2>1. /\ fd2conn' \in [Fd -> ConnType \union {NULL}]
        /\ revents' \in [Fd -> SUBSET {"POLLIN", "POLLOUT", "POLLERR"}]
        /\ up' \in [Client -> {"new", "open", "closed"}] /\ backlog' \in Seq(Client)
    BY <1>1, <1>4 DEF IInv, TypeOK
  <2> QED
    BY <1>1, <1>3, <1>5, <2>1 DEF IInv, TypeOK, clients
<1>7. DOMAIN backlog' = {}
  BY <1>1
<1>8. EntriesLive' /\ Turn' /\ Waiting' /\ Handling' /\ GivenUp' /\ Admission'
  BY <1>1, <1>3, <1>7 DEF EntriesLive, Turn, Waiting, Handling, GivenUp, Admission
<1> QED
  BY <1>3, <1>5, <1>6, <1>8 DEF IInv

(***************************************************************************)
(* The invariant is kept between handlers, and by the clients.             *)
(***************************************************************************)

\* The loop turns to an entry only when every connection is idle.
LEMMA Dispatch ==
  ASSUME revents' \in [Fd -> SUBSET {"POLLIN", "POLLOUT", "POLLERR"}],
         Advance(revents'),
         \A fd \in Fd : revents'[fd] # {} => fd \in Live',
         \A fd \in Live' : fd2conn'[fd] \in ConnType /\ Idle(fd2conn'[fd]) /\ Fresh(fd)'
  PROVE  /\ pc' \in {"poll", "read", "write", "close"} /\ cur' \in 0 .. MaxFd
         /\ pc' # "poll" => cur' \in Live'
         /\ Turn' /\ Waiting' /\ Handling'
         /\ pc' = "close" => ~fd2conn'[cur'].want_close
<1>1. \/ pc' = "poll" /\ cur' = 0
      \/ /\ cur' \in Fd /\ revents'[cur'] # {}
         /\ pc' \in {"read", "write", "close"}
         /\ pc' = "read" => "POLLIN" \in revents'[cur']
         /\ pc' = "write" => "POLLOUT" \in revents'[cur'] /\ "POLLIN" \notin revents'[cur']
  BY AdvanceTurns
<1>2. Waiting'
  BY DEF Waiting
<1>3. CASE pc' = "poll" /\ cur' = 0
  BY <1>2, <1>3 DEF Turn, Handling
<1>4. CASE /\ cur' \in Fd /\ revents'[cur'] # {}
           /\ pc' \in {"read", "write", "close"}
           /\ pc' = "read" => "POLLIN" \in revents'[cur']
           /\ pc' = "write" => "POLLOUT" \in revents'[cur'] /\ "POLLIN" \notin revents'[cur']
  <2>1. cur' \in Live' /\ This' = fd2conn'[cur'] /\ This' \in ConnType /\ Idle(This)' /\ Fresh(cur)'
    BY <1>4 DEF This
  <2>2. /\ "POLLIN" \in revents'[cur'] => This'.want_read
        /\ "POLLOUT" \in revents'[cur'] => This'.want_write
    BY <2>1 DEF Fresh
  <2>3. This'.want_read # This'.want_write /\ ~This'.want_close
        /\ This'.want_read \in BOOLEAN /\ This'.want_write \in BOOLEAN
    BY <2>1 DEF Idle, ConnType
  <2>4. Handling'
    BY <1>4, <2>1, <2>2, <2>3 DEF Handling
  <2>5. Turn'
    BY <1>4 DEF Turn
  <2> QED
    BY <1>2, <1>4, <2>1, <2>3, <2>4, <2>5
<1> QED
  BY <1>1, <1>3, <1>4

LEMMA PollStep == ASSUME IInv, Poll PROVE IInv'
<1>1. PICK events \in [Fd -> SUBSET {"POLLIN", "POLLOUT", "POLLERR"}] :
        /\ \A fd \in Fd : IF fd \in Live THEN events[fd] \in Readiness(fd)
                                         ELSE events[fd] = {}
        /\ revents' = events
        /\ IF backlog # <<>> THEN pc' = "accept" /\ cur' = 0
           ELSE (\E fd \in Fd : events[fd] # {}) /\ Advance(events)
  BY DEF Poll
<1>2. pc = "poll" /\ cur = 0 /\ UNCHANGED <<fd2conn, executed, sockets, clients>>
  BY DEF Poll, IInv, Turn
<1>3. /\ Live' = Live /\ Live \subseteq Fd
      /\ \A fd \in Live' : Buffered(fd2conn'[fd])
  BY <1>2 DEF Live, IInv, TypeOK
<1>4. \A fd \in Fd : revents'[fd] # {} => fd \in Live'
  BY <1>1, <1>3
<1>5. \A fd \in Live' : /\ fd2conn'[fd] \in ConnType /\ Idle(fd2conn'[fd]) /\ Fresh(fd)'
                        /\ "POLLERR" \in revents'[fd] => fd2conn'[fd].client \in gone'
  <2> TAKE fd \in Live'
  <2>1. fd \in Live /\ fd \in Fd /\ fd # cur /\ fd2conn'[fd] = fd2conn[fd] /\ gone' = gone
    BY <1>2, <1>3 DEF sockets
  <2>2. fd2conn[fd] \in ConnType /\ Idle(fd2conn[fd])
    BY <2>1, LiveConn DEF IInv, Waiting
  <2>3. revents'[fd] \in Readiness(fd)
    BY <1>1, <2>1
  <2>4. /\ "POLLIN" \in revents'[fd] => fd2conn[fd].want_read
        /\ "POLLOUT" \in revents'[fd] => fd2conn[fd].want_write
        /\ "POLLERR" \in revents'[fd] => fd2conn[fd].client \in gone
    BY <2>1, <2>3, ReadinessMeans
  <2> QED
    BY <2>1, <2>2, <2>4 DEF Fresh
<1>6. EntriesLive' /\ Admission' /\ TypeOK'
      /\ Turn' /\ Waiting' /\ Handling' /\ (pc' = "close" => ~fd2conn'[cur'].want_close)
  <2>1. Admission'
    BY <1>2, <1>3 DEF IInv, Admission, sockets
  <2>2. /\ \A fd \in Live' : up'[fd2conn'[fd].client] = "open"
        /\ \A fd, other \in Live' :
             fd2conn'[fd].client = fd2conn'[other].client => fd = other
    BY <1>2, <1>3 DEF IInv, EntriesLive, sockets
  <2>3. CASE backlog # <<>>
    <3>1. pc' = "accept" /\ cur' = 0 /\ backlog' = backlog
      BY <1>1, <1>2, <2>3 DEF sockets
    <3>2. TypeOK'
      BY <1>1, <1>2, <1>3, <3>1 DEF IInv, TypeOK, sockets, clients
    <3>3. Turn' /\ Waiting' /\ Handling'
      BY <1>5, <2>3, <3>1 DEF Turn, Waiting, Handling
    <3>4. EntriesLive'
      BY <1>4, <2>2, <3>1 DEF EntriesLive
    <3> QED
      BY <2>1, <3>1, <3>2, <3>3, <3>4
  <2>4. CASE backlog = <<>>
    <3>1. Advance(revents') /\ revents' \in [Fd -> SUBSET {"POLLIN", "POLLOUT", "POLLERR"}]
      BY <1>1, <2>4
    <3>2. /\ pc' \in {"poll", "read", "write", "close"} /\ cur' \in 0 .. MaxFd
          /\ pc' # "poll" => cur' \in Live'
          /\ Turn' /\ Waiting' /\ Handling'
          /\ pc' = "close" => ~fd2conn'[cur'].want_close
      BY <1>4, <1>5, <3>1, Dispatch
    <3>3. TypeOK'
      BY <1>2, <1>3, <3>1, <3>2 DEF IInv, TypeOK, sockets, clients
    <3>4. EntriesLive'
      BY <1>4, <2>2, <3>2 DEF EntriesLive
    <3> QED
      BY <2>1, <3>2, <3>3, <3>4
  <2> QED
    BY <2>3, <2>4
<1>7. GivenUp'
  BY <1>5, <1>6 DEF GivenUp, This
<1>8. Room'
  BY <1>2 DEF IInv, Room, sockets
<1> QED
  BY <1>6, <1>7, <1>8 DEF IInv

\* Where the loop turns to an entry after accepting or closing a connection.
LEMMA NextEntry ==
  ASSUME revents' \in [Fd -> SUBSET {"POLLIN", "POLLOUT", "POLLERR"}],
         Advance(revents'),
         fd2conn' \in [Fd -> ConnType \union {NULL}],
         \A fd \in Fd : revents'[fd] # {} => fd \in Live',
         \A fd \in Live' : Idle(fd2conn'[fd]) /\ Fresh(fd)',
         \A fd \in Live' : "POLLERR" \in revents'[fd] => fd2conn'[fd].client \in gone',
         \A fd \in Live' : up'[fd2conn'[fd].client] = "open",
         \A fd, other \in Live' :
           fd2conn'[fd].client = fd2conn'[other].client => fd = other
  PROVE  /\ pc' \in {"poll", "read", "write", "close"} /\ cur' \in 0 .. MaxFd
         /\ EntriesLive' /\ Turn' /\ Waiting' /\ Handling' /\ GivenUp'
<1>1. \A fd \in Live' : fd2conn'[fd] \in ConnType /\ Idle(fd2conn'[fd]) /\ Fresh(fd)'
  BY DEF Live
<1>2. /\ pc' \in {"poll", "read", "write", "close"} /\ cur' \in 0 .. MaxFd
      /\ pc' # "poll" => cur' \in Live'
      /\ Turn' /\ Waiting' /\ Handling'
      /\ pc' = "close" => ~fd2conn'[cur'].want_close
  BY <1>1, Dispatch
<1>3. EntriesLive'
  BY <1>2 DEF EntriesLive
<1>4. GivenUp'
  BY <1>2 DEF GivenUp, This
<1> QED
  BY <1>2, <1>3, <1>4

\* Between entries every connection is waiting.
LEMMA AllWaiting ==
  ASSUME IInv, cur = 0
  PROVE  \A fd \in Live : /\ fd \in Fd /\ fd2conn[fd] \in ConnType
                          /\ Idle(fd2conn[fd]) /\ Fresh(fd)
BY LiveConn DEF IInv, Waiting

LEMMA AcceptStep == ASSUME IInv, Accept PROVE IInv'
<1>1. /\ pc = "accept" /\ cur = 0 /\ backlog # <<>> /\ Advance(revents')
      /\ UNCHANGED <<revents, executed, up, fin, gone, recvq, sendq, clients>>
  BY DEF IInv, Turn, Accept, Advance
<1>2. /\ fd2conn \in [Fd -> ConnType \union {NULL}] /\ backlog \in Seq(Client)
      /\ revents' \in [Fd -> SUBSET {"POLLIN", "POLLOUT", "POLLERR"}]
  BY <1>1 DEF IInv, TypeOK
<1>3. \A fd \in Live : /\ fd \in Fd /\ fd2conn[fd] \in ConnType
                       /\ Idle(fd2conn[fd]) /\ Fresh(fd)
  BY <1>1, AllWaiting
<1>4. /\ \A fd \in Fd : revents[fd] # {} => fd \in Live
      /\ \A fd \in Live : up[fd2conn[fd].client] = "open"
      /\ \A fd \in Live : "POLLERR" \in revents[fd] => fd2conn[fd].client \in gone
      /\ \A fd, other \in Live :
           fd2conn[fd].client = fd2conn[other].client => fd = other
  BY DEF IInv, EntriesLive, GivenUp
<1>7. Room' /\ \A fd \in Live : Buffered(fd2conn[fd])
  BY <1>1 DEF IInv, TypeOK, Room
<1>5. CASE UNCHANGED <<fd2conn, backlog>>
  <2>1. Live' = Live /\ \A fd \in Live' : Buffered(fd2conn'[fd])
    BY <1>5, <1>7 DEF Live
  <2>2. \A fd \in Live' : Idle(fd2conn'[fd]) /\ Fresh(fd)'
    BY <1>1, <1>3, <1>5, <2>1 DEF Fresh
  <2>3. /\ pc' \in {"poll", "read", "write", "close"} /\ cur' \in 0 .. MaxFd
        /\ EntriesLive' /\ Turn' /\ Waiting' /\ Handling' /\ GivenUp'
    BY <1>1, <1>2, <1>4, <1>5, <2>1, <2>2, NextEntry
  <2>4. TypeOK'
    BY <1>1, <1>5, <2>1, <2>3 DEF IInv, TypeOK, clients
  <2>5. Admission'
    BY <1>1, <1>5, <2>1 DEF IInv, Admission
  <2> QED
    BY <1>7, <2>3, <2>4, <2>5 DEF IInv
<1>6. ASSUME NEW new \in Fd \ Live,
             fd2conn' = [fd2conn EXCEPT ![new] = Conn(Head(backlog))],
             backlog' = Tail(backlog)
      PROVE  IInv'
  <2> DEFINE c == Head(backlog)
  <2>1. /\ c \in Client /\ c = backlog[1] /\ 1 \in DOMAIN backlog
        /\ backlog' \in Seq(Client)
        /\ \A i \in DOMAIN backlog' : i + 1 \in DOMAIN backlog /\ backlog'[i] = backlog[i + 1]
    <3>1. Len(backlog) \in Nat \ {0} /\ DOMAIN backlog = 1 .. Len(backlog)
      BY <1>1, <1>2, EmptySeq, LenProperties
    <3>2. /\ c \in Client /\ Tail(backlog) \in Seq(Client)
          /\ Len(Tail(backlog)) = Len(backlog) - 1
          /\ \A i \in 1 .. Len(Tail(backlog)) : Tail(backlog)[i] = backlog[i + 1]
      BY <1>1, <1>2, HeadTailProperties
    <3>3. DOMAIN Tail(backlog) = 1 .. Len(Tail(backlog))
      BY <3>2, LenProperties
    <3>4. c = backlog[1]
      BY <1>1, <1>2
    <3> QED
      BY <1>6, <3>1, <3>2, <3>3, <3>4
  <2> HIDE DEF c
  <2>2. /\ fd2conn' = [fd2conn EXCEPT ![new] = Conn(c)]
        /\ Conn(c) \in ConnType /\ Idle(Conn(c)) /\ Conn(c).client = c
        /\ Buffered(Conn(c))
    BY <1>6, <2>1, NewConn DEF c
  <2>3. /\ fd2conn' \in [Fd -> ConnType \union {NULL}] /\ Live' = Live \union {new}
        /\ fd2conn'[new] = Conn(c)
        /\ \A fd \in Live : fd # new /\ fd2conn'[fd] = fd2conn[fd]
        /\ \A fd \in Live' : Buffered(fd2conn'[fd])
    BY <1>2, <1>6, <1>7, <2>2 DEF Live
  <2>4. /\ up[c] = "open"
        /\ \A fd \in Live : fd2conn[fd].client # c
        /\ \A i \in DOMAIN backlog' : up[backlog'[i]] = "open" /\ backlog'[i] # c
        /\ \A i, j \in DOMAIN backlog' : backlog'[i] = backlog'[j] => i = j
        /\ \A i \in DOMAIN backlog' : \A fd \in Live : fd2conn[fd].client # backlog'[i]
    <3>1. /\ \A i \in DOMAIN backlog : up[backlog[i]] = "open"
          /\ \A i, j \in DOMAIN backlog : backlog[i] = backlog[j] => i = j
          /\ \A i \in DOMAIN backlog : \A fd \in Live : fd2conn[fd].client # backlog[i]
      BY DEF IInv, Admission
    <3>2. DOMAIN backlog' \subseteq Nat \ {0}
      BY <2>1, LenProperties
    <3>3. up[c] = "open" /\ \A fd \in Live : fd2conn[fd].client # c
      BY <2>1, <3>1
    <3>4. \A i \in DOMAIN backlog' : up[backlog'[i]] = "open" /\ backlog'[i] # c
      BY <2>1, <3>1, <3>2
    <3>5. \A i, j \in DOMAIN backlog' : backlog'[i] = backlog'[j] => i = j
      BY <2>1, <3>1, <3>2
    <3>6. \A i \in DOMAIN backlog' : \A fd \in Live : fd2conn[fd].client # backlog'[i]
      BY <2>1, <3>1
    <3> QED
      BY <3>3, <3>4, <3>5, <3>6
  <2>5. /\ \A fd \in Fd : revents'[fd] # {} => fd \in Live'
        /\ \A fd \in Live' : "POLLERR" \in revents'[fd] => fd2conn'[fd].client \in gone'
    BY <1>1, <1>4, <1>6, <2>3
  <2>6. \A fd \in Live' : Idle(fd2conn'[fd]) /\ Fresh(fd)'
    <3>1. revents'[new] = {}
      BY <1>1, <1>4, <1>6
    <3>2. Idle(fd2conn'[new]) /\ Fresh(new)'
      BY <2>2, <2>3, <3>1 DEF Fresh
    <3>3. ASSUME NEW fd \in Live PROVE Idle(fd2conn'[fd]) /\ Fresh(fd)'
      BY <1>1, <1>3, <2>3 DEF Fresh
    <3> QED
      BY <2>3, <3>2, <3>3
  <2>7. /\ \A fd \in Live' : up'[fd2conn'[fd].client] = "open"
        /\ \A fd, other \in Live' :
             fd2conn'[fd].client = fd2conn'[other].client => fd = other
    BY <1>1, <1>4, <2>2, <2>3, <2>4
  <2>8. /\ pc' \in {"poll", "read", "write", "close"} /\ cur' \in 0 .. MaxFd
        /\ EntriesLive' /\ Turn' /\ Waiting' /\ Handling' /\ GivenUp'
    BY <1>1, <1>2, <2>3, <2>5, <2>6, <2>7, NextEntry
  <2>9. TypeOK'
    BY <1>1, <2>1, <2>3, <2>8 DEF IInv, TypeOK, clients
  <2>10. Admission'
    BY <1>1, <2>2, <2>3, <2>4 DEF Admission
  <2> QED
    BY <1>7, <2>8, <2>9, <2>10 DEF IInv
<1> QED
  BY <1>5, <1>6 DEF Accept

LEMMA CloseCheckStep == ASSUME IInv, CloseCheck PROVE IInv'
<1>1. /\ pc = "close" /\ cur \in Live /\ cur \in Fd /\ This \in ConnType /\ Peer \in Client
      /\ Peer = fd2conn[cur].client
  BY LiveConn DEF CloseCheck, IInv, EntriesLive, This, Peer
<1>2. /\ revents' = [revents EXCEPT ![cur] = {}] /\ Advance(revents')
      /\ UNCHANGED <<executed, backlog, fin, gone, recvq, sendq, clients>>
  BY DEF CloseCheck
<1>3. /\ fd2conn \in [Fd -> ConnType \union {NULL}]
      /\ up \in [Client -> {"new", "open", "closed"}]
      /\ revents \in [Fd -> SUBSET {"POLLIN", "POLLOUT", "POLLERR"}]
  BY DEF IInv, TypeOK
<1>4. /\ revents' \in [Fd -> SUBSET {"POLLIN", "POLLOUT", "POLLERR"}]
      /\ revents'[cur] = {} /\ \A fd \in Fd : fd # cur => revents'[fd] = revents[fd]
  BY <1>1, <1>2, <1>3
<1>5. /\ \A fd \in Fd : revents[fd] # {} => fd \in Live
      /\ \A fd \in Live : up[fd2conn[fd].client] = "open"
      /\ \A fd \in Live : "POLLERR" \in revents[fd] => fd2conn[fd].client \in gone
      /\ \A fd, other \in Live :
           fd2conn[fd].client = fd2conn[other].client => fd = other
      /\ \A fd \in Live : fd # cur => Idle(fd2conn[fd]) /\ Fresh(fd)
      /\ This.want_close \/ Idle(This)
  BY <1>1 DEF IInv, EntriesLive, GivenUp, Waiting, Handling
<1>6. ASSUME Live' \subseteq Live, fd2conn' \in [Fd -> ConnType \union {NULL}],
             \A fd \in Live' : fd2conn'[fd] = fd2conn[fd],
             \A fd \in Fd \ {cur} : fd \in Live => fd \in Live',
             up' \in [Client -> {"new", "open", "closed"}],
             \A c \in Client : c # Peer => up'[c] = up[c],
             cur \in Live' => Idle(This) /\ up'[Peer] = "open"
      PROVE  IInv'
  <2>1. /\ \A fd \in Fd : revents'[fd] # {} => fd \in Live'
        /\ \A fd \in Live' : "POLLERR" \in revents'[fd] => fd2conn'[fd].client \in gone'
    BY <1>2, <1>4, <1>5, <1>6
  <2>2. \A fd \in Live' : Idle(fd2conn'[fd]) /\ Fresh(fd)'
    <3> TAKE fd \in Live'
    <3>1. CASE fd = cur
      BY <1>4, <1>6, <3>1 DEF Fresh, This
    <3>2. CASE fd # cur
      <4>1. fd \in Fd /\ fd \in Live
        BY <1>6 DEF Live
      <4> QED
        BY <1>4, <1>5, <1>6, <3>2, <4>1 DEF Fresh
    <3> QED
      BY <3>1, <3>2
  <2>3. /\ \A fd \in Live' : up'[fd2conn'[fd].client] = "open"
        /\ \A fd, other \in Live' :
             fd2conn'[fd].client = fd2conn'[other].client => fd = other
    <3>1. ASSUME NEW fd \in Live' PROVE up'[fd2conn'[fd].client] = "open"
      <4>1. CASE fd = cur
        BY <1>1, <1>6, <4>1
      <4>2. CASE fd # cur
        <5>1. fd \in Live /\ fd2conn[fd].client \in Client
          BY <1>6, LiveConn DEF IInv
        <5>2. fd2conn[fd].client # Peer
          BY <1>1, <1>5, <4>2, <5>1
        <5> QED
          BY <1>5, <1>6, <5>1, <5>2
      <4> QED
        BY <4>1, <4>2
    <3> QED
      BY <1>5, <1>6, <3>1
  <2>4. /\ pc' \in {"poll", "read", "write", "close"} /\ cur' \in 0 .. MaxFd
        /\ EntriesLive' /\ Turn' /\ Waiting' /\ Handling' /\ GivenUp'
    BY <1>2, <1>4, <1>6, <2>1, <2>2, <2>3, NextEntry
  <2>5. TypeOK' /\ Room'
    BY <1>2, <1>4, <1>6, <2>4 DEF IInv, TypeOK, Room, clients
  <2>6. Admission'
    <3>1. /\ \A i \in DOMAIN backlog : up[backlog[i]] = "open"
          /\ \A i, j \in DOMAIN backlog : backlog[i] = backlog[j] => i = j
          /\ \A i \in DOMAIN backlog : \A fd \in Live : fd2conn[fd].client # backlog[i]
      BY DEF IInv, Admission
    <3>2. \A i \in DOMAIN backlog : backlog[i] \in Client
      BY LenProperties, ElementOfSeq DEF IInv, TypeOK
    <3>3. \A i \in DOMAIN backlog : backlog[i] # Peer
      BY <1>1, <3>1
    <3>4. \A i \in DOMAIN backlog : up'[backlog[i]] = "open"
      BY <1>6, <3>1, <3>2, <3>3
    <3>5. \A i \in DOMAIN backlog : \A fd \in Live' : fd2conn'[fd].client # backlog[i]
      BY <1>6, <3>1
    <3>6. backlog' = backlog
      BY <1>2
    <3> QED
      BY <3>1, <3>4, <3>5, <3>6 DEF Admission
  <2> QED
    BY <2>4, <2>5, <2>6 DEF IInv
<1>7. CASE "POLLERR" \in revents[cur] \/ This.want_close
  <2>1. /\ fd2conn' = [fd2conn EXCEPT ![cur] = NULL]
        /\ up' = [up EXCEPT ![Peer] = "closed"]
    BY <1>7 DEF CloseCheck, Remove
  <2>2. /\ fd2conn' \in [Fd -> ConnType \union {NULL}] /\ Live' = Live \ {cur}
        /\ \A fd \in Live' : fd2conn'[fd] = fd2conn[fd]
    BY <1>1, <1>3, <2>1 DEF Live
  <2>3. /\ up' \in [Client -> {"new", "open", "closed"}]
        /\ \A c \in Client : c # Peer => up'[c] = up[c]
    BY <1>1, <1>3, <2>1
  <2> QED
    BY <1>6, <2>2, <2>3
<1>8. CASE ~("POLLERR" \in revents[cur] \/ This.want_close)
  <2>1. UNCHANGED <<fd2conn, up>>
    BY <1>8 DEF CloseCheck
  <2>2. Live' = Live
    BY <2>1 DEF Live
  <2> QED
    BY <1>1, <1>3, <1>5, <1>6, <1>8, <2>1, <2>2
<1> QED
  BY <1>7, <1>8

\* A step of a client that does not connect: only its sockets change.
LEMMA PeerStep ==
  ASSUME IInv, TypeOK', Room', UNCHANGED <<server, backlog, up>>, gone \subseteq gone'
  PROVE  IInv'
<1>1. /\ UNCHANGED <<fd2conn, revents, pc, cur, backlog, up>>
      /\ Live' = Live /\ This' = This /\ Peer' = Peer
  BY DEF server, Live, This, Peer
<1>2. EntriesLive' /\ Turn' /\ Waiting' /\ Handling' /\ Admission'
  BY <1>1 DEF IInv, EntriesLive, Turn, Waiting, Fresh, Handling, Admission
<1>3. GivenUp'
  BY <1>1 DEF IInv, GivenUp
<1> QED
  BY <1>2, <1>3 DEF IInv

LEMMA ConnectStep == ASSUME IInv, NEW c \in Client, Connect(c) PROVE IInv'
<1>1. /\ UNCHANGED <<fd2conn, revents, pc, cur, executed, fin, gone, recvq, sendq, clients>>
      /\ up[c] = "new" /\ up' = [up EXCEPT ![c] = "open"] /\ backlog' = Append(backlog, c)
      /\ pc # "dead" /\ Live' = Live /\ This' = This /\ Peer' = Peer
  BY DEF Connect, server, Live, This, Peer
<1>2. /\ up \in [Client -> {"new", "open", "closed"}] /\ backlog \in Seq(Client)
      /\ DOMAIN backlog = 1 .. Len(backlog) /\ Len(backlog) \in Nat
      /\ \A i \in DOMAIN backlog : backlog[i] \in Client
  BY LenProperties, ElementOfSeq DEF IInv, TypeOK
<1>3. /\ backlog' \in Seq(Client) /\ backlog' # <<>>
      /\ DOMAIN backlog' = 1 .. Len(backlog) + 1
      /\ \A i \in DOMAIN backlog : backlog'[i] = backlog[i]
      /\ backlog'[Len(backlog) + 1] = c
  <2>1. /\ Append(backlog, c) \in Seq(Client) /\ Append(backlog, c) # <<>>
        /\ Len(Append(backlog, c)) = Len(backlog) + 1
        /\ \A i \in 1 .. Len(backlog) : Append(backlog, c)[i] = backlog[i]
        /\ Append(backlog, c)[Len(backlog) + 1] = c
    BY <1>2, AppendProperties
  <2>2. DOMAIN Append(backlog, c) = 1 .. Len(Append(backlog, c))
    BY <2>1, LenProperties
  <2> QED
    BY <1>1, <1>2, <2>1, <2>2
<1>4. /\ \A i \in DOMAIN backlog : up[backlog[i]] = "open" /\ backlog[i] # c
      /\ \A fd \in Live : up[fd2conn[fd].client] = "open" /\ fd2conn[fd].client # c
      /\ \A fd \in Live : fd2conn[fd].client \in Client
  BY <1>1, LiveConn DEF IInv, EntriesLive, Admission
<1>5. /\ up' \in [Client -> {"new", "open", "closed"}] /\ up'[c] = "open"
      /\ \A d \in Client : d # c => up'[d] = up[d]
  BY <1>1, <1>2
<1>6. TypeOK' /\ Room'
  BY <1>1, <1>3, <1>5 DEF IInv, TypeOK, Room, clients
<1>7. EntriesLive'
  <2>1. \A fd \in Live' : up'[fd2conn'[fd].client] = "open"
    BY <1>1, <1>4, <1>5
  <2> QED
    BY <1>1, <2>1 DEF IInv, EntriesLive
<1>8. Turn' /\ Waiting' /\ Handling' /\ GivenUp'
  BY <1>1, <1>3 DEF IInv, Turn, Waiting, Fresh, Handling, GivenUp
<1>9. Admission'
  <2>1. \A i \in DOMAIN backlog' : i \in DOMAIN backlog \/ i = Len(backlog) + 1
    BY <1>2, <1>3
  <2>2. \A i \in DOMAIN backlog' : up'[backlog'[i]] = "open"
    BY <1>2, <1>3, <1>4, <1>5, <2>1
  <2>3. \A i, j \in DOMAIN backlog' : backlog'[i] = backlog'[j] => i = j
    BY <1>3, <1>4, <2>1 DEF IInv, Admission
  <2>4. \A i \in DOMAIN backlog' : \A fd \in Live' : fd2conn'[fd].client # backlog'[i]
    BY <1>1, <1>3, <1>4, <2>1 DEF IInv, Admission
  <2> QED
    BY <2>2, <2>3, <2>4 DEF Admission
<1> QED
  BY <1>6, <1>7, <1>8, <1>9 DEF IInv

LEMMA SendStep == ASSUME IInv, NEW c \in Client, Send(c) PROVE IInv'
<1>1. /\ recvq' = [recvq EXCEPT ![c] = Append(recvq[c], sent[c] + 1)]
      /\ sent' = [sent EXCEPT ![c] = sent[c] + 1]
      /\ UNCHANGED <<server, backlog, up, fin, gone, sendq, got>>
  BY DEF Send
<1>2. recvq \in [Client -> Seq(Nat)] /\ sent \in [Client -> Nat]
  BY DEF IInv, TypeOK
<1>3. Append(recvq[c], sent[c] + 1) \in Seq(Nat)
  BY <1>2, AppendProperties
<1>4. recvq' \in [Client -> Seq(Nat)] /\ sent' \in [Client -> Nat]
  BY <1>1, <1>2, <1>3
<1>5. TypeOK' /\ Room'
  BY <1>1, <1>4 DEF IInv, TypeOK, Room, server, Live
<1> QED
  BY <1>1, <1>5, PeerStep

LEMMA RecvStep == ASSUME IInv, NEW c \in Client, Recv(c) PROVE IInv'
<1>1. /\ got' = [got EXCEPT ![c] = Append(got[c], Head(sendq[c]))]
      /\ sendq' = [sendq EXCEPT ![c] = Tail(sendq[c])] /\ sendq[c] # <<>>
      /\ UNCHANGED <<server, backlog, up, fin, gone, recvq, sent>>
  BY DEF Recv
<1>2. /\ got \in [Client -> Seq(Nat)] /\ sendq \in [Client -> Seq(Nat)]
      /\ \A d \in Client : Len(sendq[d]) <= SendBuf
  BY DEF IInv, TypeOK, Room
<1>3. /\ Head(sendq[c]) \in Nat /\ Tail(sendq[c]) \in Seq(Nat)
      /\ Len(sendq[c]) \in Nat /\ Len(Tail(sendq[c])) = Len(sendq[c]) - 1
  BY <1>1, <1>2, HeadTailProperties, LenProperties
<1>4. Append(got[c], Head(sendq[c])) \in Seq(Nat)
  BY <1>2, <1>3, AppendProperties
<1>5. Len(Tail(sendq[c])) <= SendBuf
  BY <1>2, <1>3
<1>6. got' \in [Client -> Seq(Nat)] /\ sendq' \in [Client -> Seq(Nat)] /\ Room'
  BY <1>1, <1>2, <1>3, <1>4, <1>5 DEF Room
<1>7. TypeOK'
  BY <1>1, <1>6 DEF IInv, TypeOK, server, Live
<1>8. Room'
  BY <1>6
<1> QED
  BY <1>1, <1>7, <1>8, PeerStep

LEMMA LeaveStep == ASSUME IInv, NEW c \in Client, Shutdown(c) \/ Quit(c) PROVE IInv'
<1>1. /\ UNCHANGED <<server, backlog, up, recvq, clients>> /\ gone \subseteq gone'
      /\ fin' \subseteq Client /\ gone' \subseteq fin'
      /\ sendq' = sendq \/ sendq' = [sendq EXCEPT ![c] = <<>>]
  BY DEF Shutdown, Quit, IInv, TypeOK
<1>2. sendq' \in [Client -> Seq(Nat)] /\ Room'
  <2>1. <<>> \in Seq(Nat) /\ Len(<<>>) = 0 /\ 0 <= SendBuf
    BY EmptySeq
  <2>2. sendq \in [Client -> Seq(Nat)] /\ \A d \in Client : Len(sendq[d]) <= SendBuf
    BY DEF IInv, TypeOK, Room
  <2>3. CASE sendq' = [sendq EXCEPT ![c] = <<>>]
    <3>1. \A d \in Client : sendq'[d] = IF d = c THEN <<>> ELSE sendq[d]
      BY <2>2, <2>3
    <3>2. \A d \in Client : Len(sendq'[d]) <= SendBuf
      BY <2>1, <2>2, <3>1
    <3> QED
      BY <2>1, <2>2, <2>3, <3>2 DEF Room
  <2> QED
    BY <1>1, <2>2, <2>3 DEF Room
<1>3. TypeOK'
  BY <1>1, <1>2 DEF IInv, TypeOK, server, clients, Live
<1> QED
  BY <1>1, <1>2, <1>3, PeerStep

LEMMA InitInv == Init => IInv
<1> SUFFICES ASSUME Init PROVE IInv
  OBVIOUS
<1>1. Live = {}
  BY DEF Init, Live
<1>2. \A T : <<>> \in Seq(T) /\ Len(<<>>) = 0
  BY EmptySeq
<1>3. TypeOK /\ Room
  BY <1>1, <1>2 DEF Init, TypeOK, Room
<1>4. DOMAIN backlog = {}
  BY DEF Init
<1>5. EntriesLive /\ Turn /\ Waiting /\ Handling /\ GivenUp /\ Admission
  BY <1>1, <1>4 DEF Init, EntriesLive, Turn, Waiting, Handling, GivenUp, Admission
<1> QED
  BY <1>3, <1>5 DEF IInv

LEMMA StepInv == IInv /\ [Next]_vars => IInv'
<1> SUFFICES ASSUME IInv, [Next]_vars PROVE IInv'
  OBVIOUS
<1>1. CASE UNCHANGED vars
  BY <1>1 DEF vars, server, sockets, clients, IInv, TypeOK, Room, EntriesLive, Turn, Waiting,
              Handling, GivenUp, Admission, Live, This, Peer, Fresh
<1>2. CASE Server
  BY <1>2, PollStep, AcceptStep, ReadDataStep, ReadEndStep, ServeOneStep, ServedAllStep,
     WriteDataStep, WriteGoneStep, WriteKilledStep, CloseCheckStep DEF Server
<1>3. CASE Clients
  BY <1>3, ConnectStep, SendStep, RecvStep, LeaveStep DEF Clients
<1> QED
  BY <1>1, <1>2, <1>3 DEF Next

\* What the loop relies on when it blocks in poll(), and what it promises.
LEMMA InvMeans == IInv => TypeOK /\ Intentions /\ NoStall /\ EntriesLive
<1> SUFFICES ASSUME IInv PROVE Intentions /\ NoStall
  BY DEF IInv
<1>1. ASSUME pc = "poll", NEW fd \in Live PROVE Idle(fd2conn[fd])
  BY <1>1, AllWaiting DEF IInv, Turn
<1>2. NoStall
  BY <1>1 DEF NoStall, Idle
<1>3. ASSUME pc \notin {"poll", "accept", "dead"} PROVE This \in ConnType
  BY <1>3, LiveConn DEF IInv, EntriesLive, This
<1>4. pc = "write" => This.want_write = TRUE /\ This.outgoing # <<>>
  BY <1>3 DEF IInv, Handling, Idle, ConnType
<1>5. pc = "flush" => This.outgoing # <<>>
  BY DEF IInv, Handling
<1>6. pc = "read" => This.want_read
  BY DEF IInv, Handling
<1> QED
  BY <1>1, <1>2, <1>4, <1>5, <1>6 DEF Intentions, Idle

(***************************************************************************)
(* Theorems.                                                               *)
(***************************************************************************)

\* The invariant holds in every state: what each step of the loop relies on.
THEOREM Invariant == Spec => []IInv
<1>1. Init => IInv
  BY InitInv
<1>2. IInv /\ [Next]_vars => IInv'
  BY StepInv
<1> QED
  BY <1>1, <1>2, PTL DEF Spec

\* Types, and no connection buffers more than one read and a piece.
THEOREM TypeCorrect == Spec => []TypeOK
<1>1. IInv => TypeOK
  BY InvMeans
<1> QED
  BY <1>1, Invariant, PTL

\* The loop waits for exactly one thing per connection, and its asserts hold.
THEOREM IntentionsHold == Spec => []Intentions
<1>1. IInv => Intentions
  BY InvMeans
<1> QED
  BY <1>1, Invariant, PTL

\* No request received in full waits in a buffer for bytes that may never come.
THEOREM RequestsServed == Spec => []NoStall
<1>1. IInv => NoStall
  BY InvMeans
<1> QED
  BY <1>1, Invariant, PTL

\* A poll result is never used for a descriptor closed since.
THEOREM EntriesStayLive == Spec => []EntriesLive
<1>1. IInv => EntriesLive
  BY InvMeans
<1> QED
  BY <1>1, Invariant, PTL

LEMMA RemovalStep ==
  ASSUME IInv, Next, NEW fd \in Live, fd2conn'[fd] = NULL,
         fd2conn[fd].client \notin gone
  PROVE  \/ fd2conn[fd].outgoing = <<>>
         \/ TooLong(fd2conn[fd].client, fd2conn[fd].incoming)
         \/ pc' = "dead" /\ Unread # {}
<1>1. fd \in Fd /\ fd2conn[fd] # NULL /\ fd2conn \in [Fd -> ConnType \union {NULL}]
  BY DEF Live, IInv, TypeOK
<1>2. CASE CloseCheck
  <2>1. fd = cur /\ ("POLLERR" \in revents[cur] \/ This.want_close) /\ pc = "close"
    BY <1>1, <1>2 DEF CloseCheck, Remove
  <2> QED
    BY <2>1 DEF IInv, GivenUp, This, Peer
<1>3. CASE Handler
  <2>1. \E in, out : Handled(in, out)
    BY <1>3, ReadDataStep, ReadEndStep, ServeOneStep, ServedAllStep, WriteDataStep,
       WriteGoneStep DEF Handler
  <2>2. Live' = Live
    BY <2>1 DEF Handled, Touched
  <2> QED
    BY <1>1, <2>2 DEF Live
<1>4. CASE Accept
  <2>1. fd2conn' = fd2conn
        \/ \E new \in Fd \ Live : fd2conn' = [fd2conn EXCEPT ![new] = Conn(Head(backlog))]
    BY <1>4 DEF Accept
  <2> QED
    BY <1>1, <2>1
<1>5. CASE Poll \/ Clients
  <2>1. UNCHANGED fd2conn
    BY <1>5 DEF Poll, Clients, Connect, Send, Recv, Shutdown, Quit, server
  <2> QED
    BY <1>1, <2>1
<1>6. CASE WriteKilled
  BY <1>6 DEF WriteKilled
<1> QED
  BY <1>2, <1>3, <1>4, <1>5, <1>6 DEF Next, Server, Handler

\* A connection closed on a client that still reads owed it nothing, unless the
\* client sent an over-long frame, or the server died of another that went away
\* with replies unread.
THEOREM RepliesKept == Spec => NoReplyLostAtEOF
<1> DEFINE Kept == \A fd \in Live :
              LET c == fd2conn[fd].client
              IN fd2conn'[fd] = NULL /\ c \notin gone
                   => \/ fd2conn[fd].outgoing = <<>>
                      \/ TooLong(c, fd2conn[fd].incoming)
                      \/ pc' = "dead" /\ Unread # {}
<1>1. IInv /\ [Next]_vars => [Kept]_vars
  BY RemovalStep
<1> QED
  BY <1>1, Invariant, PTL DEF Spec, NoReplyLostAtEOF

-----------------------------------------------------------------------------
(***************************************************************************)
(* The event loop implements Service, for any clients, requests and sizes  *)
(* of buffers: what flows through it keeps its order.                      *)
(***************************************************************************)

\* The pieces of client c that were read and not served yet.
Incoming(c) ==
  IF \E fd \in Live : fd2conn[fd].client = c
    THEN fd2conn[CHOOSE fd \in Live : fd2conn[fd].client = c].incoming
    ELSE <<>>

\* The pieces of seq are those that follow the first done.
Numbered(seq, done) == \A i \in 1 .. Len(seq) : seq[i] = done + i

\* Of the pieces a client sent, the first are those of the requests served,
\* then come those in the connection's buffer, then those in the socket.
InOrder(c, in) ==
  LET done == 2 * Len(executed[c])
  IN /\ sent[c] = done + Len(in) + Len(recvq[c])
     /\ Numbered(in, done)
     /\ Numbered(recvq[c], done + Len(in))

Flow == \A c \in Client : up[c] # "closed" => InOrder(c, Incoming(c))

(***************************************************************************)
(* Numbered pieces.                                                        *)
(***************************************************************************)

\* A frame is two pieces.
LEMMA Frames ==
  /\ \A n \in Nat : FrameOf(2 * n + 1) = n + 1
  /\ \A n, more \in Nat : (2 * n + 2 + more) \div 2 >= n + 1
  /\ \A n \in Nat : (n + 1) \div 2 = n \div 2 \/ (n + 1) \div 2 = n \div 2 + 1
BY DEF FrameOf

LEMMA NumberedCut ==
  ASSUME NEW seq \in Seq(Nat), NEW n \in 0 .. Len(seq), NEW done \in Nat, Numbered(seq, done)
  PROVE  Numbered(First(seq, n), done) /\ Numbered(Rest(seq, n), done + n)
<1>1. Len(seq) \in Nat /\ Len(First(seq, n)) = n /\ Len(Rest(seq, n)) = Len(seq) - n
  BY LenProperties, Cut
<1>2. /\ \A i \in 1 .. n : First(seq, n)[i] = seq[i]
      /\ \A i \in 1 .. Len(seq) - n : Rest(seq, n)[i] = seq[n + i]
  BY CutElements
<1>3. Numbered(First(seq, n), done)
  BY <1>1, <1>2 DEF Numbered
<1>4. ASSUME NEW i \in 1 .. Len(seq) - n PROVE Rest(seq, n)[i] = done + n + i
  <2>1. n + i \in 1 .. Len(seq)
    BY <1>1
  <2>2. seq[n + i] = done + (n + i)
    BY <2>1 DEF Numbered
  <2> QED
    BY <1>1, <1>2, <2>2
<1>5. Numbered(Rest(seq, n), done + n)
  BY <1>1, <1>4 DEF Numbered
<1> QED
  BY <1>3, <1>5

LEMMA NumberedJoin ==
  ASSUME NEW s \in Seq(Nat), NEW t \in Seq(Nat), NEW done \in Nat,
         Numbered(s, done), Numbered(t, done + Len(s))
  PROVE  Numbered(s \o t, done)
<1>1. Len(s) \in Nat /\ Len(t) \in Nat
  BY LenProperties
<1>2. /\ Len(s \o t) = Len(s) + Len(t)
      /\ \A i \in 1 .. Len(s) + Len(t) :
           (s \o t)[i] = IF i <= Len(s) THEN s[i] ELSE t[i - Len(s)]
  BY ConcatProperties
<1>3. ASSUME NEW i \in 1 .. Len(s) + Len(t) PROVE (s \o t)[i] = done + i
  <2>1. CASE i <= Len(s)
    BY <1>1, <1>2, <2>1 DEF Numbered
  <2>2. CASE i > Len(s)
    <3>1. i - Len(s) \in 1 .. Len(t)
      BY <1>1, <2>2
    <3>2. t[i - Len(s)] = done + Len(s) + (i - Len(s))
      BY <3>1 DEF Numbered
    <3> QED
      BY <1>1, <1>2, <2>2, <3>2
  <2> QED
    BY <1>1, <2>1, <2>2
<1> QED
  BY <1>2, <1>3 DEF Numbered

LEMMA NumberedAppend ==
  ASSUME NEW s \in Seq(Nat), NEW done \in Nat, Numbered(s, done)
  PROVE  Numbered(Append(s, done + Len(s) + 1), done)
<1>1. Len(s) \in Nat
  BY LenProperties
<1>2. /\ Len(Append(s, done + Len(s) + 1)) = Len(s) + 1
      /\ \A i \in 1 .. Len(s) : Append(s, done + Len(s) + 1)[i] = s[i]
      /\ Append(s, done + Len(s) + 1)[Len(s) + 1] = done + Len(s) + 1
  BY <1>1, AppendProperties
<1>3. ASSUME NEW i \in 1 .. Len(s) + 1 PROVE Append(s, done + Len(s) + 1)[i] = done + i
  <2>1. CASE i \in 1 .. Len(s)
    BY <1>2, <2>1 DEF Numbered
  <2>2. CASE i = Len(s) + 1
    BY <1>1, <1>2, <2>2
  <2> QED
    BY <1>1, <2>1, <2>2
<1> QED
  BY <1>2, <1>3 DEF Numbered

(***************************************************************************)
(* The buffers of a client are those of the connection that serves it.     *)
(***************************************************************************)

LEMMA ChooseServing ==
  ASSUME NEW conns, NEW open, NEW fd \in open,
         \A one, other \in open : conns[one].client = conns[other].client => one = other
  PROVE  (CHOOSE one \in open : conns[one].client = conns[fd].client) = fd
OBVIOUS

LEMMA BuffersOf ==
  ASSUME EntriesLive, NEW fd \in Live, NEW c, fd2conn[fd].client = c
  PROVE  Incoming(c) = fd2conn[fd].incoming /\ Outgoing(c) = fd2conn[fd].outgoing
<1>1. (CHOOSE one \in Live : fd2conn[one].client = fd2conn[fd].client) = fd
  BY ChooseServing DEF EntriesLive
<1> QED
  BY <1>1 DEF Incoming, Outgoing

LEMMA BuffersOfNext ==
  ASSUME EntriesLive', NEW fd \in Live', NEW c, fd2conn'[fd].client = c
  PROVE  Incoming(c)' = fd2conn'[fd].incoming /\ Outgoing(c)' = fd2conn'[fd].outgoing
<1>1. (CHOOSE one \in Live' : fd2conn'[one].client = fd2conn'[fd].client) = fd
  BY ChooseServing DEF EntriesLive
<1> QED
  BY <1>1 DEF Incoming, Outgoing

LEMMA NoBuffers ==
  ASSUME NEW c, \A fd \in Live : fd2conn[fd].client # c
  PROVE  Incoming(c) = <<>> /\ Outgoing(c) = <<>>
BY DEF Incoming, Outgoing

LEMMA NoBuffersNext ==
  ASSUME NEW c, \A fd \in Live' : fd2conn'[fd].client # c
  PROVE  Incoming(c)' = <<>> /\ Outgoing(c)' = <<>>
BY DEF Incoming, Outgoing

LEMMA BufferTypes ==
  ASSUME IInv, NEW c \in Client
  PROVE  Incoming(c) \in Seq(Nat) /\ Outgoing(c) \in Seq(Nat)
<1>1. CASE \E fd \in Live : fd2conn[fd].client = c
  <2>1. PICK fd \in Live : fd2conn[fd].client = c
    BY <1>1
  <2>2. fd2conn[fd] \in ConnType
    BY LiveConn DEF IInv
  <2>3. Incoming(c) = fd2conn[fd].incoming /\ Outgoing(c) = fd2conn[fd].outgoing
    BY <2>1, BuffersOf DEF IInv
  <2> QED
    BY <2>2, <2>3 DEF ConnType
<1>2. CASE \A fd \in Live : fd2conn[fd].client # c
  BY <1>2, NoBuffers, EmptySeq
<1> QED
  BY <1>1, <1>2

\* A handler changes the buffers of the client it serves.
LEMMA HandledBuffers ==
  ASSUME IInv, EntriesLive', cur \in Live, NEW in, NEW out, Handled(in, out)
  PROVE  /\ Incoming(Peer) = This.incoming /\ Outgoing(Peer) = This.outgoing
         /\ \A c \in Client : Incoming(c)' = IF c = Peer THEN in ELSE Incoming(c)
         /\ \A c \in Client : Outgoing(c)' = IF c = Peer THEN out ELSE Outgoing(c)
<1>1. PICK conn : Touched(conn) /\ conn.incoming = in /\ conn.outgoing = out
  BY DEF Handled
<1>2. /\ Live' = Live /\ fd2conn'[cur] = conn /\ conn.client = Peer
      /\ \A fd \in Live : fd # cur => fd2conn'[fd] = fd2conn[fd]
      /\ Peer = fd2conn[cur].client /\ This = fd2conn[cur] /\ cur \in Live
  BY <1>1 DEF Touched, Live, Peer, This
<1>3. Incoming(Peer) = This.incoming /\ Outgoing(Peer) = This.outgoing
  BY <1>2, BuffersOf DEF IInv
<1>4. ASSUME NEW c \in Client
      PROVE  /\ Incoming(c)' = IF c = Peer THEN in ELSE Incoming(c)
             /\ Outgoing(c)' = IF c = Peer THEN out ELSE Outgoing(c)
  <2>1. CASE c = Peer
    BY <1>1, <1>2, <2>1, BuffersOfNext
  <2>2. CASE c # Peer /\ \E fd \in Live : fd2conn[fd].client = c
    <3>1. PICK fd \in Live : fd2conn[fd].client = c
      BY <2>2
    <3>2. fd # cur /\ fd2conn'[fd] = fd2conn[fd] /\ fd \in Live'
      BY <1>2, <2>2, <3>1
    <3>3. Incoming(c) = fd2conn[fd].incoming /\ Outgoing(c) = fd2conn[fd].outgoing
      BY <3>1, BuffersOf DEF IInv
    <3>4. Incoming(c)' = fd2conn'[fd].incoming /\ Outgoing(c)' = fd2conn'[fd].outgoing
      BY <3>1, <3>2, BuffersOfNext
    <3> QED
      BY <2>2, <3>2, <3>3, <3>4
  <2>3. CASE c # Peer /\ \A fd \in Live : fd2conn[fd].client # c
    <3>1. \A fd \in Live' : fd2conn'[fd].client # c
      BY <1>2, <2>3
    <3> QED
      BY <2>3, <3>1, NoBuffers, NoBuffersNext
  <2> QED
    BY <2>1, <2>2, <2>3
<1> QED
  BY <1>3, <1>4

(***************************************************************************)
(* Steps that keep the service as it is.                                   *)
(***************************************************************************)

LEMMA QuietStep ==
  ASSUME Flow, UNCHANGED <<executed, recvq, sent, got, gone>>,
         \A c \in Client : up'[c] = "closed" <=> up[c] = "closed",
         \A c \in Client : Incoming(c)' = Incoming(c),
         \A c \in Client : c \notin gone
            => sendq'[c] \o Outgoing(c)' = sendq[c] \o Outgoing(c)
  PROVE  Flow' /\ UNCHANGED S!vars
<1>1. Flow'
  BY DEF Flow, InOrder
<1>2. Asked' = Asked /\ Lost' = Lost
  BY DEF Asked, Lost
<1>3. Owed' = Owed
  BY DEF Owed
<1> QED
  BY <1>1, <1>2, <1>3 DEF S!vars

LEMMA SameConns ==
  ASSUME UNCHANGED fd2conn
  PROVE  \A c : Incoming(c)' = Incoming(c) /\ Outgoing(c)' = Outgoing(c)
BY DEF Incoming, Outgoing, Live

LEMMA QuietHandler ==
  ASSUME IInv, EntriesLive', Flow, cur \in Live, Handled(This.incoming, This.outgoing),
         UNCHANGED <<executed, recvq, sendq, sent, got, gone, up>>
  PROVE  Flow' /\ UNCHANGED S!vars
<1>1. \A c \in Client : Incoming(c)' = Incoming(c) /\ Outgoing(c)' = Outgoing(c)
  BY HandledBuffers
<1> QED
  BY <1>1, QuietStep

(***************************************************************************)
(* Each step keeps Flow, and is a step of the service or leaves it alone.  *)
(***************************************************************************)

LEMMA LoseOne ==
  ASSUME NEW c \in Client, NEW n \in 0 .. Len(Owed[c]),
         Owed' = [Owed EXCEPT ![c] = SubSeq(@, 1, n)], Lost' = Lost \union {c},
         UNCHANGED <<Asked, executed, got>>
  PROVE  S!Next
<1>1. DOMAIN Owed' = Client /\ DOMAIN Owed = Client
  BY DEF Owed
<1>2. \A d \in Client : Owed'[d] = IF d = c THEN SubSeq(Owed[c], 1, n) ELSE Owed[d]
  BY <1>1
<1>3. S!Lose({c})
  BY <1>1, <1>2 DEF S!Lose
<1> QED
  BY <1>3 DEF S!Next

LEMMA JoinAppend ==
  ASSUME NEW s \in Seq(Nat), NEW t \in Seq(Nat), NEW e \in Nat
  PROVE  s \o Append(t, e) = Append(s \o t, e)
OBVIOUS

LEMMA JoinAssociative ==
  ASSUME NEW s \in Seq(Nat), NEW t \in Seq(Nat), NEW u \in Seq(Nat)
  PROVE  (s \o t) \o u = s \o (t \o u)
OBVIOUS

LEMMA FirstOfJoin ==
  ASSUME NEW s \in Seq(Nat), NEW t \in Seq(Nat)
  PROVE  SubSeq(s \o t, 1, Len(s)) = s
OBVIOUS

LEMMA HeadTailJoin ==
  ASSUME NEW s \in Seq(Nat), NEW t \in Seq(Nat), s # <<>>
  PROVE  /\ s \o t # <<>> /\ Head(s \o t) = Head(s)
         /\ Tail(s \o t) = Tail(s) \o t
<1>1. s \o t # <<>> /\ Head(s \o t) = Head(s)
  OBVIOUS
<1>2. Tail(s \o t) = Tail(s) \o t
  OBVIOUS
<1> QED
  BY <1>1, <1>2

LEMMA OrderTypes ==
  ASSUME IInv, NEW c \in Client
  PROVE  /\ Len(executed[c]) \in Nat /\ executed[c] \in Seq(Nat)
         /\ recvq[c] \in Seq(Nat) /\ Len(recvq[c]) \in Nat /\ sent[c] \in Nat
         /\ sendq[c] \in Seq(Nat) /\ got[c] \in Seq(Nat)
         /\ Incoming(c) \in Seq(Nat) /\ Len(Incoming(c)) \in Nat
         /\ Outgoing(c) \in Seq(Nat) /\ Len(Outgoing(c)) \in Nat
<1>1. /\ executed[c] \in Seq(Nat) /\ recvq[c] \in Seq(Nat) /\ sendq[c] \in Seq(Nat)
      /\ got[c] \in Seq(Nat) /\ sent[c] \in Nat
  BY DEF IInv, TypeOK
<1>2. Incoming(c) \in Seq(Nat) /\ Outgoing(c) \in Seq(Nat)
  BY BufferTypes
<1> QED
  BY <1>1, <1>2, LenProperties

LEMMA ReadDataMaps == ASSUME IInv, Flow, ReadData PROVE Flow' /\ UNCHANGED S!vars
<1> DEFINE n == Smaller(ReadMax, Len(recvq[Peer]))
<1>1. cur \in Live /\ Peer \in Client /\ Len(recvq[Peer]) \in Nat
  BY HandlerCur DEF Handler
<1>2. n \in 0 .. Len(recvq[Peer])
  BY <1>1, SmallerOf
<1>3. /\ recvq' = [recvq EXCEPT ![Peer] = Rest(recvq[Peer], n)]
      /\ UNCHANGED <<executed, up, gone, sendq, sent, got>>
  BY DEF ReadData, clients
<1>4. IInv' /\ Handled(This.incoming \o First(recvq[Peer], n), This.outgoing)
  BY ReadDataStep
<1> HIDE DEF n
<1>5. /\ Incoming(Peer) = This.incoming
      /\ \A c \in Client : Incoming(c)' = IF c = Peer THEN This.incoming \o First(recvq[Peer], n)
                                                      ELSE Incoming(c)
      /\ \A c \in Client : Outgoing(c)' = Outgoing(c)
  BY <1>1, <1>4, HandledBuffers DEF IInv
<1>6. ASSUME NEW c \in Client, c = Peer, InOrder(c, Incoming(c))
      PROVE  InOrder(c, Incoming(c))'
  <2> DEFINE in == Incoming(c)
             queue == recvq[c]
             done == 2 * Len(executed[c])
  <2>1. /\ in \in Seq(Nat) /\ Len(in) \in Nat /\ queue \in Seq(Nat) /\ Len(queue) \in Nat
        /\ done \in Nat /\ sent[c] = done + Len(in) + Len(queue)
        /\ Numbered(in, done) /\ Numbered(queue, done + Len(in))
        /\ n \in 0 .. Len(queue)
    BY <1>2, <1>6, OrderTypes DEF InOrder
  <2>2. /\ Incoming(c)' = in \o First(queue, n) /\ recvq'[c] = Rest(queue, n)
        /\ executed'[c] = executed[c] /\ sent'[c] = sent[c]
    BY <1>3, <1>5, <1>6 DEF IInv, TypeOK
  <2> HIDE DEF in, queue, done
  <2>3. /\ First(queue, n) \in Seq(Nat) /\ Len(First(queue, n)) = n
        /\ Len(Rest(queue, n)) = Len(queue) - n
    BY <2>1, Cut
  <2>4. Numbered(First(queue, n), done + Len(in)) /\ Numbered(Rest(queue, n), done + Len(in) + n)
    BY <2>1, NumberedCut
  <2>5. Numbered(in \o First(queue, n), done) /\ Len(in \o First(queue, n)) = Len(in) + n
    BY <2>1, <2>3, <2>4, NumberedJoin, ConcatProperties
  <2>6. /\ sent[c] = done + Len(in \o First(queue, n)) + Len(Rest(queue, n))
        /\ done + Len(in \o First(queue, n)) = done + Len(in) + n
    BY <2>1, <2>3, <2>5
  <2> QED
    BY <2>2, <2>4, <2>5, <2>6 DEF InOrder, done
<1>7. ASSUME NEW c \in Client, c # Peer, InOrder(c, Incoming(c))
      PROVE  InOrder(c, Incoming(c))'
  <2>1. /\ Incoming(c)' = Incoming(c) /\ recvq'[c] = recvq[c]
        /\ executed'[c] = executed[c] /\ sent'[c] = sent[c]
    BY <1>3, <1>5, <1>7 DEF IInv, TypeOK
  <2> QED
    BY <1>7, <2>1 DEF InOrder
<1>8. Flow'
  BY <1>3, <1>6, <1>7 DEF Flow
<1>9. UNCHANGED S!vars
  BY <1>3, <1>5 DEF S!vars, Asked, Owed, Lost
<1> QED
  BY <1>8, <1>9

LEMMA ServeOneMaps ==
  ASSUME IInv, Flow, ServeOne
  PROVE  Flow' /\ \E c \in Client : S!Run(c)
<1> DEFINE frame == FrameOf(Head(This.incoming))
           served == Len(executed[Peer])
<1>1. cur \in Live /\ Peer \in Client /\ Peer = fd2conn[cur].client
  BY HandlerCur DEF Handler, This, Peer
<1>2. IInv' /\ Handled(Rest(This.incoming, 2), Append(This.outgoing, frame))
  BY ServeOneStep
<1>3. /\ Complete(Peer, This.incoming)
      /\ executed' = [executed EXCEPT ![Peer] = Append(@, frame)]
      /\ UNCHANGED <<up, gone, recvq, sendq, sent, got>>
  BY DEF ServeOne, sockets, clients
<1> HIDE DEF frame
<1>4. /\ Incoming(Peer) = This.incoming /\ Outgoing(Peer) = This.outgoing
      /\ \A c \in Client : Incoming(c)' = IF c = Peer THEN Rest(This.incoming, 2) ELSE Incoming(c)
      /\ \A c \in Client :
           Outgoing(c)' = IF c = Peer THEN Append(This.outgoing, frame) ELSE Outgoing(c)
  BY <1>1, <1>2, HandledBuffers DEF IInv
<1>5. up[Peer] = "open" /\ InOrder(Peer, This.incoming)
  BY <1>1, <1>4 DEF IInv, EntriesLive, Flow
<1>6. /\ served \in Nat /\ This.incoming \in Seq(Nat) /\ Len(recvq[Peer]) \in Nat
      /\ This.outgoing \in Seq(Nat) /\ sendq[Peer] \in Seq(Nat)
      /\ executed[Peer] \in Seq(Nat) /\ sent[Peer] \in Nat
  BY <1>1, <1>4, OrderTypes
<1>7. /\ Len(This.incoming) \in Nat /\ Len(This.incoming) >= 2
      /\ Head(This.incoming) = This.incoming[1]
      /\ Len(Rest(This.incoming, 2)) = Len(This.incoming) - 2
  BY <1>3, <1>6, CompleteRequest
<1>8. /\ Numbered(This.incoming, 2 * served)
      /\ Numbered(recvq[Peer], 2 * served + Len(This.incoming))
      /\ sent[Peer] = 2 * served + Len(This.incoming) + Len(recvq[Peer])
  BY <1>5 DEF InOrder
<1>9. frame = served + 1 /\ frame \in Nat
  <2>1. Head(This.incoming) = 2 * served + 1
    BY <1>7, <1>8 DEF Numbered
  <2> QED
    BY <1>6, <2>1, Frames DEF frame
<1>10. /\ Len(Append(executed[Peer], frame)) = served + 1
       /\ executed'[Peer] = Append(executed[Peer], frame)
       /\ \A c \in Client : c # Peer => executed'[c] = executed[c]
  <2>1. executed \in [Client -> Seq(Nat)]
    BY DEF IInv, TypeOK
  <2>2. Len(Append(executed[Peer], frame)) = served + 1
    BY <1>6, <1>9, AppendProperties
  <2> QED
    BY <1>1, <1>3, <2>1, <2>2
<1> HIDE DEF served
<1>11. ASSUME NEW c \in Client, c = Peer PROVE InOrder(c, Incoming(c))'
  <2>1. Numbered(Rest(This.incoming, 2), 2 * served + 2)
    BY <1>6, <1>7, <1>8, NumberedCut
  <2>2. /\ 2 * (served + 1) = 2 * served + 2
        /\ 2 * (served + 1) + Len(Rest(This.incoming, 2)) = 2 * served + Len(This.incoming)
        /\ sent[c] = 2 * (served + 1) + Len(Rest(This.incoming, 2)) + Len(recvq[c])
    <3> DEFINE in == Len(This.incoming)
               left == Len(Rest(This.incoming, 2))
               queue == Len(recvq[Peer])
    <3>1. /\ in \in Nat /\ in >= 2 /\ left = in - 2 /\ queue \in Nat
          /\ sent[Peer] = 2 * served + in + queue
      BY <1>6, <1>7, <1>8
    <3> HIDE DEF in, left, queue
    <3>2. /\ 2 * (served + 1) = 2 * served + 2
          /\ 2 * (served + 1) + left = 2 * served + in
          /\ sent[Peer] = 2 * (served + 1) + left + queue
      BY <1>6, <3>1
    <3> QED
      BY <1>11, <3>2 DEF in, left, queue
  <2>3. Len(executed'[c]) = served + 1 /\ Incoming(c)' = Rest(This.incoming, 2)
    BY <1>4, <1>10, <1>11
  <2>4. recvq'[c] = recvq[c] /\ sent'[c] = sent[c] /\ recvq[c] = recvq[Peer]
    BY <1>3, <1>11
  <2> QED
    BY <1>8, <2>1, <2>2, <2>3, <2>4 DEF InOrder
<1>12. ASSUME NEW c \in Client, c # Peer, InOrder(c, Incoming(c))
       PROVE  InOrder(c, Incoming(c))'
  BY <1>3, <1>4, <1>10, <1>12 DEF InOrder
<1>13. Flow'
  BY <1>3, <1>11, <1>12 DEF Flow
<1>14. frame = Len(executed[Peer]) + 1 /\ frame <= Asked[Peer]
  <2>1. Asked[Peer] = sent[Peer] \div 2
    BY <1>1 DEF Asked
  <2>2. \E more \in Nat : sent[Peer] = 2 * served + 2 + more
    <3> DEFINE in == Len(This.incoming)
               queue == Len(recvq[Peer])
    <3>1. in \in Nat /\ in >= 2 /\ queue \in Nat /\ sent[Peer] = 2 * served + in + queue
      BY <1>6, <1>7, <1>8
    <3> HIDE DEF in, queue
    <3>2. in - 2 + queue \in Nat /\ sent[Peer] = 2 * served + 2 + (in - 2 + queue)
      BY <1>6, <3>1
    <3> QED
      BY <3>2
  <2>3. Asked[Peer] >= served + 1 /\ Asked[Peer] \in Nat
    BY <1>6, <2>1, <2>2, Frames
  <2>4. frame = served + 1 /\ served = Len(executed[Peer])
    BY <1>9 DEF served
  <2> QED
    BY <1>6, <2>3, <2>4
<1>15. UNCHANGED <<Asked, got, Lost>>
  BY <1>3 DEF Asked, Lost
<1>16. Peer \in Lost <=> Peer \in gone
  BY <1>1, <1>5 DEF Lost
<1>17. Owed' = IF Peer \in Lost THEN Owed
                               ELSE [Owed EXCEPT ![Peer] = Append(@, frame)]
  <2>1. sendq[Peer] \o Append(This.outgoing, frame) = Append(sendq[Peer] \o This.outgoing, frame)
    BY <1>6, <1>9, JoinAppend
  <2>2. CASE Peer \in gone
    BY <1>1, <1>3, <1>4, <1>16, <2>2 DEF Owed
  <2>3. CASE Peer \notin gone
    <3>1. Owed[Peer] = sendq[Peer] \o This.outgoing
      BY <1>1, <1>4, <2>3 DEF Owed
    <3>2. Owed' = [c \in Client |-> IF c = Peer THEN Append(Owed[c], frame) ELSE Owed[c]]
      BY <1>1, <1>3, <1>4, <2>1, <2>3, <3>1 DEF Owed
    <3> QED
      BY <1>1, <1>16, <2>3, <3>1, <3>2 DEF Owed
  <2> QED
    BY <2>2, <2>3
<1>18. S!Run(Peer)
  BY <1>3, <1>14, <1>15, <1>17 DEF S!Run
<1> QED
  BY <1>1, <1>13, <1>18

LEMMA WriteDataMaps == ASSUME IInv, Flow, WriteData PROVE Flow' /\ UNCHANGED S!vars
<1>1. cur \in Live /\ Peer \in Client /\ This.outgoing \in Seq(Nat) /\ sendq[Peer] \in Seq(Nat)
  BY HandlerCur DEF Handler
<1>2. PICK n \in 0 .. Len(This.outgoing) :
        /\ Handled(This.incoming, Rest(This.outgoing, n))
        /\ sendq' = [sendq EXCEPT ![Peer] = sendq[Peer] \o First(This.outgoing, n)]
  BY WriteDataStep
<1>3. IInv'
  BY WriteDataStep
<1>4. /\ Outgoing(Peer) = This.outgoing
      /\ \A c \in Client : Incoming(c)' = Incoming(c)
      /\ \A c \in Client :
           Outgoing(c)' = IF c = Peer THEN Rest(This.outgoing, n) ELSE Outgoing(c)
  BY <1>1, <1>2, <1>3, HandledBuffers DEF IInv
<1>5. sendq \in [Client -> Seq(Nat)]
  BY DEF IInv, TypeOK
<1>6. /\ First(This.outgoing, n) \in Seq(Nat) /\ Rest(This.outgoing, n) \in Seq(Nat)
      /\ First(This.outgoing, n) \o Rest(This.outgoing, n) = This.outgoing
  BY <1>1, Cut, CutElements
<1>7. (sendq[Peer] \o First(This.outgoing, n)) \o Rest(This.outgoing, n)
        = sendq[Peer] \o This.outgoing
  <2> DEFINE one == sendq[Peer]
             two == First(This.outgoing, n)
             three == Rest(This.outgoing, n)
  <2>1. one \in Seq(Nat) /\ two \in Seq(Nat) /\ three \in Seq(Nat)
    BY <1>1, <1>6
  <2> HIDE DEF one, two, three
  <2>2. (one \o two) \o three = one \o (two \o three)
    BY <2>1, JoinAssociative
  <2> QED
    BY <1>6, <2>2 DEF one, two, three
<1>8. \A c \in Client : sendq'[c] \o Outgoing(c)' = sendq[c] \o Outgoing(c)
  BY <1>1, <1>2, <1>4, <1>5, <1>7
<1>9. UNCHANGED <<executed, recvq, sent, got, gone, up>>
  BY DEF WriteData, clients
<1> QED
  BY <1>4, <1>8, <1>9, QuietStep

LEMMA WriteGoneMaps == ASSUME IInv, Flow, WriteGone PROVE Flow' /\ UNCHANGED S!vars
<1>1. cur \in Live /\ Peer \in Client
  BY HandlerCur DEF Handler
<1>2. PICK out : Handled(This.incoming, out)
  BY WriteGoneStep
<1>3. IInv'
  BY WriteGoneStep
<1>4. \A c \in Client : /\ Incoming(c)' = Incoming(c)
                        /\ c # Peer => Outgoing(c)' = Outgoing(c)
  BY <1>1, <1>2, <1>3, HandledBuffers DEF IInv
<1>5. UNCHANGED <<executed, recvq, sendq, sent, got, gone, up>> /\ Peer \in gone
  BY DEF WriteGone, sockets, clients
<1>6. \A c \in Client : c \notin gone => sendq'[c] \o Outgoing(c)' = sendq[c] \o Outgoing(c)
  BY <1>4, <1>5
<1> QED
  BY <1>4, <1>5, <1>6, QuietStep

\* End of file, requests all served, and a new round leave the buffers alone.
LEMMA LoopMaps ==
  ASSUME IInv, Flow, ReadEnd \/ ServedAll \/ Poll
  PROVE  Flow' /\ UNCHANGED S!vars
<1>1. CASE ReadEnd \/ ServedAll
  <2>1. cur \in Live
    BY <1>1, HandlerCur DEF Handler
  <2>2. IInv' /\ Handled(This.incoming, This.outgoing)
    BY <1>1, ReadEndStep, ServedAllStep
  <2>3. UNCHANGED <<executed, recvq, sendq, sent, got, gone, up>>
    BY <1>1 DEF ReadEnd, ServedAll, sockets, clients
  <2> QED
    BY <2>1, <2>2, <2>3, QuietHandler DEF IInv
<1>2. CASE Poll
  <2>1. UNCHANGED <<fd2conn, executed, recvq, sendq, sent, got, gone, up>>
    BY <1>2 DEF Poll, sockets, clients
  <2> QED
    BY <2>1, SameConns, QuietStep
<1> QED
  BY <1>1, <1>2

\* A connection is accepted with empty buffers.
LEMMA AcceptMaps == ASSUME IInv, Flow, Accept PROVE Flow' /\ UNCHANGED S!vars
<1>1. UNCHANGED <<executed, recvq, sendq, sent, got, gone, up>>
  BY DEF Accept, clients
<1>2. EntriesLive'
  BY AcceptStep DEF IInv
<1>3. CASE UNCHANGED fd2conn
  BY <1>1, <1>3, SameConns, QuietStep
<1>4. ASSUME NEW new \in Fd \ Live, fd2conn' = [fd2conn EXCEPT ![new] = Conn(Head(backlog))]
      PROVE  Flow' /\ UNCHANGED S!vars
  <2> DEFINE d == Head(backlog)
  <2>1. /\ backlog # <<>> /\ backlog \in Seq(Client)
        /\ fd2conn \in [Fd -> ConnType \union {NULL}]
    BY DEF Accept, IInv, Turn, TypeOK
  <2>2. d \in Client /\ d = backlog[1] /\ 1 \in DOMAIN backlog
    <3>1. Len(backlog) \in Nat \ {0} /\ DOMAIN backlog = 1 .. Len(backlog)
      BY <2>1, EmptySeq, LenProperties
    <3> QED
      BY <2>1, <3>1, HeadTailProperties
  <2>3. \A fd \in Live : fd2conn[fd].client # d
    BY <2>2 DEF IInv, Admission
  <2> HIDE DEF d
  <2>4. /\ fd2conn' = [fd2conn EXCEPT ![new] = Conn(d)] /\ Conn(d) \in ConnType
        /\ Conn(d).client = d /\ Conn(d).incoming = <<>> /\ Conn(d).outgoing = <<>>
    BY <1>4, <2>2, NewConn DEF d, Conn
  <2>5. /\ Live' = Live \union {new} /\ fd2conn'[new] = Conn(d)
        /\ \A fd \in Live : fd # new /\ fd2conn'[fd] = fd2conn[fd]
    BY <1>4, <2>1, <2>4 DEF Live
  <2>6. ASSUME NEW c \in Client
        PROVE  Incoming(c)' = Incoming(c) /\ Outgoing(c)' = Outgoing(c)
    <3>1. CASE c = d
      <4>1. Incoming(c) = <<>> /\ Outgoing(c) = <<>>
        BY <2>3, <3>1, NoBuffers
      <4>2. new \in Live' /\ fd2conn'[new].client = c
        BY <2>4, <2>5, <3>1
      <4>3. Incoming(c)' = fd2conn'[new].incoming /\ Outgoing(c)' = fd2conn'[new].outgoing
        BY <1>2, <4>2, BuffersOfNext
      <4> QED
        BY <2>4, <2>5, <4>1, <4>3
    <3>2. CASE c # d /\ \E fd \in Live : fd2conn[fd].client = c
      <4>1. PICK fd \in Live : fd2conn[fd].client = c
        BY <3>2
      <4>2. fd \in Live' /\ fd2conn'[fd] = fd2conn[fd]
        BY <2>5
      <4>3. Incoming(c) = fd2conn[fd].incoming /\ Outgoing(c) = fd2conn[fd].outgoing
        BY <4>1, BuffersOf DEF IInv
      <4>4. Incoming(c)' = fd2conn'[fd].incoming /\ Outgoing(c)' = fd2conn'[fd].outgoing
        BY <1>2, <4>1, <4>2, BuffersOfNext
      <4> QED
        BY <4>2, <4>3, <4>4
    <3>3. CASE c # d /\ \A fd \in Live : fd2conn[fd].client # c
      <4>1. \A fd \in Live' : fd2conn'[fd].client # c
        BY <2>4, <2>5, <3>3
      <4> QED
        BY <3>3, <4>1, NoBuffers, NoBuffersNext
    <3> QED
      BY <3>1, <3>2, <3>3
  <2> QED
    BY <1>1, <2>6, QuietStep
<1> QED
  BY <1>3, <1>4 DEF Accept

\* A connection closed takes its unwritten replies with it.
LEMMA CloseCheckMaps ==
  ASSUME IInv, Flow, CloseCheck
  PROVE  Flow' /\ (UNCHANGED S!vars \/ S!Next)
<1>1. /\ pc = "close" /\ cur \in Live /\ cur \in Fd /\ Peer \in Client
      /\ Peer = fd2conn[cur].client
  BY LiveConn DEF CloseCheck, IInv, EntriesLive, This, Peer
<1>2. UNCHANGED <<executed, recvq, sendq, sent, got, gone>>
  BY DEF CloseCheck, clients
<1>3. CASE UNCHANGED <<fd2conn, up>>
  BY <1>2, <1>3, SameConns, QuietStep
<1>4. CASE /\ fd2conn' = [fd2conn EXCEPT ![cur] = NULL]
           /\ up' = [up EXCEPT ![Peer] = "closed"]
  <2>1. /\ fd2conn \in [Fd -> ConnType \union {NULL}]
        /\ up \in [Client -> {"new", "open", "closed"}]
    BY DEF IInv, TypeOK
  <2>2. /\ Live' = Live \ {cur} /\ \A fd \in Live' : fd2conn'[fd] = fd2conn[fd]
        /\ up'[Peer] = "closed" /\ \A c \in Client : c # Peer => up'[c] = up[c]
    BY <1>1, <1>4, <2>1 DEF Live
  <2>3. EntriesLive'
    BY CloseCheckStep DEF IInv
  <2>4. \A fd \in Live : fd2conn[fd].client = Peer => fd = cur
    BY <1>1 DEF IInv, EntriesLive
  <2>5. ASSUME NEW c \in Client, c # Peer
        PROVE  Incoming(c)' = Incoming(c) /\ Outgoing(c)' = Outgoing(c)
    <3>1. CASE \E fd \in Live : fd2conn[fd].client = c
      <4>1. PICK fd \in Live : fd2conn[fd].client = c
        BY <3>1
      <4>2. fd \in Live' /\ fd2conn'[fd] = fd2conn[fd]
        BY <1>1, <2>2, <2>5, <4>1
      <4>3. Incoming(c) = fd2conn[fd].incoming /\ Outgoing(c) = fd2conn[fd].outgoing
        BY <4>1, BuffersOf DEF IInv
      <4>4. Incoming(c)' = fd2conn'[fd].incoming /\ Outgoing(c)' = fd2conn'[fd].outgoing
        BY <2>3, <4>1, <4>2, BuffersOfNext
      <4> QED
        BY <4>2, <4>3, <4>4
    <3>2. CASE \A fd \in Live : fd2conn[fd].client # c
      <4>1. \A fd \in Live' : fd2conn'[fd].client # c
        BY <2>2, <3>2
      <4> QED
        BY <3>2, <4>1, NoBuffers, NoBuffersNext
    <3> QED
      BY <3>1, <3>2
  <2>6. ASSUME NEW c \in Client, c = Peer PROVE Outgoing(c)' = <<>>
    <3>1. \A fd \in Live' : fd2conn'[fd].client # c
      BY <2>2, <2>4, <2>6
    <3> QED
      BY <3>1, NoBuffersNext
  <2>7. Flow'
    BY <1>2, <2>2, <2>5 DEF Flow, InOrder
  <2>8. Lost' = Lost \union {Peer}
    BY <1>1, <1>2, <2>2 DEF Lost
  <2>9. PICK n \in 0 .. Len(Owed[Peer]) :
           IF Peer \in gone THEN SubSeq(Owed[Peer], 1, n) = <<>>
                            ELSE SubSeq(Owed[Peer], 1, n) = sendq[Peer]
    <3>1. /\ sendq[Peer] \in Seq(Nat) /\ Outgoing(Peer) \in Seq(Nat)
          /\ Len(sendq[Peer]) \in Nat
      BY <1>1, OrderTypes, LenProperties
    <3>2. CASE Peer \in gone
      <4>1. Owed[Peer] = <<>> /\ Len(<<>>) = 0
        BY <1>1, <3>2 DEF Owed
      <4>2. SubSeq(<<>>, 1, 0) = <<>>
        BY SubSeqEmpty
      <4> QED
        BY <3>2, <4>1, <4>2
    <3>3. CASE Peer \notin gone
      <4>1. Owed[Peer] = sendq[Peer] \o Outgoing(Peer)
        BY <1>1, <3>3 DEF Owed
      <4>2. Len(sendq[Peer] \o Outgoing(Peer)) >= Len(sendq[Peer])
            /\ Len(sendq[Peer] \o Outgoing(Peer)) \in Nat
        BY <3>1, ConcatProperties, LenProperties
      <4> QED
        BY <3>1, <3>3, <4>1, <4>2, FirstOfJoin
    <3> QED
      BY <3>2, <3>3
  <2>10. Owed' = [Owed EXCEPT ![Peer] = SubSeq(@, 1, n)]
    <3>1. ASSUME NEW c \in Client
          PROVE  Owed'[c] = IF c = Peer THEN SubSeq(Owed[Peer], 1, n) ELSE Owed[c]
      <4>1. CASE c = Peer
        <5>1. sendq[c] \o <<>> = sendq[c]
          BY OrderTypes, ConcatEmptySeq
        <5> QED
          BY <1>2, <2>6, <2>9, <4>1, <5>1 DEF Owed
      <4>2. CASE c # Peer
        BY <1>2, <2>5, <4>2 DEF Owed
      <4> QED
        BY <4>1, <4>2
    <3>2. Owed' = [c \in Client |-> Owed'[c]] /\ Owed = [c \in Client |-> Owed[c]]
      BY DEF Owed
    <3> QED
      BY <1>1, <3>1, <3>2
  <2>11. UNCHANGED <<Asked, executed, got>>
    BY <1>2 DEF Asked
  <2>12. S!Next
    BY <1>1, <2>8, <2>10, <2>11, LoseOne
  <2> QED
    BY <1>1, <2>7, <2>12
<1> QED
  BY <1>3, <1>4 DEF CloseCheck, Remove

\* When the server dies every client that connected may miss its latest replies.
LEMMA WriteKilledMaps == ASSUME IInv, Flow, WriteKilled PROVE Flow' /\ S!Next
<1> DEFINE some == {c \in Client : up[c] # "new"}
<1>1. /\ up' = [c \in Client |-> IF up[c] = "open" THEN "closed" ELSE up[c]]
      /\ UNCHANGED <<executed, gone, recvq, sent, got>>
  BY DEF WriteKilled, clients
<1>2. PICK cut \in SUBSET some :
        sendq' = [c \in Client |-> IF c \in cut THEN <<>> ELSE sendq[c]]
  BY DEF WriteKilled
<1>3. \A c : Incoming(c)' = <<>> /\ Outgoing(c)' = <<>>
  BY WriteKilledStep, NoBuffersNext
<1>4. /\ \A c \in Client : up[c] \in {"new", "open", "closed"}
      /\ \A fd \in Live : up[fd2conn[fd].client] = "open"
  BY DEF IInv, TypeOK, EntriesLive
<1>5. \A c \in Client : c \notin some => Incoming(c) = <<>> /\ Outgoing(c) = <<>>
  BY <1>4, NoBuffers
<1>6. \A c \in Client : up'[c] # "closed" => c \notin some /\ up[c] # "closed"
  BY <1>1, <1>4
<1>7. Flow'
  BY <1>1, <1>3, <1>5, <1>6 DEF Flow, InOrder
<1>8. Lost' = Lost \union some
  BY <1>1, <1>4 DEF Lost
<1>9. DOMAIN Owed' = Client /\ UNCHANGED <<Asked, executed, got>>
  BY <1>1 DEF Owed, Asked
<1>10. ASSUME NEW c \in Client, c \notin some PROVE Owed'[c] = Owed[c]
  BY <1>1, <1>2, <1>3, <1>5, <1>10 DEF Owed
<1>11. ASSUME NEW c \in Client, c \in some
       PROVE  \E n \in 0 .. Len(Owed[c]) : Owed'[c] = SubSeq(Owed[c], 1, n)
  <2> DEFINE queue == sendq[c]
             out == Outgoing(c)
  <2>1. /\ queue \in Seq(Nat) /\ Len(queue) \in Nat
        /\ out \in Seq(Nat) /\ Len(out) \in Nat /\ <<>> \in Seq(Nat)
    BY OrderTypes, LenProperties, EmptySeq
  <2>2. /\ Owed[c] = IF c \in gone THEN <<>> ELSE queue \o out
        /\ Owed'[c] = <<>> \/ (c \notin gone /\ Owed'[c] = queue)
    <3>1. sendq[c] \o <<>> = sendq[c] /\ <<>> \o <<>> = <<>>
      BY <2>1, ConcatEmptySeq
    <3> QED
      BY <1>1, <1>2, <1>3, <3>1 DEF Owed
  <2> HIDE DEF queue, out
  <2>3. Owed[c] \in Seq(Nat) /\ Len(Owed[c]) \in Nat
    BY <2>1, <2>2, ConcatProperties, LenProperties
  <2>4. CASE Owed'[c] = <<>>
    <3>1. SubSeq(Owed[c], 1, 0) = <<>> /\ 0 \in 0 .. Len(Owed[c])
      BY <2>3, SubSeqEmpty
    <3> QED
      BY <2>4, <3>1
  <2>5. CASE c \notin gone /\ Owed'[c] = queue
    <3>1. Len(queue \o out) = Len(queue) + Len(out) /\ SubSeq(queue \o out, 1, Len(queue)) = queue
      BY <2>1, ConcatProperties, FirstOfJoin
    <3>2. Len(queue) \in 0 .. Len(Owed[c])
      BY <2>1, <2>2, <2>5, <3>1
    <3> QED
      BY <2>2, <2>5, <3>1, <3>2
  <2> QED
    BY <2>2, <2>4, <2>5
<1>12. S!Lose(some)
  BY <1>8, <1>9, <1>10, <1>11 DEF S!Lose
<1> QED
  BY <1>7, <1>12 DEF S!Next

\* A piece sent may complete a request.
LEMMA SendMaps ==
  ASSUME IInv, Flow, NEW c \in Client, Send(c)
  PROVE  Flow' /\ (UNCHANGED S!vars \/ S!Ask(c))
<1>1. /\ recvq' = [recvq EXCEPT ![c] = Append(recvq[c], sent[c] + 1)]
      /\ sent' = [sent EXCEPT ![c] = sent[c] + 1] /\ up[c] = "open"
      /\ UNCHANGED <<fd2conn, executed, up, gone, sendq, got>>
  BY DEF Send, server
<1>2. /\ recvq \in [Client -> Seq(Nat)] /\ sent \in [Client -> Nat]
      /\ recvq[c] \in Seq(Nat) /\ Len(recvq[c]) \in Nat /\ sent[c] \in Nat
      /\ Len(executed[c]) \in Nat /\ Len(Incoming(c)) \in Nat
  BY OrderTypes DEF IInv, TypeOK
<1>3. \A d \in Client : Incoming(d)' = Incoming(d) /\ Outgoing(d)' = Outgoing(d)
  BY <1>1, SameConns
<1>4. InOrder(c, Incoming(c))'
  <2> DEFINE done == 2 * Len(executed[c])
             from == done + Len(Incoming(c))
  <2>1. /\ sent[c] = done + Len(Incoming(c)) + Len(recvq[c]) /\ Numbered(Incoming(c), done)
        /\ Numbered(recvq[c], from)
    BY <1>1 DEF Flow, InOrder
  <2>2. done \in Nat /\ from \in Nat
    BY <1>2
  <2>3. sent[c] = from + Len(recvq[c])
    BY <2>1
  <2>4. Len(Append(recvq[c], sent[c] + 1)) = Len(recvq[c]) + 1
    BY <1>2, AppendProperties
  <2> HIDE DEF from
  <2>5. Numbered(Append(recvq[c], sent[c] + 1), from)
    BY <1>2, <2>1, <2>2, <2>3, NumberedAppend
  <2>6. sent[c] + 1 = from + (Len(recvq[c]) + 1)
    BY <1>2, <2>2, <2>3
  <2>7. recvq'[c] = Append(recvq[c], sent[c] + 1) /\ sent'[c] = sent[c] + 1
    BY <1>1, <1>2
  <2> QED
    BY <1>1, <1>3, <2>1, <2>4, <2>5, <2>6, <2>7 DEF InOrder, from
<1>5. \A d \in Client : d # c => recvq'[d] = recvq[d] /\ sent'[d] = sent[d]
  BY <1>1, <1>2
<1>6. Flow'
  BY <1>1, <1>3, <1>4, <1>5 DEF Flow, InOrder
<1>7. UNCHANGED <<executed, Owed, got, Lost>>
  BY <1>1, <1>3 DEF Owed, Lost
<1>8. Asked' = Asked \/ Asked' = [Asked EXCEPT ![c] = @ + 1]
  <2>1. Asked'[c] = Asked[c] \/ Asked'[c] = Asked[c] + 1
    BY <1>1, <1>2, Frames DEF Asked
  <2>2. /\ Asked = [d \in Client |-> Asked[d]] /\ Asked' = [d \in Client |-> Asked'[d]]
        /\ \A d \in Client : d # c => Asked'[d] = Asked[d]
    BY <1>5 DEF Asked
  <2> QED
    BY <2>1, <2>2
<1> QED
  BY <1>6, <1>7, <1>8 DEF S!Ask, S!vars

LEMMA RecvMaps ==
  ASSUME IInv, Flow, NEW c \in Client, Recv(c)
  PROVE  Flow' /\ S!Answer(c)
<1>1. /\ sendq[c] # <<>> /\ c \notin gone
      /\ got' = [got EXCEPT ![c] = Append(@, Head(sendq[c]))]
      /\ sendq' = [sendq EXCEPT ![c] = Tail(sendq[c])]
      /\ UNCHANGED <<fd2conn, executed, up, gone, recvq, sent>>
  BY DEF Recv, server
<1>2. \A d \in Client : Incoming(d)' = Incoming(d) /\ Outgoing(d)' = Outgoing(d)
  BY <1>1, SameConns
<1>3. Flow'
  BY <1>1, <1>2 DEF Flow, InOrder
<1>4. sendq \in [Client -> Seq(Nat)] /\ Outgoing(c) \in Seq(Nat)
  BY BufferTypes DEF IInv, TypeOK
<1>5. Owed[c] = sendq[c] \o Outgoing(c) /\ Owed'[c] = Tail(sendq[c]) \o Outgoing(c)
  BY <1>1, <1>2, <1>4 DEF Owed
<1>6. Owed[c] # <<>> /\ Head(Owed[c]) = Head(sendq[c]) /\ Owed'[c] = Tail(Owed[c])
  BY <1>1, <1>4, <1>5, HeadTailJoin
<1>7. Owed' = [Owed EXCEPT ![c] = Tail(@)]
  <2>1. \A d \in Client : d # c => Owed'[d] = Owed[d]
    BY <1>1, <1>2, <1>4 DEF Owed
  <2>2. Owed = [d \in Client |-> Owed[d]] /\ Owed' = [d \in Client |-> Owed'[d]]
    BY DEF Owed
  <2> QED
    BY <1>6, <2>1, <2>2
<1>8. UNCHANGED <<Asked, executed, Lost>>
  BY <1>1 DEF Asked, Lost
<1> QED
  BY <1>1, <1>3, <1>6, <1>7, <1>8 DEF S!Answer

LEMMA QuitMaps ==
  ASSUME IInv, Flow, NEW c \in Client, Quit(c)
  PROVE  Flow' /\ S!Next
<1>1. /\ gone' = gone \union {c} /\ sendq' = [sendq EXCEPT ![c] = <<>>]
      /\ UNCHANGED <<fd2conn, executed, up, recvq, sent, got>>
  BY DEF Quit, server, clients
<1>2. \A d \in Client : Incoming(d)' = Incoming(d) /\ Outgoing(d)' = Outgoing(d)
  BY <1>1, SameConns
<1>3. Flow'
  BY <1>1, <1>2 DEF Flow, InOrder
<1>4. Owed' = [Owed EXCEPT ![c] = SubSeq(@, 1, 0)]
  <2>1. \A d \in Client : d # c => Owed'[d] = Owed[d]
    BY <1>1, <1>2 DEF Owed, IInv, TypeOK
  <2>2. Owed'[c] = <<>> /\ SubSeq(Owed[c], 1, 0) = <<>>
    BY <1>1, SubSeqEmpty DEF Owed
  <2>3. Owed = [d \in Client |-> Owed[d]] /\ Owed' = [d \in Client |-> Owed'[d]]
    BY DEF Owed
  <2> QED
    BY <2>1, <2>2, <2>3
<1>5. 0 \in 0 .. Len(Owed[c])
  <2>1. Owed[c] \in Seq(Nat)
    <3>1. /\ sendq[c] \in Seq(Nat) /\ Outgoing(c) \in Seq(Nat) /\ <<>> \in Seq(Nat)
      BY BufferTypes, EmptySeq DEF IInv, TypeOK
    <3> QED
      BY <3>1, ConcatProperties DEF Owed
  <2> QED
    BY <2>1, LenProperties
<1>6. Lost' = Lost \union {c}
  BY <1>1 DEF Lost
<1>7. UNCHANGED <<Asked, executed, got>>
  BY <1>1 DEF Asked
<1> QED
  BY <1>3, <1>4, <1>5, <1>6, <1>7, LoseOne

\* The service does not see a client connect or end its requests.
LEMMA ConnectMaps ==
  ASSUME IInv, Flow, NEW c \in Client, Connect(c) \/ Shutdown(c)
  PROVE  Flow' /\ UNCHANGED S!vars
<1>1. /\ UNCHANGED <<fd2conn, executed, recvq, sendq, sent, got, gone>>
      /\ up' = up \/ (up[c] = "new" /\ up' = [up EXCEPT ![c] = "open"])
  BY DEF Connect, Shutdown, server, clients
<1>2. \A d \in Client : up'[d] = "closed" <=> up[d] = "closed"
  BY <1>1 DEF IInv, TypeOK
<1> QED
  BY <1>1, <1>2, SameConns, QuietStep

LEMMA InitMaps == Init => Flow /\ S!Init
<1> SUFFICES ASSUME Init PROVE Flow /\ S!Init
  OBVIOUS
<1>1. Live = {}
  BY DEF Init, Live
<1>2. \A c : Incoming(c) = <<>> /\ Outgoing(c) = <<>>
  BY <1>1, NoBuffers
<1>3. Len(<<>>) = 0 /\ <<>> \o <<>> = <<>> /\ 0 \div 2 = 0
  BY EmptySeq, ConcatEmptySeq
<1>4. Flow
  BY <1>2, <1>3 DEF Init, Flow, InOrder, Numbered
<1>5. S!Init
  BY <1>2, <1>3 DEF Init, S!Init, Asked, Owed, Lost
<1> QED
  BY <1>4, <1>5

LEMMA StepMaps == IInv /\ Flow /\ [Next]_vars => Flow' /\ [S!Next]_(S!vars)
<1> SUFFICES ASSUME IInv, Flow, [Next]_vars PROVE Flow' /\ [S!Next]_(S!vars)
  OBVIOUS
<1>1. CASE UNCHANGED vars
  <2>1. UNCHANGED <<fd2conn, executed, recvq, sendq, sent, got, gone, up>>
    BY <1>1 DEF vars, server, sockets, clients
  <2> QED
    BY <2>1, SameConns, QuietStep
<1>2. CASE Server
  BY <1>2, ReadDataMaps, ServeOneMaps, WriteDataMaps, WriteGoneMaps, WriteKilledMaps,
     LoopMaps, AcceptMaps, CloseCheckMaps DEF Server, S!Next
<1>3. CASE Clients
  BY <1>3, SendMaps, RecvMaps, QuitMaps, ConnectMaps DEF Clients, S!Next
<1> QED
  BY <1>1, <1>2, <1>3 DEF Next

(***************************************************************************)
(* Theorems.                                                               *)
(***************************************************************************)

\* The pieces a client sent are served, buffered and queued in order.
THEOREM PiecesInOrder == Spec => []Flow
<1>1. Init => Flow
  BY InitMaps
<1>2. IInv /\ Flow /\ [Next]_vars => Flow'
  BY StepMaps
<1> QED
  BY <1>1, <1>2, Invariant, PTL DEF Spec

\* The event loop is a service: it runs the requests of each client once, in
\* the order sent, and the client reads their replies in that order.
THEOREM Refinement == Spec => ServiceSpec
<1>1. Init => S!Init
  BY InitMaps
<1>2. IInv /\ Flow /\ [Next]_vars => [S!Next]_(S!vars)
  BY StepMaps
<1> QED
  BY <1>1, <1>2, Invariant, PiecesInOrder, PTL DEF Spec, ServiceSpec, S!Spec

(***************************************************************************)
(* What the service means to a client.                                     *)
(***************************************************************************)

\* The replies read, and then those that can still be read, count up from 1;
\* while the connection lasts they are those of all the requests run.
Counted(c) ==
  /\ Numbered(executed[c], 0) /\ Numbered(got[c], 0)
  /\ Owed[c] \in Seq(Nat) /\ Numbered(Owed[c], Len(got[c]))
  /\ c \notin Lost => Len(executed[c]) = Len(got[c]) + Len(Owed[c])

LEMMA ServiceStep ==
  ASSUME IInv, \A c \in Client : Counted(c), [S!Next]_(S!vars)
  PROVE  \A c \in Client : Counted(c)'
<1>1. Owed = [c \in Client |-> Owed[c]]
  BY DEF Owed
<1>2. ASSUME UNCHANGED S!vars PROVE \A c \in Client : Counted(c)'
  BY <1>2 DEF S!vars, Counted
<1>3. ASSUME NEW d \in Client, S!Ask(d) PROVE \A c \in Client : Counted(c)'
  BY <1>3 DEF S!Ask, Counted
<1>4. ASSUME NEW d \in Client, S!Run(d), NEW c \in Client PROVE Counted(c)'
  <2> DEFINE n == Len(executed[d]) + 1
  <2>1. /\ executed' = [executed EXCEPT ![d] = Append(executed[d], n)]
        /\ Owed' = IF d \in Lost THEN Owed ELSE [Owed EXCEPT ![d] = Append(Owed[d], n)]
        /\ got' = got /\ Lost' = Lost
    BY <1>4 DEF S!Run
  <2>2. CASE c # d
    BY <1>1, <2>1, <2>2 DEF Counted, IInv, TypeOK
  <2>3. CASE c = d
    <3>1. /\ executed[c] \in Seq(Nat) /\ Len(executed[c]) \in Nat
          /\ got[c] \in Seq(Nat) /\ Len(got[c]) \in Nat
          /\ Owed[c] \in Seq(Nat) /\ Len(Owed[c]) \in Nat
      BY OrderTypes, LenProperties DEF Counted
    <3>2. Numbered(executed[c], 0) /\ Numbered(Owed[c], Len(got[c]))
      BY DEF Counted
    <3>3. n = 0 + Len(executed[c]) + 1 /\ n \in Nat
      BY <2>3, <3>1
    <3>4. executed'[c] = Append(executed[c], n) /\ Len(executed'[c]) = n
      BY <2>1, <2>3, <3>1, <3>3, AppendProperties DEF IInv, TypeOK
    <3>5. Numbered(executed'[c], 0)
      BY <3>1, <3>2, <3>3, <3>4, NumberedAppend
    <3>6. CASE d \in Lost
      BY <2>1, <2>3, <3>5, <3>6 DEF Counted
    <3>7. CASE d \notin Lost
      <4>1. n = Len(got[c]) + Len(Owed[c]) + 1
        BY <2>3, <3>1, <3>3, <3>7 DEF Counted
      <4>2. Owed'[c] = Append(Owed[c], n)
        BY <1>1, <2>1, <2>3, <3>7
      <4>3. Owed'[c] \in Seq(Nat) /\ Len(Owed'[c]) = Len(Owed[c]) + 1
        BY <3>1, <3>3, <4>2, AppendProperties
      <4>4. Numbered(Owed'[c], Len(got[c]))
        BY <3>1, <3>2, <4>1, <4>2, NumberedAppend
      <4>5. Len(executed'[c]) = Len(got[c]) + Len(Owed'[c])
        <5> DEFINE a == Len(got[c])
                   b == Len(Owed[c])
        <5>1. a \in Nat /\ b \in Nat /\ n = a + b + 1 /\ Len(Owed'[c]) = b + 1
          BY <3>1, <4>1, <4>3
        <5> HIDE DEF a, b, n
        <5>2. n = a + (b + 1)
          BY <5>1
        <5> QED
          BY <2>1, <3>4, <5>1, <5>2 DEF a, b
      <4> QED
        BY <2>1, <3>5, <4>3, <4>4, <4>5 DEF Counted
    <3> QED
      BY <3>6, <3>7
  <2> QED
    BY <2>2, <2>3
<1>5. ASSUME NEW d \in Client, S!Answer(d), NEW c \in Client PROVE Counted(c)'
  <2>1. /\ Owed[d] # <<>> /\ got' = [got EXCEPT ![d] = Append(got[d], Head(Owed[d]))]
        /\ Owed' = [Owed EXCEPT ![d] = Tail(Owed[d])]
        /\ executed' = executed /\ Lost' = Lost
    BY <1>5 DEF S!Answer
  <2>2. CASE c # d
    BY <1>1, <2>1, <2>2 DEF Counted, IInv, TypeOK
  <2>3. CASE c = d
    <3>1. /\ got[c] \in Seq(Nat) /\ Len(got[c]) \in Nat
          /\ Owed[c] \in Seq(Nat) /\ Len(Owed[c]) \in Nat /\ Len(Owed[c]) >= 1
      <4>1. got[c] \in Seq(Nat) /\ Owed[c] \in Seq(Nat) /\ Owed[c] # <<>>
        BY <2>1, <2>3, OrderTypes DEF Counted
      <4>2. Len(Owed[c]) \in Nat \ {0} /\ Len(got[c]) \in Nat
        BY <4>1, EmptySeq, LenProperties
      <4> QED
        BY <4>1, <4>2
    <3>2. Numbered(got[c], 0) /\ Numbered(Owed[c], Len(got[c]))
      BY DEF Counted
    <3>3. Head(Owed[c]) = Len(got[c]) + 1
      <4>1. Head(Owed[c]) = Owed[c][1]
        BY <2>1, <2>3, <3>1
      <4> QED
        BY <3>1, <3>2, <4>1 DEF Numbered
    <3>4. got'[c] = Append(got[c], 0 + Len(got[c]) + 1) /\ Owed'[c] = Tail(Owed[c])
      BY <1>1, <2>1, <2>3, <3>1, <3>3 DEF IInv, TypeOK
    <3>5. Numbered(got'[c], 0)
      BY <3>1, <3>2, <3>4, NumberedAppend
    <3>6. Len(got'[c]) = Len(got[c]) + 1
      BY <3>1, <3>4, AppendProperties
    <3>7. Owed'[c] \in Seq(Nat) /\ Len(Owed'[c]) = Len(Owed[c]) - 1
      BY <2>1, <2>3, <3>1, <3>4, HeadTailProperties
    <3>8. Numbered(Owed'[c], Len(got'[c]))
      <4>1. Tail(Owed[c]) = Rest(Owed[c], 1) /\ 1 \in 0 .. Len(Owed[c])
        BY <2>1, <2>3, <3>1, TailIsSubSeq DEF Rest
      <4>2. Numbered(Rest(Owed[c], 1), Len(got[c]) + 1)
        BY <3>1, <3>2, <4>1, NumberedCut
      <4> QED
        BY <3>4, <3>6, <4>1, <4>2
    <3>9. Len(got'[c]) + Len(Owed'[c]) = Len(got[c]) + Len(Owed[c])
      <4> DEFINE a == Len(got[c])
                 b == Len(Owed[c])
      <4>1. a \in Nat /\ b \in Nat /\ Len(got'[c]) = a + 1 /\ Len(Owed'[c]) = b - 1
        BY <3>1, <3>6, <3>7
      <4> HIDE DEF a, b
      <4>2. a + 1 + (b - 1) = a + b
        BY <4>1
      <4> QED
        BY <4>1, <4>2 DEF a, b
    <3> QED
      BY <2>1, <3>5, <3>7, <3>8, <3>9 DEF Counted
  <2> QED
    BY <2>2, <2>3
<1>6. ASSUME NEW some \in SUBSET Client, S!Lose(some), NEW c \in Client PROVE Counted(c)'
  <2>1. Lost' = Lost \union some /\ executed' = executed /\ got' = got
    BY <1>6 DEF S!Lose
  <2>2. CASE c \notin some
    <3>1. Owed'[c] = Owed[c]
      BY <1>6, <2>2 DEF S!Lose
    <3> QED
      BY <2>1, <2>2, <3>1 DEF Counted
  <2>3. CASE c \in some
    <3>1. PICK n \in 0 .. Len(Owed[c]) : Owed'[c] = First(Owed[c], n)
      BY <1>6, <2>3 DEF S!Lose, First
    <3>2. Owed[c] \in Seq(Nat) /\ Numbered(Owed[c], Len(got[c])) /\ Len(got[c]) \in Nat
      BY OrderTypes, LenProperties DEF Counted
    <3>3. Owed'[c] \in Seq(Nat) /\ Numbered(Owed'[c], Len(got[c]))
      <4>1. First(Owed[c], n) \in Seq(Nat) /\ Numbered(First(Owed[c], n), Len(got[c]))
        BY <3>2, Cut, NumberedCut
      <4> QED
        BY <3>1, <4>1
    <3> QED
      BY <2>1, <2>3, <3>3 DEF Counted
  <2> QED
    BY <2>2, <2>3
<1> QED
  BY <1>2, <1>3, <1>4, <1>5, <1>6 DEF S!Next

\* The replies a client has read are those of its first requests, in order:
\* none is missing, repeated or out of place, whatever else happened.
RepliesInOrder == \A c \in Client : Numbered(got[c], 0)

\* Shown of the service; the event loop has it because it implements it.
THEOREM RepliesRead == Spec => []RepliesInOrder
<1> DEFINE Inv == \A c \in Client : Counted(c)
<1>1. S!Init => Inv
  BY EmptySeq DEF S!Init, Counted, Numbered
<1>2. IInv /\ Inv /\ [S!Next]_(S!vars) => Inv'
  BY ServiceStep
<1>3. Inv => RepliesInOrder
  BY DEF Counted, RepliesInOrder
<1> HIDE DEF Inv
<1> QED
  BY <1>1, <1>2, <1>3, Invariant, Refinement, PTL DEF ServiceSpec, S!Spec

=============================================================================
