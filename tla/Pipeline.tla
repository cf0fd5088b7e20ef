------------------------------ MODULE Pipeline ------------------------------
(***************************************************************************)
(* event_loop/client_1.cpp, which writes all its queries before it reads   *)
(* the first reply, against event_loop/server_1.cpp, the event loop before *)
(* it had commands: a request is answered with itself, and while a reply   *)
(* waits to be written nothing is read (server_4.cpp kept that loop).      *)
(*                                                                         *)
(* Request and reply have the same bytes, so both streams are positions in *)
(* one sequence of frames:                                                 *)
(*                                                                         *)
(*   got <= written <= End[served] <= read <= sent <= Total                *)
(*                                                                         *)
(* incoming holds the bytes from End[served] to read, outgoing those from  *)
(* written to End[served], the socket to the server those from read to     *)
(* sent, and the one to the client those from got to written.              *)
(***************************************************************************)
EXTENDS Integers

CONSTANTS Queries,   \* the length of query_list
          End,       \* End[k]: where the frame of the k-th query ends
          k_max_msg,
          ReadMax,   \* sizeof(buf) in handle_read, 64 KiB
          CapIn,     \* bytes the kernel holds between the two processes,
          CapOut     \* to the server and to the client

Query == 1 .. Queries
Total == End[Queries]

ASSUME SizesAssumption ==
  /\ Queries \in Nat \ {0} /\ k_max_msg \in Nat
  /\ ReadMax \in Nat \ {0} /\ CapIn \in Nat \ {0} /\ CapOut \in Nat \ {0}
  /\ End \in [0 .. Queries -> Nat] /\ End[0] = 0

\* send_req refuses a longer message, and query_list has none.
ASSUME FramesAssumption ==
  /\ \A j, k \in 0 .. Queries : j < k => End[j] + 4 <= End[k]
  /\ \A k \in Query : End[k] <= End[k - 1] + 4 + k_max_msg

\* What the client relies on: once the replies up to a query are more than
\* its side holds, so that the server waits, the queries after it fit into
\* the server's side.  (One large message, and a small one after it.)
ASSUME FitsAssumption ==
  \A k \in Query : End[k] > CapOut => Total <= End[k] + CapIn

VARIABLES phase,     \* of the client: "write", "read", "closed"
          sent, got,
          conn,      \* the server's connection: "none", "open", "closed"
          want_read, want_write, want_close,
          pc,        \* of the server: "poll", "read", "serve", "write", "settle"
          read, served, written

client == <<phase, sent, got>>
wants  == <<want_read, want_write, want_close>>
server == <<conn, wants, pc, read, served, written>>
vars   == <<client, server>>

Init == /\ phase = "write" /\ sent = 0 /\ got = 0
        /\ conn = "none" /\ pc = "poll"
        /\ want_read = FALSE /\ want_write = FALSE /\ want_close = FALSE
        /\ read = 0 /\ served = 0 /\ written = 0

-----------------------------------------------------------------------------
(* The client.  connect() returns before the server accepts. *)

\* A write() of write_all, by send_req.
SendReq ==
  /\ phase = "write"
  /\ \E n \in 1 .. CapIn : /\ sent + n <= Total /\ sent + n <= read + CapIn
                           /\ sent' = sent + n
  /\ UNCHANGED <<phase, got, server>>

AllSent == /\ phase = "write" /\ sent = Total
           /\ phase' = "read"
           /\ UNCHANGED <<sent, got, server>>

\* A read() of read_full, by read_res.
ReadRes ==
  /\ phase = "read"
  /\ \E n \in 1 .. CapOut : got + n <= written /\ got' = got + n
  /\ UNCHANGED <<phase, sent, server>>

Close == /\ phase = "read" /\ got = Total
         /\ phase' = "closed"
         /\ UNCHANGED <<sent, got, server>>

-----------------------------------------------------------------------------
(* The server. *)

HandleAccept == /\ pc = "poll" /\ conn = "none"
                /\ conn' = "open" /\ want_read' = TRUE
                /\ UNCHANGED <<client, want_write, want_close, pc, read, served, written>>

\* poll() returns: bytes or the end of the stream to read, or room to write.
PollIn == /\ pc = "poll" /\ conn = "open"
          /\ want_read /\ (read < sent \/ phase = "closed")
          /\ pc' = "read"
          /\ UNCHANGED <<client, conn, wants, read, served, written>>

PollOut == /\ pc = "poll" /\ conn = "open"
           /\ want_write /\ written < got + CapOut
           /\ pc' = "write"
           /\ UNCHANGED <<client, conn, wants, read, served, written>>

\* handle_read: some bytes, or the end.
ReadSome ==
  /\ pc = "read"
  /\ \E n \in 1 .. ReadMax : read + n <= sent /\ read' = read + n
  /\ pc' = "serve"
  /\ UNCHANGED <<client, conn, wants, served, written>>

ReadEOFIgnored == /\ pc = "read" /\ read = sent
                  /\ pc' = "settle"
                  /\ UNCHANGED <<client, conn, wants, read, served, written>>

ReadEOF == /\ pc = "read" /\ read = sent
           /\ want_close' = TRUE
           /\ pc' = "settle"
           /\ UNCHANGED <<client, conn, want_read, want_write, read, served, written>>

\* Only the first request of a read is looked at.
CompleteFirst == served < Queries /\ End[served + 1] <= read /\ written = End[served]

\* try_one_request: the next frame has arrived.
Complete == served < Queries /\ End[served + 1] <= read

TryOneRequest == /\ pc = "serve" /\ Complete
                 /\ served' = served + 1
                 /\ UNCHANGED <<client, conn, wants, pc, read, written>>

AwaitReadOn == want_write' = TRUE /\ pc' = "write" /\ UNCHANGED want_read

\* The loop over try_one_request ends.
Await == /\ want_read' = FALSE /\ want_write' = TRUE
         /\ pc' = "write"

ServedAll ==
  /\ pc = "serve" /\ ~Complete
  /\ IF written < End[served] THEN Await
     ELSE pc' = "settle" /\ UNCHANGED <<want_read, want_write>>
  /\ UNCHANGED <<client, conn, want_close, read, served, written>>

\* handle_write: what there is room for, or EAGAIN.
Taken(n) == written + n <= End[served] /\ written + n <= got + CapOut

HandleWrite ==
  /\ pc = "write"
  /\ \/ \E n \in 1 .. CapOut :
          /\ Taken(n)
          /\ written' = written + n
          /\ want_read' = (written + n = End[served])
          /\ want_write' = (written + n < End[served])
     \/ /\ written = got + CapOut
        /\ UNCHANGED <<written, want_read, want_write>>
  /\ pc' = "settle"
  /\ UNCHANGED <<client, conn, want_close, read, served>>

\* The end of the round.
Settle == /\ pc = "settle"
          /\ conn' = IF want_close THEN "closed" ELSE conn
          /\ pc' = "poll"
          /\ UNCHANGED <<client, wants, read, served, written>>

Client == SendReq \/ AllSent \/ ReadRes \/ Close

Server == HandleAccept \/ PollIn \/ PollOut \/ ReadSome \/ ReadEOF \/ TryOneRequest
          \/ ServedAll \/ HandleWrite \/ Settle

Next == Client \/ Server

Spec == Init /\ [][Next]_vars

\* Two processes that run; a blocking call returns when it can.
FairSpec == Spec /\ WF_vars(Client) /\ WF_vars(Server)

-----------------------------------------------------------------------------
(* Correctness. *)

\* Types; the positions stay in order: no request is taken before all its
\* bytes are here, no byte is sent before it was served.  And the memory of
\* the connection, incoming and outgoing together, stays below one frame and
\* one read, since the server does not read while it owes (server_1.cpp:272).
TypeOK ==
  /\ phase \in {"write", "read", "closed"} /\ conn \in {"none", "open", "closed"}
  /\ pc \in {"poll", "read", "serve", "write", "settle"}
  /\ want_read \in BOOLEAN /\ want_write \in BOOLEAN /\ want_close \in BOOLEAN
  /\ sent \in 0 .. Total /\ got \in Nat /\ read \in Nat /\ written \in Nat
  /\ served \in 0 .. Queries
  /\ got <= written /\ written <= End[served] /\ End[served] <= read /\ read <= sent
  /\ read < written + 4 + k_max_msg + ReadMax

ClientCanMove == \/ phase = "write" /\ (sent = Total \/ sent < read + CapIn)
                 \/ phase = "read"  /\ (got = Total \/ got < written)

ServerCanMove == \/ pc # "poll" \/ conn = "none"
                 \/ want_read  /\ read < sent
                 \/ want_write /\ written < got + CapOut

\* The client that writes before it reads and the server that does not read
\* while it has to write never wait for each other (server_1.cpp:272,
\* client_1.cpp:130).
NeverStuck == phase # "closed" => ClientCanMove \/ ServerCanMove

\* The client gets all its replies, and the server lets the connection go.
Finishes == <>(conn = "closed")
=============================================================================
