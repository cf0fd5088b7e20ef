--------------------------- MODULE PipelineProofs ---------------------------
(* Proofs about Pipeline, for every list of queries that fits, every size   *)
(* of the sockets' buffers and of the server's reads.                       *)
EXTENDS Pipeline, TLAPS

(***************************************************************************)
(* The inductive invariant.                                                *)
(***************************************************************************)

\* No socket holds more than the kernel has room for.
Room == sent <= read + CapIn /\ written <= got + CapOut

\* The client reads nothing before everything is sent.
ClientPhases ==
  /\ phase = "write" => got = 0
  /\ phase # "write" => sent = Total
  /\ phase = "closed" => got = Total

\* No complete request waits in incoming except while requests are served.
Drained == pc # "serve" => ~Complete

\* The flags of an open connection: it reads when it owes nothing, and
\* writes when it owes something; in between they are being set.
Intentions ==
  /\ conn = "none" => /\ pc = "poll" /\ ~want_read /\ ~want_write
                      /\ written = End[served]
  /\ conn = "open" /\ pc # "serve" => /\ want_read <=> written = End[served]
                                      /\ want_write <=> written < End[served]
  /\ pc = "serve" => want_read /\ ~want_write
  /\ pc = "read" => want_read /\ (read < sent \/ phase = "closed")
  /\ pc = "write" => want_write

\* A connection is given up at the end of the stream only.
Closing ==
  /\ pc # "poll" => conn = "open"
  /\ want_close => phase = "closed"
  /\ conn = "closed" => want_close

IInv == TypeOK /\ Room /\ ClientPhases /\ Drained /\ Intentions /\ Closing

USE SizesAssumption, FramesAssumption DEF Query

\* Frame ends are within the stream.
LEMMA EndRange ==
  /\ Total \in Nat
  /\ \A k \in 0 .. Queries : End[k] \in Nat /\ End[k] <= Total
  /\ \A k \in 0 .. Queries : k < Queries => k + 1 \in 0 .. Queries /\ End[k] < End[k + 1]
<1>1. Queries \in 0 .. Queries /\ Total \in Nat
  BY DEF Total
<1>2. ASSUME NEW k \in 0 .. Queries PROVE End[k] \in Nat /\ End[k] <= Total
  <2>1. CASE k = Queries
    BY <2>1, <1>1 DEF Total
  <2>2. CASE k < Queries
    BY <2>2, <1>1 DEF Total
  <2> QED
    BY <2>1, <2>2
<1>3. ASSUME NEW k \in 0 .. Queries, k < Queries
      PROVE  k + 1 \in 0 .. Queries /\ End[k] < End[k + 1]
  BY <1>3, <1>2
<1> QED
  BY <1>1, <1>2, <1>3

\* What is read and not taken as a request is less than a frame.
LEMMA Unfinished ==
  ASSUME TypeOK, ~Complete
  PROVE  read < End[served] + 4 + k_max_msg
<1>1. End[served] \in Nat /\ read \in Nat /\ k_max_msg \in Nat /\ served \in 0 .. Queries
  BY EndRange DEF TypeOK
<1>2. CASE served < Queries
  <2>1. served + 1 \in Query /\ End[served + 1] \in Nat /\ (served + 1) - 1 = served
    BY <1>1, <1>2, EndRange
  <2>2. End[served + 1] <= End[(served + 1) - 1] + 4 + k_max_msg
    BY <2>1
  <2>3. read < End[served + 1]
    BY <1>1, <1>2, <2>1 DEF Complete
  <2>4. End[served + 1] <= End[served] + 4 + k_max_msg
    BY <2>1, <2>2
  <2> HIDE SizesAssumption, FramesAssumption
  <2> QED
    BY <1>1, <2>1, <2>3, <2>4
<1>3. CASE ~(served < Queries)
  <2>1. read <= Total /\ Total = End[served]
    BY <1>1, <1>3, EndRange DEF TypeOK, Total
  <2> QED
    BY <1>1, <2>1
<1> QED
  BY <1>2, <1>3

\* A read adds at most ReadMax bytes to them.
LEMMA OneReadMore ==
  ASSUME NEW a \in Nat, NEW b \in Nat, NEW n \in 1 .. ReadMax, a < b + 4 + k_max_msg
  PROVE  a + n < b + 4 + k_max_msg + ReadMax
OBVIOUS

(***************************************************************************)
(* Steps.                                                                  *)
(***************************************************************************)

LEMMA InitInv == Init => IInv
<1> SUFFICES ASSUME Init PROVE IInv
  OBVIOUS
<1>1. End[0] = 0 /\ 0 \in 0 .. Queries /\ (0 < Queries => End[1] > 0)
  BY EndRange
<1>2. End[served] = 0 /\ Total \in Nat /\ CapIn \in Nat /\ CapOut \in Nat
  BY <1>1, EndRange DEF Init
<1>3. TypeOK
  <2>1. sent \in 0 .. Total /\ served \in 0 .. Queries
    BY <1>1, <1>2 DEF Init
  <2>2. got <= written /\ written <= End[served] /\ End[served] <= read /\ read <= sent
        /\ read < written + 4 + k_max_msg + ReadMax
    BY <1>2 DEF Init
  <2> QED
    BY <2>1, <2>2 DEF Init, TypeOK
<1>4. Room /\ ClientPhases /\ Drained /\ Intentions /\ Closing
  BY <1>1, <1>2, EndRange DEF Init, Room, ClientPhases, Drained, Intentions, Closing, Complete
<1> QED
  BY <1>3, <1>4 DEF IInv

LEMMA ClientStep ==
  ASSUME IInv, Client
  PROVE  IInv'
<1> USE DEF IInv, TypeOK, Room, ClientPhases, Drained, Intentions, Closing, Complete,
            server, wants
<1>1. CASE SendReq
  BY <1>1, EndRange DEF SendReq
<1>2. CASE AllSent
  BY <1>2, EndRange DEF AllSent
<1>3. CASE ReadRes
  BY <1>3, EndRange DEF ReadRes
<1>4. CASE Close
  BY <1>4, EndRange DEF Close
<1> QED
  BY <1>1, <1>2, <1>3, <1>4 DEF Client

LEMMA ServerStep ==
  ASSUME IInv, Server
  PROVE  IInv'
<1> USE DEF IInv, TypeOK, Room, ClientPhases, Drained, Intentions, Closing, Complete,
            client, wants
<1>1. CASE HandleAccept
  BY <1>1, EndRange DEF HandleAccept
<1>2. CASE PollIn
  BY <1>2, EndRange DEF PollIn
<1>3. CASE PollOut
  BY <1>3, EndRange DEF PollOut
<1>4. CASE ReadSome
  <2>1. PICK n \in 1 .. ReadMax : read + n <= sent /\ read' = read + n
    BY <1>4 DEF ReadSome
  <2>2. written = End[served] /\ End[served] \in Nat /\ read \in Nat /\ ~Complete
    BY <1>4, EndRange DEF ReadSome
  <2>3. read < written + 4 + k_max_msg
    BY <2>2, Unfinished
  <2>4. read' \in Nat /\ read' < written' + 4 + k_max_msg + ReadMax
    <3>1. written' = written /\ written \in Nat /\ read \in Nat
      BY <1>4 DEF ReadSome
    <3>2. read + n < written + 4 + k_max_msg + ReadMax
      BY <2>3, <3>1, OneReadMore
    <3> QED
      BY <2>1, <3>1, <3>2
  <2>6. TypeOK' /\ Room'
    BY <1>4, <2>1, <2>2, <2>4 DEF ReadSome
  <2>5. ClientPhases' /\ Drained' /\ Intentions' /\ Closing'
    BY <1>4, <2>1 DEF ReadSome
  <2> QED
    BY <2>5, <2>6
<1>5. CASE ReadEOF
  BY <1>5, EndRange DEF ReadEOF
<1>6. CASE TryOneRequest
  <2>1. /\ served \in 0 .. Queries /\ served < Queries /\ served' = served + 1
        /\ served' \in 0 .. Queries /\ End[served] < End[served'] /\ End[served'] <= read
    BY <1>6, EndRange DEF TryOneRequest
  <2>2. TypeOK'
    BY <1>6, <2>1, EndRange DEF TryOneRequest
  <2>3. Room' /\ ClientPhases' /\ Drained' /\ Intentions' /\ Closing'
    BY <1>6, <2>1, EndRange DEF TryOneRequest
  <2> QED
    BY <2>2, <2>3
<1>7. CASE ServedAll
  <2>1. End[served] \in Nat /\ written <= End[served] /\ written \in Nat
    BY EndRange
  <2>2. CASE written < End[served]
    <3>1. /\ pc = "serve" /\ ~Complete /\ want_read' = FALSE /\ want_write' = TRUE
          /\ pc' = "write" /\ conn = "open"
          /\ UNCHANGED <<client, conn, want_close, read, served, written>>
      BY <1>7, <2>2 DEF ServedAll, Await
    <3>2. TypeOK'
      BY <3>1
    <3>3. Room' /\ ClientPhases' /\ Drained' /\ Closing'
      BY <3>1
    <3>4. Intentions'
      BY <2>1, <2>2, <3>1
    <3> QED
      BY <3>2, <3>3, <3>4
  <2>3. CASE ~(written < End[served])
    BY <1>7, <2>1, <2>3 DEF ServedAll
  <2> QED
    BY <2>2, <2>3
<1>8. CASE HandleWrite
  <2>1. End[served] \in Nat /\ served' = served /\ read' = read /\ got' = got
    BY <1>8, EndRange DEF HandleWrite
  <2>2. ASSUME NEW n \in 1 .. CapOut,
               Taken(n), written' = written + n,
               want_read' = (written + n = End[served]),
               want_write' = (written + n < End[served])
        PROVE  IInv'
    <3>1. written' \in Nat /\ read' < written' + 4 + k_max_msg + ReadMax
      BY <1>8, <2>1, <2>2 DEF Taken
    <3>3. TypeOK'
      BY <1>8, <2>1, <2>2, <3>1 DEF HandleWrite, Taken
    <3>2. Room' /\ ClientPhases' /\ Drained' /\ Intentions' /\ Closing'
      BY <1>8, <2>1, <2>2 DEF HandleWrite, Taken
    <3> QED
      BY <3>2, <3>3
  <2>3. CASE UNCHANGED <<written, want_read, want_write>>
    BY <1>8, <2>1, <2>3 DEF HandleWrite
  <2> QED
    BY <1>8, <2>2, <2>3 DEF HandleWrite
<1>9. CASE Settle
  BY <1>9, EndRange DEF Settle
<1> QED
  BY <1>1, <1>2, <1>3, <1>4, <1>5, <1>6, <1>7, <1>8, <1>9 DEF Server

(***************************************************************************)
(* Theorems.                                                               *)
(***************************************************************************)

\* The invariant holds in every state.
THEOREM Invariant == Spec => []IInv
<1>1. Init => IInv
  BY InitInv
<1>2. IInv /\ [Next]_vars => IInv'
  <2> SUFFICES ASSUME IInv, [Next]_vars PROVE IInv'
    OBVIOUS
  <2>1. CASE Client
    BY <2>1, ClientStep
  <2>2. CASE Server
    BY <2>2, ServerStep
  <2>3. CASE UNCHANGED vars
    BY <2>3 DEF vars, client, server, wants, IInv, TypeOK, Room, ClientPhases,
                Drained, Intentions, Closing, Complete
  <2> QED
    BY <2>1, <2>2, <2>3 DEF Next
<1> QED
  BY <1>1, <1>2, PTL DEF Spec

\* Bytes are read, served and written in this order, and the server keeps
\* less than one frame and one read of them, however far the client is ahead.
THEOREM TypeCorrect == Spec => []TypeOK
<1>1. IInv => TypeOK
  BY DEF IInv
<1> QED
  BY <1>1, Invariant, PTL

\* A server that waits for input has been sent everything it was given, and
\* then the client can go on.
LEMMA ReadingServer ==
  ASSUME IInv, conn = "open", pc = "poll", want_read, read = sent, phase # "closed"
  PROVE  ClientCanMove
<1> USE DEF IInv, TypeOK, Room
<1>1. CASE phase = "write"
  BY <1>1 DEF ClientCanMove
<1>2. CASE phase = "read"
  <2>1. sent = Total /\ ~Complete /\ written = End[served]
    BY <1>2 DEF ClientPhases, Drained, Intentions
  <2>2. served = Queries
    BY <2>1, EndRange DEF Complete
  <2>3. written = Total
    BY <2>1, <2>2 DEF Total
  <2> QED
    BY <1>2, <2>3 DEF ClientCanMove
<1> QED
  BY <1>1, <1>2

\* A server that waits for room to write has filled the client's side; if
\* the client still writes, all it has left to write fits.
LEMMA WritingServer ==
  ASSUME IInv, conn = "open", pc = "poll", want_write, written = got + CapOut
  PROVE  ClientCanMove
<1> USE DEF IInv, TypeOK, Room
<1>1. End[served] \in Nat /\ written < End[served] /\ Total \in Nat
  BY EndRange DEF Intentions
<1>2. CASE phase = "write"
  <2>1. End[served] > CapOut
    BY <1>1, <1>2 DEF ClientPhases
  <2>2. served \in Query
    BY <2>1
  <2>3. Total <= End[served] + CapIn
    BY <2>1, <2>2, FitsAssumption
  <2>4. sent = Total \/ sent < read + CapIn
    BY <1>1, <2>3
  <2> QED
    BY <1>2, <2>4 DEF ClientCanMove
<1>3. CASE phase = "read"
  BY <1>3 DEF ClientCanMove
<1>4. CASE phase = "closed"
  BY <1>1, <1>4, EndRange DEF ClientPhases
<1> QED
  BY <1>2, <1>3, <1>4

\* The client and the server never wait for each other.
THEOREM NoDeadlock == Spec => []NeverStuck
<1>1. IInv => NeverStuck
  <2> SUFFICES ASSUME IInv, phase # "closed", ~ServerCanMove PROVE ClientCanMove
    BY DEF NeverStuck
  <2>1. pc = "poll" /\ conn = "open"
    BY DEF ServerCanMove, IInv, TypeOK, Closing
  <2>2. End[served] \in Nat /\ (want_read \/ want_write)
    BY <2>1, EndRange DEF IInv, TypeOK, Intentions
  <2>3. CASE want_read
    BY <2>1, <2>3, ReadingServer DEF ServerCanMove, IInv, TypeOK, Room
  <2>4. CASE want_write
    BY <2>1, <2>4, WritingServer DEF ServerCanMove, IInv, TypeOK, Room
  <2> QED
    BY <2>2, <2>3, <2>4
<1> QED
  BY <1>1, Invariant, PTL
=============================================================================
