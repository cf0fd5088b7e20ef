---------------------------- MODULE BridgeProofs ----------------------------
(* Proofs about Bridge, for any number of commands, of commands that wait   *)
(* at a time, and of pieces of a reply.                                     *)
EXTENDS Bridge, FiniteSetTheorems, SequenceTheorems, TLAPS

(***************************************************************************)
(* The inductive invariant.                                                *)
(***************************************************************************)

\* The page and the database leave one after the other, and a connection to
\* the database that is closed carries nothing.
Leaving ==
  /\ link \in {"ended", "closed"} => ws = "closed"
  /\ link = "closed" => wire = <<>> /\ toDb = <<>>

\* Commands and replies are under way in the order of the commands.
Ordered ==
  /\ \A i \in 1 .. Len(wire) : wire[i].reply <= issued
  /\ \A i \in 1 .. Len(toDb) : toDb[i] <= issued
  /\ \A i, j \in 1 .. Len(wire) : i <= j => wire[i].reply <= wire[j].reply
  /\ \A i \in 1 .. Len(wire), j \in 1 .. Len(toDb) : wire[i].reply <= toDb[j]
  /\ \A i, j \in 1 .. Len(toDb) : i <= j => toDb[i] <= toDb[j]

UnderWay(c) == \/ \E i \in 1 .. Len(wire) : wire[i].reply = c
               \/ \E i \in 1 .. Len(toDb) : toDb[i] = c

\* A reader that has seen nothing has its own reply before it, and what a
\* reader took for its reply is not a later one.
Readers ==
  /\ IsFiniteSet(readers)
  /\ \A r \in readers :
       /\ r.reply = None => UnderWay(r.cmd) \/ link = "closed"
       /\ r.reply \in {None, Garbage} \union 1 .. r.cmd

\* No command has shared the socket so far.
AllAlone == 1 .. issued \subseteq alone \union TooLong

\* The only command under way is c: with the database, answered in full, or
\* answered and partly read.
Single(c) ==
  \/ readers = {Reader(c)} /\ toDb = <<c>> /\ wire = <<>>
  \/ readers = {Reader(c)} /\ toDb = <<>> /\ wire = Reply(c)
  \/ /\ readers = {[cmd |-> c, reply |-> c, left |-> Len(wire)]} /\ Len(wire) > 0
     /\ toDb = <<>>
     /\ \A i \in 1 .. Len(wire) : wire[i] = Body(c)

\* As long as that is so at most one command is under way; once it is not, the
\* commands that were alone are over.
Apart ==
  /\ alone \subseteq 1 .. issued
  /\ \A c \in Command : c > issued => answer[c] = None
  /\ AllAlone => \/ link = "closed"
                 \/ readers = {} /\ toDb = <<>> /\ wire = <<>>
                 \/ \E c \in 1 .. issued : Single(c)
  /\ ~AllAlone => \A r \in readers : r.cmd \notin alone

IInv == /\ TypeOK /\ Leaving /\ Ordered /\ Readers /\ Apart
        /\ NeverAhead /\ MatchedAlone

-----------------------------------------------------------------------------
USE BridgeAssumption DEF Command, None, Garbage, Refused

Piece == [reply : Command, header : BOOLEAN]

ReaderType == [cmd : Command, reply : 0 .. Garbage, left : 0 .. Longest]

\* It waits for no more than the body of the reply it knows.
Fits(r) == r.reply # Garbage => r.left <= BodyPieces

\* A reader on the socket that has taken a header waits for something.
Waits(r) == (r.reply = None <=> r.left = 0) /\ Fits(r)

(***************************************************************************)
(* The operators of the model.                                             *)
(***************************************************************************)

\* Pieces are what Header, Body and Reply say.
LEMMA ReplyPieces ==
  ASSUME NEW c \in Command
  PROVE  /\ Reply(c) \in Seq(Piece) /\ Len(Reply(c)) = BodyPieces + 1
         /\ Reply(c)[1] = Header(c)
         /\ \A i \in 2 .. BodyPieces + 1 : Reply(c)[i] = Body(c)
         /\ \A i \in 1 .. BodyPieces + 1 : Reply(c)[i].reply = c
<1>1. \A i \in 1 .. BodyPieces + 1 : Reply(c)[i] \in Piece
  BY DEF Reply, Header, Body, Piece
<1>2. Reply(c) \in [1 .. BodyPieces + 1 -> Piece] /\ BodyPieces + 1 \in Nat
  BY <1>1 DEF Reply
<1>3. Reply(c) \in Seq(Piece) /\ Len(Reply(c)) = BodyPieces + 1
  BY <1>2
<1> QED
  BY <1>3 DEF Reply, Header, Body

\* The first n pieces of the wire and the others.
LEMMA Cut ==
  ASSUME wire \in Seq(Piece), NEW n \in 1 .. Len(wire)
  PROVE  LET chunk == SubSeq(wire, 1, n)
             rest  == SubSeq(wire, n + 1, Len(wire))
         IN /\ chunk \in Seq(Piece) /\ Len(chunk) = n /\ Head(chunk) = wire[1]
            /\ rest \in Seq(Piece) /\ Len(rest) = Len(wire) - n
            /\ \A i \in 1 .. Len(rest) : rest[i] = wire[n + i]
            /\ wire[1] \in Piece
<1> DEFINE chunk == SubSeq(wire, 1, n)
           rest  == SubSeq(wire, n + 1, Len(wire))
<1>1. Len(wire) \in Nat /\ \A i \in 1 .. Len(wire) : wire[i] \in Piece
  BY LenProperties, ElementOfSeq
<1>2. \A i \in 1 .. n : wire[i] \in Piece
  BY <1>1
<1>3. \A i \in n + 1 .. Len(wire) : wire[i] \in Piece
  BY <1>1
<1>4. chunk \in Seq(Piece) /\ Len(chunk) = n /\ chunk[1] = wire[1]
  BY <1>1, <1>2, SubSeqProperties
<1>5. /\ rest \in Seq(Piece) /\ Len(rest) = Len(wire) - n
      /\ \A i \in 1 .. Len(rest) : rest[i] = wire[n + i]
  BY <1>1, <1>3, SubSeqProperties
<1>6. Head(chunk) = chunk[1]
  BY <1>4
<1> QED
  BY <1>1, <1>4, <1>5, <1>6

\* Readers are told apart by what they hold.
LEMMA SameReader ==
  ASSUME NEW r \in ReaderType, NEW q \in ReaderType,
         r.cmd = q.cmd, r.reply = q.reply, r.left = q.left
  PROVE  r = q
  BY DEF ReaderType

\* What a chunk does to one reader: the reader has a reply now, its own or an
\* earlier one or garbage, and waits for no more than the body.
LEMMA AfterChunk ==
  ASSUME NEW r \in ReaderType, Fits(r), NEW chunk \in Seq(Piece), Len(chunk) \in Nat \ {0},
         NEW first \in Piece, Head(chunk) = first,
         NEW misled, NEW size \in [misled -> 0 .. Longest],
         r \in misled <=> Misread(r, chunk),
         NEW a, a = After(r, chunk, size)
  PROVE  /\ a \in ReaderType /\ Fits(a) /\ a.cmd = r.cmd /\ a.reply # None
         /\ r.reply # None => a.reply = r.reply
         /\ r.reply = None => a.reply \in {Garbage, first.reply}
<1>0. Garbage \in 0 .. Garbage /\ Garbage # None
  OBVIOUS
<1>1. CASE r \in misled
  <2>1. PICK left \in 0 .. Longest :
          a = [r EXCEPT !.reply = Garbage, !.left = left]
    BY <1>1 DEF After
  <2>2. r.reply = None
    BY <1>1 DEF Misread
  <2> HIDE DEF Garbage
  <2>3. a \in ReaderType /\ a.cmd = r.cmd /\ a.reply = Garbage
    BY <1>0, <2>1 DEF ReaderType
  <2> QED
    BY <1>0, <2>2, <2>3 DEF Fits
<1>2. CASE r \notin misled /\ r.reply = None
  <2>1. PICK left \in 0 .. BodyPieces :
          a = [r EXCEPT !.reply = first.reply, !.left = left]
    <3> DEFINE left == IF Len(chunk) - 1 < BodyPieces
                         THEN BodyPieces - (Len(chunk) - 1) ELSE 0
    <3>1. left \in 0 .. BodyPieces
      OBVIOUS
    <3>2. a = [r EXCEPT !.reply = first.reply, !.left = left]
      BY <1>2 DEF After, Read, ReaderType
    <3> QED
      BY <3>1, <3>2
  <2>2. /\ first.reply \in 0 .. Garbage /\ first.reply # None
        /\ left \in 0 .. Longest /\ left <= BodyPieces
    BY DEF Piece
  <2> HIDE DEF Garbage
  <2>3. a \in ReaderType /\ a.cmd = r.cmd /\ a.reply = first.reply /\ a.left = left
    BY <2>1, <2>2 DEF ReaderType
  <2> QED
    BY <1>2, <2>2, <2>3 DEF Fits
<1>3. CASE r \notin misled /\ r.reply # None
  <2>1. PICK left \in 0 .. Longest : a = [r EXCEPT !.left = left] /\ left <= r.left
    <3> DEFINE left == IF Len(chunk) < r.left THEN r.left - Len(chunk) ELSE 0
    <3>1. left \in 0 .. Longest /\ left <= r.left
      BY DEF ReaderType
    <3>2. a = [r EXCEPT !.left = left]
      BY <1>3 DEF After, Read, ReaderType
    <3> QED
      BY <3>1, <3>2
  <2>2. a \in ReaderType /\ a.cmd = r.cmd /\ a.reply = r.reply /\ a.left <= r.left
    BY <1>3, <2>1 DEF ReaderType
  <2>3. r.left \in Nat /\ a.left \in Nat
    BY <2>2 DEF ReaderType
  <2> QED
    BY <1>3, <2>2, <2>3 DEF Fits
<1> QED
  BY <1>1, <1>2, <1>3

(***************************************************************************)
(* The steps.                                                              *)
(***************************************************************************)

\* The types the steps need, element by element.
LEMMA Types ==
  ASSUME TypeOK
  PROVE  /\ wire \in Seq(Piece) /\ Len(wire) \in Nat
         /\ toDb \in Seq(Command) /\ Len(toDb) \in Nat
         /\ \A i \in 1 .. Len(wire) : wire[i] \in Piece
         /\ \A i \in 1 .. Len(toDb) : toDb[i] \in Command
         /\ readers \subseteq ReaderType
         /\ \A r \in readers : r.cmd \in 1 .. issued /\ Waits(r)
  <1>1. wire \in Seq(Piece) /\ toDb \in Seq(Command)
    BY DEF TypeOK, Piece
  <1>2. /\ Len(wire) \in Nat /\ \A i \in 1 .. Len(wire) : wire[i] \in Piece
        /\ Len(toDb) \in Nat /\ \A i \in 1 .. Len(toDb) : toDb[i] \in Command
    BY <1>1, LenProperties, ElementOfSeq
  <1>3. 1 .. issued \subseteq Command
    BY DEF TypeOK
  <1>4. readers \subseteq ReaderType /\ \A r \in readers : r.cmd \in 1 .. issued /\ Waits(r)
    BY <1>3 DEF TypeOK, ReaderType, Waits, Fits
  <1> QED
    BY <1>1, <1>2, <1>4

\* It holds at the start.
LEMMA InitInv == Init => IInv
<1> SUFFICES ASSUME Init PROVE IInv
  OBVIOUS
<1>1. TypeOK
  BY EmptySeq DEF Init, TypeOK
<1>2. IsFiniteSet(readers)
  BY FS_EmptySet DEF Init
<1> QED
  BY <1>1, <1>2 DEF Init, IInv, Leaving, Ordered, Readers, Apart, NeverAhead, MatchedAlone

\* A page issues a command while the database is, or may still be, reached.
LEMMA IssueInv == ASSUME IInv, Issue PROVE IInv'
<1> USE DEF IInv
<1>0. PICK c : c = issued + 1
  OBVIOUS
<1>1. /\ c \in Command /\ issued \in 0 .. Commands /\ issued' = c /\ c \notin alone
      /\ link' = link /\ ws' = ws /\ link \notin {"ended", "closed"}
  BY <1>0 DEF Issue, Leaving, TypeOK, Apart, conns
<1>2. CASE c \in TooLong
  <2>1. UNCHANGED <<link, ws, pending, alone, toDb, readers, wire, inert>>
    BY <1>0, <1>2 DEF Issue, conns
  <2>2. answer' = [answer EXCEPT ![c] = Refused]
    BY <1>0, <1>2 DEF Issue
  <2>3. answer' \in [Command -> 0 .. Refused]
    BY <1>0, <1>1, <2>2 DEF TypeOK
  <2>4. readers' \subseteq [cmd : 1 .. issued', reply : 0 .. Garbage, left : 0 .. Longest]
    BY <1>0, <1>1, <2>1 DEF TypeOK
  <2>5. TypeOK'
    BY <1>0, <1>1, <2>1, <2>3, <2>4 DEF TypeOK
  <2>6. Leaving' /\ Readers'
    BY <1>0, <1>1, <2>1 DEF Leaving, Readers, UnderWay
  <2>7. Ordered'
    BY <1>0, <1>1, <2>1, Types DEF Ordered, Piece
  <2>8. AllAlone' <=> AllAlone
    BY <1>0, <1>1, <1>2, <2>1 DEF AllAlone
  <2>9. Apart'
    <3>1. alone' \subseteq 1 .. issued' /\ \A d \in Command : d > issued' => answer'[d] = None
      BY <1>0, <1>1, <2>1, <2>2 DEF Apart, TypeOK
    <3>2. \A d \in 1 .. issued : d \in 1 .. issued' /\ (Single(d) => Single(d)')
      BY <1>0, <1>1, <2>1 DEF Single
    <3> QED
      BY <1>1, <2>1, <2>8, <3>1, <3>2 DEF Apart
  <2>10. NeverAhead' /\ MatchedAlone'
    BY <1>0, <1>1, <1>2, <2>1, <2>2 DEF NeverAhead, MatchedAlone, Apart, TypeOK
  <2> QED
    BY <2>5, <2>6, <2>7, <2>9, <2>10
<1>3. CASE c \notin TooLong
  <2>1. /\ UNCHANGED <<link, ws, wire, inert, answer>>
        /\ pending' = pending \union {c}
        /\ toDb' = Append(toDb, c)
        /\ readers' = readers \union {Reader(c)}
        /\ alone' = IF readers = {} /\ AllAlone THEN alone \union {c}
                    ELSE alone \ {r.cmd : r \in readers}
    BY <1>0, <1>3 DEF Issue, conns, AllAlone
  <2>2. /\ toDb' \in Seq(Command) /\ Len(toDb') = Len(toDb) + 1
        /\ \A i \in 1 .. Len(toDb) : toDb'[i] = toDb[i]
        /\ toDb'[Len(toDb) + 1] = c
    BY <1>0, <1>1, <2>1, Types, AppendProperties
  <2>3. Reader(c) \in [cmd : 1 .. issued', reply : 0 .. Garbage, left : 0 .. Longest]
    BY <1>1 DEF Reader
  <2>4. readers' \subseteq [cmd : 1 .. issued', reply : 0 .. Garbage, left : 0 .. Longest]
    BY <1>0, <1>1, <2>1, <2>3 DEF TypeOK
  <2>18. \A r \in readers' : Waits(r)
    <3>1. Waits(Reader(c))
      BY DEF Reader, Waits, Fits
    <3>2. \A r \in readers : Waits(r)
      BY Types
    <3> QED
      BY <2>1, <3>1, <3>2
  <2>5. alone' \subseteq 1 .. issued' /\ alone' \subseteq Command
    <3>1. alone' \subseteq alone \union {c}
      BY <2>1
    <3>2. 1 .. issued \subseteq 1 .. issued' /\ c \in 1 .. issued'
      BY <1>0, <1>1
    <3> QED
      BY <1>1, <3>1, <3>2 DEF Apart, TypeOK
  <2>6. pending' \subseteq 1 .. issued' /\ issued' \in 0 .. Commands
    BY <1>0, <1>1, <2>1 DEF TypeOK
  <2>7. TypeOK'
    <3>1. toDb' \in Seq(Command) /\ wire' = wire /\ inert' = inert /\ answer' = answer
          /\ ws' = ws /\ link' = link
      BY <1>1, <2>1, <2>2
    <3> QED
      BY <2>4, <2>5, <2>6, <2>18, <3>1 DEF TypeOK, Waits, Fits
  <2>8. Leaving'
    BY <1>1 DEF Leaving
  <2>9. Ordered'
    <3>1. \A i \in 1 .. Len(wire) : wire[i].reply \in Nat /\ wire[i].reply <= issued
      BY Types DEF Ordered, Piece
    <3>2. \A i \in 1 .. Len(toDb) : toDb[i] \in Nat /\ toDb[i] <= issued
      BY Types DEF Ordered
    <3>3. \A i \in 1 .. Len(toDb') : i \in 1 .. Len(toDb) \/ (i = Len(toDb) + 1 /\ toDb'[i] = c)
      BY <2>2, Types
    <3>4. Len(wire) \in Nat /\ Len(toDb) \in Nat /\ issued \in Nat
      BY <1>1, Types
    <3>5. \A i \in 1 .. Len(wire') : wire'[i].reply <= issued'
      BY <1>0, <1>1, <2>1, <3>1, <3>4
    <3>6. \A i \in 1 .. Len(toDb') : toDb'[i] <= issued'
      BY <1>0, <1>1, <2>2, <3>2, <3>3, <3>4
    <3>7. \A i \in 1 .. Len(wire'), j \in 1 .. Len(toDb') : wire'[i].reply <= toDb'[j]
      <4> SUFFICES ASSUME NEW i \in 1 .. Len(wire), NEW j \in 1 .. Len(toDb')
                   PROVE  wire[i].reply <= toDb'[j]
        BY <2>1
      <4>1. CASE j \in 1 .. Len(toDb)
        BY <2>2, <4>1 DEF Ordered
      <4>2. CASE toDb'[j] = c
        BY <1>0, <3>1, <3>4, <4>2
      <4> QED
        BY <3>3, <4>1, <4>2
    <3>8. \A i, j \in 1 .. Len(toDb') : i <= j => toDb'[i] <= toDb'[j]
      <4> SUFFICES ASSUME NEW i \in 1 .. Len(toDb'), NEW j \in 1 .. Len(toDb'), i <= j
                   PROVE  toDb'[i] <= toDb'[j]
        OBVIOUS
      <4>1. CASE j \in 1 .. Len(toDb)
        <5>1. i \in 1 .. Len(toDb)
          BY <3>4, <4>1
        <5> QED
          BY <2>2, <4>1, <5>1 DEF Ordered
      <4>2. CASE j = Len(toDb) + 1
        <5>1. toDb'[j] = c
          BY <2>2, <4>2
        <5>2. toDb'[i] = c \/ (i \in 1 .. Len(toDb) /\ toDb'[i] = toDb[i])
          BY <2>2, <3>3
        <5> QED
          BY <1>0, <3>2, <3>4, <5>1, <5>2
      <4> QED
        BY <3>3, <4>1, <4>2
    <3>9. \A i, j \in 1 .. Len(wire') : i <= j => wire'[i].reply <= wire'[j].reply
      BY <2>1 DEF Ordered
    <3> QED
      BY <3>5, <3>6, <3>7, <3>8, <3>9 DEF Ordered
  <2>10. \A d \in Command : UnderWay(d) => UnderWay(d)'
    BY <2>1, <2>2, Types DEF UnderWay
  <2>11. UnderWay(c)'
    BY <2>2, Types DEF UnderWay
  <2>12. Reader(c).reply = None /\ Reader(c).cmd = c
    BY DEF Reader
  <2>13. Readers'
    BY <1>0, <1>1, <2>1, <2>10, <2>11, <2>12, Types, FS_AddElement DEF Readers, ReaderType
  <2>14. \A d \in Command : d > issued' => answer'[d] = None
    BY <1>0, <1>1, <2>1 DEF Apart, TypeOK
  <2>15. Apart'
    <3>1. CASE readers = {} /\ AllAlone
      <4>1. toDb = <<>> /\ wire = <<>>
        BY <1>0, <1>1, <3>1 DEF Apart, Single
      <4>2. readers' = {Reader(c)} /\ toDb' = <<c>> /\ wire' = <<>>
        BY <2>1, <3>1, <4>1
      <4>3. Single(c)'
        BY <4>2 DEF Single
      <4>4. AllAlone' /\ c \in 1 .. issued'
        BY <1>0, <1>1, <2>1, <3>1 DEF AllAlone
      <4> QED
        BY <2>5, <2>14, <4>3, <4>4 DEF Apart
    <3>2. CASE ~(readers = {} /\ AllAlone)
      <4>1. c \notin alone'
        BY <1>0, <1>1, <2>1, <3>2
      <4>2. ~AllAlone'
        BY <1>0, <1>1, <1>3, <4>1 DEF AllAlone
      <4>3. \A r \in readers' : r.cmd \notin alone'
        BY <2>1, <2>12, <3>2, <4>1
      <4> QED
        BY <2>5, <2>14, <4>2, <4>3 DEF Apart
    <3> QED
      BY <3>1, <3>2
  <2>16. NeverAhead'
    BY <2>1 DEF NeverAhead
  <2>17. MatchedAlone'
    <3>1. answer[c] = None
      BY <1>0, <1>1 DEF Apart
    <3>2. alone' \subseteq alone \union {c}
      BY <2>1
    <3> QED
      BY <2>1, <3>1, <3>2 DEF MatchedAlone
  <2> QED
    BY <2>7, <2>8, <2>9, <2>13, <2>15, <2>16, <2>17
<1> QED
  BY <1>2, <1>3

\* The database serves a command: it moves from the end of the replies under
\* way to the start of the commands, so the order is kept.
LEMMA ServeInv == ASSUME IInv, Serve PROVE IInv'
<1> USE DEF IInv
<1>1. PICK c \in Command : c = toDb[1] /\ c = Head(toDb)
  BY Types, HeadTailProperties DEF Serve
<1>2. /\ toDb' \in Seq(Command) /\ Len(toDb') = Len(toDb) - 1 /\ Len(toDb) > 0
      /\ \A i \in 1 .. Len(toDb') : toDb'[i] = toDb[i + 1]
      /\ Len(toDb) \in Nat /\ Len(toDb') \in Nat
  BY Types, HeadTailProperties, EmptySeq DEF Serve
<1>3. /\ wire' \in Seq(Piece) /\ Len(wire') = Len(wire) + BodyPieces + 1
      /\ Len(wire) \in Nat
      /\ \A i \in 1 .. Len(wire') :
           wire'[i] = IF i <= Len(wire) THEN wire[i] ELSE Reply(c)[i - Len(wire)]
  <2>1. Reply(c) \in Seq(Piece) /\ Len(Reply(c)) = BodyPieces + 1 /\ wire \in Seq(Piece)
    BY ReplyPieces, Types
  <2>2. Len(wire) \in Nat /\ BodyPieces \in Nat
    BY Types
  <2>3. wire' = wire \o Reply(c)
    BY <1>1 DEF Serve
  <2>4. /\ wire \o Reply(c) \in Seq(Piece)
        /\ Len(wire \o Reply(c)) = Len(wire) + Len(Reply(c))
        /\ \A i \in 1 .. Len(wire) + Len(Reply(c)) : (wire \o Reply(c))[i] =
             IF i <= Len(wire) THEN wire[i] ELSE Reply(c)[i - Len(wire)]
    BY <2>1, ConcatProperties
  <2> QED
    BY <2>1, <2>2, <2>3, <2>4
<1>4. \A i \in 1 .. Len(wire') :
        \/ i \in 1 .. Len(wire) /\ wire'[i] = wire[i]
        \/ i > Len(wire) /\ wire'[i].reply = c
  <2> SUFFICES ASSUME NEW i \in 1 .. Len(wire'), i > Len(wire)
               PROVE  wire'[i].reply = c
    BY <1>3
  <2>1. i - Len(wire) \in 1 .. BodyPieces + 1 /\ wire'[i] = Reply(c)[i - Len(wire)]
    BY <1>3
  <2> QED
    BY <2>1, ReplyPieces
<1>5. /\ UNCHANGED <<ws, link, issued, pending, answer, alone, readers, inert>>
      /\ link # "closed" /\ toDb # <<>>
  BY DEF Serve, conns, page
<1>6. TypeOK'
  BY <1>2, <1>3, <1>5 DEF TypeOK, Piece
<1>7. Leaving'
  BY <1>5 DEF Leaving
<1>8. Ordered'
  <2>1. issued \in Nat /\ \A i \in 1 .. Len(toDb) : toDb[i] \in Nat /\ toDb[i] <= issued
    BY Types DEF TypeOK, Ordered
  <2>2. /\ \A i \in 1 .. Len(wire) : wire[i].reply \in Nat /\ wire[i].reply <= issued
        /\ c \in Nat /\ c <= issued
    BY <1>1, <1>2, <2>1, Types DEF Ordered, Piece
  <2>3. \A i \in 1 .. Len(wire) : wire[i].reply <= c
    BY <1>1, <1>2 DEF Ordered
  <2>4. \A i \in 1 .. Len(toDb) : c <= toDb[i]
    BY <1>1, <1>2 DEF Ordered
  <2>5. \A j \in 1 .. Len(toDb') : j + 1 \in 1 .. Len(toDb) /\ toDb'[j] = toDb[j + 1]
    BY <1>2
  <2>6. \A i \in 1 .. Len(wire') : wire'[i].reply <= issued'
    BY <1>4, <1>5, <2>2
  <2>7. \A j \in 1 .. Len(toDb') : toDb'[j] <= issued'
    BY <1>5, <2>1, <2>5
  <2>8. \A i, j \in 1 .. Len(wire') : i <= j => wire'[i].reply <= wire'[j].reply
    <3> SUFFICES ASSUME NEW i \in 1 .. Len(wire'), NEW j \in 1 .. Len(wire'), i <= j
                 PROVE  wire'[i].reply <= wire'[j].reply
      OBVIOUS
    <3>1. CASE j \in 1 .. Len(wire) /\ wire'[j] = wire[j]
      <4>1. i \in 1 .. Len(wire) /\ wire'[i] = wire[i]
        BY <1>3, <1>4, <3>1
      <4> QED
        BY <3>1, <4>1 DEF Ordered
    <3>2. CASE wire'[j].reply = c
      BY <1>4, <2>2, <2>3, <3>2
    <3> QED
      BY <1>4, <3>1, <3>2
  <2>9. \A i \in 1 .. Len(wire'), j \in 1 .. Len(toDb') : wire'[i].reply <= toDb'[j]
    <3> SUFFICES ASSUME NEW i \in 1 .. Len(wire'), NEW j \in 1 .. Len(toDb')
                 PROVE  wire'[i].reply <= toDb'[j]
      OBVIOUS
    <3>1. CASE i \in 1 .. Len(wire) /\ wire'[i] = wire[i]
      BY <2>5, <3>1 DEF Ordered
    <3>2. CASE wire'[i].reply = c
      BY <2>4, <2>5, <3>2
    <3> QED
      BY <1>4, <3>1, <3>2
  <2>10. \A i, j \in 1 .. Len(toDb') : i <= j => toDb'[i] <= toDb'[j]
    <3> SUFFICES ASSUME NEW i \in 1 .. Len(toDb'), NEW j \in 1 .. Len(toDb'), i <= j
                 PROVE  toDb'[i] <= toDb'[j]
      OBVIOUS
    <3>1. i + 1 <= j + 1
      OBVIOUS
    <3> QED
      BY <2>5, <3>1 DEF Ordered
  <2> QED
    BY <2>6, <2>7, <2>8, <2>9, <2>10 DEF Ordered
<1>9. Readers'
  <2>1. ASSUME NEW d \in Command, UnderWay(d)
        PROVE  UnderWay(d)'
    <3>1. CASE \E i \in 1 .. Len(wire) : wire[i].reply = d
      <4>1. \A i \in 1 .. Len(wire) : i \in 1 .. Len(wire') /\ wire'[i] = wire[i]
        BY <1>3
      <4> QED
        BY <3>1, <4>1 DEF UnderWay
    <3>2. CASE d = c
      <4>1. Len(wire) + 1 \in 1 .. Len(wire')
        BY <1>3
      <4>2. wire'[Len(wire) + 1].reply = c
        BY <1>3, <1>4, <4>1
      <4> QED
        BY <3>2, <4>1, <4>2 DEF UnderWay
    <3>3. CASE d # c /\ \E i \in 1 .. Len(toDb) : toDb[i] = d
      <4>1. PICK i \in 1 .. Len(toDb) : toDb[i] = d
        BY <3>3
      <4>2. i # 1
        BY <1>1, <1>2, <3>3, <4>1
      <4>3. i - 1 \in 1 .. Len(toDb') /\ (i - 1) + 1 = i
        BY <1>2, <4>1, <4>2
      <4>4. toDb'[i - 1] = d
        BY <1>2, <4>1, <4>3
      <4> QED
        BY <4>3, <4>4 DEF UnderWay
    <3> QED
      BY <2>1, <3>1, <3>2, <3>3 DEF UnderWay
  <2> QED
    BY <1>5, <2>1, Types DEF Readers, ReaderType
<1>10. Apart'
  <2>1. ASSUME NEW d, Single(d)
        PROVE  Single(d)'
    <3>1. readers = {Reader(d)} /\ toDb = <<d>> /\ wire = <<>>
      BY <1>5, <2>1 DEF Single
    <3>2. toDb' = <<>> /\ wire' = Reply(d)
      <4>1. c = d /\ Tail(<<d>>) = <<>>
        BY <1>1, <3>1
      <4>2. <<>> \o Reply(c) = Reply(c)
        BY ReplyPieces, ConcatEmptySeq
      <4> QED
        BY <1>1, <3>1, <4>1, <4>2 DEF Serve
    <3> QED
      BY <1>5, <3>1, <3>2 DEF Single
  <2>2. AllAlone' <=> AllAlone
    BY <1>5 DEF AllAlone
  <2> QED
    BY <1>5, <2>1, <2>2 DEF Apart
<1>11. NeverAhead' /\ MatchedAlone'
  BY <1>5 DEF NeverAhead, MatchedAlone
<1> QED
  BY <1>6, <1>7, <1>8, <1>9, <1>10, <1>11

\* What leaves commands, replies, readers and answers alone.
LEMMA QuietInv ==
  ASSUME IInv, UNCHANGED <<issued, answer, alone, socket>>,
         pending' \subseteq pending,
         link' \in {"connecting", "open", "ended", "closed"}, ws' \in {"open", "closed"},
         Leaving', link = "closed" => link' = "closed"
  PROVE  IInv'
<1> USE DEF IInv
<1>1. UNCHANGED <<issued, answer, alone, toDb, wire, readers, inert>>
  BY DEF socket
<1>2. TypeOK'
  BY <1>1 DEF TypeOK
<1>3. Ordered' /\ NeverAhead' /\ MatchedAlone'
  BY <1>1 DEF Ordered, NeverAhead, MatchedAlone
<1>4. Readers'
  BY <1>1 DEF Readers, UnderWay
<1>5. Apart'
  BY <1>1 DEF Apart, AllAlone, Single
<1> QED
  BY <1>2, <1>3, <1>4, <1>5

\* The connection to the database is lost, with all it carried.
LEMMA FailInv == ASSUME IInv, DbFails PROVE IInv'
<1> USE DEF IInv
<1>1. /\ UNCHANGED <<issued, pending, answer, alone, readers, inert>>
      /\ link' = "closed" /\ ws' = "closed" /\ toDb' = <<>> /\ wire' = <<>>
  BY DEF DbFails, page
<1>2. TypeOK'
  BY <1>1, EmptySeq DEF TypeOK
<1>3. Leaving' /\ Ordered' /\ NeverAhead' /\ MatchedAlone'
  BY <1>1 DEF Leaving, Ordered, NeverAhead, MatchedAlone
<1>4. Readers' /\ Apart'
  BY <1>1 DEF Readers, Apart, AllAlone
<1> QED
  BY <1>2, <1>3, <1>4

\* A chunk arrives.
LEMMA DataInv == ASSUME IInv, Data PROVE IInv'
<1> USE DEF IInv
<1>1. PICK n \in 1 .. Len(wire) :
        LET chunk  == SubSeq(wire, 1, n)
            misled == {r \in readers : Misread(r, chunk)}
        IN \E size \in [misled -> 0 .. Longest] :
             LET after == [r \in readers |-> After(r, chunk, size)]
                 split == {r \in readers : r.reply = None /\ ~Finished(after[r])}
             IN /\ wire' = SubSeq(wire, n + 1, Len(wire))
                /\ readers' = Kept({after[r] : r \in readers})
                /\ inert' = inert + Cardinality(split)
                /\ Answered({after[r] : r \in {q \in readers : Finished(after[q])}})
                /\ UNCHANGED <<conns, issued, alone, toDb>>
  BY DEF Data
<1> DEFINE chunk  == SubSeq(wire, 1, n)
           misled == {r \in readers : Misread(r, chunk)}
<1>2. PICK size \in [misled -> 0 .. Longest] :
        LET after == [r \in readers |-> After(r, chunk, size)]
            split == {r \in readers : r.reply = None /\ ~Finished(after[r])}
        IN /\ wire' = SubSeq(wire, n + 1, Len(wire))
           /\ readers' = Kept({after[r] : r \in readers})
           /\ inert' = inert + Cardinality(split)
           /\ Answered({after[r] : r \in {q \in readers : Finished(after[q])}})
           /\ UNCHANGED <<conns, issued, alone, toDb>>
  BY <1>1
<1> DEFINE after == [r \in readers |-> After(r, chunk, size)]
           split == {r \in readers : r.reply = None /\ ~Finished(after[r])}
           done  == {after[r] : r \in {q \in readers : Finished(after[q])}}
           first == wire[1]
<1>3. /\ wire' = SubSeq(wire, n + 1, Len(wire))
      /\ readers' = Kept({after[r] : r \in readers})
      /\ inert' = inert + Cardinality(split)
      /\ Answered(done)
      /\ UNCHANGED <<ws, link, issued, alone, toDb>>
  BY <1>2 DEF conns
<1>4. /\ chunk \in Seq(Piece) /\ Len(chunk) = n /\ Head(chunk) = first /\ first \in Piece
      /\ wire' \in Seq(Piece) /\ Len(wire') = Len(wire) - n
      /\ \A i \in 1 .. Len(wire') : wire'[i] = wire[n + i]
      /\ Len(wire) \in Nat /\ n \in Nat \ {0}
  BY <1>3, Types, Cut
<1>5. link # "closed"
  BY <1>4, EmptySeq DEF Leaving
<1>6. \A r \in readers :
        /\ after[r] \in ReaderType /\ Fits(after[r])
        /\ after[r].cmd = r.cmd /\ after[r].reply # None
        /\ r.reply # None => after[r].reply = r.reply
        /\ r.reply = None => after[r].reply \in {Garbage, first.reply}
  <2> SUFFICES ASSUME NEW r \in readers, NEW a, a = After(r, chunk, size)
               PROVE  /\ a \in ReaderType /\ Fits(a) /\ a.cmd = r.cmd /\ a.reply # None
                      /\ r.reply # None => a.reply = r.reply
                      /\ r.reply = None => a.reply \in {Garbage, first.reply}
    OBVIOUS
  <2>1. r \in ReaderType /\ Fits(r) /\ (r \in misled <=> Misread(r, chunk))
    BY Types DEF Waits
  <2>2. Len(chunk) \in Nat \ {0}
    BY <1>4
  <2>3. chunk \in Seq(Piece) /\ first \in Piece /\ Head(chunk) = first
    BY <1>4
  <2> HIDE DEF misled, chunk, first
  <2> QED
    BY <2>1, <2>2, <2>3, AfterChunk
<1> HIDE DEF after, split, done, chunk, misled
\* A reader's own reply has not passed, so the first piece is not a later one.
<1>7. \A r \in readers : r.reply = None => first.reply \in 1 .. r.cmd
  <2> SUFFICES ASSUME NEW r \in readers, r.reply = None
               PROVE  first.reply \in 1 .. r.cmd
    OBVIOUS
  <2>1. UnderWay(r.cmd) /\ 1 \in 1 .. Len(wire)
    BY <1>4, <1>5 DEF Readers
  <2>2. first.reply <= r.cmd
    BY <1>4, <2>1 DEF UnderWay, Ordered
  <2>3. first.reply \in Command /\ r.cmd \in Command
    BY <1>4, Types DEF Piece, ReaderType
  <2> QED
    BY <2>2, <2>3
<1>8. \A r \in readers : after[r].reply \in {Garbage} \union 1 .. r.cmd
  BY <1>6, <1>7 DEF Readers
<1>9. \A a \in readers' : \E r \in readers : a = after[r] /\ ~Finished(after[r])
  BY <1>3 DEF Kept
<1>10. IsFiniteSet(readers') /\ inert' \in Nat
  <2>1. IsFiniteSet({after[r] : r \in readers})
    <3>1. after \in Surjection(readers, {after[r] : r \in readers})
      BY DEF after, Surjection
    <3> QED
      BY <3>1, FS_Surjection DEF Readers
  <2>2. IsFiniteSet(readers')
    BY <1>3, <2>1, FS_Subset DEF Kept
  <2>3. IsFiniteSet(split)
    BY FS_Subset DEF Readers, split
  <2>4. Cardinality(split) \in Nat
    BY <2>3, FS_CardinalityType
  <2> QED
    <3>1. inert \in Nat
      BY DEF TypeOK
    <3> QED
      BY <1>3, <2>2, <2>4, <3>1
<1>11. \A c \in Command :
         \/ answer'[c] = answer[c]
         \/ \E r \in readers : /\ r.cmd = c /\ Finished(after[r])
                               /\ answer'[c] = after[r].reply
  <2> SUFFICES ASSUME NEW c \in Command, answer'[c] # answer[c]
               PROVE  \E r \in readers : /\ r.cmd = c /\ Finished(after[r])
                                        /\ answer'[c] = after[r].reply
    OBVIOUS
  <2>1. answer'[c] = IF \E a \in done : a.cmd = c
                       THEN (CHOOSE a \in done : a.cmd = c).reply
                       ELSE answer[c]
    BY <1>3 DEF Answered
  <2>2. PICK a \in done : a.cmd = c /\ answer'[c] = a.reply
    BY <2>1
  <2>3. PICK r \in readers : a = after[r] /\ Finished(after[r])
    BY <2>2 DEF done
  <2> QED
    BY <1>6, <2>2, <2>3
<1>12. TypeOK'
  <2>1. \A c \in Command : answer'[c] \in 0 .. Refused
    <3>1. \A r \in readers : after[r].reply \in 0 .. Refused
      BY <1>6 DEF ReaderType
    <3>2. \A c \in Command : answer[c] \in 0 .. Refused
      BY DEF TypeOK
    <3> QED
      BY <1>11, <3>1, <3>2
  <2>2. answer' \in [Command -> 0 .. Refused]
    BY <1>3, <2>1 DEF Answered, TypeOK
  <2>3. readers' \subseteq [cmd : 1 .. issued', reply : 0 .. Garbage, left : 0 .. Longest]
    <3> SUFFICES ASSUME NEW r \in readers
                 PROVE  after[r] \in [cmd : 1 .. issued, reply : 0 .. Garbage,
                                      left : 0 .. Longest]
      BY <1>3, <1>9
    <3>1. after[r] \in ReaderType /\ after[r].cmd \in 1 .. issued
      BY <1>6, Types
    <3> QED
      BY <3>1 DEF ReaderType
  <2>4. pending' \subseteq 1 .. issued'
    BY <1>3 DEF Answered, TypeOK
  <2>5. \A a \in readers' : Waits(a)
    BY <1>6, <1>9 DEF Finished, Waits
  <2> QED
    BY <1>3, <1>4, <1>10, <2>2, <2>3, <2>4, <2>5 DEF TypeOK, Piece, Waits, Fits
<1>13. Leaving'
  BY <1>3, <1>5 DEF Leaving
<1>14. Ordered'
  <2>1. \A i \in 1 .. Len(wire') : n + i \in 1 .. Len(wire) /\ wire'[i] = wire[n + i]
    BY <1>4
  <2>2. \A i, j \in 1 .. Len(wire') : i <= j => n + i <= n + j
    BY <1>4
  <2> QED
    BY <1>3, <2>1, <2>2 DEF Ordered
<1>15. Readers'
  <2>1. \A a \in readers' : a.reply # None /\ a.reply \in {Garbage} \union 1 .. a.cmd
    BY <1>6, <1>8, <1>9
  <2> QED
    BY <1>10, <2>1 DEF Readers
<1>16. NeverAhead'
  BY <1>8, <1>11 DEF NeverAhead
\* The only command under way reads its own reply.
<1>17. ASSUME NEW c \in 1 .. issued, Single(c)
       PROVE  /\ \A r \in readers : r.cmd = c /\ after[r].reply = c
              /\ (readers' = {} /\ wire' = <<>>) \/ Single(c)'
              /\ toDb = <<>>
  <2> DEFINE left == Len(wire')
             now  == [cmd |-> c, reply |-> c, left |-> left]
  <2>0. left \in Nat /\ c \in Command /\ c # None
    <3>1. issued \in 0 .. Commands
      BY DEF TypeOK
    <3> QED
      BY <1>4, <3>1
  <2>1. PICK r : /\ readers = {r} /\ after[r] = now /\ r.cmd = c
                 /\ \A i \in 1 .. left : wire'[i] = Body(c)
                 /\ toDb = <<>>
    <3>1. CASE readers = {Reader(c)} /\ toDb = <<>> /\ wire = Reply(c)
      <4>1. first = Header(c) /\ Len(wire) = BodyPieces + 1
        BY <2>0, <3>1, ReplyPieces
      <4>2. ~Misread(Reader(c), chunk)
        BY <1>4, <4>1 DEF Misread, Header
      <4>3. after[Reader(c)] = Read(Reader(c), chunk)
        BY <3>1, <4>2 DEF after, After, misled
      <4>4. n \in 1 .. BodyPieces + 1 /\ left = BodyPieces + 1 - n
        BY <1>4, <4>1
      <4>5. Read(Reader(c), chunk) = now
        <5>1. (IF n - 1 < BodyPieces THEN BodyPieces - (n - 1) ELSE 0) = left
          BY <4>4
        <5>2. Len(chunk) - 1 = n - 1 /\ Head(chunk).reply = c
          BY <1>4, <4>1 DEF Header
        <5>3. Read(Reader(c), chunk)
              = [cmd |-> c, reply |-> c,
                 left |-> IF n - 1 < BodyPieces THEN BodyPieces - (n - 1) ELSE 0]
          <6> DEFINE start == [Reader(c) EXCEPT !.reply = c, !.left = BodyPieces]
          <6>1. /\ Reader(c) \in ReaderType /\ Reader(c).cmd = c
                /\ Reader(c).reply = None
            BY <2>0 DEF Reader, ReaderType
          <6>2. /\ start \in ReaderType /\ start.cmd = c
                /\ start.reply = c /\ start.left = BodyPieces
            <7>1. c \in 0 .. Garbage /\ BodyPieces \in 0 .. Longest
              BY <2>0
            <7>2. PICK r \in ReaderType : r = Reader(c) /\ r.cmd = c
              BY <6>1
            <7> HIDE DEF Garbage
            <7>3. LET q == [r EXCEPT !.reply = c, !.left = BodyPieces]
                  IN q \in ReaderType /\ q.cmd = c /\ q.reply = c /\ q.left = BodyPieces
              BY <7>1, <7>2 DEF ReaderType
            <7> QED
              BY <7>2, <7>3
          <6>3. Read(Reader(c), chunk)
                = [start EXCEPT !.left = IF n - 1 < @ THEN @ - (n - 1) ELSE 0]
            BY <5>2, <6>1 DEF Read
          <6> QED
            BY <4>4, <6>2, <6>3, SameReader DEF ReaderType
        <5> QED
          BY <5>1, <5>3
      <4>6. \A i \in 1 .. left : n + i \in 2 .. BodyPieces + 1 /\ wire'[i] = Reply(c)[n + i]
        <5>1. \A i \in 1 .. left : n + i \in 2 .. BodyPieces + 1
          BY <4>4
        <5>2. \A i \in 1 .. left : wire'[i] = Reply(c)[n + i]
          BY <1>4, <3>1
        <5> QED
          BY <5>1, <5>2
      <4>7. \A i \in 1 .. left : wire'[i] = Body(c)
        BY <2>0, <4>6, ReplyPieces
      <4> QED
        BY <3>1, <4>3, <4>5, <4>7 DEF Reader
    <3>2. CASE /\ readers = {[cmd |-> c, reply |-> c, left |-> Len(wire)]} /\ Len(wire) > 0
               /\ toDb = <<>>
               /\ \A i \in 1 .. Len(wire) : wire[i] = Body(c)
      <4> DEFINE r == [cmd |-> c, reply |-> c, left |-> Len(wire)]
      <4>1. ~Misread(r, chunk)
        BY <2>0 DEF Misread
      <4>2. after[r] = Read(r, chunk)
        BY <3>2, <4>1 DEF after, After, misled
      <4>3. Read(r, chunk) = now
        BY <1>4, <2>0 DEF Read
      <4>4. \A i \in 1 .. left : n + i \in 1 .. Len(wire) /\ wire'[i] = wire[n + i]
        BY <1>4
      <4> QED
        BY <3>2, <4>2, <4>3, <4>4
    <3>3. wire # <<>>
      BY <1>4, EmptySeq
    <3> QED
      BY <1>17, <3>1, <3>2, <3>3 DEF Single
  <2>2. readers' = Kept({now})
    BY <1>3, <2>1
  <2>3. CASE left = 0
    BY <1>4, <2>0, <2>1, <2>2, <2>3, EmptySeq DEF Kept, Finished
  <2>4. CASE left > 0
    <3>1. readers' = {now}
      BY <2>0, <2>2, <2>4 DEF Kept, Finished
    <3>2. toDb' = <<>>
      BY <1>3, <2>1
    <3>3. Single(c)'
      BY <2>1, <2>4, <3>1, <3>2 DEF Single
    <3> QED
      BY <2>1, <3>3
  <2> QED
    BY <2>0, <2>3, <2>4
<1>18. Apart' /\ MatchedAlone'
  <2>1. AllAlone' <=> AllAlone
    BY <1>3 DEF AllAlone
  <2>2. \A c \in Command : c > issued' => answer'[c] = None
    <3>1. \A r \in readers : r.cmd \in 1 .. issued
      BY Types
    <3>2. \A c \in Command : c > issued => answer'[c] = answer[c]
      <4> SUFFICES ASSUME NEW c \in Command, c > issued PROVE answer'[c] = answer[c]
        OBVIOUS
      <4>1. \A r \in readers : r.cmd # c
        BY <3>1 DEF TypeOK
      <4> QED
        BY <1>11, <4>1
    <3> QED
      BY <1>3, <3>2 DEF Apart
  <2>3. CASE ~AllAlone
    <3>1. \A r \in readers : r.cmd \notin alone
      BY <2>3 DEF Apart
    <3>2. \A r \in readers' : r.cmd \notin alone'
      BY <1>3, <1>6, <1>9, <3>1
    <3>3. \A c \in alone' : c \in Command /\ answer'[c] = answer[c]
      BY <1>3, <1>11, <3>1 DEF TypeOK
    <3> QED
      BY <1>3, <2>1, <2>2, <2>3, <3>2, <3>3 DEF Apart, MatchedAlone
  <2>4. CASE AllAlone
    <3>1. PICK c \in 1 .. issued : Single(c)
      BY <1>4, <1>5, <2>4, EmptySeq DEF Apart
    <3>2. (readers' = {} /\ toDb' = <<>> /\ wire' = <<>>) \/ Single(c)'
      BY <1>3, <1>17, <3>1
    <3>3. \A d \in Command : answer'[d] = answer[d] \/ (d = c /\ answer'[d] = c)
      BY <1>11, <1>17, <3>1
    <3>4. MatchedAlone'
      BY <1>3, <3>3 DEF MatchedAlone, TypeOK
    <3>5. Apart'
      BY <1>3, <2>1, <2>2, <2>4, <3>2 DEF Apart
    <3> QED
      BY <3>4, <3>5
  <2> QED
    BY <2>3, <2>4
<1> QED
  BY <1>12, <1>13, <1>14, <1>15, <1>16, <1>18

\* Every step keeps the invariant.
LEMMA StepInv == IInv /\ [Next]_vars => IInv'
<1> SUFFICES ASSUME IInv, [Next]_vars PROVE IInv'
  OBVIOUS
<1>1. CASE UNCHANGED vars
  <2>1. Leaving' /\ UNCHANGED <<issued, answer, alone, socket, pending, link, ws>>
    BY <1>1 DEF IInv, Leaving, vars, page, conns, socket
  <2> QED
    BY <2>1, QuietInv DEF IInv, TypeOK
<1>2. CASE \E c \in Command : TimeOut(c)
  <2>1. /\ Leaving' /\ UNCHANGED <<issued, answer, alone, socket, link, ws>>
        /\ pending' \subseteq pending
    BY <1>2 DEF IInv, Leaving, TimeOut, conns, socket
  <2> QED
    BY <2>1, QuietInv DEF IInv, TypeOK
<1>3. CASE Connect
  <2>1. /\ Leaving' /\ UNCHANGED <<issued, answer, alone, socket, pending, ws>>
        /\ link = "connecting" /\ link' = "open"
    BY <1>3 DEF IInv, Leaving, Connect, page, socket
  <2> QED
    BY <2>1, QuietInv DEF IInv, TypeOK
<1>4. CASE DbCloses
  <2>1. /\ Leaving' /\ UNCHANGED <<issued, answer, alone, socket, pending, ws>>
        /\ link' = "closed"
    BY <1>4 DEF IInv, Leaving, DbCloses, page, socket
  <2> QED
    BY <2>1, QuietInv DEF IInv, TypeOK
<1>5. CASE PageCloses
  <2>1. link # "closed"
    BY <1>5 DEF IInv, Leaving, PageCloses
  <2>2. /\ Leaving' /\ UNCHANGED <<issued, answer, alone, socket, pending>>
        /\ link' = "ended" /\ ws' = "closed"
    BY <1>5 DEF IInv, Leaving, PageCloses, page, socket
  <2> QED
    BY <2>1, <2>2, QuietInv
<1> QED
  BY <1>1, <1>2, <1>3, <1>5, <1>4, IssueInv, ServeInv, DataInv, FailInv DEF Next

(***************************************************************************)
(* Theorems.                                                               *)
(***************************************************************************)

\* The invariant holds in every state.
THEOREM Invariant == Spec => []IInv
<1> QED
  BY InitInv, StepInv, PTL DEF Spec

\* Types; a listener that has its body in full is gone, and one that awaits
\* the body of a known reply waits for no more than that has, whatever chunks
\* the replies arrive in.  One that misread a length may await any.
THEOREM TypeCorrect == Spec => []TypeOK
<1>1. IInv => TypeOK
  BY DEF IInv
<1> QED
  BY <1>1, Invariant, PTL

\* However many commands wait, and whatever chunks the replies arrive in, no
\* command is answered with the reply to a later one.
THEOREM AnswersNotAhead == Spec => []NeverAhead
<1>1. IInv => NeverAhead
  BY DEF IInv
<1> QED
  BY <1>1, Invariant, PTL

\* Commands that have the socket to themselves, like all before them, get
\* their own replies, also when the page stopped waiting for one.
THEOREM AloneAnswersMatch == Spec => []MatchedAlone
<1>1. IInv => MatchedAlone
  BY DEF IInv
<1> QED
  BY <1>1, Invariant, PTL
=============================================================================
