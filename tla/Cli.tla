-------------------------------- MODULE Cli --------------------------------
(***************************************************************************)
(* client_3.cpp: a prompt, a command, its reply, on one blocking socket.   *)
(* The clients share the server of server_4.cpp, here a step that takes a  *)
(* whole request off a stream, runs it and appends the reply: EventLoop is *)
(* shown to serve the requests of a connection once, in order.             *)
(*                                                                         *)
(* write_all and read_full return when all the bytes have moved, so a      *)
(* request and a header or a body are moved in one step.                   *)
(***************************************************************************)
EXTENDS Commands, Wire

CONSTANTS Client,
          Lines,     \* what a user may type: sequences of words
          Exit,      \* the word "exit"
          Verb,      \* the words that name a command, and the name they are
          Double,    \* the words that str2dbl accepts, and the number
          Integer,   \* those that str2int accepts
          Stores,    \* contents of the store when the clients start
          MaxTyped   \* commands typed, by all clients

\* Keys, values and names are bytes, and a score has the bytes of a double.
ScoresOK(mem) ==
  /\ IsFiniteSet(DOMAIN mem)
  /\ \A name \in DOMAIN mem : name \in Seq(0 .. 255) /\ mem[name] \in DOMAIN DblBytes

EntryOK(entry) ==
  \/ entry.type = "str"  /\ entry.value \in Seq(0 .. 255)
  \/ entry.type = "zset" /\ ScoresOK(entry.value)

StoreOK(store) ==
  /\ IsFiniteSet(DOMAIN store)
  /\ \A key \in DOMAIN store : key \in Seq(0 .. 255) /\ EntryOK(store[key])

ASSUME CliAssumption ==
  /\ (DOMAIN Double \union DOMAIN Integer) \cap DOMAIN Verb = {} /\ Exit \notin DOMAIN Verb
  /\ \A words \in Lines : words \in Seq(Seq(0 .. 255))
  /\ \A word \in DOMAIN Double : Double[word] \in DOMAIN DblBytes
  /\ \A word \in DOMAIN Integer : Integer[word] \in Int
  /\ \A store \in Stores : StoreOK(store)
  /\ MaxTyped \in Nat

VARIABLES db,
          toServer, toClient,  \* the bytes of each connection
          pc,        \* "prompt", "header", "body", "closed", "crashed"
          need,      \* the length a client read in a header
          owed,      \* the server's reply to each client's latest command
          shown,     \* what each client displayed last
          unsent,    \* clients with a command that send_req refused
          lost,      \* clients that left a reply in the stream, "too long"
          typed

vars == <<db, toServer, toClient, pc, need, owed, shown, unsent, lost, typed>>

Init ==
  /\ db \in Stores
  /\ toServer = [c \in Client |-> <<>>] /\ toClient = [c \in Client |-> <<>>]
  /\ pc = [c \in Client |-> "prompt"] /\ need = [c \in Client |-> 0]
  /\ owed = [c \in Client |-> Nil] /\ shown = [c \in Client |-> Nil]
  /\ unsent = {} /\ lost = {} /\ typed = 0

-----------------------------------------------------------------------------
(* The server. *)

Named(word) == IF word \in DOMAIN Verb THEN Verb[word] ELSE "no such command"

Parsed(number, word) == IF word \in DOMAIN number THEN number[word] ELSE NaN

\* The words that do_add and do_zquery give to str2dbl and to str2int.
IsDouble(name, i)  == <<name, i>> \in {<<"ZADD", 3>>, <<"ZQUERY", 3>>}
IsInteger(name, i) == <<name, i>> \in {<<"ZQUERY", 5>>, <<"ZQUERY", 6>>}

Command(words) == [i \in DOMAIN words |->
                     IF i = 1 THEN Named(words[1])
                     ELSE IF IsDouble(Named(words[1]), i) THEN Parsed(Double, words[i])
                     ELSE IF IsInteger(Named(words[1]), i) THEN Parsed(Integer, words[i])
                     ELSE words[i]]

Run(words) == DoRequest(db, Command(words))

\* A whole message is at the head of the stream.
Whole(data) == Len(data) >= 4 /\ Len(data) >= 4 + U32At(data, 0)

\* try_one_request.  Whether the body parsed is not looked at
\* (server_4.cpp:691).
Serve(c) ==
  LET len == U32At(toServer[c], 0)
      ran == Run(ParseRequest(Bytes(toServer[c], 4, len)).words)
  IN /\ Whole(toServer[c])
     /\ db' = ran.db
     /\ toServer' = [toServer EXCEPT ![c] = From(@, 4 + len)]
     /\ toClient' = [toClient EXCEPT ![c] = @ \o EndResponse(ran.reply)]
     /\ owed' = [owed EXCEPT ![c] = Capped(ran.reply)]
     /\ UNCHANGED <<pc, need, shown, unsent, lost, typed>>

-----------------------------------------------------------------------------
(* A client. *)

\* cmd[0] of a line that holds only spaces is read out of an empty vector.
Blank(c) ==
  /\ pc[c] = "prompt" /\ <<>> \in Lines
  /\ pc' = [pc EXCEPT ![c] = "crashed"]
  /\ UNCHANGED <<db, toServer, toClient, need, owed, shown, unsent, lost, typed>>

Quit(c) ==
  /\ pc[c] = "prompt" /\ <<Exit>> \in Lines
  /\ pc' = [pc EXCEPT ![c] = "closed"]
  /\ UNCHANGED <<db, toServer, toClient, need, owed, shown, unsent, lost, typed>>

\* Sent or not, main goes on to read a reply.
SendReq(c, words) ==
  /\ toServer' = [toServer EXCEPT ![c] = IF Fits(words) THEN @ \o Frame(Body(words)) ELSE @]
  /\ unsent' = IF Fits(words) THEN unsent ELSE unsent \union {c}

Type(c) ==
  /\ pc[c] = "prompt" /\ typed < MaxTyped
  /\ \E words \in Lines \ {<<>>, <<Exit>>} : SendReq(c, words)
  /\ pc' = [pc EXCEPT ![c] = "header"]
  /\ typed' = typed + 1
  /\ UNCHANGED <<db, toClient, need, owed, shown, lost>>

\* read_res reads the length, and gives up on a reply that is too long for
\* its buffer without reading it.
HeaderTooLongLate(len) == len > ServerMax

HeaderTooLong(len) == len > ClientMax

ReadHeader(c) ==
  LET len == U32At(toClient[c], 0)
  IN /\ pc[c] = "header" /\ Len(toClient[c]) >= 4
     /\ toClient' = [toClient EXCEPT ![c] = From(@, 4)]
     /\ need' = [need EXCEPT ![c] = len]
     /\ IF HeaderTooLong(len)
          THEN /\ pc' = [pc EXCEPT ![c] = "prompt"]
               /\ shown' = [shown EXCEPT ![c] = Bad]
               /\ lost' = lost \union {c}
          ELSE /\ pc' = [pc EXCEPT ![c] = "body"]
               /\ UNCHANGED <<shown, lost>>
     /\ UNCHANGED <<db, toServer, owed, unsent, typed>>

ReadBody(c) ==
  /\ pc[c] = "body" /\ Len(toClient[c]) >= need[c]
  /\ shown' = [shown EXCEPT ![c] = Printed(Bytes(toClient[c], 0, need[c]))]
  /\ toClient' = [toClient EXCEPT ![c] = From(@, need[c])]
  /\ pc' = [pc EXCEPT ![c] = "prompt"]
  /\ UNCHANGED <<db, toServer, need, owed, unsent, lost, typed>>

Next == \E c \in Client : Serve(c) \/ Blank(c) \/ Quit(c) \/ Type(c)
                          \/ ReadHeader(c) \/ ReadBody(c)

Spec == Init /\ [][Next]_vars

-----------------------------------------------------------------------------
(* Correctness. *)

\* Types; a client in a body has room for it.
TypeOK ==
  /\ \A c \in Client : toServer[c] \in Seq(0 .. 255) /\ toClient[c] \in Seq(0 .. 255)
  /\ pc \in [Client -> {"prompt", "header", "body", "closed", "crashed"}]
  /\ need \in [Client -> Nat]
  /\ \A c \in Client : pc[c] = "body" => need[c] <= ClientMax
  /\ unsent \subseteq Client /\ lost \subseteq Client /\ typed \in 0 .. MaxTyped

\* At the prompt, what was displayed is the server's reply to the latest
\* command, and nothing is left in either stream, so that the next header
\* read is that of the next reply (read_res, client_3.cpp:175).  A command
\* that was not sent and a reply that was not read both end this for good.
InStep ==
  \A c \in Client \ (unsent \union lost) :
    pc[c] = "prompt" =>
      /\ toServer[c] = <<>> /\ toClient[c] = <<>>
      /\ shown[c] = Seen(owed[c])

\* A reply whose length fits 32 bits, as that of one the server sends does,
\* is for both decoders what it is, as far as a page can show it.
ReadBack(reply) ==
  LET body == Out(reply)
  IN Len(body) \div 65536 < 65536 =>
       Printed(body) = Seen(reply) /\ ParseResponse(body)[0] = OnPage(Seen(reply))

\* Whatever bytes the store holds, the reply to any command is read back by
\* the command-line client (print_response) as what was written, and by the
\* bridge (parseResponse), which walks an array with sizes of its own, with
\* every string that is UTF-8 and every number as they were; a string that is
\* not UTF-8 is replaced and disturbs nothing else.  So is the error read back
\* that end_response puts in place of a reply over the limit.
RepliesReadBack ==
  \A words \in Lines \ {<<>>} :
    \A reply \in {Run(words).reply} :
      ReadBack(reply) /\ (Len(Out(reply)) > ServerMax => ReadBack(Capped(reply)))

\* The server takes from a connection the words that were typed, and finds
\* neither a cut nor a longer body to be a request (parse_request).
RequestsReadBack ==
  \A c \in Client :
    Whole(toServer[c]) =>
      LET body == Bytes(toServer[c], 4, U32At(toServer[c], 0))
      IN /\ ParseRequest(body).ok /\ ParseRequest(body).words \in Lines
         /\ Body(ParseRequest(body).words) = body
         /\ \A n \in 0 .. Len(body) - 1 : ~ParseRequest(Bytes(body, 0, n)).ok
         /\ \A b \in {0, 97} : ~ParseRequest(Append(body, b)).ok

\* A client that waits has a command with the server or the bytes it waits
\* for in its stream, so that its prompt comes back, unless a command of its
\* own was never sent (send_req, client_3.cpp:60) or a reply was left there:
\* another client's failure never holds it up.
NoWaitInVain ==
  \A c \in Client \ (unsent \union lost) :
    /\ pc[c] = "header" => Whole(toServer[c]) \/ Len(toClient[c]) >= 4
    /\ pc[c] = "body"   => Len(toClient[c]) >= need[c]
=============================================================================
