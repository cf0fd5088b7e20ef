-------------------------------- MODULE Wire --------------------------------
(***************************************************************************)
(* The bytes of the protocol: the request that client_3.cpp and bridge.js  *)
(* build and parse_request of server_4.cpp reads, and the tag-length-value *)
(* reply that server_4.cpp writes and its two clients decode.              *)
(*                                                                         *)
(* A byte is a number below 256, a string a sequence of bytes.  Replies    *)
(* are those of Commands: [tag |-> ..., val |-> ...].  The text of an      *)
(* error is one byte.                                                      *)
(***************************************************************************)
EXTENDS Integers, Sequences, FiniteSets

CONSTANTS DblBytes,  \* DblBytes[s]: the eight bytes of the double s
          k_max_args,
          ClientMax, \* k_max_msg of the clients, 4096
          ServerMax  \* k_max_msg of the server, 32 MiB

\* A length fits 32 bits, and a word takes four bytes of a request at least.
ASSUME LimitsAssumption ==
  /\ ClientMax \in Nat /\ ServerMax \in Nat /\ k_max_args \in Nat
  /\ ClientMax <= ServerMax /\ ServerMax \div 65536 < 65536
  /\ ClientMax <= 4 * k_max_args

ASSUME DblAssumption ==
  /\ DOMAIN DblBytes \subseteq Int
  /\ \A s \in DOMAIN DblBytes : DblBytes[s] \in [1 .. 8 -> 0 .. 255]
  /\ \A s, t \in DOMAIN DblBytes : DblBytes[s] = DblBytes[t] => s = t

Bad == [tag |-> "bad"]   \* "bad response"

-----------------------------------------------------------------------------
(* Numbers, little-endian. *)

U32(n) == <<n % 256, (n \div 256) % 256, (n \div 65536) % 256, (n \div 16777216) % 256>>

\* No command answers a negative number.
I64(n) == U32(n) \o <<0, 0, 0, 0>>

\* The four bytes after the first pos of data.
U32At(data, pos) ==
  data[pos + 1] + 256 * data[pos + 2] + 65536 * data[pos + 3] + 16777216 * data[pos + 4]

Bytes(data, pos, n) == SubSeq(data, pos + 1, pos + n)

From(data, pos) == SubSeq(data, pos + 1, Len(data))

\* A string after its length.
Counted(s) == U32(Len(s)) \o s

\* upto[k]: the first k strings of parts, one after the other.
Upto(parts) ==
  LET upto[k \in 0 .. Len(parts)] == IF k = 0 THEN <<>> ELSE upto[k - 1] \o parts[k]
  IN upto

Joined(parts) == Upto(parts)[Len(parts)]

\* The positions in data, and one for all those past its end.
Past(data)        == Len(data) + 1
Positions(data)   == 0 .. Past(data)
Within(data, pos) == IF pos <= Len(data) THEN pos ELSE Past(data)

\* walk[k]: k steps of next away from start.
Walk(next, start, n) ==
  LET walk[k \in 0 .. n] == IF k = 0 THEN start ELSE next[walk[k - 1]]
  IN walk

-----------------------------------------------------------------------------
(* Requests. *)

Body(words) == U32(Len(words)) \o Joined([i \in DOMAIN words |-> Counted(words[i])])

\* send_req and the first half of the bridge's sendCommand: a command whose
\* body is over 4096 bytes is not sent.
Fits(words) == Len(Body(words)) <= ClientMax

FrameCountsHeader(body) == U32(4 + Len(body)) \o body

Frame(body) == U32(Len(body)) \o body

\* data != end
InsideBody(at, size) == at <= size

WholeBody(at, size) == at = size

\* Where the word that starts at a position ends.
WordEnds(data) ==
  [at \in Positions(data) |->
     IF at + 4 > Len(data) THEN Past(data) ELSE Within(data, at + 4 + U32At(data, at))]

\* parse_request: the words read, and whether the body was exactly those.
\* end[k] is where the k-th word ends.  A word whose length is there but
\* whose bytes are not is read as the empty string before the refusal.
ParseRequest(data) ==
  LET n    == IF Len(data) < 4 THEN 0 ELSE U32At(data, 0)
      end  == Walk(WordEnds(data), 4, n)
      read == Cardinality({k \in 1 .. n : end[k] <= Len(data)})
      cut  == read < n /\ end[read] + 4 <= Len(data)
      word(k) == Bytes(data, end[k - 1] + 4, U32At(data, end[k - 1]))
  IN IF n > k_max_args THEN [ok |-> FALSE, words |-> <<>>]
     ELSE [ok    |-> Len(data) >= 4 /\ WholeBody(end[n], Len(data)),
           words |-> [k \in 1 .. read |-> word(k)] \o IF cut THEN << <<>> >> ELSE <<>>]

-----------------------------------------------------------------------------
(* Replies: what do_request and its handlers append to outgoing. *)

Code(err) == CASE err = "UNKNOWN"      -> 1
               [] err = "TOO_BIG"      -> 2
               [] err = "BAD_ARGUMENT" -> 3
               [] err = "BAD_TYPE"     -> 4
               [] err = "NOT_FOUND"    -> 5

Text == <<63>>

OutErr(err) == <<1>> \o U32(Code(err)) \o Counted(Text)

OutScalar(reply) ==
  CASE reply.tag = "nil" -> <<0>>
    [] reply.tag = "err" -> OutErr(reply.val)
    [] reply.tag = "str" -> <<2>> \o Counted(reply.val)
    [] reply.tag = "int" -> <<3>> \o I64(reply.val)
    [] reply.tag = "dbl" -> <<4>> \o DblBytes[reply.val]

OutPairs(items) == <<5>> \o U32(Len(items) \div 2) \o
                   Joined([i \in DOMAIN items |-> OutScalar(items[i])])

\* out_arr, or the header arr_res_end fills in: the number of elements.
OutArr(items) == <<5>> \o U32(Len(items)) \o
                 Joined([i \in DOMAIN items |-> OutScalar(items[i])])

Out(reply) == IF reply.tag = "arr" THEN OutArr(reply.val) ELSE OutScalar(reply)

\* end_response: a reply over the server's limit becomes an error, though
\* the command has run.
Capped(reply) == LET body == Out(reply)
                 IN IF Len(body) > ServerMax THEN [tag |-> "err", val |-> "TOO_BIG"]
                                             ELSE reply

EndResponse(reply) == Frame(Out(Capped(reply)))

-----------------------------------------------------------------------------
(* print_response of client_3.cpp: the value at a position of data, as      *)
(* printf is given it, and where it ends.  A value that is not all there    *)
(* and an unknown tag are a bad response.  (A length is added to the size   *)
(* of its header in 32 bits, which wraps for one within 9 of 2^32, more     *)
(* than any body holds; here it does not.)                                  *)

Decoded(val, end) == [val |-> val, end |-> end]
NotDecoded(data)  == Decoded(Bad, Past(data))

\* At pos, the tag and the n bytes that start with it.
Tagged(data, pos, tag, n) == pos + n <= Len(data) /\ data[pos + 1] = tag

Scalar(data, pos) ==
  CASE Tagged(data, pos, 0, 1) -> Decoded([tag |-> "nil"], pos + 1)
    [] Tagged(data, pos, 1, 9) /\ pos + 9 + U32At(data, pos + 5) <= Len(data)
         -> Decoded([tag |-> "err", val |-> U32At(data, pos + 1)],
                    pos + 9 + U32At(data, pos + 5))
    [] Tagged(data, pos, 2, 5) /\ pos + 5 + U32At(data, pos + 1) <= Len(data)
         -> Decoded([tag |-> "str", val |-> Bytes(data, pos + 5, U32At(data, pos + 1))],
                    pos + 5 + U32At(data, pos + 1))
    [] Tagged(data, pos, 3, 9) -> Decoded([tag |-> "int", val |-> Bytes(data, pos + 1, 8)],
                                          pos + 9)
    [] Tagged(data, pos, 4, 9) -> Decoded([tag |-> "dbl", val |-> Bytes(data, pos + 1, 8)],
                                          pos + 9)
    [] OTHER -> NotDecoded(data)

\* The items of an array whose header is at pos, one bad item being enough.
PrintArr(data, below, pos) ==
  LET n  == U32At(data, pos + 1)
      at == Walk([p \in Positions(data) |-> below[p].end], pos + 5, n)
  IN IF \E i \in 1 .. n : below[at[i - 1]].val = Bad THEN NotDecoded(data)
     ELSE Decoded([tag |-> "arr", val |-> [i \in 1 .. n |-> below[at[i - 1]].val]], at[n])

\* value[d]: what is at each position when arrays nest less than d deep.
\* print_response calls itself for the items of an array, deeper by at least
\* a byte.
PrintResponse(data) ==
  LET value[d \in 0 .. Len(data)] ==
        [pos \in Positions(data) |->
           IF d = 0 THEN NotDecoded(data)
           ELSE IF Tagged(data, pos, 5, 5) THEN PrintArr(data, value[d - 1], pos)
           ELSE Scalar(data, pos)]
  IN value[Len(data)]

\* read_res: also a bad response when the value is not the whole body.
Printed(body) == LET r == PrintResponse(body)[0]
                 IN IF r.end = Len(body) THEN r.val ELSE Bad

-----------------------------------------------------------------------------
(* The bridge's own decoder.  getResponseSize, as the position where the     *)
(* value ends.  It is asked about values that parseResponse has accepted: a  *)
(* size that it does not know (0) and one that goes past the data are here   *)
(* the same.                                                                 *)

StrEndHeader(data, pos) == pos + 5

StrEnd(data, pos) == pos + 5 + U32At(data, pos + 1)

ScalarEnd(data, pos) ==
  CASE Tagged(data, pos, 0, 1) -> pos + 1
    [] Tagged(data, pos, 1, 9) -> pos + 9 + U32At(data, pos + 5)
    [] Tagged(data, pos, 2, 5) -> StrEnd(data, pos)
    [] Tagged(data, pos, 3, 1) \/ Tagged(data, pos, 4, 1) -> pos + 9
    [] OTHER -> Past(data)

GetResponseEnds(data) ==
  LET ends[d \in 0 .. Len(data)] ==
        [pos \in Positions(data) |->
           IF d = 0 THEN Past(data)
           ELSE IF Tagged(data, pos, 5, 5)
                  THEN Walk(ends[d - 1], pos + 5, U32At(data, pos + 1))[U32At(data, pos + 1)]
           ELSE Within(data, ScalarEnd(data, pos))]
  IN ends[Len(data)]

\* parseResponse refuses a scalar as print_response does; the next item is
\* where getResponseSize says.
ParseArr(data, below, pos) ==
  LET n  == U32At(data, pos + 1)
      at == Walk(GetResponseEnds(data), pos + 5, n)
  IN IF \E i \in 1 .. n : below[at[i - 1]] = Bad THEN Bad
     ELSE [tag |-> "arr", val |-> [i \in 1 .. n |-> below[at[i - 1]]]]

\* UTF-8: every byte starts a character whose other bytes follow it, or is one
\* of those.  No character is longer than it must be, a surrogate, or past
\* the last one.
Follows(b) == b \in 128 .. 191

Size(b) == CASE b \in 0 .. 127   -> 1
             [] b \in 194 .. 223 -> 2
             [] b \in 224 .. 239 -> 3
             [] b \in 240 .. 244 -> 4
             [] OTHER            -> 0

MayFollow(b, c) == CASE b = 224 -> c >= 160
                     [] b = 237 -> c < 160
                     [] b = 240 -> c >= 144
                     [] b = 244 -> c < 144
                     [] OTHER   -> TRUE

Utf8(s) ==
  \A i \in DOMAIN s :
    IF Follows(s[i])
      THEN \E k \in 1 .. 3 : /\ i - k >= 1 /\ Size(s[i - k]) > k
                            /\ \A j \in 1 .. k - 1 : Follows(s[i - j])
      ELSE /\ Size(s[i]) > 0 /\ i + Size(s[i]) - 1 <= Len(s)
           /\ \A k \in 1 .. Size(s[i]) - 1 : Follows(s[i + k])
           /\ Size(s[i]) > 1 => MayFollow(s[i], s[i + 1])

\* toString('utf8') puts U+FFFD for the bytes that are no UTF-8: which they
\* were is lost, and so are here the others of the same string.
Replaced == <<65533>>

Utf8String(s) == IF Utf8(s) THEN s ELSE Replaced

\* Number(readBigInt64LE()) keeps 53 bits.  A negative number, which no
\* command answers, is not followed.
Rounded == <<9007, 199254, 740992>>

ToNumber(b) == IF b[7] < 32 /\ b[8] = 0 THEN b ELSE Rounded

\* The value JavaScript has for one read.
InPage(val) == CASE val.tag = "str" -> [tag |-> "str", val |-> Utf8String(val.val)]
                 [] val.tag = "int" -> [tag |-> "int", val |-> ToNumber(val.val)]
                 [] OTHER           -> val

ParseResponse(data) ==
  LET value[d \in 0 .. Len(data)] ==
        [pos \in Positions(data) |->
           IF d = 0 THEN Bad
           ELSE IF Tagged(data, pos, 5, 5) THEN ParseArr(data, value[d - 1], pos)
           ELSE InPage(Scalar(data, pos).val)]
  IN value[Len(data)]

-----------------------------------------------------------------------------
(* What a decoder should show for a reply. *)

SeenScalar(reply) ==
  CASE reply.tag = "nil" -> reply
    [] reply.tag = "err" -> [reply EXCEPT !.val = Code(@)]
    [] reply.tag = "str" -> reply
    [] reply.tag = "int" -> [reply EXCEPT !.val = I64(@)]
    [] reply.tag = "dbl" -> [reply EXCEPT !.val = DblBytes[@]]

Seen(reply) ==
  IF reply.tag = "arr"
    THEN [tag |-> "arr", val |-> [i \in DOMAIN reply.val |-> SeenScalar(reply.val[i])]]
    ELSE SeenScalar(reply)

\* What a page can show of a value: a string that is no UTF-8 has lost bytes.
Shown(val) == IF val.tag = "str" THEN [val EXCEPT !.val = Utf8String(@)] ELSE val

OnPage(seen) ==
  IF seen.tag = "arr"
    THEN [tag |-> "arr", val |-> [i \in DOMAIN seen.val |-> Shown(seen.val[i])]]
    ELSE Shown(seen)
=============================================================================
