----------------------------- MODULE MCEventLoop ----------------------------
(* A socket holds two whole frames for the server and one reply for the     *)
(* client, so frames arrive cut or several at once, and replies are written *)
(* in parts.                                                                *)
EXTENDS EventLoop

CONSTANTS a, b, idle

\* One client more than there are descriptors: pipelined requests that end
\* with an over-long frame, a client with one request, one that only connects.
MCThree == {a, b, idle}

MCPipelined == [c \in MCThree |-> CASE c = a    -> <<"ok", "bad", "long">>
                                    [] c = b    -> <<"ok">>
                                    [] c = idle -> <<>>]

MCTwo == {a, b}

\* Requests only.
MCRequests == [c \in MCTwo |-> IF c = a THEN <<"ok", "ok">> ELSE <<"ok">>]
=============================================================================
