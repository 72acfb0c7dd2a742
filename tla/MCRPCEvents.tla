---------------------------- MODULE MCRPCEvents ----------------------------
(* Two clients: the first makes two requests, the second one, enough for   *)
(* two feeds of one kind of which one is removed.                          *)
EXTENDS RPCEvents

CONSTANTS c1, c2

MCRequests == [c \in Clients |-> IF c = c1 THEN 2 ELSE 1]
=============================================================================
