--------------------------- MODULE MCClientServer ---------------------------
(* One client sends two messages, the other one.                           *)
EXTENDS ClientServer

MCMsgs == [c \in Clients |-> IF c = "c1" THEN 2 ELSE 1]
=============================================================================
