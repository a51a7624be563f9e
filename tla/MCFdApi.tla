------------------------------ MODULE MCFdApi ------------------------------
(* Model values for the descriptor layer; sockets are interchangeable. *)
EXTENDS FdApi
Symmetry == Permutations(Handles)
=============================================================================
