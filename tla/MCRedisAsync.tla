----------------------------- MODULE MCRedisAsync -----------------------------
EXTENDS RedisAsync

(* The channels share a slot in a table of any size, so that one can stand    *)
(* for the other.                                                             *)
MCHash == [k \in Keys |-> IF k \in Channels THEN 1 ELSE 2]
Symmetry == Permutations(Channels)
===============================================================================
